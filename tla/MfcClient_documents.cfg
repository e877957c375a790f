SPECIFICATION Spec
CONSTANTS
    f1 = f1
    f2 = f2
    f3 = f3
    text = text
    Files <- MCFiles
    Texts <- MCTexts
    None = None
    Absent = Absent
    Empty = Empty
    Debug = TRUE
INVARIANTS WholeOrGone ViewHasDocument OnlyDdeCrashes
PROPERTY WritesOnlyNamed
