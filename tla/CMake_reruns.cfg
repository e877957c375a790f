SPECIFICATION Spec
CONSTANTS
    default = default
    other = other
    Roots <- MCRoots
    DefaultRoot = default
    Unset = Unset
    Windows = TRUE
    Msvc = TRUE
    SourceTree <- CompleteTree
INVARIANTS RerunIsSame InstalledIsFound OneInstallationUnlessMoved
