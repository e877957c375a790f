SPECIFICATION ErrorSpec
CONSTANTS
    a = a
    b = b
    Zero = Zero
    Bytes <- MCBytes
    Texts <- MCTexts
    MaxThrows = 3
INVARIANT ToldInFull
