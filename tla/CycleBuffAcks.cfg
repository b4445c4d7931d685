SPECIFICATION SendSpec
CONSTANTS
    CBUFFLEN = 4
    LWORDMOD = 8
    WORDMOD = 8
    Bytes = {0, 1}
    ZeroByte = 0
    MaxArg = 3
INVARIANT
    TrylenIsUnacked
