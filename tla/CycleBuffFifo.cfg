SPECIFICATION Spec
CONSTANTS
    CBUFFLEN = 4
    LWORDMOD = 8
    WORDMOD = 8
    Bytes = {0, 1}
    ZeroByte = 0
    MaxArg = 2
INVARIANTS
    TypeOK
    LengthsAgree
    CountersChase
PROPERTY ImplementsFifo

