SPECIFICATION FairSpec
CONSTANTS
    SEQUENCE_SIZE = 8
    BLOCK_SIZE = 1
    TIMEOUT_COUNT = 1
    ARP_TIMEOUT_COUNT = 5
    RetryForever = FALSE
    RetryCnt = 2
    EthRotate = TRUE
    TftpTicks = 1
    MaxAttempts = 2
    FileLen = 3
    BlkSizeOption = 2
    Servers = {1, 2}
    Lifetime = 8
    Duplicates = TRUE
    Errors = {"FILE_NOT_FOUND", "UNDEFINED"}
INVARIANTS
    TypeOK
    StoredInPlace
    ImageComplete
    ServerNotAhead
PROPERTY
    OutcomeFinal
    SilentLoopReturns
CHECK_DEADLOCK FALSE
