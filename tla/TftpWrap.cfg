SPECIFICATION Spec
CONSTANTS
    SEQUENCE_SIZE = 3
    BLOCK_SIZE = 1
    TIMEOUT_COUNT = 1
    ARP_TIMEOUT_COUNT = 5
    RetryForever = TRUE
    RetryCnt = 0
    EthRotate = FALSE
    TftpTicks = 1
    MaxAttempts = 2
    FileLen = 8
    BlkSizeOption = 2
    Servers = {1, 2}
    Lifetime = 2
    Duplicates = FALSE
    Errors = {"UNDEFINED"}
INVARIANTS
    StoredInPlace
    ImageComplete
CHECK_DEADLOCK FALSE
