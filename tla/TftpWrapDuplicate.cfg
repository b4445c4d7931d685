SPECIFICATION Spec
CONSTANTS
    SEQUENCE_SIZE = 3
    BLOCK_SIZE = 1
    TIMEOUT_COUNT = 1
    ARP_TIMEOUT_COUNT = 5
    RetryForever = FALSE
    RetryCnt = 0
    EthRotate = FALSE
    TftpTicks = 1
    MaxAttempts = 1
    FileLen = 4
    BlkSizeOption = 2
    Servers = {1}
    Lifetime = 2
    Duplicates = TRUE
    Errors = {}
INVARIANT
    StoredInPlace
CHECK_DEADLOCK FALSE
