SPECIFICATION FlashSpec
CONSTANTS
    NUM_BLOCKS = 8
    NAND_BBT_START_BLK = 4
    NAND_BBT_BLK_SIZE = 3
    VERSIONS = 4
    FactorySets = {{}}
    Markable = {2, 3, 4}
    MaxFails = 0
    U_BOOT_BLK = 1
    U_BOOT_BLKS = 2
INVARIANT BadBlocksSkipped
