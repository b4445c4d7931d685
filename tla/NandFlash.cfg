SPECIFICATION FlashSpec
CONSTANTS
    NUM_BLOCKS = 8
    NAND_BBT_START_BLK = 4
    NAND_BBT_BLK_SIZE = 3
    VERSIONS = 8
    FactorySets = {{}, {2, 5}, {5, 6}}
    Markable = {2, 3, 4, 7}
    MaxFails = 2
    U_BOOT_BLK = 1
    U_BOOT_BLKS = 2
INVARIANTS FlashTypeOK MarksSurvive RamKnowsFlash PowerCutsSpareATable Mirrored ImageBoots
PROPERTY TablesProtected
