SPECIFICATION LoopFairSpec
CONSTANTS
    Internal = {gpt1, gpt2, cspi}
    Gpio = {}
    Beyond = {}
    Gpt1 = gpt1
    Gpt2 = gpt2
    Cspi = cspi
    Drivers = {mxc_spi_isr}
    mxc_spi_isr = mxc_spi_isr
    NULL = NULL
    TICK = 1
    Cells = {1, 2, 3}
    PowerCells = {3}
    MenuCells = {1, 2}
    LONG_KEY_COUNTER = 4
    MaxKeyed = 2
    Presses = {{}, {3}, {1, 2}}
    BATTERY_LOOPS = 1
    SYS_LOOPS = 1
    Console = TRUE
    MaxCredit = 1
INVARIANTS LoopTypeOK ServedTicksHappened MeasuredAfterInit
PROPERTIES BatteryServed HeldMenuLeavesLoop
