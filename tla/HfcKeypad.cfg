SPECIFICATION KeypadFairSpec
CONSTANTS
    Cells = {1, 2, 3}
    PowerCells = {1}
    MenuCells = {1, 2}
    LONG_KEY_COUNTER = 10
    MaxKeyed = 4
    Presses = {{}, {1}, {2}, {1, 2}, {3}, {1, 3}}
INVARIANTS LongPressTakesTime MenuWasSeen
PROPERTY HeldMenuRecovers
