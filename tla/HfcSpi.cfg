SPECIFICATION SpiSpec
CONSTANTS
    Outputs = {3, 6, 7, 21}
    Commands = {{}, {6}}
INVARIANTS OutputsKnown SampledAsAsked PanelHears
