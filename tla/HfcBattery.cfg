SPECIFICATION BatterySpec
CONSTANTS
    Conversions <- MCConversions
    BAT_LOOPS = 5
    COUNTER = 120
INVARIANTS BatteryTypeOK VoltageWithinSamples BarsMatchVoltage
PROPERTY AnimationSteps
