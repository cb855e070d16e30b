SPECIFICATION FairSpec
CONSTANTS
    InitTime = {0, 1, 2, 3}
    Old = 24
INVARIANTS RegisteredFirst OnlyHangsExpire Fresh ZeroOnlyWithoutAdc
PROPERTIES MeasuredStays KeepsPublishing
