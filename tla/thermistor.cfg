SPECIFICATION FairSpec
CONSTANTS
    TemperatureTableSize = 5
    IndexRange = 8
    EntryRange = 8
    Codes = 6
    Curve <- MCCurve
    NumberStep = {0, 1, 2, 5, 6}
    StepTemperature = {1, 3}
    StartTemperature <- MCStart
    Sample <- MCSignedSample
INVARIANTS ReadsInside OnTheCurve FallsWithCode
PROPERTIES Terminates
