CONSTANTS
    Window = 3
    MinRuns = 2
    LowShare = 2
    Required = 2
    NeedEmpty = TRUE
    NeedQuiet = TRUE
    MaxTotal = 2
    MaxFaults = 0
SPECIFICATION Spec
PROPERTY ErrorRateHeeded
