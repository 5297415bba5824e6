CONSTANTS
    Window = 3
    MinRuns = 2
    LowShare = 2
    Required = 2
    NeedEmpty = TRUE
    NeedQuiet = TRUE
    MaxTotal = 3
    MaxFaults = 2
SPECIFICATION FairSpec
INVARIANT CompletionEarned
PROPERTY PhaseOneEnds
