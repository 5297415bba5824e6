CONSTANTS
    a = a
    b = b
    c = c
    NoUrl = NoUrl
    Urls = {a, b}
    Poison = {}
    Shells = {s1}
    MaxAttempts = 2
    MaxPages = 2
    MaxBackoff = 1
    MaxFaults = 2
    Priority <- MCPriority
    Domain <- MCDomain
SPECIFICATION FairSpec
INVARIANTS TypeOK InHandIsFetching GivenUpAtLimit
PROPERTIES CompletedMeansSettled EveryUrlSettled
