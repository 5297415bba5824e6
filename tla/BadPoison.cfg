CONSTANTS
    a = a
    b = b
    c = c
    NoUrl = NoUrl
    Urls = {a, b}
    Poison = {a}
    Shells = {}
    MaxAttempts = 2
    MaxPages = 2
    MaxBackoff = 0
    MaxFaults = 0
    Priority <- MCPriority
    Domain <- MCDomain
SPECIFICATION FairSpec
PROPERTY OthersNotBlocked
