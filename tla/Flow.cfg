CONSTANTS
    a = a
    b = b
    NoUrl = NoUrl
    Urls = {a, b}
    Poison = {}
    Shells = {s1}
    MaxAttempts = 1
    MaxPages = 2
    MaxBackoff = 0
    MaxFaults = 1
    Seeds = {a}
    Findings <- MCFindings
    Found <- MCFound
    Limit = 2
    MaxRecords = 2
    Rulings = {"accepted"}
    Priority <- MCPriority
    Domain <- MCDomain
    Links <- MCLinks
SPECIFICATION FlowFairSpec
INVARIANTS FlowTypeOK DoneIsAccountedFor DecidedByItsPage PromotedBeforeFetch
PROPERTIES ImplementsQueue EveryCandidateQueued
