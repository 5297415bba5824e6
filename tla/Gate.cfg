CONSTANTS
    w1 = w1
    w2 = w2
    d1 = d1
    NoDomain = NoDomain
    Domains = {d1}
    Workers = {w1, w2}
    RateLimit <- MCRateLimit
    MaxPages <- MCMaxPages
    Budget <- MCBudget
    SecondTicks = 2
    Far = 3
    Queues <- MCQueues
    Responses <- MCResponses
SPECIFICATION Spec
INVARIANTS TypeOK SpacingKept RetryAfterHonoured BudgetCovers
