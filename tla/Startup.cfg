CONSTANTS
    Processes = {"scheduler", "worker", "admin"}
    Last = 2
    Statements <- MCStatements
    MaxCrashes = 2
SPECIFICATION FairSpec
INVARIANT OnWholeSchema
PROPERTY EveryProcessOpens
CHECK_DEADLOCK FALSE
