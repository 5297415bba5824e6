CONSTANTS
    j1 = j1
    j2 = j2
    NoJob = NoJob
    Jobs = {j1, j2}
    Workers = {w1}
    Schedulers = {sch}
    Clis = {}
    OperatorActs = {}
    MaxFaults = 1
    Interval = 2
    Poll = 1
    StaleAfter = 1
    Priority <- MCPriority
SPECIFICATION FairSpec
PROPERTIES OrphanRecovered DueIsAdmitted
