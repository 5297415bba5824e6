CONSTANTS
    Job = j
    Jobs = {j}
    Workers = {w1}
    Schedulers = {}
    Clis = {c}
    Executors = {w1, c}
    OperatorActs = {}
    RunIds = {1, 2, 3}
    NoJob = NoJob
    NoRun = NoRun
    MaxFaults = 2
    MaxCuts = 2
    Interval = 0
    Poll = 0
    StaleAfter = 1
    Priority <- MCPriority
SPECIFICATION RunsFairSpec
INVARIANTS ApartUnlessTaken RestingIsFiled EveryEndRecorded CompletesOwnRow OpenRowsAccountedFor
PROPERTIES HistoryImmutable MarkedRunEnds
CONSTRAINT MCBound
