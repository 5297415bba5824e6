CONSTANTS
    j1 = j1
    j2 = j2
    NoJob = NoJob
    Jobs = {j1}
    Workers = {w1, w2}
    Schedulers = {sch}
    Clis = {c1}
    OperatorActs = {"pause", "resume", "enable", "sync"}
    MaxFaults = 2
    Interval = 2
    Poll = 1
    StaleAfter = 1
    Priority <- MCPriority
SPECIFICATION Spec
SYMMETRY ProcSymmetry
INVARIANTS TypeOK IsolationUnlessStolen
PROPERTIES ParkedUntilOperator ImplementsLease
