CONSTANTS
    c1 = c1
    c2 = c2
    c3 = c3
    async = async
    sync = sync
    busy = busy
    None = None
    Callers = {c1, c2}
    Ops = {async, sync}
    SyncOps <- MCSyncOps
    ExclusiveOps <- MCExclusiveOps
    CustomCapabilities = {"HandleCustomCapability"}
    Statuses = {busy}
    QueueCap = 1
    MaxExecs = 2
    Workers = 3
    BudgetLasts = TRUE
SPECIFICATION Spec
SYMMETRY CallerSymmetry
INVARIANTS
    TypeOK
    NoParallelExclusive
    RunningIsListed
    TruthfulResult
    WaiterHasAnswerer
PROPERTIES
    ResultIsFinal
    Implements
CHECK_DEADLOCK FALSE
