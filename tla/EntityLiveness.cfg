CONSTANTS
    c1 = c1
    c2 = c2
    c3 = c3
    async = async
    sync = sync
    busy = busy
    None = None
    Callers = {c1, c2, c3}
    Ops = {async, sync}
    SyncOps <- MCSyncOps
    ExclusiveOps <- MCExclusiveOps
    CustomCapabilities = {}
    Statuses = {busy}
    QueueCap = 1
    MaxExecs = 2
    Workers = 2
    BudgetLasts = TRUE
SPECIFICATION WaitsSpec
PROPERTIES
    ControlReturns
    TimedExecutionEnds
CHECK_DEADLOCK FALSE
