CONSTANTS
    a = a
    b = b
    t = t
    async = async
    sync = sync
    busy = busy
    None = None
    Loop = Loop
    Clients = {a, b}
    Threads = {}
    MailboxCap = 1
    Asked = {"Execute", "Stop", "HandleCustomCapability", "ReportStatus", "GetResult", "Remove", "ListOperations", "Other"}
    Ops = {async, sync}
    SyncOps <- MCSyncOps
    ExclusiveOps <- MCExclusiveOps
    CustomCapabilities = {"HandleCustomCapability"}
    Statuses = {busy}
    QueueCap = 1
    MaxExecs = 1
    Workers = 2
    BudgetLasts = FALSE
SPECIFICATION Spec
SYMMETRY ClientSymmetry
INVARIANTS
    TypeOK
    LoopIsConsistent
    WaitingIsOwed
    ResultWasAskedFor
    PanicHasCause
CHECK_DEADLOCK FALSE
