CONSTANTS
    a = a
    b = b
    t = t
    async = async
    sync = sync
    busy = busy
    None = None
    Loop = Loop
    Clients = {a, b}
    Threads = {t}
    MailboxCap = 1
    Asked = {"Execute", "ReportStatus"}
    Ops = {async, sync}
    SyncOps <- MCSyncOps
    ExclusiveOps <- MCExclusiveOps
    CustomCapabilities = {}
    Statuses = {busy}
    QueueCap = 1
    MaxExecs = 1
    Workers = 1
    BudgetLasts = TRUE
SPECIFICATION SharedSpec
PROPERTIES
    CallsEntity
    ShutdownEndsLoop
    RequestsEnd
CHECK_DEADLOCK FALSE
