CONSTANTS
    sync = sync
    async = async
    routine = routine
    None = None
    Loop = Loop
    Test = Test
    Clients = {Test}
    Threads = {}
    Asked = {"Execute", "Stop", "HandleCustomCapability", "HandleOtherCapability", "ReportStatus", "GetResult", "Remove", "ListOperations", "Other"}
    MailboxCap = 10
    QueueCap = 10
    Ops = {sync, async, routine}
    SyncOp = sync
    AsyncOp = async
    RoutineOp = routine
    SyncOps = {sync}
    ExclusiveOps = {}
    CustomCapabilities = {"HandleCustomCapability", "HandleOtherCapability"}
    Statuses = {"Scheduled", "Running", "Stopped", "HandleCustomCapability", "HandleOtherCapability"}
    MaxExecs = 2
    Workers = 1
    BudgetLasts = TRUE
    MaxAsked = 4
SPECIFICATION ExampleSpec
INVARIANTS
    ExampleTypeOK
    TestsPass
    OutcomeHasCause
PROPERTIES
    TestsFinish
    StopEndsExecution
    AdapterIsUsed
    OperationsCooperate
CHECK_DEADLOCK FALSE
