------------------------------ MODULE DiagExample ------------------------------
(***************************************************************************)
(* The whole stack under the operations and the integration tests of       *)
(* score/mw/diag/example/example.rs: the runtime and the entity of         *)
(* DiagRuntime, the operations MySyncOperation and MyAsyncOperation, a UDS *)
(* routine behind RoutineControlAdapter and SimpleOperationAdapter, the    *)
(* tests and one client that asks for anything.                            *)
(*                                                                         *)
(* The tests run in a current-thread tokio runtime: one task is polled at  *)
(* a time, until it has to wait.  Spawned tasks queue up when they can go  *)
(* on; the future of the test itself is polled when none is queued.  A     *)
(* select! polls its branches in any order.                                *)
(***************************************************************************)
EXTENDS DiagRuntime, SequencesExt

CONSTANTS
    Test,           \* the one client: the future of the test
    SyncOp,         \* my_sync_op
    AsyncOp,        \* my_async_op
    RoutineOp,      \* my_uds_routine_op
    MaxAsked        \* bound of the model: requests of the client without a test

ASSUME ExampleAssumption ==
    /\ Clients = {Test}
    /\ Threads = {}
    /\ Test # Loop /\ Test \notin E!Ids /\ Loop \notin E!Ids
    /\ Asked = {"Execute", "GetResult", "Remove", "ListOperations", "Other"} \cup E!Requests
    /\ Ops = {SyncOp, AsyncOp, RoutineOp}
    /\ SyncOp # AsyncOp /\ SyncOp # RoutineOp /\ AsyncOp # RoutineOp
    /\ SyncOps = {SyncOp} /\ ExclusiveOps = {}
    /\ CustomCapabilities = {"HandleCustomCapability", "HandleOtherCapability"}
    /\ Statuses = {"Scheduled", "Running", "Stopped"} \cup CustomCapabilities
    /\ Workers = 1 /\ BudgetLasts
    /\ MaxExecs # 0
    /\ MaxAsked \in Nat

R == INSTANCE DataResources
U == INSTANCE UdsRoutine

VARIABLES
    script,         \* what the test has left to do; its head is under way
    budget,         \* how many requests the client without a test has left
    root,           \* the future of the test: where it is suspended, or how it ended
    current,        \* the task being polled, None in between
    branches,       \* the branches of its select! it has left in this poll
    runQueue,       \* the other tasks that can go on
    fresh,          \* executions spawned and not polled yet
    expired,        \* executions whose timer fired
    activeExecId,   \* data.active_exec_id of the adapter around the routine
    opStatus,       \* E!Ids -> exec_status of the control loop
    lastKind,       \* E!Ids -> last_exec_event_kind of the adapter
    notified,       \* E!Ids -> signals the user code has not yet taken
    report,         \* what became of the last status request to the routine
    detail,         \* what comes with the reply that is under way to the test
    stopped,        \* executions a confirmed Stop was for
    misled          \* executions a confirmed capability of unknown text was for

executorVars == <<current, branches, runQueue, fresh, expired>>
operationVars == <<activeExecId, opStatus, lastKind, notified, report>>
testVars == <<script, budget, root>>
exampleVars == <<vars, executorVars, operationVars, testVars, detail, stopped, misled>>

UnsupportedKinds == CustomCapabilities

\* The routine's executions as executions of SimpleOperationAdapter.
OfRoutine(i) == opOf[i] = RoutineOp
futureOf ==
    [i \in E!Ids |->
        IF OfRoutine(i)
        THEN IF task[i] = "running" THEN "pending"
             ELSE IF outcome[i] = "timeout" THEN "dropped" ELSE "done"
        ELSE IF i < nextId /\ opOf[i] = None THEN "refused" ELSE "none"]
resultOf == [i \in E!Ids |-> IF ~OfRoutine(i) \/ outcome[i] = "timeout" THEN None ELSE outcome[i]]
streamOf == [i \in E!Ids |-> OfRoutine(i)]
statusOf == [i \in E!Ids |-> IF OfRoutine(i) THEN opStatus[i] ELSE "Running"]

\* Only a status request comes with a reporter.
AsStream(events) ==
    [k \in DOMAIN events |->
        [kind |-> events[k].kind,
         from |-> IF events[k].kind = "ReportStatus" THEN Loop ELSE None]]
eventsOf == [i \in E!Ids |-> IF OfRoutine(i) THEN AsStream(queue[i]) ELSE <<>>]

A == INSTANCE SimpleOperationAdapter WITH
        Requesters <- {Loop},
        Unsupported <- UnsupportedKinds,
        poisoned <- FALSE,
        future <- futureOf,
        result <- resultOf,
        streamOpen <- streamOf,
        queue <- eventsOf,
        execStatus <- statusOf,
        failedStop <- [i \in E!Ids |-> FALSE],
        slot <- [r \in {Loop} |-> report]

-----------------------------------------------------------------------------
(* The operations *)

\* MyUdsRoutine, with what its future resolves to once it is signalled.
StartedRoutine == U!Start(None, U!StartRoutine(R!Ok("cafe"), "beef"))
StoppedRoutine == U!Stop(None, R!Ok("dead"))

\* What a future of the operation that ended that way resolved to.
Stopped(text) == R!Err(R!FromError(R!FromCode("ErrorResponse", text)))
ResultOf(op, how) ==
    CASE how = "err" -> Stopped("execution got stopped")
      [] how = "timeout" -> Stopped("execution got stopped due to timeout")
      [] how = "unavailable" -> R!Err(R!FromError(R!FromCode("SovdServerFailure", "execution result unavailable")))
      [] how = "ok" /\ op = RoutineOp -> StartedRoutine.value.future
      [] how = "ok" /\ op = SyncOp -> R!Ok(U!DiagnosticReply(R!FromString("synchronous")))
      [] how = "ok" /\ op = AsyncOp -> R!Ok(U!DiagnosticReply(R!FromString("asynchronous")))

-----------------------------------------------------------------------------
(* The tests *)

Yes(what) == [is |-> "Ok", what |-> what]
No == [is |-> "Err", what |-> None]

\* A request, the replies that are asserted (none at all: any will do), and
\* what the message itself does not say.
Asks(message_, expected) ==
    [do |-> "ask", message |-> message_, timeout |-> FALSE, query |-> None, expect |-> expected]

\* Every test executes one operation, and works on that execution.
Executes(op) == Asks([kind |-> "Execute", op |-> op], {Yes(None)})
ExecutesWithTimeout(op) == [Executes(op) EXCEPT !.timeout = TRUE]
AsksStatus(expected) == Asks([kind |-> "ReportStatus", exec |-> 1], expected)
AsksCapability == Asks([kind |-> "HandleCustomCapability", exec |-> 1], {Yes(None)})
Stops == Asks([kind |-> "Stop", exec |-> 1], {Yes(None)})
AsksResult(op, expected) == Asks([kind |-> "GetResult", exec |-> 1], {Yes(ResultOf(op, expected))})
Queries(query, expected) ==
    [Asks([kind |-> "Other"], {expected}) EXCEPT !.query = query]

Does(what) == [do |-> what]
Ends == <<Does("shutdown"), Does("join")>>

\* setup_runtime: the data resources of the entity.
MyDataResource == R!User("ready")
UdsDataResource == R!Adapter(TRUE, FALSE)
DataResourceOf == [my_data_resource |-> MyDataResource, uds_data_resource |-> UdsDataResource]

\* The reply to ListDataResources, as far as it is asserted: who is listed.
Listed == [resources |-> <<"my_data_resource", "uds_data_resource">>]

DataResourceRead ==
    <<Queries([ask |-> "list"], Yes(Listed)),
      Queries([ask |-> "read", id |-> "my_data_resource", encoding |-> "UTF8"], Yes(R!FromString("value")))>>

DataResourceUdsRdbi ==
    <<Queries([ask |-> "read", id |-> "uds_data_resource", encoding |-> "Binary"],
              Yes(R!FromByteVector("deadbeef"))),
      Does("write")>>

ExecutionOfSynchronousOperation == <<Executes(SyncOp), AsksResult(SyncOp, "ok")>>

ExecutionAndStopOfAsynchronousOperation ==
    <<Executes(AsyncOp), Stops, Does("yield"), AsksResult(AsyncOp, "err")>>

ExecutionTimeoutOfAsynchronousOperation ==
    <<ExecutesWithTimeout(AsyncOp), Does("sleep"), AsksResult(AsyncOp, "timeout")>>

\* "execution may have already finished" when the third status is asked for.
ExecutionAndQueryOfAsynchronousOperation ==
    <<Executes(AsyncOp),
      AsksStatus({Yes("Scheduled")}),
      AsksCapability,
      AsksStatus({Yes("HandleCustomCapability")}),
      AsksStatus({Yes("Running"), No}),
      Does("yield"),
      AsksResult(AsyncOp, "ok")>>

ExecutionAndQueryOfUdsRoutine ==
    <<Executes(RoutineOp),
      AsksStatus({Yes("Running")}),
      Stops,
      Does("yield"),
      AsksResult(RoutineOp, "ok")>>

Tests ==
    { DataResourceRead, DataResourceUdsRdbi, ExecutionOfSynchronousOperation,
      ExecutionAndStopOfAsynchronousOperation, ExecutionTimeoutOfAsynchronousOperation,
      ExecutionAndQueryOfAsynchronousOperation, ExecutionAndQueryOfUdsRoutine }

\* What a client without a test asks: anything about executions.
AnyRequest ==
    {[Asks(m, {}) EXCEPT !.timeout = withTimeout] :
        withTimeout \in BOOLEAN, m \in {n \in Messages : n.kind = "Execute"}}
    \cup {Asks(m, {}) : m \in {n \in Messages : n.kind \in E!Requests \cup {"GetResult", "Remove"}}}

ExampleInit ==
    /\ Init
    /\ \/ /\ script \in {<<Does("run")>> \o t \o Ends : t \in Tests}
          /\ budget = 0
       \/ /\ script = <<Does("run")>>
          /\ budget = MaxAsked
    /\ root = "ready"
    /\ current = None
    /\ branches = <<>>
    /\ runQueue = <<>>
    /\ fresh = {}
    /\ expired = {}
    /\ activeExecId = None
    /\ opStatus = [i \in E!Ids |-> "Running"]
    /\ lastKind = [i \in E!Ids |-> "Resume"]
    /\ notified = [i \in E!Ids |-> 0]
    /\ report = A!Idle
    /\ detail = None
    /\ stopped = {}
    /\ misled = {}

-----------------------------------------------------------------------------
(* The executor *)

\* A spawned task would get further if it were polled.
CanGoOn(t) ==
    IF t = Loop
    THEN /\ receiver = "loop"
         /\ \/ shutdownRequested
            \/ serving = None /\ mailbox # <<>>
            \/ pc[Loop] = "blocking"
            \/ pc[Loop] = "await" /\ slot[Loop] # None
            \/ pc[Loop] = "send" /\ (~rxOpen[cur[Loop]] \/ Len(queue[cur[Loop]]) < QueueCap)
    ELSE /\ task[t] = "running" /\ opOf[t] # SyncOp
         /\ t \in fresh \/ queue[t] # <<>> \/ notified[t] > 0 \/ t \in expired

\* Whoever can go on after a step is queued, once; a task that is being polled
\* is queued again when it suspends.
Wakes ==
    LET woken == {t \in {Loop} \cup E!Ids : CanGoOn(t)' /\ t # current' /\ t \notin ToSet(runQueue)}
    IN runQueue' \in {runQueue \o order : order \in SetToSeqs(woken)}

Suspends == current' = None

\* select! polls its branches in any order.  One select! of the operation's is
\* nested in the one of the timeout.
BranchOrders(i) ==
    LET own == {<<"user", "control">>, <<"control", "user">>} IN
    IF timed[i] THEN {<<"timer">> \o o : o \in own} \cup {o \o <<"timer">> : o \in own} ELSE own

PollNext ==
    /\ current = None /\ runQueue # <<>>
    /\ current' = Head(runQueue)
    /\ runQueue' = Tail(runQueue)
    /\ IF current' = Loop
       THEN UNCHANGED <<branches, fresh>>
       ELSE branches' \in BranchOrders(current') /\ fresh' = fresh \ {current'}
    /\ UNCHANGED <<vars, expired, operationVars, testVars, detail, stopped, misled>>

RootCanGoOn ==
    \/ root \in {"ready", "yields"}
    \/ root = "waits" /\ answer[Test] # Pending
    \/ root = "joins" /\ receiver = "gone"

\* A timer is set when the future is first polled.
Armed == {i \in E!Ids : timed[i] /\ task[i] = "running" /\ opOf[i] # SyncOp /\ i \notin fresh \cup expired}

\* With no task left to poll the executor looks after the timers, and then
\* polls the test if that can go on.  The test sleeps longer than any timeout.
Park ==
    /\ current = None /\ runQueue = <<>>
    /\ \E over \in SUBSET Armed :
        /\ \/ over # {} \/ RootCanGoOn
           \/ root = "sleeps" /\ over = Armed
        /\ expired' = expired \cup over
        /\ \/ RootCanGoOn /\ root' = "ready" /\ current' = Test
           \/ root = "sleeps" /\ over = Armed /\ root' = "ready" /\ current' = Test
           \/ ~RootCanGoOn /\ over # {} /\ UNCHANGED <<root, current>>
    /\ UNCHANGED <<vars, branches, fresh, operationVars, script, budget, detail, stopped, misled>>
    /\ Wakes

-----------------------------------------------------------------------------
(* The future of the test *)


Begins(what) == current = Test /\ script # <<>> /\ Head(script).do = what
GoesOn == script' = Tail(script) /\ UNCHANGED <<budget, root, current>>
AwaitsAs(how) == root' = how /\ Suspends /\ UNCHANGED <<vars, budget>>
Panic == root' = "panicked" /\ Suspends

\* tokio::spawn(runtime.run())
TestRuns == Begins("run") /\ Run /\ GoesOn

\* runtime.send(..).await, up to the oneshot.
TestSends ==
    /\ Begins("ask")
    /\ Send(Test, Head(script).message) \/ Deliver(Test)
    /\ UNCHANGED <<testVars, current>>

TestAwaitsReply ==
    /\ Begins("ask")
    /\ client[Test] = "waiting" /\ answer[Test] = Pending
    /\ AwaitsAs("waits") /\ UNCHANGED script

Heard ==
    CASE answer[Test].kind = "result" -> Yes(ResultOf(opOf[answer[Test].of], answer[Test].value))
      [] answer[Test].kind = "ok" -> Yes(detail)
      [] OTHER -> No

\* The reply is taken and compared with the one the test asserts.
TestTakesReply ==
    /\ Begins("ask")
    /\ TakeAnswer(Test)
    /\ IF Head(script).expect = {} \/ Heard \in Head(script).expect
       THEN GoesOn ELSE Panic /\ UNCHANGED <<script, budget>>

\* A write to a resource of the test's own, under no runtime.
TestWrites ==
    /\ Begins("write")
    /\ LET handle == R!Write(UdsDataResource, None, R!Ok("written")) IN
        IF /\ handle.is = "Ready" /\ handle.result.is = "Err"
           /\ handle.result.error.error.sovd_error = "precondition-not-fulfilled"
        THEN GoesOn
        ELSE Panic /\ UNCHANGED <<script, budget>>
    /\ UNCHANGED vars

\* tokio::task::yield_now().await and tokio::time::sleep(..).await
TestPauses ==
    /\ \/ Begins("yield") /\ AwaitsAs("yields")
       \/ Begins("sleep") /\ AwaitsAs("sleeps")
    /\ script' = Tail(script)

TestShutsDown == Begins("shutdown") /\ Shutdown /\ GoesOn

\* runtime_join_handle.await
TestJoins ==
    /\ Begins("join")
    /\ IF receiver = "gone"
       THEN GoesOn /\ UNCHANGED vars
       ELSE AwaitsAs("joins") /\ UNCHANGED script

\* The client without a test asks for whatever it likes, and shuts down.
ClientChooses ==
    /\ current = Test /\ script = <<>> /\ budget > 0
    /\ \/ /\ script' \in {<<r>> : r \in {q \in AnyRequest : q.message.kind = "Execute" => nextId <= MaxExecs}}
          /\ budget' = budget - 1
       \/ script' = Ends /\ budget' = 0
    /\ UNCHANGED <<vars, root, current>>

TestEnds ==
    /\ current = Test /\ script = <<>> /\ budget = 0
    /\ root' = "done" /\ Suspends
    /\ UNCHANGED <<vars, script, budget>>

TestStep ==
    /\ \/ TestRuns
       \/ TestSends
       \/ TestAwaitsReply
       \/ TestTakesReply
       \/ TestWrites
       \/ TestPauses
       \/ TestShutsDown
       \/ TestJoins
       \/ ClientChooses
       \/ TestEnds
    /\ UNCHANGED <<branches, fresh, expired, operationVars, detail, stopped, misled>>
    /\ Wakes

-----------------------------------------------------------------------------
(* The main loop, with what execute() of the operations does in it *)

\* Fault: the routine is executed whatever is executing.
RoutineExecuteAgain(i) ==
    /\ activeExecId' = i
    /\ UNCHANGED opStatus

\* execute() of the adapter around the routine refuses for good after one
\* execution.  start() accepts that there is no input.
RoutineExecute(i) ==
    /\ activeExecId' = IF activeExecId = None THEN i ELSE activeExecId
    /\ StartedRoutine.is = "Ok"
    /\ UNCHANGED opStatus

AsyncExecute(i) ==
    /\ opStatus' = [opStatus EXCEPT ![i] = "Scheduled"]
    /\ UNCHANGED activeExecId

\* Only the routine refuses to be executed.  Only MySyncOperation drops its
\* control; its handle comes from a closure and is not spawned.  At the bound of
\* the model nobody asks for an execution any more.
LoopExecutes ==
    /\ current = Loop /\ LoopReceives(Test)
    /\ nextId <= MaxExecs
    /\ message[Test].kind = "Execute"
    /\ LET op == message[Test].op IN
        /\ CASE op = RoutineOp -> RoutineExecute(nextId)
             [] op = AsyncOp -> AsyncExecute(nextId)
             [] op = SyncOp -> UNCHANGED <<activeExecId, opStatus>>
        /\ IF op # RoutineOp \/ activeExecId' # activeExecId
           THEN /\ task'[nextId] = "running"
                /\ timed'[nextId] = Head(script).timeout
                /\ rxOpen'[nextId] = (op # SyncOp)
                /\ fresh' = IF op = SyncOp THEN fresh ELSE fresh \cup {nextId}
           ELSE task' = task /\ UNCHANGED fresh
    /\ detail' = None
    /\ UNCHANGED <<lastKind, notified, report, stopped, misled>>

\* Fault: the closure became a future that waits for a signal.
SyncOperationWaits ==
    /\ pc[Loop] = "blocking" /\ notified[cur[Loop]] > 0
    /\ E!OpCompletes(cur[Loop], "ok") /\ LoopUnwinds
    /\ UNCHANGED <<operationVars, fresh, detail, stopped, misled>>

\* The closure of MySyncOperation runs under block_on, before the timer could.
SyncOperationRuns ==
    /\ pc[Loop] = "blocking"
    /\ E!OpCompletes(cur[Loop], "ok") /\ LoopUnwinds
    /\ UNCHANGED <<operationVars, fresh, detail, stopped, misled>>

LoopLooksUp ==
    /\ LoopReceives(Test)
    /\ message[Test].kind # "Execute"
    /\ detail' = None
    /\ UNCHANGED <<operationVars, fresh, stopped, misled>>

\* ListDataResources and ReadDataResource.
LoopQueries ==
    /\ LoopAnswersOther(Test)
    /\ LET query == Head(script).query
           handle == R!Read(DataResourceOf[query.id], query.encoding, R!Ok("deadbeef"))
       IN  IF query.ask = "list"
           THEN /\ answer'[Test].kind = "ok"
                /\ detail' = Listed
           ELSE /\ handle.is = "Ready"
                /\ answer'[Test].kind = IF handle.result.is = "Ok" THEN "ok" ELSE "error"
                /\ detail' = IF handle.result.is = "Ok" THEN handle.result.value.data ELSE None
    /\ UNCHANGED <<operationVars, fresh, stopped, misled>>

LoopGoesOn ==
    /\ LoopContinues
    /\ detail' = IF pc[Loop] = "await" THEN slot[Loop] ELSE None
    /\ LET confirmed == pc[Loop] = "send" /\ queue' # queue IN
        /\ stopped' = IF confirmed /\ want[Loop] = "Stop"
                      THEN stopped \cup {cur[Loop]} ELSE stopped
        /\ misled' = IF confirmed /\ want[Loop] = "HandleOtherCapability"
                     THEN misled \cup {cur[Loop]} ELSE misled
    /\ report' = IF /\ pc[Loop] = "send" /\ want[Loop] = "ReportStatus"
                    /\ queue' # queue /\ OfRoutine(cur[Loop])
                 THEN A!Waiting ELSE report
    /\ UNCHANGED <<activeExecId, opStatus, lastKind, notified, fresh>>

LoopStep ==
    /\ current = Loop
    /\ \/ LoopExecutes
       \/ SyncOperationRuns
       \/ LoopLooksUp
       \/ LoopQueries
       \/ LoopGoesOn
       \/ LoopEnds /\ UNCHANGED <<operationVars, fresh, detail, stopped, misled>>
    /\ UNCHANGED <<current, branches, expired, testVars>>
    /\ Wakes

LoopSuspends ==
    /\ current = Loop /\ ~CanGoOn(Loop)
    /\ Suspends
    /\ UNCHANGED <<vars, branches, fresh, expired, operationVars, testVars, detail, stopped, misled>>
    /\ Wakes

-----------------------------------------------------------------------------
(* The executions *)

Event(i) == Head(queue[i]).kind

\* A branch resolves the future of execution i: the poll is its last one.
Resolves(i, o) ==
    /\ CASE o = "timeout" -> E!TimeoutFires(i)
         [] o = "unavailable" -> E!OpPanics(i)
         [] OTHER -> E!OpCompletes(i, o)
    /\ LoopUnwinds
    /\ branches' = <<>>
    /\ report' = IF OfRoutine(i) /\ report = A!Waiting /\ Loop \in E!Reporters(i) THEN A!Dropped ELSE report
    /\ UNCHANGED <<activeExecId, opStatus, lastKind, notified>>

\* The event at the head is taken, and a status request answered.
Takes(i) ==
    /\ E!OpTakeEvent(i, opStatus[i]) /\ LoopUnwinds
    /\ UNCHANGED <<activeExecId, branches>>

\* user_code(): notification.recv().await; likewise notified().await of the routine.
UserCode(i) == notified[i] > 0 /\ Resolves(i, "ok")

\* Fault: the first status request is taken for the signal, too.
AsyncReportsAndSignals(i) ==
    /\ Event(i) = "ReportStatus" /\ Takes(i)
    /\ opStatus' = [opStatus EXCEPT ![i] = "Running"]
    /\ notified' = [notified EXCEPT ![i] = @ + 1]
    /\ UNCHANGED <<lastKind, report>>

AsyncReports(i) ==
    /\ Event(i) = "ReportStatus" /\ Takes(i)
    /\ opStatus' = [opStatus EXCEPT ![i] = "Running"]
    /\ notified' = [notified EXCEPT ![i] = IF opStatus[i] = "Scheduled" THEN @ ELSE @ + 1]
    /\ UNCHANGED <<lastKind, report>>

\* The one text of a capability that MyAsyncOperation asserts.
AsyncCapability(i) ==
    /\ Event(i) = "HandleCustomCapability" /\ Takes(i)
    /\ opStatus' = [opStatus EXCEPT ![i] = "HandleCustomCapability"]
    /\ UNCHANGED <<lastKind, notified, report>>

\* Any other text fails the assertion, and the panic ends the spawned future.
AsyncPanics(i) == Event(i) = "HandleOtherCapability" /\ Resolves(i, "unavailable")

\* Fault: the control loop goes on after a stop.
AsyncStopGoesOn(i) ==
    /\ Event(i) = "Stop" /\ Takes(i)
    /\ UNCHANGED <<opStatus, lastKind, notified, report>>

\* The control loop breaks, and wins the select!.
AsyncStop(i) == Event(i) = "Stop" /\ Resolves(i, "err")

\* Fault: the control loop handles one event and is not a loop.
AsyncControlOnce(i) ==
    /\ opStatus[i] = "Scheduled"
    /\ AsyncReports(i) \/ AsyncCapability(i) \/ AsyncPanics(i) \/ AsyncStop(i)

\* MyAsyncOperation::exec_control
AsyncControl(i) == AsyncReports(i) \/ AsyncCapability(i) \/ AsyncPanics(i) \/ AsyncStop(i)

\* Fault: a status request counts as the last executed capability.
RoutineReportsCounted(i) ==
    /\ Event(i) = "ReportStatus" /\ Takes(i)
    /\ report' = A!Report(opStatus[i], lastKind[i], FALSE, FALSE)
    /\ lastKind' = [lastKind EXCEPT ![i] = "ReportStatus"]
    /\ UNCHANGED <<opStatus, notified>>

RoutineReports(i) ==
    /\ Event(i) = "ReportStatus" /\ Takes(i)
    /\ report' = A!Report(opStatus[i], lastKind[i], FALSE, FALSE)
    /\ UNCHANGED <<opStatus, lastKind, notified>>

\* stop() of the routine; notify_one() stores one signal at most.
RoutineStop(i) ==
    /\ Event(i) = "Stop" /\ Takes(i)
    /\ StoppedRoutine.is = "Ok"
    /\ opStatus' = [opStatus EXCEPT ![i] = "Stopped"]
    /\ lastKind' = [lastKind EXCEPT ![i] = "Stop"]
    /\ notified' = [notified EXCEPT ![i] = 1]
    /\ UNCHANGED report

RoutineUnsupported(i) ==
    /\ Event(i) \in UnsupportedKinds /\ Takes(i)
    /\ opStatus' = [opStatus EXCEPT ![i] = Event(i)]
    /\ lastKind' = [lastKind EXCEPT ![i] = Event(i)]
    /\ UNCHANGED <<notified, report>>

\* The control loop of the adapter around the routine.
RoutineControl(i) == RoutineReports(i) \/ RoutineStop(i) \/ RoutineUnsupported(i)

Control(i) ==
    /\ queue[i] # <<>>
    /\ IF OfRoutine(i) THEN RoutineControl(i) ELSE AsyncControl(i)

\* One step of the branch that is polled, or on to the next one.
ExecutionStep(i) ==
    /\ current = i /\ branches # <<>>
    /\ CASE Head(branches) = "user" -> UserCode(i)
         [] Head(branches) = "control" -> Control(i)
         [] Head(branches) = "timer" -> i \in expired /\ Resolves(i, "timeout")
    /\ UNCHANGED <<current, fresh, expired, testVars, detail, stopped, misled>>
    /\ Wakes

BranchWaits(i) ==
    CASE Head(branches) = "user" -> notified[i] = 0
      [] Head(branches) = "control" -> queue[i] = <<>>
      [] Head(branches) = "timer" -> i \notin expired

NextBranch(i) ==
    /\ current = i /\ branches # <<>> /\ BranchWaits(i)
    /\ branches' = Tail(branches)
    /\ UNCHANGED <<vars, current, runQueue, fresh, expired, operationVars, testVars, detail, stopped, misled>>

ExecutionSuspends(i) ==
    /\ current = i /\ branches = <<>>
    /\ Suspends
    /\ UNCHANGED <<vars, branches, fresh, expired, operationVars, testVars, detail, stopped, misled>>
    /\ Wakes

-----------------------------------------------------------------------------

ExampleNext ==
    \/ PollNext
    \/ Park
    \/ TestStep
    \/ LoopStep
    \/ LoopSuspends
    \/ \E i \in E!Ids : ExecutionStep(i) \/ NextBranch(i) \/ ExecutionSuspends(i)

\* The executor keeps polling, and timers fire.
ExampleSpec == ExampleInit /\ [][ExampleNext]_exampleVars /\ WF_exampleVars(ExampleNext)

-----------------------------------------------------------------------------
(***************************************************************************)
(* Properties                                                              *)
(***************************************************************************)

\* Every variable has the values the code can give it.
ExampleTypeOK ==
    /\ TypeOK
    /\ budget \in 0..MaxAsked
    /\ root \in {"ready", "waits", "sleeps", "yields", "joins", "done", "panicked"}
    /\ current \in {None, Test, Loop} \cup E!Ids
    /\ branches \in Seq({"user", "control", "timer"})
    /\ runQueue \in Seq({Loop} \cup E!Ids)
    /\ fresh \cup expired \cup stopped \cup misled \subseteq E!Ids
    /\ activeExecId \in E!Ids \cup {None}
    /\ opStatus \in [E!Ids -> Statuses]
    /\ lastKind \in [E!Ids -> A!Capabilities]
    /\ notified \in [E!Ids -> Nat]
    /\ report \in A!Reports \cup {A!Idle, A!Waiting, A!Dropped}

\* The tests of example.rs hold whatever order select! polls its branches in:
\* one yield is enough for a stopped or signalled operation to have its result,
\* the sleep outlasts the timeout, and the third status request meets a running
\* execution or one that is over, but no other status.
TestsPass == root # "panicked"

\* Every outcome has its cause.  MyAsyncOperation is only told to stop by a
\* client and the routine only ends after one did: the Stop that the timeout
\* itself sends comes too late to reach either.  The only future that panics is
\* one of MyAsyncOperation that a client sent a capability it does not know.
OutcomeHasCause ==
    \A i \in E!Ids :
        /\ outcome[i] = "err" => opOf[i] = AsyncOp /\ i \in stopped
        /\ outcome[i] = "ok" /\ OfRoutine(i) => i \in stopped
        /\ outcome[i] = "timeout" => timed[i] /\ opOf[i] # SyncOp
        /\ outcome[i] = "unavailable" => opOf[i] = AsyncOp /\ i \in misled
        /\ opStatus[i] = "Stopped" => i \in stopped

\* The test always gets to its end, with the whole runtime on one thread:
\* block_on, the sleep, the join handle and every reply give way to whatever
\* they wait for.
TestsFinish == <>(root \in {"done", "panicked"})

\* A stop is confirmed as soon as it is queued.  It still ends the execution,
\* though not always with the result of a stop.
StopEndsExecution == \A i \in E!Ids : i \in stopped ~> task[i] = "finished"

\* The executions of the routine are those of SimpleOperationAdapter, under its
\* one identifier that is taken for good, with the reports it gives.
AdapterIsUsed == A!Spec

\* What DiagRuntime and Entity assume of operations, these operations do: an
\* event in the channel of an execution is always taken or dropped, and block_on
\* returns.
OperationsCooperate == Cooperation

=============================================================================
