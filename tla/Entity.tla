-------------------------------- MODULE Entity --------------------------------
(***************************************************************************)
(* The executions of one entity (score/mw/diag/example/lib_runtime.rs):    *)
(* the table of executions behind the `operations` mutex, the spawned or   *)
(* blocked-on futures with their timeout, and the bounded control channel  *)
(* of every execution with the oneshot that answers a status request.      *)
(*                                                                         *)
(* A caller is a thread of control that calls the entity's methods the way *)
(* RuntimeImpl::handle does.  What runs under the mutex is one action; an  *)
(* `.await` or an unlocked stretch ends the action.  An operation is any   *)
(* implementation of the Operation trait that keeps its ExecutionControl   *)
(* inside the future it returns, or drops it, as every operation of the    *)
(* repository does.                                                        *)
(***************************************************************************)
EXTENDS Naturals, Sequences

CONSTANTS
    Callers,        \* threads of control calling the entity
    Ops,            \* registered operations
    SyncOps,        \* operations with metadata.synchronous_execution
    ExclusiveOps,   \* operations with metadata.exclusive_execution
    CustomCapabilities, \* custom capabilities, as kinds of events
    Statuses,       \* what an operation can report
    QueueCap,       \* capacity of a control channel
    MaxExecs,       \* bound of the model: how many executions are ever started
    Workers,        \* threads that poll tasks and timers, of which a caller in
                    \* block_on occupies one (1: current-thread runtime)
    BudgetLasts,    \* no caller uses up tokio's cooperative budget in one poll
    None            \* absent value

ASSUME EntityAssumption ==
    /\ SyncOps \subseteq Ops
    /\ ExclusiveOps \subseteq Ops
    /\ QueueCap \in Nat \ {0}
    /\ MaxExecs \in Nat
    /\ Workers \in Nat \ {0}
    /\ BudgetLasts \in BOOLEAN
    /\ "Stop" \notin CustomCapabilities /\ "ReportStatus" \notin CustomCapabilities
    /\ None \notin Callers \cup Ops \cup (1..MaxExecs)
    /\ None \notin Statuses
    /\ None \notin {"ok", "err", "timeout", "unavailable", "dropped"}
    /\ "dropped" \notin Statuses

Ids == 1..MaxExecs
OpResults == {"ok", "err"}
Outcomes == OpResults \cup {"timeout", "unavailable"}
Requests == {"Stop", "ReportStatus"} \cup CustomCapabilities
Events == [kind : Requests, from : Callers]
Answers == Statuses \cup {"dropped"}
Replies == [kind : {"ok", "error"}] \cup [kind : {"result"}, of : Ids, value : Outcomes]

VARIABLES
    nextId,     \* EXECUTION_ID_COUNTER
    entry,      \* Ids -> what operation.executions holds under the identifier
    opOf,       \* Ids -> the operation executed under the identifier
    timed,      \* Ids -> TRUE if the execute request carried a timeout
    recorded,   \* Ids -> the result inside ActiveExecution::Completed
    task,       \* Ids -> state of exec_future_with_timeout
    outcome,    \* Ids -> what that future ended with
    rxOpen,     \* Ids -> TRUE while the operation owns the ExecutionControl
    queue,      \* Ids -> events sent and not yet taken
    poisoned,   \* TRUE once a thread panicked holding the operations mutex
    pc,         \* Callers -> where the caller is
    cur,        \* Callers -> the execution it is working on
    want,       \* Callers -> kind of the event it is sending
    slot,       \* Callers -> the oneshot of its status request
    reply       \* Callers -> the last reply to it

tableVars == <<nextId, entry, opOf, timed, recorded>>
futureVars == <<task, outcome, rxOpen, queue, slot>>
callerVars == <<pc, cur, want, reply>>
vars == <<tableVars, futureVars, poisoned, callerVars>>

-----------------------------------------------------------------------------

Init ==
    /\ nextId = 1
    /\ entry = [i \in Ids |-> "none"]
    /\ opOf = [i \in Ids |-> None]
    /\ timed = [i \in Ids |-> FALSE]
    /\ recorded = [i \in Ids |-> None]
    /\ task = [i \in Ids |-> "none"]
    /\ outcome = [i \in Ids |-> None]
    /\ rxOpen = [i \in Ids |-> FALSE]
    /\ queue = [i \in Ids |-> <<>>]
    /\ poisoned = FALSE
    /\ pc = [c \in Callers |-> "idle"]
    /\ cur = [c \in Callers |-> None]
    /\ want = [c \in Callers |-> None]
    /\ slot = [c \in Callers |-> None]
    /\ reply = [c \in Callers |-> [kind |-> "ok"]]

\* The replies a client can tell apart, reduced to what the properties read.
Confirms(c) == reply' = [reply EXCEPT ![c] = [kind |-> "ok"]]
Refuses(c) == reply' = [reply EXCEPT ![c] = [kind |-> "error"]]

\* Every method starts by taking the mutex; a poisoned one ends the call.
Locks(c) == pc[c] = "idle" /\ ~poisoned

\* Fault: an exclusive check that counts resolved executions only.
HasCompletedEntry(op) == \E i \in Ids : opOf[i] = op /\ entry[i] = "completed"

HasEntry(op) == \E i \in Ids : opOf[i] = op /\ entry[i] # "none"

MutexPoisoned(c) ==
    /\ pc[c] = "idle" /\ poisoned
    /\ Refuses(c)
    /\ UNCHANGED <<tableVars, futureVars, poisoned, pc, cur, want>>

(***************************************************************************)
(* execute_operation                                                       *)
(***************************************************************************)

\* The exclusive check counts every execution still in the table.
ExecuteRefused(c, op) ==
    /\ Locks(c)
    /\ op \in ExclusiveOps /\ HasEntry(op)
    /\ Refuses(c)
    /\ UNCHANGED <<tableVars, futureVars, poisoned, pc, cur, want>>

\* An identifier is spent.  At the bound of the model no execution starts any
\* more, and identifiers of failed ones are not counted.
MayExecute(c, op) ==
    /\ Locks(c)
    /\ ~(op \in ExclusiveOps /\ HasEntry(op))
    /\ nextId' = IF nextId <= MaxExecs THEN nextId + 1 ELSE nextId

\* Operation::execute returns an error: the identifier is spent, no entry made.
ExecuteFails(c, op) ==
    /\ MayExecute(c, op)
    /\ Refuses(c)
    /\ UNCHANGED <<entry, opOf, timed, recorded, futureVars, poisoned, pc, cur, want>>

\* Operation::execute panics while the caller holds the mutex.
ExecutePanics(c, op) ==
    /\ MayExecute(c, op)
    /\ poisoned' = TRUE
    /\ pc' = [pc EXCEPT ![c] = "dead"]
    /\ UNCHANGED <<entry, opOf, timed, recorded, futureVars, cur, want, reply>>

\* Operation::execute returns a handle.  An asynchronous execution is spawned
\* and answered; a synchronous one is entered in the table, the mutex is
\* released and the caller blocks on the future.
ExecuteStarts(c, op, withTimeout, keepsControl) ==
    /\ MayExecute(c, op)
    /\ nextId <= MaxExecs
    /\ LET i == nextId IN
        /\ entry' = [entry EXCEPT ![i] = "running"]
        /\ opOf' = [opOf EXCEPT ![i] = op]
        /\ timed' = [timed EXCEPT ![i] = withTimeout]
        /\ task' = [task EXCEPT ![i] = "running"]
        /\ rxOpen' = [rxOpen EXCEPT ![i] = keepsControl]
        /\ IF op \in SyncOps
           THEN /\ pc' = [pc EXCEPT ![c] = "blocking"]
                /\ cur' = [cur EXCEPT ![c] = i]
                /\ UNCHANGED reply
           ELSE /\ Confirms(c)
                /\ UNCHANGED <<pc, cur>>
    /\ UNCHANGED <<recorded, outcome, queue, slot, poisoned, want>>

\* block_on returned: the caller takes the mutex again and stores the result.
StoreSyncResult(c) ==
    /\ pc[c] = "blocking" /\ task[cur[c]] = "finished"
    /\ LET i == cur[c] IN
        IF poisoned
        THEN /\ Refuses(c)
             /\ UNCHANGED <<entry, recorded>>
        ELSE /\ entry' = [entry EXCEPT ![i] = IF @ = "none" THEN @ ELSE "completed"]
             /\ recorded' = [recorded EXCEPT ![i] = IF entry[i] = "none" THEN @ ELSE outcome[i]]
             /\ Confirms(c)
    /\ pc' = [pc EXCEPT ![c] = "idle"]
    /\ cur' = [cur EXCEPT ![c] = None]
    /\ UNCHANGED <<nextId, opOf, timed, futureVars, poisoned, want>>

\* The poisoned mutex makes list_operations panic, where the others fail.
ListOperations(c) ==
    /\ pc[c] = "idle"
    /\ IF poisoned
       THEN pc' = [pc EXCEPT ![c] = "dead"] /\ UNCHANGED reply
       ELSE Confirms(c) /\ UNCHANGED pc
    /\ UNCHANGED <<tableVars, futureVars, poisoned, cur, want>>

(***************************************************************************)
(* get_execution_result, remove_execution, get_execution_control           *)
(***************************************************************************)

\* Fault: the join handle is polled before the task is over.
ResolvableEarly(i) == entry[i] = "running" /\ opOf[i] \notin SyncOps

\* Only an execution with a join handle is ever resolved by a lookup.
Resolvable(i) ==
    entry[i] = "running" /\ opOf[i] \notin SyncOps /\ task[i] = "finished"

\* Fault: a completed execution is resolved again, from a spent join handle.
TryResolveAgain(i) ==
    LET over == opOf[i] \notin SyncOps /\ task[i] = "finished" IN
    /\ entry' = [entry EXCEPT ![i] = IF over THEN "completed" ELSE @]
    /\ recorded' = [recorded EXCEPT ![i] =
                        IF ~over THEN @
                        ELSE IF entry[i] = "completed" THEN "unavailable" ELSE outcome[i]]

\* What is recorded of a future that is over.  now_or_never() gets the result
\* out of the join handle, unless the caller has no budget left: the handle is
\* not ready then, and the placeholder stays.
MayBeTold(i) ==
    {outcome[i]} \cup IF BudgetLasts \/ opOf[i] \in SyncOps THEN {} ELSE {"unavailable"}

\* try_resolve.  A panicked task yields no result: "unavailable" stays.
TryResolve(i) ==
    /\ entry' = [entry EXCEPT ![i] = IF Resolvable(i) THEN "completed" ELSE @]
    /\ recorded' \in {[recorded EXCEPT ![i] = IF Resolvable(i) THEN told ELSE @] :
                          told \in MayBeTold(i)}

\* The lookup of an execution that is not (or no longer) in the table.
ExecutionNotFound(c, i) ==
    /\ Locks(c)
    /\ entry[i] = "none"
    /\ Refuses(c)
    /\ UNCHANGED <<tableVars, futureVars, poisoned, pc, cur, want>>

GetResult(c, i) ==
    /\ Locks(c)
    /\ entry[i] # "none"
    /\ TryResolve(i)
    /\ IF entry'[i] = "completed"
       THEN reply' = [reply EXCEPT ![c] = [kind |-> "result", of |-> i, value |-> recorded'[i]]]
       ELSE Refuses(c)
    /\ UNCHANGED <<nextId, opOf, timed, futureVars, poisoned, pc, cur, want>>

RemoveRefused(c, i) ==
    /\ Locks(c)
    /\ entry[i] = "running" /\ ~Resolvable(i)
    /\ Refuses(c)
    /\ UNCHANGED <<tableVars, futureVars, poisoned, pc, cur, want>>

\* Fault: removal without the test for a running execution.
RemoveRunning(c, i) ==
    /\ Locks(c)
    /\ entry[i] # "none"
    /\ entry' = [entry EXCEPT ![i] = "none"]
    /\ recorded' = [recorded EXCEPT ![i] = None]
    /\ Confirms(c)
    /\ UNCHANGED <<nextId, opOf, timed, futureVars, poisoned, pc, cur, want>>

\* The execution is resolved and taken out; its result goes with it.
Remove(c, i) ==
    /\ Locks(c)
    /\ entry[i] = "completed" \/ Resolvable(i)
    /\ entry' = [entry EXCEPT ![i] = "none"]
    /\ recorded' = [recorded EXCEPT ![i] = None]
    /\ Confirms(c)
    /\ UNCHANGED <<nextId, opOf, timed, futureVars, poisoned, pc, cur, want>>

\* The caller leaves the lock with a clone of the execution's sender.
GetControl(c, i, kind) ==
    /\ Locks(c)
    /\ entry[i] = "running"
    /\ pc' = [pc EXCEPT ![c] = "send"]
    /\ cur' = [cur EXCEPT ![c] = i]
    /\ want' = [want EXCEPT ![c] = kind]
    /\ UNCHANGED <<tableVars, futureVars, poisoned, reply>>

ControlRefused(c, i) ==
    /\ Locks(c)
    /\ entry[i] = "completed"
    /\ Refuses(c)
    /\ UNCHANGED <<tableVars, futureVars, poisoned, pc, cur, want>>

(***************************************************************************)
(* The control requests of RuntimeImpl::handle, past the lookup            *)
(***************************************************************************)

Returns(c) ==
    /\ pc' = [pc EXCEPT ![c] = "idle"]
    /\ cur' = [cur EXCEPT ![c] = None]
    /\ want' = [want EXCEPT ![c] = None]

SendFails(c) ==
    /\ pc[c] = "send" /\ ~rxOpen[cur[c]]
    /\ Refuses(c)
    /\ Returns(c)
    /\ UNCHANGED <<tableVars, futureVars, poisoned>>

\* `send` waits while the channel is full.  Stop and a custom capability are
\* answered once the event is queued, a status request is awaited.
SendEvent(c) ==
    /\ pc[c] = "send" /\ rxOpen[cur[c]]
    /\ Len(queue[cur[c]]) < QueueCap
    /\ queue' = [queue EXCEPT ![cur[c]] = Append(@, [kind |-> want[c], from |-> c])]
    /\ IF want[c] = "ReportStatus"
       THEN /\ pc' = [pc EXCEPT ![c] = "await"]
            /\ slot' = [slot EXCEPT ![c] = None]
            /\ UNCHANGED <<cur, want, reply>>
       ELSE /\ Confirms(c)
            /\ Returns(c)
            /\ UNCHANGED slot
    /\ UNCHANGED <<tableVars, task, outcome, rxOpen, poisoned>>

\* status_rx.await; a dropped reporter is an error.
ReceiveStatus(c) ==
    /\ pc[c] = "await" /\ slot[c] # None
    /\ IF slot[c] = "dropped" THEN Refuses(c) ELSE Confirms(c)
    /\ Returns(c)
    /\ slot' = [slot EXCEPT ![c] = None]
    /\ UNCHANGED <<tableVars, task, outcome, rxOpen, queue, poisoned>>

\* The caller's own future is dropped while it waits, as shutdown() does to the
\* main loop of the runtime; the event it queued stays in the channel.
CallerIsDropped(c) ==
    /\ pc[c] \in {"send", "await"}
    /\ pc' = [pc EXCEPT ![c] = "dead"]
    /\ cur' = [cur EXCEPT ![c] = None]
    /\ want' = [want EXCEPT ![c] = None]
    /\ UNCHANGED <<tableVars, futureVars, poisoned, reply>>

(***************************************************************************)
(* exec_future_with_timeout and the operation inside it                    *)
(***************************************************************************)

Blocked == {c \in Callers : pc[c] = "blocking"}

\* The callers in block_on are too few for a worker each.
WorkerIsLeft ==
    \A on \in [1..Workers -> Blocked] : \E v, w \in 1..Workers : v # w /\ on[v] = on[w]

BlocksOn(c, i) == pc[c] = "blocking" /\ cur[c] = i

\* A worker is there to poll the future of i.
Polled(i) ==
    /\ task[i] = "running"
    /\ WorkerIsLeft \/ \E c \in Callers : BlocksOn(c, i)

\* The operation takes the next event.  Whether it answers a status request
\* or drops the reporter is its choice.
OpTakeEvent(i, answer) ==
    /\ Polled(i)
    /\ rxOpen[i] /\ queue[i] # <<>>
    /\ queue' = [queue EXCEPT ![i] = Tail(@)]
    /\ LET event == Head(queue[i]) IN
        slot' = [slot EXCEPT ![event.from] =
                    IF event.kind = "ReportStatus" THEN answer ELSE @]
    /\ UNCHANGED <<tableVars, task, outcome, rxOpen, poisoned, callerVars>>

Reporters(i) ==
    {queue[i][k].from : k \in {n \in DOMAIN queue[i] : queue[i][n].kind = "ReportStatus"}}

\* Fault: the queued events outlive the receiver, as in a leaked channel.
CloseControlLeaks(i) ==
    /\ rxOpen' = [rxOpen EXCEPT ![i] = FALSE]
    /\ UNCHANGED <<queue, slot>>

\* The receiver is dropped: the channel closes, and the events left in it are
\* dropped with their status reporters.
CloseControl(i) ==
    /\ rxOpen' = [rxOpen EXCEPT ![i] = FALSE]
    /\ queue' = [queue EXCEPT ![i] = <<>>]
    /\ slot' = [c \in Callers |-> IF c \in Reporters(i) THEN "dropped" ELSE slot[c]]

OpDropsControl(i) ==
    /\ Polled(i) /\ rxOpen[i]
    /\ CloseControl(i)
    /\ UNCHANGED <<tableVars, task, outcome, poisoned, callerVars>>

\* Fault: the join error of a panicked task is not turned into a result.
EndsWithout(i, o) ==
    /\ task' = [task EXCEPT ![i] = "finished"]
    /\ UNCHANGED outcome
    /\ CloseControl(i)

\* The future is over: everything it owns is dropped.
Ends(i, o) ==
    /\ task' = [task EXCEPT ![i] = "finished"]
    /\ outcome' = [outcome EXCEPT ![i] = o]
    /\ CloseControl(i)

OpCompletes(i, o) ==
    /\ Polled(i)
    /\ Ends(i, o)
    /\ UNCHANGED <<tableVars, poisoned, callerVars>>

\* A panic is caught by tokio::spawn, and takes a blocked caller down.
OpPanics(i) ==
    /\ Polled(i)
    /\ Ends(i, "unavailable")
    /\ pc' = [c \in Callers |-> IF BlocksOn(c, i) THEN "dead" ELSE pc[c]]
    /\ UNCHANGED <<tableVars, poisoned, cur, want, reply>>

\* Fault: the timeout asks the operation to stop and keeps its future.
TimeoutAsks(i) ==
    /\ timed[i] /\ task[i] = "running" /\ rxOpen[i]
    /\ WorkerIsLeft
    /\ Len(queue[i]) < QueueCap
    /\ \E c \in Callers : queue' = [queue EXCEPT ![i] = Append(@, [kind |-> "Stop", from |-> c])]
    /\ UNCHANGED <<tableVars, task, outcome, rxOpen, slot, poisoned, callerVars>>

\* select! has dropped the operation's future, and the receiver in it, when
\* the handler sends Stop: the send fails and its error is ignored.
TimeoutFires(i) ==
    /\ timed[i] /\ task[i] = "running"
    /\ WorkerIsLeft
    /\ Ends(i, "timeout")
    /\ UNCHANGED <<tableVars, poisoned, callerVars>>

-----------------------------------------------------------------------------

CallerStep(c) ==
    \/ MutexPoisoned(c)
    \/ ListOperations(c)
    \/ StoreSyncResult(c)
    \/ SendFails(c)
    \/ SendEvent(c)
    \/ ReceiveStatus(c)
    \/ CallerIsDropped(c)
    \/ \E op \in Ops :
        \/ ExecuteRefused(c, op)
        \/ ExecuteFails(c, op)
        \/ ExecutePanics(c, op)
        \/ \E withTimeout, keepsControl \in BOOLEAN :
              ExecuteStarts(c, op, withTimeout, keepsControl)
    \/ \E i \in Ids :
        \/ ExecutionNotFound(c, i)
        \/ GetResult(c, i)
        \/ RemoveRefused(c, i)
        \/ Remove(c, i)
        \/ ControlRefused(c, i)
        \/ \E kind \in Requests : GetControl(c, i, kind)

FutureStep(i) ==
    \/ \E answer \in Answers : OpTakeEvent(i, answer)
    \/ OpDropsControl(i)
    \/ \E o \in OpResults : OpCompletes(i, o)
    \/ OpPanics(i)
    \/ TimeoutFires(i)

Next ==
    \/ \E c \in Callers : CallerStep(c)
    \/ \E i \in Ids : FutureStep(i)

Spec == Init /\ [][Next]_vars

(***************************************************************************)
(* Fairness.  A caller in block_on goes on when its future is over.  While *)
(* it sits there nothing else need happen: a current-thread runtime polls  *)
(* neither tasks nor timers, and with the budget spent no timer or channel *)
(* is ever ready below block_on.  Once nobody starves them tokio polls     *)
(* every task that was woken and fires every timer; a channel hands its    *)
(* permits out in order, so a sender that could go again and again goes    *)
(* (strong fairness).  An operation that still holds its control ends,     *)
(* drops it or takes the next event: what the control loops of the         *)
(* repository's operations do.                                             *)
(***************************************************************************)
Starving == ~WorkerIsLeft \/ (Blocked # {} /\ ~BudgetLasts)

OpProgress(i) ==
    \/ \E answer \in Answers : OpTakeEvent(i, answer)
    \/ rxOpen[i] /\ queue[i] # <<>> /\ FutureStep(i)

Fairness ==
    /\ \A c \in Callers :
        /\ WF_vars(StoreSyncResult(c))
        /\ WF_vars(~Starving /\ (ReceiveStatus(c) \/ SendFails(c)))
        /\ SF_vars(~Starving /\ SendEvent(c))
    /\ \A i \in Ids :
        /\ WF_vars(~Starving /\ OpProgress(i))
        /\ WF_vars(~Starving /\ TimeoutFires(i))

FairSpec == Spec /\ Fairness

-----------------------------------------------------------------------------
(***************************************************************************)
(* Properties                                                              *)
(***************************************************************************)

\* Every variable has the values the code can give it.
TypeOK ==
    /\ nextId \in 1..(MaxExecs + 1)
    /\ entry \in [Ids -> {"none", "running", "completed"}]
    /\ opOf \in [Ids -> Ops \cup {None}]
    /\ timed \in [Ids -> BOOLEAN]
    /\ recorded \in [Ids -> Outcomes \cup {None}]
    /\ task \in [Ids -> {"none", "running", "finished"}]
    /\ outcome \in [Ids -> Outcomes \cup {None}]
    /\ rxOpen \in [Ids -> BOOLEAN]
    /\ queue \in [Ids -> Seq(Events)]
    /\ poisoned \in BOOLEAN
    /\ pc \in [Callers -> {"idle", "blocking", "send", "await", "dead"}]
    /\ cur \in [Callers -> Ids \cup {None}]
    /\ want \in [Callers -> Requests \cup {None}]
    /\ slot \in [Callers -> Answers \cup {None}]
    /\ reply \in [Callers -> Replies]

\* Two executions of an operation with exclusive_execution are never under way
\* at the same time, although the check looks at the table and not at the
\* futures, and the table is read and written by lookups, removals and blocked
\* callers in between.
NoParallelExclusive ==
    \A i, j \in Ids :
        (/\ task[i] = "running" /\ task[j] = "running"
         /\ opOf[i] = opOf[j] /\ opOf[i] \in ExclusiveOps) => i = j

\* A future under way is listed as running: no removal, resolution or late
\* store of a result leaves an execution nobody can query or stop.
RunningIsListed ==
    \A i \in Ids : task[i] = "running" => entry[i] = "running"

\* What is recorded for an execution, and what a client is told of it, is what
\* its future ended with.  A lookup records the placeholder "execution result
\* unavailable" for a result only if the lookup's task has no budget left to
\* take it out of the join handle.
TruthfulResult ==
    /\ \A i \in Ids : entry[i] = "completed" => recorded[i] \in MayBeTold(i) /\ task[i] = "finished"
    /\ \A c \in Callers : reply[c].kind = "result" => reply[c].value \in MayBeTold(reply[c].of)

\* A caller that waits for a status has an answer, or its request lies in the
\* queue of an execution that can still take it: whatever the execution does
\* (end, panic, time out, drop its control) leaves no request behind.
WaiterHasAnswerer ==
    \A c \in Callers :
        (pc[c] = "await" /\ slot[c] = None) =>
            /\ rxOpen[cur[c]] /\ task[cur[c]] = "running"
            /\ c \in Reporters(cur[c])

\* A result once recorded is never replaced while the execution is listed, and
\* an execution taken out of the table never comes back.
ResultIsFinal ==
    [][\A i \in Ids :
        /\ entry[i] = "completed" /\ entry'[i] # "none" =>
              entry'[i] = "completed" /\ recorded'[i] = recorded[i]
        /\ entry[i] = "none" /\ i < nextId => entry'[i] = "none"]_vars

\* Every caller with a control request in hand gets a reply, although it may
\* wait for room in the channel, and although the execution may end at any
\* moment before or after the request is queued.  Only a block_on that never
\* returns, in a runtime without a worker to spare, keeps it waiting.
ControlReturns ==
    \A c \in Callers :
        pc[c] \in {"send", "await"} ~> (pc[c] \in {"idle", "dead"} \/ []Starving)

\* An execution with a timeout ends, and a caller blocked on it gets away.  With
\* no worker to spare that takes a block_on that returns by itself: the timer of
\* the execution a caller blocks on is not even looked at.
TimedExecutionEnds ==
    \A i \in Ids :
        /\ (timed[i] /\ task[i] = "running") ~> (task[i] = "finished" \/ []Starving)
        /\ (\E c \in Callers : timed[i] /\ BlocksOn(c, i))
              ~> (~(\E c \in Callers : BlocksOn(c, i)) \/ []Starving)

(***************************************************************************)
(* The inductive invariant behind the four invariants above.               *)
(***************************************************************************)

\* Identifiers are handed out in order; one without a future has no entry.
IdsAreFresh ==
    \A i \in Ids :
        /\ i >= nextId => task[i] = "none"
        /\ task[i] = "none" => entry[i] = "none" /\ recorded[i] = None

\* What the exclusive check protects: the table, not the futures.
ExclusiveIsListedOnce ==
    \A i, j \in Ids :
        (/\ entry[i] # "none" /\ entry[j] # "none"
         /\ opOf[i] = opOf[j] /\ opOf[i] \in ExclusiveOps) => i = j

\* A future that is over left an outcome.
EndedHasOutcome == \A i \in Ids : task[i] = "finished" => outcome[i] \in Outcomes

\* An open channel belongs to a future under way.
ControlIsOwned == \A i \in Ids : rxOpen[i] => task[i] = "running"

\* A caller in the middle of a method works on an execution; the one blocked
\* on a synchronous execution is the only one to change its entry.
CallersAreBusy ==
    \A c \in Callers :
        /\ pc[c] \in {"blocking", "send", "await"} => cur[c] \in Ids
        /\ pc[c] = "send" => want[c] \in Requests
        /\ pc[c] = "blocking" => /\ opOf[cur[c]] \in SyncOps
                                 /\ task[cur[c]] # "none" /\ entry[cur[c]] = "running"
                                 /\ \A d \in Callers : BlocksOn(d, cur[c]) => d = c

\* A result a client was told of belongs to a future that is over.
ToldResultIsOver ==
    \A c \in Callers : reply[c].kind = "result" => task[reply[c].of] = "finished"

IInv ==
    /\ TypeOK
    /\ IdsAreFresh
    /\ RunningIsListed
    /\ ExclusiveIsListedOnce
    /\ EndedHasOutcome
    /\ ControlIsOwned
    /\ CallersAreBusy
    /\ TruthfulResult
    /\ ToldResultIsOver
    /\ WaiterHasAnswerer

(***************************************************************************)
(* The executions implement ExecutionLifecycle.                            *)
(***************************************************************************)
stageOf ==
    [i \in Ids |-> CASE task[i] = "none" -> "absent"
                      [] task[i] = "running" -> "running"
                      [] task[i] = "finished" /\ entry[i] # "none" -> "ended"
                      [] OTHER -> "forgotten"]

Lifecycle == INSTANCE ExecutionLifecycle
                 WITH stage <- stageOf, verdict <- outcome, NoOutcome <- None

Implements == Lifecycle!Spec
=============================================================================
