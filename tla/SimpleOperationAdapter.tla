------------------------ MODULE SimpleOperationAdapter ------------------------
(***************************************************************************)
(* SimpleOperationAdapter (score/mw/diag/api/simple_operation.rs) over a   *)
(* SimpleOperation, such as the RoutineControlAdapter of uds_adapters.rs:  *)
(* execute() under the `data` mutex, and the future it returns, a select!  *)
(* between the operation's own future and a loop over the control events.  *)
(*                                                                         *)
(* The stream of control events is the runtime's.  Here it is a bounded    *)
(* queue per execution, filled by requesters of whom a status reporter can *)
(* come along, and closed at any time; the future may be dropped whenever  *)
(* its owner likes.                                                        *)
(***************************************************************************)
EXTENDS Naturals, Sequences

CONSTANTS
    Requesters,     \* senders of control events
    Unsupported,    \* kinds of events the adapter has no callback for
    QueueCap,       \* bound of the model: events waiting in a stream
    MaxExecs,       \* bound of the model: how often execute() is called
    None            \* absent value

ASSUME AdapterAssumption ==
    /\ QueueCap \in Nat
    /\ MaxExecs \in Nat
    /\ None \notin Requesters \cup Unsupported
    /\ None \notin 1..MaxExecs
    /\ Unsupported \cap {"Running", "Stopped", "Stop", "ReportStatus", "ControlGone", "n/a"} = {}

Execs == 1..MaxExecs
Kinds == {"ReportStatus", "ControlGone", "Stop"} \cup Unsupported
Events == [kind : Kinds, from : Requesters \cup {None}]

\* UnsupportedCapability(k) is written k.
ExecStatuses == {"Running", "Stopped"} \cup Unsupported
Capabilities == {"Resume", "Stop"} \cup Unsupported
Results == {"ok", "err", "stopped", "default", "panicked"}

\* ExecutionStatus and ExecutionStatusDetails, as given to a status reporter;
\* "n/a" is the last capability of default details.
Reports == [is : {"report"}, status : ExecStatuses, last : Capabilities \cup {"n/a"},
            errors : BOOLEAN, reply : BOOLEAN]
Report(status, last, errors, reply) ==
    [is |-> "report", status |-> status, last |-> last, errors |-> errors, reply |-> reply]

\* A status reporter that was never given out, is waiting or was dropped.
Idle == [is |-> "idle"]
Waiting == [is |-> "waiting"]
Dropped == [is |-> "dropped"]

VARIABLES
    activeExecId,   \* data.active_exec_id
    poisoned,       \* TRUE once a callback panicked holding the data mutex
    future,         \* Execs -> what became of execute() and its future
    result,         \* Execs -> what the future resolved to
    streamOpen,     \* Execs -> FALSE once the senders of control events are gone
    queue,          \* Execs -> control events not yet taken
    execStatus,     \* Execs -> exec_status
    lastKind,       \* Execs -> last_exec_event_kind
    failedStop,     \* Execs -> ~exec_errors.is_empty()
    slot            \* Requesters -> what became of the last status reporter

dataVars == <<activeExecId, poisoned>>
loopVars == <<execStatus, lastKind, failedStop>>
vars == <<dataVars, future, result, streamOpen, queue, loopVars, slot>>

Init ==
    /\ activeExecId = None
    /\ poisoned = FALSE
    /\ future = [i \in Execs |-> "none"]
    /\ result = [i \in Execs |-> None]
    /\ streamOpen = [i \in Execs |-> FALSE]
    /\ queue = [i \in Execs |-> <<>>]
    /\ execStatus = [i \in Execs |-> "Running"]
    /\ lastKind = [i \in Execs |-> "Resume"]
    /\ failedStop = [i \in Execs |-> FALSE]
    /\ slot = [r \in Requesters |-> Idle]

-----------------------------------------------------------------------------
(* execute() *)

Refuses(i) == future' = [future EXCEPT ![i] = "refused"]

ExecutePoisoned(i) ==
    /\ future[i] = "none" /\ poisoned
    /\ Refuses(i)
    /\ UNCHANGED <<dataVars, result, streamOpen, queue, loopVars, slot>>

ExecuteRefused(i) ==
    /\ future[i] = "none" /\ ~poisoned
    /\ activeExecId # None
    /\ Refuses(i)
    /\ UNCHANGED <<dataVars, result, streamOpen, queue, loopVars, slot>>

\* Fault: the test for an active execution is missing.
TakesTurnAnyway(i) ==
    /\ future[i] = "none" /\ ~poisoned
    /\ activeExecId' = i

\* The identifier is stored before start() is called and stays stored.
TakesTurn(i) ==
    /\ future[i] = "none" /\ ~poisoned
    /\ activeExecId = None
    /\ activeExecId' = i

StartFails(i) ==
    /\ TakesTurn(i)
    /\ Refuses(i)
    /\ UNCHANGED <<poisoned, result, streamOpen, queue, loopVars, slot>>

StartPanics(i) ==
    /\ TakesTurn(i)
    /\ Refuses(i)
    /\ poisoned' = TRUE
    /\ UNCHANGED <<result, streamOpen, queue, loopVars, slot>>

Execute(i) ==
    /\ TakesTurn(i)
    /\ future' = [future EXCEPT ![i] = "pending"]
    /\ streamOpen' = [streamOpen EXCEPT ![i] = TRUE]
    /\ UNCHANGED <<poisoned, result, queue, loopVars, slot>>

-----------------------------------------------------------------------------
(* The stream of control events *)

Enqueue(i, kind, from) ==
    /\ future[i] = "pending" /\ streamOpen[i]
    /\ Len(queue[i]) < QueueCap
    /\ queue' = [queue EXCEPT ![i] = Append(@, [kind |-> kind, from |-> from])]
    /\ UNCHANGED <<dataVars, future, result, streamOpen, loopVars>>

Send(i, kind) == Enqueue(i, kind, None) /\ UNCHANGED slot

\* A status reporter comes with the event.
SendWithReporter(r, i, kind) ==
    /\ slot[r] # Waiting
    /\ Enqueue(i, kind, r)
    /\ slot' = [slot EXCEPT ![r] = Waiting]

CloseStream(i) ==
    /\ streamOpen[i]
    /\ streamOpen' = [streamOpen EXCEPT ![i] = FALSE]
    /\ UNCHANGED <<dataVars, future, result, queue, loopVars, slot>>

-----------------------------------------------------------------------------
(* The future *)

\* The reporter of the event at the head gets the answer; there may be none.
Answer(i, answer) ==
    slot' = [r \in Requesters |-> IF r = Head(queue[i]).from THEN answer ELSE slot[r]]

\* exec_control.next() returns an event of one of the kinds.
TakesEvent(i, kinds) ==
    /\ future[i] = "pending" /\ queue[i] # <<>>
    /\ Head(queue[i]).kind \in kinds
    /\ queue' = [queue EXCEPT ![i] = Tail(@)]

\* Fault: a status request counts as the last executed capability.
HandleReportStatusCounts(i) ==
    /\ TakesEvent(i, {"ReportStatus"})
    /\ lastKind' = [lastKind EXCEPT ![i] = "ReportStatus"]
    /\ Answer(i, Report(execStatus[i], lastKind[i], failedStop[i], FALSE))
    /\ UNCHANGED <<dataVars, future, result, streamOpen, execStatus, failedStop>>

HandleReportStatus(i) ==
    /\ TakesEvent(i, {"ReportStatus"})
    /\ Answer(i, Report(execStatus[i], lastKind[i], failedStop[i], FALSE))
    /\ UNCHANGED <<dataVars, future, result, streamOpen, loopVars>>

\* Fault: without a reply the reporter is put aside for a later one.
HandleStopKeepsReporter(i, withReply) ==
    /\ TakesEvent(i, {"Stop"}) /\ ~poisoned
    /\ lastKind' = [lastKind EXCEPT ![i] = "Stop"]
    /\ execStatus' = [execStatus EXCEPT ![i] = "Stopped"]
    /\ IF withReply THEN Answer(i, Report("Stopped", "n/a", FALSE, TRUE)) ELSE UNCHANGED slot
    /\ UNCHANGED <<dataVars, future, result, streamOpen, failedStop>>

\* Fault: a stop that succeeds forgets the errors of those that did not.
HandleStopForgets(i, withReply) ==
    /\ TakesEvent(i, {"Stop"}) /\ ~poisoned
    /\ lastKind' = [lastKind EXCEPT ![i] = "Stop"]
    /\ execStatus' = [execStatus EXCEPT ![i] = "Stopped"]
    /\ failedStop' = [failedStop EXCEPT ![i] = FALSE]
    /\ Answer(i, IF withReply THEN Report("Stopped", "n/a", FALSE, TRUE) ELSE Dropped)
    /\ UNCHANGED <<dataVars, future, result, streamOpen>>

\* stop() succeeds; without a reply the reporter is dropped unused.
HandleStop(i, withReply) ==
    /\ TakesEvent(i, {"Stop"}) /\ ~poisoned
    /\ lastKind' = [lastKind EXCEPT ![i] = "Stop"]
    /\ execStatus' = [execStatus EXCEPT ![i] = "Stopped"]
    /\ Answer(i, IF withReply THEN Report("Stopped", "n/a", FALSE, TRUE) ELSE Dropped)
    /\ UNCHANGED <<dataVars, future, result, streamOpen, failedStop>>

\* Fault: the error of a stop is reported but not kept.
HandleStopFailsOnce(i) ==
    /\ TakesEvent(i, {"Stop"})
    /\ lastKind' = [lastKind EXCEPT ![i] = "Stop"]
    /\ Answer(i, Report(execStatus[i], "n/a", TRUE, FALSE))
    /\ UNCHANGED <<dataVars, future, result, streamOpen, execStatus, failedStop>>

\* stop() returns an error, or the mutex is poisoned.
HandleStopFails(i) ==
    /\ TakesEvent(i, {"Stop"})
    /\ lastKind' = [lastKind EXCEPT ![i] = "Stop"]
    /\ failedStop' = [failedStop EXCEPT ![i] = TRUE]
    /\ Answer(i, Report(execStatus[i], "n/a", TRUE, FALSE))
    /\ UNCHANGED <<dataVars, future, result, streamOpen, execStatus>>

HandleUnsupported(i) ==
    /\ TakesEvent(i, Unsupported)
    /\ lastKind' = [lastKind EXCEPT ![i] = Head(queue[i]).kind]
    /\ execStatus' = [execStatus EXCEPT ![i] = Head(queue[i]).kind]
    /\ Answer(i, Dropped)
    /\ UNCHANGED <<dataVars, future, result, streamOpen, failedStop>>

Reporters(i) == {queue[i][k].from : k \in DOMAIN queue[i]}

\* The future is gone, with the stream and the reporters in it.
Gone(i, how, value) ==
    /\ future[i] = "pending"
    /\ future' = [future EXCEPT ![i] = how]
    /\ result' = [result EXCEPT ![i] = value]
    /\ queue' = [queue EXCEPT ![i] = <<>>]
    /\ slot' = [r \in Requesters |-> IF r \in Reporters(i) THEN Dropped ELSE slot[r]]
    /\ UNCHANGED <<activeExecId, streamOpen, loopVars>>

\* Fault: the loop ends on ControlGone only, not with the stream.
ControlEndsOnEvent(i) ==
    /\ queue[i] # <<>> /\ Head(queue[i]).kind = "ControlGone"
    /\ Gone(i, "done", IF execStatus[i] = "Stopped" THEN "stopped" ELSE "default")
    /\ UNCHANGED poisoned

\* The loop ends and wins the select!: the operation's future is dropped.
ControlEnds(i) ==
    /\ IF queue[i] = <<>> THEN ~streamOpen[i] ELSE Head(queue[i]).kind = "ControlGone"
    /\ Gone(i, "done", IF execStatus[i] = "Stopped" THEN "stopped" ELSE "default")
    /\ UNCHANGED poisoned

\* stop() or completion_percentage() panics holding the mutex.
CallbackPanics(i) ==
    /\ queue[i] # <<>> /\ Head(queue[i]).kind \in {"Stop", "ReportStatus"}
    /\ ~poisoned /\ poisoned' = TRUE
    /\ Gone(i, "done", "panicked")

\* The operation's future is ready and wins the select!.
OperationEnds(i) ==
    /\ \E r \in {"ok", "err", "panicked"} : Gone(i, "done", r)
    /\ UNCHANGED poisoned

\* The owner drops the future, as the runtime's timeout does.
DropFuture(i) ==
    /\ Gone(i, "dropped", None)
    /\ UNCHANGED poisoned

-----------------------------------------------------------------------------

LoopStep(i) ==
    \/ HandleReportStatus(i)
    \/ \E withReply \in BOOLEAN : HandleStop(i, withReply)
    \/ HandleStopFails(i)
    \/ HandleUnsupported(i)
    \/ ControlEnds(i)
    \/ CallbackPanics(i)

FutureStep(i) == LoopStep(i) \/ OperationEnds(i)

Next ==
    \E i \in Execs :
        \/ ExecutePoisoned(i)
        \/ ExecuteRefused(i)
        \/ StartFails(i)
        \/ StartPanics(i)
        \/ Execute(i)
        \/ \E kind \in Kinds : Send(i, kind)
        \/ \E r \in Requesters, kind \in Kinds : SendWithReporter(r, i, kind)
        \/ CloseStream(i)
        \/ FutureStep(i)
        \/ DropFuture(i)

Spec == Init /\ [][Next]_vars

\* The future is polled when an event or the end of the stream wakes it.
Fairness == \A i \in Execs : WF_vars(LoopStep(i))

FairSpec == Spec /\ Fairness

-----------------------------------------------------------------------------
(***************************************************************************)
(* Properties                                                              *)
(***************************************************************************)

\* Every variable has the values the code can give it.
TypeOK ==
    /\ activeExecId \in Execs \cup {None}
    /\ poisoned \in BOOLEAN
    /\ future \in [Execs -> {"none", "refused", "pending", "done", "dropped"}]
    /\ result \in [Execs -> Results \cup {None}]
    /\ streamOpen \in [Execs -> BOOLEAN]
    /\ queue \in [Execs -> Seq(Events)]
    /\ execStatus \in [Execs -> ExecStatuses]
    /\ lastKind \in [Execs -> Capabilities]
    /\ failedStop \in [Execs -> BOOLEAN]
    /\ slot \in [Requesters -> Reports \cup {Idle, Waiting, Dropped}]

\* "never allowed to get executed concurrently" (the SimpleOperation trait):
\* at most one future of the adapter is pending, whatever happened to earlier
\* calls of execute().
NeverConcurrent ==
    \A i, j \in Execs : future[i] = "pending" /\ future[j] = "pending" => i = j

\* A status reporter not yet used or dropped sits in the stream of a pending
\* future, which will get to it: no path through the loop loses a reporter.
ReporterIsQueued ==
    \A r \in Requesters : slot[r] = Waiting =>
        \E i \in Execs : future[i] = "pending" /\ r \in Reporters(i)

\* A report does not contradict itself: the status is the one of the last
\* capability, unless that was a stop that failed, and then there are errors;
\* "execute" may also mean that nothing has come since the start.
ReportIsConsistent ==
    \A r \in Requesters : slot[r].is = "report" =>
        LET report == slot[r] IN
        /\ report.last = "Stop" /\ report.status # "Stopped" => report.errors
        /\ report.last \in Unsupported \ {"Resume"} => report.status = report.last
        /\ report.status = "Stopped" => report.last \in {"Stop", "n/a"}
        /\ report.reply => report.status = "Stopped"

\* Errors are never forgotten: after a requester was told of a failed stop,
\* every status report lists errors, whatever was handled in between.
ErrorsAreKept ==
    [][\A r \in Requesters :
        (/\ slot'[r] # slot[r] /\ slot'[r].is = "report" /\ slot'[r].last # "n/a"
         /\ \E q \in Requesters : slot[q].is = "report" /\ slot[q].errors)
            => slot'[r].errors]_vars

\* Every status reporter is used or dropped.
ReportersAreServed == \A r \in Requesters : slot[r] = Waiting ~> slot[r] # Waiting

\* When the senders of control events are gone the execution ends, although the
\* operation's future may never: the control loop is over and wins the select!.
\* The tests of the adapter have it that way, OperationProvidesResult does not.
ClosedStreamEnds ==
    \A i \in Execs : future[i] = "pending" /\ ~streamOpen[i] ~> future[i] # "pending"

\* "Control ended normally; yield to let the operation future provide the
\* result." (simple_operation.rs:152): no execution ends with the empty reply of
\* the control loop in place of the result of its operation.
OperationProvidesResult ==
    \A i \in Execs : future[i] = "done" => result[i] # "default"

\* "operation is already executing" (simple_operation.rs:74): a refusal for
\* that reason means a pending future.
RefusalMeansExecuting ==
    [][\A i \in Execs : ExecuteRefused(i) => \E j \in Execs : future[j] = "pending"]_vars

=============================================================================
