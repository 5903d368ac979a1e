--------------------- MODULE SimpleOperationAdapterProofs ---------------------
(***************************************************************************)
(* Theorems about SimpleOperationAdapter, for every number of requesters   *)
(* and executions, any unsupported kinds and any capacity of the streams.  *)
(***************************************************************************)
EXTENDS SimpleOperationAdapter, TLAPS

USE DEF Execs

-----------------------------------------------------------------------------
(* The inductive invariant. *)

\* Only the execution whose identifier is stored was ever begun.
PendingIsActive == \A i \in Execs : future[i] = "pending" => activeExecId = i

\* How the status and the last capability of a control loop belong together.
LoopIsConsistent ==
    \A i \in Execs :
        /\ lastKind[i] = "Stop" /\ execStatus[i] # "Stopped" => failedStop[i]
        /\ lastKind[i] \in Unsupported \ {"Resume"} => execStatus[i] = lastKind[i]
        /\ execStatus[i] = "Stopped" => lastKind[i] = "Stop"

\* A reported error is kept by the control loop of the one execution.
ErrorsHaveOrigin ==
    \A r \in Requesters : slot[r].is = "report" /\ slot[r].errors =>
        activeExecId # None /\ failedStop[activeExecId]

AdapterInv ==
    /\ TypeOK
    /\ PendingIsActive
    /\ ReporterIsQueued
    /\ LoopIsConsistent
    /\ ReportIsConsistent
    /\ ErrorsHaveOrigin

LEMMA InitAdapterInv == Init => AdapterInv
<1> SUFFICES ASSUME Init PROVE AdapterInv
  OBVIOUS
<1>1. TypeOK
  <2>1. queue \in [Execs -> Seq(Events)]
    BY DEF Init
  <2>2. slot \in [Requesters -> Reports \cup {Idle, Waiting, Dropped}]
    BY DEF Init
  <2> QED BY <2>1, <2>2 DEF Init, TypeOK, ExecStatuses, Capabilities
<1>2. PendingIsActive
  BY DEF Init, PendingIsActive
<1>3. ReporterIsQueued
  BY DEF Init, ReporterIsQueued, Idle, Waiting
<1>4. LoopIsConsistent
  BY AdapterAssumption DEF Init, LoopIsConsistent
<1>5. ReportIsConsistent /\ ErrorsHaveOrigin
  BY DEF Init, ReportIsConsistent, ErrorsHaveOrigin, Idle
<1> QED BY <1>1, <1>2, <1>3, <1>4, <1>5 DEF AdapterInv

-----------------------------------------------------------------------------
(* Reports and reporters. *)

LEMMA ReportType ==
    \A s \in ExecStatuses, l \in Capabilities \cup {"n/a"}, e \in BOOLEAN, y \in BOOLEAN :
        Report(s, l, e, y) \in Reports
BY DEF Report, Reports

LEMMA WaitingIsNoReport == \A report \in Reports : report # Waiting /\ report.is = "report"
<1>1. \A report \in Reports : report.is # Waiting.is
  BY DEF Reports, Waiting
<1> QED BY <1>1 DEF Reports

LEMMA NoReports ==
    /\ Idle # Waiting /\ Dropped # Waiting
    /\ Idle.is # "report" /\ Waiting.is # "report" /\ Dropped.is # "report"
<1>1. Idle.is # Waiting.is /\ Dropped.is # Waiting.is
  BY DEF Idle, Waiting, Dropped
<1> QED BY <1>1 DEF Idle, Waiting, Dropped

-----------------------------------------------------------------------------
(* execute() *)

\* Neither the calls of execute() nor the stream touch what reports are made of.
LEMMA ReportsStay ==
    ASSUME AdapterInv, UNCHANGED <<loopVars, slot>>,
           activeExecId # None => activeExecId' = activeExecId
    PROVE  LoopIsConsistent' /\ ReportIsConsistent' /\ ErrorsHaveOrigin'
<1>1. LoopIsConsistent'
  BY DEF AdapterInv, LoopIsConsistent, loopVars
<1>2. ReportIsConsistent'
  BY DEF AdapterInv, ReportIsConsistent
<1>3. ErrorsHaveOrigin'
  BY DEF AdapterInv, ErrorsHaveOrigin, loopVars
<1> QED BY <1>1, <1>2, <1>3

LEMMA RefusalKeeps ==
    ASSUME AdapterInv, NEW i \in Execs, future[i] = "none", Refuses(i),
           activeExecId' \in {activeExecId, i},
           activeExecId # None => activeExecId' = activeExecId,
           poisoned' \in BOOLEAN,
           UNCHANGED <<result, streamOpen, queue, loopVars, slot>>
    PROVE  AdapterInv'
<1>1. TypeOK'
  BY DEF AdapterInv, TypeOK, Refuses, loopVars
<1>2. PendingIsActive'
  BY AdapterAssumption DEF AdapterInv, PendingIsActive, TypeOK, Refuses
<1>3. ReporterIsQueued'
  BY DEF AdapterInv, ReporterIsQueued, Reporters, TypeOK, Refuses
<1>4. LoopIsConsistent' /\ ReportIsConsistent' /\ ErrorsHaveOrigin'
  BY ReportsStay
<1> QED BY <1>1, <1>2, <1>3, <1>4 DEF AdapterInv

LEMMA ExecuteKeeps ==
    ASSUME AdapterInv, NEW i \in Execs, Execute(i)
    PROVE  AdapterInv'
<1>1. TypeOK'
  BY DEF AdapterInv, TypeOK, Execute, TakesTurn, loopVars
<1>2. PendingIsActive'
  BY AdapterAssumption DEF AdapterInv, PendingIsActive, TypeOK, Execute, TakesTurn
<1>3. ReporterIsQueued'
  BY DEF AdapterInv, ReporterIsQueued, Reporters, TypeOK, Execute, TakesTurn
<1>4. LoopIsConsistent' /\ ReportIsConsistent' /\ ErrorsHaveOrigin'
  BY ReportsStay DEF Execute, TakesTurn
<1> QED BY <1>1, <1>2, <1>3, <1>4 DEF AdapterInv

-----------------------------------------------------------------------------
(* The stream. *)

\* An event at the end of a stream leaves those before it.
LEMMA ReportersGrow ==
    ASSUME TypeOK, NEW i \in Execs, NEW kind, NEW from, Enqueue(i, kind, from)
    PROVE  /\ \A j \in Execs : Reporters(j) \subseteq Reporters(j)'
           /\ from \in Reporters(i)'
<1>1. queue[i] \in Seq(Events) /\ queue'[i] = Append(queue[i], [kind |-> kind, from |-> from])
  BY DEF Enqueue, TypeOK
<1>2. from \in Reporters(i)'
  <2>1. Len(queue[i]) + 1 \in DOMAIN queue'[i] /\ queue'[i][Len(queue[i]) + 1].from = from
    BY <1>1
  <2> QED BY <2>1 DEF Reporters
<1>3. Reporters(i) \subseteq Reporters(i)'
  <2>1. \A k \in DOMAIN queue[i] : k \in DOMAIN queue'[i] /\ queue'[i][k] = queue[i][k]
    BY <1>1
  <2> QED BY <2>1 DEF Reporters
<1>4. \A j \in Execs : j # i => Reporters(j)' = Reporters(j)
  BY DEF Enqueue, TypeOK, Reporters
<1> QED BY <1>2, <1>3, <1>4

LEMMA EnqueueKeeps ==
    ASSUME AdapterInv, NEW i \in Execs, NEW kind \in Kinds, NEW from \in Requesters \cup {None},
           Enqueue(i, kind, from),
           \/ from = None /\ UNCHANGED slot
           \/ from \in Requesters /\ slot' = [slot EXCEPT ![from] = Waiting]
    PROVE  AdapterInv'
<1>1. TypeOK'
  <2>1. [kind |-> kind, from |-> from] \in Events
    BY DEF Events
  <2>2. queue' \in [Execs -> Seq(Events)]
    BY <2>1 DEF AdapterInv, TypeOK, Enqueue
  <2>3. slot' \in [Requesters -> Reports \cup {Idle, Waiting, Dropped}]
    BY DEF AdapterInv, TypeOK
  <2> QED BY <2>2, <2>3 DEF AdapterInv, TypeOK, Enqueue, dataVars, loopVars
<1>2. PendingIsActive'
  BY DEF AdapterInv, PendingIsActive, Enqueue, dataVars
<1>3. ReporterIsQueued'
  <2> SUFFICES ASSUME NEW r \in Requesters, slot'[r] = Waiting
               PROVE  \E j \in Execs : future'[j] = "pending" /\ r \in Reporters(j)'
    BY DEF ReporterIsQueued
  <2>1. CASE r = from
    BY <2>1, ReportersGrow DEF AdapterInv, Enqueue
  <2>2. CASE r # from
    <3>1. slot[r] = Waiting
      BY <2>2 DEF AdapterInv, TypeOK
    <3>2. PICK j \in Execs : future[j] = "pending" /\ r \in Reporters(j)
      BY <3>1 DEF AdapterInv, ReporterIsQueued
    <3> QED BY <3>2, ReportersGrow DEF AdapterInv, Enqueue
  <2> QED BY <2>1, <2>2
<1>4. LoopIsConsistent'
  BY DEF AdapterInv, LoopIsConsistent, Enqueue, loopVars
<1>5. \A r \in Requesters : slot'[r].is = "report" => slot'[r] = slot[r]
  BY NoReports DEF AdapterInv, TypeOK
<1>6. ReportIsConsistent'
  BY <1>5 DEF AdapterInv, ReportIsConsistent
<1>7. ErrorsHaveOrigin'
  BY <1>5 DEF AdapterInv, ErrorsHaveOrigin, Enqueue, dataVars, loopVars
<1> QED BY <1>1, <1>2, <1>3, <1>4, <1>6, <1>7 DEF AdapterInv

LEMMA CloseStreamKeeps ==
    ASSUME AdapterInv, NEW i \in Execs, CloseStream(i)
    PROVE  AdapterInv'
<1>1. TypeOK'
  BY DEF AdapterInv, TypeOK, CloseStream, dataVars, loopVars
<1>2. PendingIsActive' /\ ReporterIsQueued'
  BY DEF AdapterInv, PendingIsActive, ReporterIsQueued, Reporters, CloseStream, dataVars
<1>3. LoopIsConsistent' /\ ReportIsConsistent' /\ ErrorsHaveOrigin'
  BY ReportsStay DEF CloseStream, dataVars
<1> QED BY <1>1, <1>2, <1>3 DEF AdapterInv

-----------------------------------------------------------------------------
(* The future. *)

\* The reporter of an event that is handled is served; the others stay queued.
LEMMA AnswerServes ==
    ASSUME AdapterInv, NEW i \in Execs, NEW kinds, TakesEvent(i, kinds),
           NEW a \in Reports \cup {Dropped}, a # Waiting, Answer(i, a),
           UNCHANGED future
    PROVE  /\ queue' \in [Execs -> Seq(Events)]
           /\ slot' \in [Requesters -> Reports \cup {Idle, Waiting, Dropped}]
           /\ \A r \in Requesters : slot'[r] = slot[r] \/ slot'[r] = a
           /\ ReporterIsQueued'
<1>1. queue[i] \in Seq(Events) /\ queue[i] # <<>> /\ queue'[i] = Tail(queue[i])
  BY DEF AdapterInv, TypeOK, TakesEvent
<1>2. queue' \in [Execs -> Seq(Events)]
  BY <1>1 DEF AdapterInv, TypeOK, TakesEvent
<1>3. /\ slot' \in [Requesters -> Reports \cup {Idle, Waiting, Dropped}]
      /\ \A r \in Requesters : slot'[r] = slot[r] \/ slot'[r] = a
  BY DEF AdapterInv, TypeOK, Answer
<1>4. ReporterIsQueued'
  <2> SUFFICES ASSUME NEW r \in Requesters, slot'[r] = Waiting
               PROVE  \E j \in Execs : future'[j] = "pending" /\ r \in Reporters(j)'
    BY DEF ReporterIsQueued
  <2>1. slot[r] = Waiting /\ r # Head(queue[i]).from
    BY DEF Answer
  <2>2. PICK j \in Execs : future[j] = "pending" /\ r \in Reporters(j)
    BY <2>1 DEF AdapterInv, ReporterIsQueued
  <2>3. r \in Reporters(j)'
    <3>1. CASE j # i
      BY <2>2, <3>1 DEF AdapterInv, TypeOK, TakesEvent, Reporters
    <3>2. CASE j = i
      <4>1. PICK k \in DOMAIN queue[i] : r = queue[i][k].from
        BY <2>2, <3>2 DEF Reporters
      <4>2. k # 1 /\ k \in 1..Len(queue[i])
        BY <1>1, <2>1, <4>1
      <4>3. k - 1 \in DOMAIN queue'[i] /\ queue'[i][k - 1] = queue[i][k]
        BY <1>1, <4>2
      <4> QED BY <3>2, <4>1, <4>3 DEF Reporters
    <3> QED BY <3>1, <3>2
  <2> QED BY <2>2, <2>3
<1> QED BY <1>2, <1>3, <1>4

\* One event of the only execution is handled, with the report or without.
LEMMA HandlingKeeps ==
    ASSUME AdapterInv, NEW i \in Execs, NEW kinds, TakesEvent(i, kinds),
           NEW a \in Reports \cup {Dropped}, a # Waiting, Answer(i, a),
           UNCHANGED <<dataVars, future, result, streamOpen>>,
           NEW s \in ExecStatuses, execStatus' = [execStatus EXCEPT ![i] = s],
           NEW l \in Capabilities, lastKind' = [lastKind EXCEPT ![i] = l],
           NEW f \in BOOLEAN, failedStop' = [failedStop EXCEPT ![i] = f],
           failedStop[i] => f,
           l = "Stop" /\ s # "Stopped" => f,
           l \in Unsupported \ {"Resume"} => s = l,
           s = "Stopped" => l = "Stop",
           a.is = "report" =>
                /\ a.errors => f
                /\ a.last = "Stop" /\ a.status # "Stopped" => a.errors
                /\ a.last \in Unsupported \ {"Resume"} => a.status = a.last
                /\ a.status = "Stopped" => a.last \in {"Stop", "n/a"}
                /\ a.reply => a.status = "Stopped"
    PROVE  AdapterInv'
<1>1. TypeOK'
  BY AnswerServes DEF AdapterInv, TypeOK, dataVars
<1>2. PendingIsActive'
  BY DEF AdapterInv, PendingIsActive, dataVars
<1>3. ReporterIsQueued'
  BY AnswerServes
<1>4. LoopIsConsistent'
  BY DEF AdapterInv, LoopIsConsistent, TypeOK
<1>5. ReportIsConsistent'
  BY AnswerServes DEF AdapterInv, ReportIsConsistent
<1>6. ErrorsHaveOrigin'
  <2>1. activeExecId = i /\ activeExecId' = i /\ i # None
    BY AdapterAssumption DEF AdapterInv, PendingIsActive, TakesEvent, dataVars
  <2>2. failedStop'[i] = f
    BY DEF AdapterInv, TypeOK
  <2> QED BY <2>1, <2>2, AnswerServes DEF AdapterInv, ErrorsHaveOrigin
<1> QED BY <1>1, <1>2, <1>3, <1>4, <1>5, <1>6 DEF AdapterInv

\* The future that is gone takes its reporters with it, and only those.
LEMMA GoneKeeps ==
    ASSUME AdapterInv, NEW i \in Execs, NEW how \in {"done", "dropped"},
           NEW value \in Results \cup {None}, Gone(i, how, value), poisoned' \in BOOLEAN
    PROVE  AdapterInv'
<1>1. TypeOK'
  BY DEF AdapterInv, TypeOK, Gone, loopVars
<1>2. PendingIsActive'
  BY DEF AdapterInv, PendingIsActive, TypeOK, Gone
<1>3. ReporterIsQueued'
  <2> SUFFICES ASSUME NEW r \in Requesters, slot'[r] = Waiting
               PROVE  \E j \in Execs : future'[j] = "pending" /\ r \in Reporters(j)'
    BY DEF ReporterIsQueued
  <2>1. slot[r] = Waiting /\ r \notin Reporters(i)
    BY NoReports DEF Gone
  <2>2. PICK j \in Execs : future[j] = "pending" /\ r \in Reporters(j)
    BY <2>1 DEF AdapterInv, ReporterIsQueued
  <2> QED BY <2>1, <2>2 DEF AdapterInv, TypeOK, Gone, Reporters
<1>4. LoopIsConsistent'
  BY DEF AdapterInv, LoopIsConsistent, Gone, loopVars
<1>5. \A r \in Requesters : slot'[r].is = "report" => slot'[r] = slot[r]
  BY NoReports DEF Gone
<1>6. ReportIsConsistent'
  BY <1>5 DEF AdapterInv, ReportIsConsistent
<1>7. ErrorsHaveOrigin'
  BY <1>5 DEF AdapterInv, ErrorsHaveOrigin, Gone, loopVars
<1> QED BY <1>1, <1>2, <1>3, <1>4, <1>6, <1>7 DEF AdapterInv

-----------------------------------------------------------------------------
(* The steps of the control loop. *)

LEMMA ReportStatusKeeps ==
    ASSUME AdapterInv, NEW i \in Execs, HandleReportStatus(i)
    PROVE  AdapterInv'
<1> DEFINE a == Report(execStatus[i], lastKind[i], failedStop[i], FALSE)
<1>1. /\ execStatus[i] \in ExecStatuses /\ lastKind[i] \in Capabilities /\ failedStop[i] \in BOOLEAN
      /\ execStatus' = [execStatus EXCEPT ![i] = execStatus[i]]
      /\ lastKind' = [lastKind EXCEPT ![i] = lastKind[i]]
      /\ failedStop' = [failedStop EXCEPT ![i] = failedStop[i]]
  BY DEF AdapterInv, TypeOK, HandleReportStatus, loopVars
<1>2. /\ a \in Reports /\ a # Waiting
      /\ a.status = execStatus[i] /\ a.last = lastKind[i] /\ a.errors = failedStop[i] /\ a.reply = FALSE
  <2>1. a \in Reports
    BY <1>1, ReportType, Zenon
  <2> QED BY <1>1, <2>1, WaitingIsNoReport DEF Report
<1>3. /\ lastKind[i] = "Stop" /\ execStatus[i] # "Stopped" => failedStop[i]
      /\ lastKind[i] \in Unsupported \ {"Resume"} => execStatus[i] = lastKind[i]
      /\ execStatus[i] = "Stopped" => lastKind[i] = "Stop"
  BY DEF AdapterInv, LoopIsConsistent
<1>4. TakesEvent(i, {"ReportStatus"}) /\ Answer(i, a) /\ UNCHANGED <<dataVars, future, result, streamOpen>>
  BY DEF HandleReportStatus
<1> HIDE DEF a
<1> QED BY <1>1, <1>2, <1>3, <1>4, HandlingKeeps

LEMMA StopKeeps ==
    ASSUME AdapterInv, NEW i \in Execs, NEW withReply \in BOOLEAN, HandleStop(i, withReply)
    PROVE  AdapterInv'
<1> DEFINE a == IF withReply THEN Report("Stopped", "n/a", FALSE, TRUE) ELSE Dropped
<1>1. /\ failedStop[i] \in BOOLEAN /\ "Stopped" \in ExecStatuses /\ "Stop" \in Capabilities
      /\ failedStop' = [failedStop EXCEPT ![i] = failedStop[i]]
  BY DEF AdapterInv, TypeOK, HandleStop, ExecStatuses, Capabilities
<1>2. /\ a \in Reports \cup {Dropped} /\ a # Waiting
      /\ a.is = "report" => a.status = "Stopped" /\ a.last = "n/a" /\ a.errors = FALSE
  <2>1. CASE withReply
    <3>1. Report("Stopped", "n/a", FALSE, TRUE) \in Reports
      BY <1>1, ReportType, Zenon
    <3> QED BY <2>1, <3>1, WaitingIsNoReport DEF Report
  <2>2. CASE ~withReply
    BY <2>2, NoReports
  <2> QED BY <2>1, <2>2
<1>3. "Stop" \notin Unsupported /\ "n/a" \notin Unsupported
  BY AdapterAssumption
<1>4. /\ TakesEvent(i, {"Stop"}) /\ Answer(i, a) /\ UNCHANGED <<dataVars, future, result, streamOpen>>
      /\ execStatus' = [execStatus EXCEPT ![i] = "Stopped"]
      /\ lastKind' = [lastKind EXCEPT ![i] = "Stop"]
  BY DEF HandleStop
<1> HIDE DEF a
<1> QED BY <1>1, <1>2, <1>3, <1>4, HandlingKeeps

LEMMA StopFailsKeeps ==
    ASSUME AdapterInv, NEW i \in Execs, HandleStopFails(i)
    PROVE  AdapterInv'
<1> DEFINE a == Report(execStatus[i], "n/a", TRUE, FALSE)
<1>1. /\ execStatus[i] \in ExecStatuses /\ "Stop" \in Capabilities
      /\ execStatus' = [execStatus EXCEPT ![i] = execStatus[i]]
  BY DEF AdapterInv, TypeOK, HandleStopFails, Capabilities
<1>2. /\ a \in Reports /\ a # Waiting
      /\ a.status = execStatus[i] /\ a.last = "n/a" /\ a.errors = TRUE /\ a.reply = FALSE
  <2>1. a \in Reports
    BY <1>1, ReportType, Zenon
  <2> QED BY <1>1, <2>1, WaitingIsNoReport DEF Report
<1>3. "Stop" \notin Unsupported /\ "n/a" \notin Unsupported
  BY AdapterAssumption
<1>4. /\ TakesEvent(i, {"Stop"}) /\ Answer(i, a) /\ UNCHANGED <<dataVars, future, result, streamOpen>>
      /\ lastKind' = [lastKind EXCEPT ![i] = "Stop"]
      /\ failedStop' = [failedStop EXCEPT ![i] = TRUE]
  BY DEF HandleStopFails
<1> HIDE DEF a
<1> QED BY <1>1, <1>2, <1>3, <1>4, HandlingKeeps

LEMMA UnsupportedKeeps ==
    ASSUME AdapterInv, NEW i \in Execs, HandleUnsupported(i)
    PROVE  AdapterInv'
<1> DEFINE kind == Head(queue[i]).kind
<1>1. /\ kind \in Unsupported /\ kind \in ExecStatuses /\ kind \in Capabilities
      /\ kind # "Stopped" /\ kind # "Stop"
  BY AdapterAssumption DEF HandleUnsupported, TakesEvent, ExecStatuses, Capabilities
<1>2. failedStop[i] \in BOOLEAN /\ failedStop' = [failedStop EXCEPT ![i] = failedStop[i]]
  BY DEF AdapterInv, TypeOK, HandleUnsupported
<1>3. /\ TakesEvent(i, Unsupported) /\ Answer(i, Dropped)
      /\ UNCHANGED <<dataVars, future, result, streamOpen>>
      /\ execStatus' = [execStatus EXCEPT ![i] = kind]
      /\ lastKind' = [lastKind EXCEPT ![i] = kind]
  BY DEF HandleUnsupported
<1> HIDE DEF kind
<1> QED BY <1>1, <1>2, <1>3, NoReports, HandlingKeeps

LEMMA EndKeeps ==
    ASSUME AdapterInv, NEW i \in Execs,
           ControlEnds(i) \/ CallbackPanics(i) \/ OperationEnds(i) \/ DropFuture(i)
    PROVE  AdapterInv'
<1>1. poisoned' \in BOOLEAN
  BY DEF AdapterInv, TypeOK, ControlEnds, CallbackPanics, OperationEnds, DropFuture
<1>2. PICK how \in {"done", "dropped"}, value \in Results \cup {None} : Gone(i, how, value)
  BY DEF ControlEnds, CallbackPanics, OperationEnds, DropFuture, Results
<1> QED BY <1>1, <1>2, GoneKeeps

LEMMA StepKeeps == AdapterInv /\ [Next]_vars => AdapterInv'
<1> SUFFICES ASSUME AdapterInv, [Next]_vars PROVE AdapterInv'
  OBVIOUS
<1>1. CASE UNCHANGED vars
  BY <1>1 DEF AdapterInv, TypeOK, PendingIsActive, ReporterIsQueued, Reporters, LoopIsConsistent,
        ReportIsConsistent, ErrorsHaveOrigin, vars, dataVars, loopVars
<1>2. ASSUME NEW i \in Execs,
             ExecutePoisoned(i) \/ ExecuteRefused(i) \/ StartFails(i) \/ StartPanics(i)
      PROVE  AdapterInv'
  <2>1. /\ future[i] = "none" /\ Refuses(i)
        /\ activeExecId' \in {activeExecId, i}
        /\ activeExecId # None => activeExecId' = activeExecId
        /\ poisoned' \in BOOLEAN
        /\ UNCHANGED <<result, streamOpen, queue, loopVars, slot>>
    BY <1>2 DEF AdapterInv, TypeOK, ExecutePoisoned, ExecuteRefused, StartFails, StartPanics, TakesTurn, dataVars
  <2> QED BY <2>1, RefusalKeeps
<1>3. ASSUME NEW i \in Execs, NEW kind \in Kinds, Send(i, kind)
      PROVE  AdapterInv'
  BY <1>3, EnqueueKeeps DEF Send
<1>4. ASSUME NEW i \in Execs, NEW r \in Requesters, NEW kind \in Kinds, SendWithReporter(r, i, kind)
      PROVE  AdapterInv'
  BY <1>4, EnqueueKeeps DEF SendWithReporter
<1>5. ASSUME NEW i \in Execs, LoopStep(i) \/ OperationEnds(i) \/ DropFuture(i)
      PROVE  AdapterInv'
  BY <1>5, ReportStatusKeeps, StopKeeps, StopFailsKeeps, UnsupportedKeeps, EndKeeps DEF LoopStep
<1> QED BY <1>1, <1>2, <1>3, <1>4, <1>5, ExecuteKeeps, CloseStreamKeeps DEF Next, FutureStep

-----------------------------------------------------------------------------
(* The theorems. *)

\* The inductive invariant of the adapter holds in every reachable state.
THEOREM AdapterInvariance == Spec => []AdapterInv
<1> QED BY InitAdapterInv, StepKeeps, PTL DEF Spec

\* The variables keep to their types.
THEOREM AdapterTypeCorrect == Spec => []TypeOK
<1>1. AdapterInv => TypeOK
  BY DEF AdapterInv
<1> QED BY AdapterInvariance, <1>1, PTL

\* A SimpleOperation never gets executed concurrently, because a pending future
\* is the one whose identifier is stored.
THEOREM NeverTwoFutures == Spec => []NeverConcurrent
<1>1. AdapterInv => NeverConcurrent
  BY DEF AdapterInv, PendingIsActive, NeverConcurrent
<1> QED BY AdapterInvariance, <1>1, PTL

\* No path through the control loop loses a status reporter.
THEOREM NoReporterIsLost == Spec => []ReporterIsQueued
<1>1. AdapterInv => ReporterIsQueued
  BY DEF AdapterInv
<1> QED BY AdapterInvariance, <1>1, PTL

\* A report does not contradict itself.
THEOREM ReportsAddUp == Spec => []ReportIsConsistent
<1>1. AdapterInv => ReportIsConsistent
  BY DEF AdapterInv
<1> QED BY AdapterInvariance, <1>1, PTL

\* Only the answer to a status request names a last capability, and it tells of
\* the errors the control loop has kept.
LEMMA NewReport ==
    ASSUME AdapterInv, [Next]_vars, NEW r \in Requesters,
           slot'[r] # slot[r], slot'[r].is = "report", slot'[r].last # "n/a"
    PROVE  \E i \in Execs : future[i] = "pending" /\ slot'[r].errors = failedStop[i]
<1>1. slot' # slot
  OBVIOUS
<1>2. \E i \in Execs :
         \/ \E q \in Requesters, kind \in Kinds : SendWithReporter(q, i, kind)
         \/ LoopStep(i) \/ OperationEnds(i) \/ DropFuture(i)
  BY <1>1 DEF Next, vars, FutureStep, ExecutePoisoned, ExecuteRefused, StartFails, StartPanics, Execute,
        Send, CloseStream
<1>3. PICK i \in Execs :
         \/ \E q \in Requesters, kind \in Kinds : SendWithReporter(q, i, kind)
         \/ LoopStep(i) \/ OperationEnds(i) \/ DropFuture(i)
  BY <1>2
<1>4. CASE \E q \in Requesters, kind \in Kinds : SendWithReporter(q, i, kind)
  BY <1>4, NoReports DEF AdapterInv, TypeOK, SendWithReporter
<1>5. CASE ControlEnds(i) \/ CallbackPanics(i) \/ OperationEnds(i) \/ DropFuture(i)
  <2>1. slot'[r] = Dropped
    BY <1>5 DEF ControlEnds, CallbackPanics, OperationEnds, DropFuture, Gone
  <2> QED BY <2>1, NoReports
<1>6. CASE HandleUnsupported(i)
  <2>1. slot'[r] = Dropped
    BY <1>6 DEF HandleUnsupported, Answer
  <2> QED BY <2>1, NoReports
<1>7. CASE HandleStopFails(i) \/ \E withReply \in BOOLEAN : HandleStop(i, withReply)
  <2>1. \/ slot'[r] = Report(execStatus[i], "n/a", TRUE, FALSE)
        \/ slot'[r] = Report("Stopped", "n/a", FALSE, TRUE)
        \/ slot'[r] = Dropped
    BY <1>7 DEF HandleStopFails, HandleStop, Answer
  <2> QED BY <2>1, NoReports DEF Report
<1>8. CASE HandleReportStatus(i)
  <2>1. slot'[r] = Report(execStatus[i], lastKind[i], failedStop[i], FALSE) /\ future[i] = "pending"
    BY <1>8 DEF HandleReportStatus, Answer, TakesEvent
  <2> QED BY <2>1 DEF Report
<1> QED BY <1>3, <1>4, <1>5, <1>6, <1>7, <1>8 DEF LoopStep

\* After a requester was told of a failed stop every status report has errors.
THEOREM ErrorsStay == Spec => ErrorsAreKept
<1>1. ASSUME AdapterInv, [Next]_vars, NEW r \in Requesters,
             slot'[r] # slot[r], slot'[r].is = "report", slot'[r].last # "n/a",
             NEW q \in Requesters, slot[q].is = "report", slot[q].errors
      PROVE  slot'[r].errors
  <2>1. PICK i \in Execs : future[i] = "pending" /\ slot'[r].errors = failedStop[i]
    BY <1>1, NewReport
  <2>2. activeExecId = i /\ failedStop[activeExecId]
    BY <1>1, <2>1 DEF AdapterInv, PendingIsActive, ErrorsHaveOrigin
  <2> QED BY <2>1, <2>2
<1>2. AdapterInv /\ [Next]_vars =>
        [\A r \in Requesters :
            (/\ slot'[r] # slot[r] /\ slot'[r].is = "report" /\ slot'[r].last # "n/a"
             /\ \E q \in Requesters : slot[q].is = "report" /\ slot[q].errors)
                => slot'[r].errors]_vars
  BY <1>1
<1> QED BY <1>2, AdapterInvariance, PTL DEF Spec, ErrorsAreKept

=============================================================================
