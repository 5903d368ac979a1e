----------------------------- MODULE EntityProofs -----------------------------
(***************************************************************************)
(* Theorems about Entity, for every number of callers, operations,         *)
(* executions and every channel capacity: the inductive invariant IInv and *)
(* what follows from it.                                                   *)
(***************************************************************************)
EXTENDS Entity, TLAPS

USE DEF Ids

-----------------------------------------------------------------------------
(* Replies. *)

TellsNoResult(c) == Confirms(c) \/ Refuses(c) \/ UNCHANGED reply

\* "ok" and "error" are replies, and not results.
LEMMA PlainReplies ==
    /\ [kind |-> "ok"] \in Replies /\ [kind |-> "error"] \in Replies
    /\ [kind |-> "ok"].kind # "result" /\ [kind |-> "error"].kind # "result"
BY DEF Replies

\* Such a step leaves the replies well typed and tells no caller a result.
LEMMA NoResultType ==
    ASSUME reply \in [Callers -> Replies], NEW c \in Callers, TellsNoResult(c)
    PROVE  /\ reply' \in [Callers -> Replies]
           /\ \A d \in Callers : reply'[d].kind = "result" => reply'[d] = reply[d]
<1>1. reply' \in [Callers -> Replies]
  BY PlainReplies DEF TypeOK, TellsNoResult, Confirms, Refuses
<1>2. ASSUME NEW d \in Callers, reply'[d].kind = "result"
      PROVE  reply'[d] = reply[d]
  <2>1. CASE d = c
    BY <1>2, <2>1, PlainReplies DEF TypeOK, TellsNoResult, Confirms, Refuses
  <2>2. CASE d # c
    BY <2>2 DEF TypeOK, TellsNoResult, Confirms, Refuses
  <2> QED BY <2>1, <2>2
<1> QED BY <1>1, <1>2

\* No future is revived, and none changes what it ended with.
FuturesMoveOn ==
    \A i \in Ids : task[i] = "finished" =>
        task'[i] = "finished" /\ outcome'[i] = outcome[i] /\ opOf'[i] = opOf[i]

ToldTruth ==
    \A d \in Callers : reply[d].kind = "result" => reply[d].value \in MayBeTold(reply[d].of)

\* What may be told of a future that is over is settled.
LEMMA SettledIsKept ==
    ASSUME FuturesMoveOn, NEW i \in Ids, task[i] = "finished"
    PROVE  task'[i] = "finished" /\ MayBeTold(i)' = MayBeTold(i)
BY DEF FuturesMoveOn, MayBeTold

\* A table whose new results are of futures that are over stays true.
LEMMA TableStaysTrue ==
    ASSUME IInv, FuturesMoveOn, ToldTruth',
           \A i \in Ids : entry'[i] = "completed" =>
                \/ entry[i] = "completed" /\ recorded'[i] = recorded[i]
                \/ task[i] = "finished" /\ recorded'[i] \in MayBeTold(i)
    PROVE  TruthfulResult'
<1>1. ASSUME NEW i \in Ids, entry'[i] = "completed"
      PROVE  recorded'[i] \in MayBeTold(i)' /\ task'[i] = "finished"
  <2>1. task[i] = "finished" /\ recorded'[i] \in MayBeTold(i)
    BY <1>1 DEF IInv, TruthfulResult
  <2> QED BY <2>1, SettledIsKept
<1> QED BY <1>1 DEF TruthfulResult, ToldTruth

\* What clients were told stays true in a step that tells no new result.
LEMMA ToldStaysTrue ==
    ASSUME IInv, NEW c \in Callers, TellsNoResult(c), FuturesMoveOn
    PROVE  reply' \in [Callers -> Replies] /\ ToldTruth' /\ ToldResultIsOver'
<1>1. reply \in [Callers -> Replies]
  BY DEF IInv, TypeOK
<1>2. /\ reply' \in [Callers -> Replies]
      /\ \A d \in Callers : reply'[d].kind = "result" => reply'[d] = reply[d]
  BY <1>1, NoResultType
<1>3. ASSUME NEW d \in Callers, reply'[d].kind = "result"
      PROVE  /\ reply'[d].value \in MayBeTold(reply[d].of)'
             /\ reply'[d] = reply[d] /\ task'[reply'[d].of] = "finished"
  <2>1. reply'[d] = reply[d]
    BY <1>2, <1>3
  <2>2. reply[d].of \in Ids
    BY <1>1, <1>3, <2>1 DEF Replies
  <2>3. task[reply[d].of] = "finished" /\ reply[d].value \in MayBeTold(reply[d].of)
    BY <1>3, <2>1 DEF IInv, TruthfulResult, ToldResultIsOver
  <2> QED BY <2>1, <2>2, <2>3, SettledIsKept
<1>4. ToldTruth'
  BY <1>3 DEF ToldTruth, MayBeTold
<1> QED BY <1>2, <1>3, <1>4 DEF ToldTruth, ToldResultIsOver

-----------------------------------------------------------------------------
(* The queue of a control channel. *)

\* Appending an event keeps every status request in the queue, and adds one if
\* that is what the event is.
LEMMA AppendReporters ==
    ASSUME NEW i \in Ids, NEW e \in Events, queue \in [Ids -> Seq(Events)],
           queue' = [queue EXCEPT ![i] = Append(@, e)]
    PROVE  /\ queue' \in [Ids -> Seq(Events)]
           /\ \A j \in Ids : Reporters(j) \subseteq Reporters(j)'
           /\ e.kind = "ReportStatus" => e.from \in Reporters(i)'
<1>1. queue' \in [Ids -> Seq(Events)]
  OBVIOUS
<1>2. \A j \in Ids : Reporters(j) \subseteq Reporters(j)'
  BY DEF Reporters
<1>3. e.kind = "ReportStatus" => e.from \in Reporters(i)'
  <2>1. /\ Len(queue[i]) + 1 \in DOMAIN queue'[i]
        /\ queue'[i][Len(queue[i]) + 1] = e
    OBVIOUS
  <2> QED BY <2>1 DEF Reporters
<1> QED BY <1>1, <1>2, <1>3

\* Taking the first event keeps every other status request.
LEMMA TailReporters ==
    ASSUME NEW i \in Ids, queue \in [Ids -> Seq(Events)], queue[i] # <<>>,
           queue' = [queue EXCEPT ![i] = Tail(@)]
    PROVE  /\ queue' \in [Ids -> Seq(Events)]
           /\ \A j \in Ids : j # i => Reporters(j)' = Reporters(j)
           /\ \A c \in Reporters(i) :
                \/ c \in Reporters(i)'
                \/ Head(queue[i]).kind = "ReportStatus" /\ Head(queue[i]).from = c
<1>1. queue' \in [Ids -> Seq(Events)]
  OBVIOUS
<1>2. \A j \in Ids : j # i => Reporters(j)' = Reporters(j)
  BY DEF Reporters
<1>3. ASSUME NEW c \in Reporters(i),
             ~(Head(queue[i]).kind = "ReportStatus" /\ Head(queue[i]).from = c)
      PROVE  c \in Reporters(i)'
  <2>1. PICK k \in DOMAIN queue[i] : queue[i][k].kind = "ReportStatus" /\ queue[i][k].from = c
    BY DEF Reporters
  <2>2. k # 1
    BY <1>3, <2>1
  <2>3. k - 1 \in DOMAIN queue'[i] /\ queue'[i][k - 1] = queue[i][k]
    BY <2>1, <2>2
  <2> QED BY <2>1, <2>3 DEF Reporters
<1> QED BY <1>1, <1>2, <1>3

\* Closing a channel is well typed.
LEMMA CloseControlType ==
    ASSUME TypeOK, NEW i \in Ids, CloseControl(i)
    PROVE  /\ rxOpen' \in [Ids -> BOOLEAN]
           /\ queue' \in [Ids -> Seq(Events)]
           /\ slot' \in [Callers -> Answers \cup {None}]
BY DEF TypeOK, CloseControl, Answers

\* A caller that still waits after a channel was closed waits on another one,
\* which the closing left alone.
LEMMA CloseControlWaiters ==
    ASSUME IInv, NEW i \in Ids, CloseControl(i),
           NEW d \in Callers, pc[d] = "await", slot'[d] = None, cur'[d] = cur[d]
    PROVE  /\ cur[d] \in Ids /\ cur[d] # i
           /\ rxOpen'[cur[d]]
           /\ task[cur[d]] = "running"
           /\ d \in Reporters(cur[d])'
<1>1. d \notin Reporters(i) /\ slot[d] = None
  BY EntityAssumption DEF CloseControl
<1>2. cur[d] \in Ids
  BY DEF IInv, CallersAreBusy
<1>3. cur[d] # i /\ rxOpen[cur[d]] /\ task[cur[d]] = "running" /\ d \in Reporters(cur[d])
  BY <1>1 DEF IInv, WaiterHasAnswerer
<1>4. rxOpen'[cur[d]] = rxOpen[cur[d]] /\ queue'[cur[d]] = queue[cur[d]]
  BY <1>2, <1>3 DEF IInv, CloseControl, TypeOK
<1>5. \A j \in Ids : queue'[j] = queue[j] => Reporters(j)' = Reporters(j)
  BY DEF Reporters
<1> QED BY <1>2, <1>3, <1>4, <1>5

-----------------------------------------------------------------------------
(* Steps of a caller. *)

\* A call that only answers (or kills the caller) preserves the invariant.
LEMMA ReplyOnlyStep ==
    ASSUME IInv, NEW c \in Callers, pc[c] = "idle",
           UNCHANGED <<tableVars, futureVars, poisoned, cur, want>>,
           TellsNoResult(c),
           UNCHANGED pc \/ pc' = [pc EXCEPT ![c] = "dead"]
    PROVE  IInv'
<1> USE DEF tableVars, futureVars
<1>1. reply' \in [Callers -> Replies] /\ ToldTruth' /\ ToldResultIsOver'
  <2>1. FuturesMoveOn
    BY DEF FuturesMoveOn
  <2> QED BY <2>1, ToldStaysTrue
<1>2. TypeOK'
  BY <1>1 DEF IInv, TypeOK
<1>3. TruthfulResult'
  BY <1>1 DEF IInv, TruthfulResult, ToldTruth, MayBeTold
<1>4. CallersAreBusy'
  BY DEF IInv, TypeOK, CallersAreBusy, BlocksOn
<1>5. WaiterHasAnswerer'
  BY DEF IInv, TypeOK, WaiterHasAnswerer, Reporters
<1>6. IdsAreFresh' /\ RunningIsListed' /\ ExclusiveIsListedOnce' /\ EndedHasOutcome' /\ ControlIsOwned'
  BY DEF IInv, IdsAreFresh, RunningIsListed, ExclusiveIsListedOnce, EndedHasOutcome, ControlIsOwned
<1> QED BY <1>1, <1>2, <1>3, <1>4, <1>5, <1>6 DEF IInv

\* Execute requests that leave no execution behind.
LEMMA ExecuteWithoutHandleStep ==
    ASSUME IInv, NEW c \in Callers, NEW op \in Ops,
           ExecuteFails(c, op) \/ ExecutePanics(c, op)
    PROVE  IInv'
<1>1. /\ pc[c] = "idle"
      /\ nextId' = nextId \/ (nextId <= MaxExecs /\ nextId' = nextId + 1)
      /\ TellsNoResult(c)
      /\ UNCHANGED <<entry, opOf, timed, recorded, task, outcome, rxOpen, queue, slot, cur, want>>
      /\ \/ UNCHANGED <<pc, poisoned>>
         \/ pc' = [pc EXCEPT ![c] = "dead"] /\ poisoned' = TRUE
  BY DEF ExecuteFails, ExecutePanics, MayExecute, Locks, TellsNoResult, futureVars
<1>2. reply' \in [Callers -> Replies] /\ ToldTruth' /\ ToldResultIsOver'
  <2>1. FuturesMoveOn
    BY <1>1 DEF FuturesMoveOn
  <2> QED BY <1>1, <2>1, ToldStaysTrue
<1>3. TypeOK'
  <2>1. nextId' \in 1..(MaxExecs + 1)
    BY <1>1, EntityAssumption DEF IInv, TypeOK
  <2>2. pc' \in [Callers -> {"idle", "blocking", "send", "await", "dead"}] /\ poisoned' \in BOOLEAN
    BY <1>1 DEF IInv, TypeOK
  <2> QED BY <1>1, <1>2, <2>1, <2>2 DEF IInv, TypeOK
<1>4. IdsAreFresh'
  BY <1>1 DEF IInv, TypeOK, IdsAreFresh
<1>5. TruthfulResult'
  BY <1>1, <1>2 DEF IInv, TruthfulResult, ToldTruth, MayBeTold
<1>6. CallersAreBusy'
  BY <1>1 DEF IInv, TypeOK, CallersAreBusy, BlocksOn
<1>7. WaiterHasAnswerer'
  BY <1>1 DEF IInv, TypeOK, WaiterHasAnswerer, Reporters
<1>8. RunningIsListed' /\ ExclusiveIsListedOnce' /\ EndedHasOutcome' /\ ControlIsOwned'
  BY <1>1 DEF IInv, RunningIsListed, ExclusiveIsListedOnce, EndedHasOutcome, ControlIsOwned
<1> QED BY <1>2, <1>3, <1>4, <1>5, <1>6, <1>7, <1>8 DEF IInv

\* A started execution: the exclusive check keeps the table free of a second
\* one, and the fresh identifier collides with nothing.
LEMMA ExecuteStartsStep ==
    ASSUME IInv, NEW c \in Callers, NEW op \in Ops,
           NEW withTimeout \in BOOLEAN, NEW keepsControl \in BOOLEAN,
           ExecuteStarts(c, op, withTimeout, keepsControl)
    PROVE  IInv'
<1> USE DEF ExecuteStarts, MayExecute, Locks
<1>1. nextId \in Ids /\ task[nextId] = "none" /\ entry[nextId] = "none" /\ pc[c] = "idle"
  BY EntityAssumption DEF IInv, TypeOK, IdsAreFresh
<1>2. reply' \in [Callers -> Replies] /\ ToldTruth' /\ ToldResultIsOver'
  <2>1. FuturesMoveOn
    BY <1>1 DEF IInv, TypeOK, FuturesMoveOn
  <2>2. TellsNoResult(c)
    BY DEF TellsNoResult
  <2> QED BY <2>1, <2>2, ToldStaysTrue
<1>3. TypeOK'
  <2>1. pc' \in [Callers -> {"idle", "blocking", "send", "await", "dead"}] /\ cur' \in [Callers -> Ids \cup {None}]
    BY <1>1 DEF IInv, TypeOK
  <2> QED BY <1>1, <1>2, <2>1, EntityAssumption DEF IInv, TypeOK
<1>4. IdsAreFresh'
  BY <1>1 DEF IInv, TypeOK, IdsAreFresh
<1>5. RunningIsListed' /\ EndedHasOutcome' /\ ControlIsOwned'
  BY <1>1 DEF IInv, TypeOK, RunningIsListed, EndedHasOutcome, ControlIsOwned
<1>6. ExclusiveIsListedOnce'
  BY <1>1 DEF IInv, TypeOK, ExclusiveIsListedOnce, HasEntry
<1>7. CallersAreBusy'
  <2>1. ASSUME NEW d \in Callers, pc'[d] \in {"blocking", "send", "await"}
        PROVE  cur'[d] \in Ids /\ (pc'[d] = "send" => want'[d] \in Requests)
    BY <1>1, <2>1 DEF IInv, TypeOK, CallersAreBusy
  <2>2. ASSUME NEW d \in Callers, pc'[d] = "blocking", d # c
        PROVE  /\ pc[d] = "blocking" /\ cur'[d] = cur[d] /\ cur[d] \in Ids /\ cur[d] # nextId
               /\ opOf'[cur[d]] \in SyncOps /\ task'[cur[d]] # "none" /\ entry'[cur[d]] = "running"
    BY <1>1, <2>2 DEF IInv, TypeOK, CallersAreBusy
  <2>3. pc'[c] = "blocking" =>
            /\ cur'[c] = nextId /\ opOf'[nextId] \in SyncOps
            /\ task'[nextId] # "none" /\ entry'[nextId] = "running"
    BY <1>1 DEF IInv, TypeOK
  <2>4. ASSUME NEW d \in Callers, NEW e \in Callers,
               pc'[d] = "blocking", pc'[e] = "blocking", cur'[d] = cur'[e]
        PROVE  d = e
    BY <2>2, <2>3, <2>4 DEF IInv, CallersAreBusy, BlocksOn
  <2> QED BY <2>1, <2>2, <2>3, <2>4 DEF CallersAreBusy, BlocksOn
<1>8. TruthfulResult'
  <2>1. \A i \in Ids : entry'[i] = "completed" => entry[i] = "completed" /\ recorded'[i] = recorded[i]
    BY <1>1 DEF IInv, TypeOK
  <2>2. FuturesMoveOn
    BY <1>1 DEF IInv, TypeOK, FuturesMoveOn
  <2> QED BY <1>2, <2>1, <2>2, TableStaysTrue
<1>9. WaiterHasAnswerer'
  <2> SUFFICES ASSUME NEW d \in Callers, pc'[d] = "await", slot'[d] = None
               PROVE  /\ rxOpen'[cur'[d]] /\ task'[cur'[d]] = "running"
                      /\ d \in Reporters(cur[d])' /\ cur'[d] = cur[d]
    BY DEF WaiterHasAnswerer
  <2>1. d # c /\ pc[d] = "await" /\ cur'[d] = cur[d] /\ slot[d] = None
    BY <1>1 DEF IInv, TypeOK
  <2>2. cur[d] \in Ids /\ cur[d] # nextId
    BY <1>1, <2>1 DEF IInv, CallersAreBusy, WaiterHasAnswerer
  <2>3. Reporters(cur[d])' = Reporters(cur[d])
    BY <2>1 DEF Reporters
  <2> QED BY <1>1, <2>1, <2>2, <2>3 DEF IInv, TypeOK, WaiterHasAnswerer
<1> QED BY <1>2, <1>3, <1>4, <1>5, <1>6, <1>7, <1>8, <1>9 DEF IInv

\* The caller that was blocked on a synchronous execution stores its result.
LEMMA StoreSyncResultStep ==
    ASSUME IInv, NEW c \in Callers, StoreSyncResult(c)
    PROVE  IInv'
<1>1. /\ cur[c] \in Ids /\ task[cur[c]] = "finished" /\ pc[c] = "blocking"
      /\ outcome[cur[c]] \in Outcomes
      /\ opOf[cur[c]] \in SyncOps /\ entry[cur[c]] = "running"
  BY DEF IInv, CallersAreBusy, EndedHasOutcome, StoreSyncResult
<1>2. /\ pc' = [pc EXCEPT ![c] = "idle"] /\ cur' = [cur EXCEPT ![c] = None]
      /\ UNCHANGED <<nextId, opOf, timed, task, outcome, rxOpen, queue, slot, poisoned, want>>
      /\ \/ UNCHANGED <<entry, recorded>>
         \/ /\ entry' = [entry EXCEPT ![cur[c]] = "completed"]
            /\ recorded' = [recorded EXCEPT ![cur[c]] = outcome[cur[c]]]
  BY <1>1 DEF StoreSyncResult, futureVars
<1>3. \A i \in Ids :
        \/ entry'[i] = entry[i] /\ recorded'[i] = recorded[i]
        \/ i = cur[c] /\ entry'[i] = "completed" /\ recorded'[i] = outcome[i]
  <2>1. CASE UNCHANGED <<entry, recorded>>
    BY <2>1
  <2>2. CASE /\ entry' = [entry EXCEPT ![cur[c]] = "completed"]
             /\ recorded' = [recorded EXCEPT ![cur[c]] = outcome[cur[c]]]
    BY <2>2 DEF IInv, TypeOK
  <2> QED BY <1>2, <2>1, <2>2
<1>4. reply' \in [Callers -> Replies] /\ ToldTruth' /\ ToldResultIsOver'
  <2>1. FuturesMoveOn
    BY <1>2 DEF FuturesMoveOn
  <2>2. TellsNoResult(c)
    BY DEF StoreSyncResult, TellsNoResult
  <2> QED BY <2>1, <2>2, ToldStaysTrue
<1>5. TypeOK'
  BY <1>1, <1>2, <1>4 DEF IInv, TypeOK
<1>6. IdsAreFresh'
  BY <1>3, <1>1, <1>2 DEF IInv, IdsAreFresh
<1>7. RunningIsListed'
  BY <1>1, <1>2 DEF IInv, TypeOK, RunningIsListed
<1>8. ExclusiveIsListedOnce'
  BY <1>1, <1>2 DEF IInv, TypeOK, ExclusiveIsListedOnce
<1>9. EndedHasOutcome' /\ ControlIsOwned'
  BY <1>2 DEF IInv, EndedHasOutcome, ControlIsOwned
<1>10. CallersAreBusy'
  <2>1. ASSUME NEW d \in Callers, pc'[d] \in {"blocking", "send", "await"}
        PROVE  /\ d # c /\ pc'[d] = pc[d] /\ cur'[d] = cur[d]
               /\ pc[d] = "blocking" => cur[d] # cur[c]
    BY <1>1, <1>2, <2>1 DEF IInv, TypeOK, CallersAreBusy, BlocksOn
  <2>2. \A i \in Ids : i # cur[c] => entry'[i] = entry[i]
    BY <1>2 DEF IInv, TypeOK
  <2> QED BY <1>2, <2>1, <2>2 DEF IInv, CallersAreBusy, BlocksOn
<1>11. TruthfulResult'
  <2>1. outcome[cur[c]] \in MayBeTold(cur[c])
    BY DEF MayBeTold
  <2>2. FuturesMoveOn
    BY <1>2 DEF FuturesMoveOn
  <2> QED BY <1>1, <1>3, <1>4, <2>1, <2>2, TableStaysTrue
<1>12. WaiterHasAnswerer'
  <2>1. \A i \in Ids : Reporters(i)' = Reporters(i)
    BY <1>2 DEF Reporters
  <2>2. ASSUME NEW d \in Callers, pc'[d] = "await"
        PROVE  pc[d] = "await" /\ cur'[d] = cur[d] /\ cur[d] \in Ids
    BY <1>2, <2>2 DEF IInv, TypeOK, CallersAreBusy
  <2> QED BY <1>2, <2>1, <2>2 DEF IInv, WaiterHasAnswerer
<1> QED BY <1>4, <1>5, <1>6, <1>7, <1>8, <1>9, <1>10, <1>11, <1>12 DEF IInv

\* A lookup that resolves an execution records what its future ended with.
LEMMA TryResolveTable ==
    ASSUME IInv, NEW i \in Ids, TryResolve(i)
    PROVE  /\ entry' \in [Ids -> {"none", "running", "completed"}]
           /\ recorded' \in [Ids -> Outcomes \cup {None}]
           /\ \A j \in Ids :
                \/ entry'[j] = entry[j] /\ recorded'[j] = recorded[j]
                \/ /\ opOf[j] \notin SyncOps /\ task[j] = "finished" /\ entry[j] = "running"
                   /\ entry'[j] = "completed" /\ recorded'[j] \in MayBeTold(j)
<1>1. CASE Resolvable(i)
  <2>1. PICK told \in MayBeTold(i) : recorded' = [recorded EXCEPT ![i] = told]
    BY <1>1 DEF TryResolve
  <2>2. /\ entry' = [entry EXCEPT ![i] = "completed"]
        /\ entry[i] = "running" /\ opOf[i] \notin SyncOps /\ task[i] = "finished"
    BY <1>1 DEF TryResolve, Resolvable
  <2>3. told \in Outcomes
    BY <2>2 DEF IInv, EndedHasOutcome, MayBeTold, Outcomes
  <2> QED BY <2>1, <2>2, <2>3 DEF IInv, TypeOK
<1>2. CASE ~Resolvable(i)
  <2>1. entry' = entry /\ recorded' = recorded
    BY <1>2 DEF TryResolve, IInv, TypeOK
  <2> QED BY <2>1 DEF IInv, TypeOK
<1> QED BY <1>1, <1>2

LEMMA GetResultStep ==
    ASSUME IInv, NEW c \in Callers, NEW i \in Ids, GetResult(c, i)
    PROVE  IInv'
<1>1. TryResolve(i) /\ UNCHANGED <<nextId, opOf, timed, task, outcome, rxOpen, queue, slot, poisoned, pc, cur, want>>
  BY DEF GetResult, futureVars
<1>2. reply' \in [Callers -> Replies] /\ ToldTruth' /\ ToldResultIsOver'
  <2>1. CASE TellsNoResult(c)
    <3>1. FuturesMoveOn
      BY <1>1 DEF FuturesMoveOn
    <3> QED BY <2>1, <3>1, ToldStaysTrue
  <2>2. CASE reply' = [reply EXCEPT ![c] = [kind |-> "result", of |-> i, value |-> recorded'[i]]]
             /\ entry'[i] = "completed"
    <3>1. recorded'[i] \in MayBeTold(i) /\ task[i] = "finished" /\ recorded'[i] \in Outcomes
      <4>1. recorded'[i] \in MayBeTold(i) /\ task[i] = "finished"
        BY <1>1, <2>2, TryResolveTable DEF IInv, TruthfulResult
      <4> QED BY <4>1 DEF IInv, EndedHasOutcome, MayBeTold, Outcomes
    <3>2. [kind |-> "result", of |-> i, value |-> recorded'[i]] \in Replies
      BY <3>1 DEF Replies
    <3>3. reply' \in [Callers -> Replies]
      BY <2>2, <3>2 DEF IInv, TypeOK
    <3>4. /\ \A d \in Callers : d # c => reply'[d] = reply[d]
          /\ reply'[c].of = i /\ reply'[c].value \in MayBeTold(i)
      BY <2>2, <3>1 DEF IInv, TypeOK
    <3> QED BY <1>1, <3>1, <3>3, <3>4 DEF IInv, TruthfulResult, ToldTruth, ToldResultIsOver, MayBeTold
  <2> QED BY <2>1, <2>2 DEF GetResult, TellsNoResult
<1>3. TypeOK'
  BY <1>1, <1>2, TryResolveTable DEF IInv, TypeOK
<1>4. IdsAreFresh' /\ RunningIsListed' /\ ExclusiveIsListedOnce' /\ EndedHasOutcome' /\ ControlIsOwned'
  BY <1>1, TryResolveTable DEF IInv, IdsAreFresh, RunningIsListed, ExclusiveIsListedOnce, EndedHasOutcome, ControlIsOwned
<1>5. CallersAreBusy'
  BY <1>1, TryResolveTable DEF IInv, CallersAreBusy, BlocksOn
<1>6. TruthfulResult'
  BY <1>1, <1>2, TryResolveTable DEF IInv, TruthfulResult, ToldTruth, MayBeTold
<1>7. WaiterHasAnswerer'
  BY <1>1 DEF IInv, WaiterHasAnswerer, Reporters
<1> QED BY <1>2, <1>3, <1>4, <1>5, <1>6, <1>7 DEF IInv

\* Only an execution that is over is taken out of the table.
LEMMA RemoveStep ==
    ASSUME IInv, NEW c \in Callers, NEW i \in Ids, Remove(c, i)
    PROVE  IInv'
<1>1. /\ entry' = [entry EXCEPT ![i] = "none"] /\ recorded' = [recorded EXCEPT ![i] = None]
      /\ UNCHANGED <<nextId, opOf, timed, task, outcome, rxOpen, queue, slot, poisoned, pc, cur, want>>
  BY DEF Remove, futureVars
<1>2. task[i] = "finished" /\ (entry[i] = "completed" \/ opOf[i] \notin SyncOps)
  BY DEF Remove, Resolvable, IInv, TruthfulResult
<1>3. reply' \in [Callers -> Replies] /\ ToldTruth' /\ ToldResultIsOver'
  <2>1. FuturesMoveOn
    BY <1>1 DEF FuturesMoveOn
  <2>2. TellsNoResult(c)
    BY DEF Remove, TellsNoResult
  <2> QED BY <2>1, <2>2, ToldStaysTrue
<1>4. TypeOK'
  BY <1>1, <1>3 DEF IInv, TypeOK
<1>5. IdsAreFresh' /\ RunningIsListed' /\ ExclusiveIsListedOnce'
  BY <1>1, <1>2 DEF IInv, TypeOK, IdsAreFresh, RunningIsListed, ExclusiveIsListedOnce
<1>6. EndedHasOutcome' /\ ControlIsOwned'
  BY <1>1 DEF IInv, EndedHasOutcome, ControlIsOwned
<1>7. CallersAreBusy'
  BY <1>1, <1>2 DEF IInv, TypeOK, CallersAreBusy, BlocksOn
<1>8. TruthfulResult'
  BY <1>1, <1>3 DEF IInv, TypeOK, TruthfulResult, ToldTruth, MayBeTold
<1>9. WaiterHasAnswerer'
  BY <1>1 DEF IInv, WaiterHasAnswerer, Reporters
<1> QED BY <1>3, <1>4, <1>5, <1>6, <1>7, <1>8, <1>9 DEF IInv

\* The steps of a control request between the lookup and the reply, apart from
\* the sending: the caller moves, the executions do not.
LEMMA CallerMovesStep ==
    ASSUME IInv, NEW c \in Callers, pc[c] # "blocking",
           UNCHANGED <<tableVars, task, outcome, rxOpen, queue, poisoned>>,
           \/ /\ pc' = [pc EXCEPT ![c] = "send"]
              /\ \E i \in Ids : cur' = [cur EXCEPT ![c] = i]
              /\ \E kind \in Requests : want' = [want EXCEPT ![c] = kind]
              /\ UNCHANGED slot
           \/ /\ pc' = [pc EXCEPT ![c] = "idle"] \/ pc' = [pc EXCEPT ![c] = "dead"]
              /\ cur' = [cur EXCEPT ![c] = None] /\ want' = [want EXCEPT ![c] = None]
              /\ UNCHANGED slot \/ slot' = [slot EXCEPT ![c] = None],
           TellsNoResult(c)
    PROVE  IInv'
<1> USE DEF tableVars
<1>1. reply' \in [Callers -> Replies] /\ ToldTruth' /\ ToldResultIsOver'
  <2>1. FuturesMoveOn
    BY DEF FuturesMoveOn
  <2> QED BY <2>1, ToldStaysTrue
<1>2. TypeOK'
  <2>1. pc' \in [Callers -> {"idle", "blocking", "send", "await", "dead"}]
    BY DEF IInv, TypeOK
  <2>2. cur' \in [Callers -> Ids \cup {None}]
    BY DEF IInv, TypeOK
  <2>3. want' \in [Callers -> Requests \cup {None}]
    <3>1. PICK w \in Requests \cup {None} : want' = [want EXCEPT ![c] = w]
      OBVIOUS
    <3> QED BY <3>1 DEF IInv, TypeOK
  <2>4. slot' \in [Callers -> Answers \cup {None}]
    BY DEF IInv, TypeOK
  <2> QED BY <1>1, <2>1, <2>2, <2>3, <2>4 DEF IInv, TypeOK
<1>3. CallersAreBusy'
  <2>1. ASSUME NEW d \in Callers, d # c
        PROVE  pc'[d] = pc[d] /\ cur'[d] = cur[d] /\ want'[d] = want[d]
    BY <2>1 DEF IInv, TypeOK
  <2>2. /\ pc'[c] # "blocking"
        /\ pc'[c] \in {"send", "await"} => cur'[c] \in Ids /\ want'[c] \in Requests
    BY DEF IInv, TypeOK
  <2> QED BY <2>1, <2>2 DEF IInv, CallersAreBusy, BlocksOn
<1>4. TruthfulResult'
  BY <1>1 DEF IInv, TruthfulResult, ToldTruth, MayBeTold
<1>5. WaiterHasAnswerer'
  <2>1. \A i \in Ids : Reporters(i)' = Reporters(i)
    BY DEF Reporters
  <2>2. ASSUME NEW d \in Callers, pc'[d] = "await"
        PROVE  pc[d] = "await" /\ cur'[d] = cur[d] /\ cur[d] \in Ids /\ slot'[d] = slot[d]
    BY <2>2 DEF IInv, TypeOK, CallersAreBusy
  <2> QED BY <2>1, <2>2 DEF IInv, WaiterHasAnswerer
<1>6. IdsAreFresh' /\ RunningIsListed' /\ ExclusiveIsListedOnce' /\ EndedHasOutcome' /\ ControlIsOwned'
  BY DEF IInv, IdsAreFresh, RunningIsListed, ExclusiveIsListedOnce, EndedHasOutcome, ControlIsOwned
<1> QED BY <1>1, <1>2, <1>3, <1>4, <1>5, <1>6 DEF IInv

\* A status request is in the queue of a live execution when its caller starts
\* to wait.
LEMMA SendEventStep ==
    ASSUME IInv, NEW c \in Callers, SendEvent(c)
    PROVE  IInv'
<1>1. PICK i \in Ids : i = cur[c]
  BY DEF SendEvent, IInv, CallersAreBusy
<1>2. PICK e \in Events : e = [kind |-> want[c], from |-> c]
  BY DEF SendEvent, IInv, CallersAreBusy, Events
<1>3. /\ pc[c] = "send" /\ rxOpen[i] /\ task[i] = "running"
      /\ queue' = [queue EXCEPT ![i] = Append(@, e)]
      /\ UNCHANGED <<nextId, entry, opOf, timed, recorded, task, outcome, rxOpen, poisoned>>
      /\ TellsNoResult(c)
      /\ \/ /\ e.kind = "ReportStatus" /\ e.from = c
            /\ pc' = [pc EXCEPT ![c] = "await"] /\ slot' = [slot EXCEPT ![c] = None]
            /\ UNCHANGED <<cur, want>>
         \/ Returns(c) /\ UNCHANGED slot
  BY <1>1, <1>2 DEF SendEvent, tableVars, TellsNoResult, IInv, ControlIsOwned
<1>4. /\ queue' \in [Ids -> Seq(Events)]
      /\ \A j \in Ids : Reporters(j) \subseteq Reporters(j)'
      /\ e.kind = "ReportStatus" => e.from \in Reporters(i)'
  <2>1. queue \in [Ids -> Seq(Events)]
    BY DEF IInv, TypeOK
  <2> QED BY <1>3, <2>1, AppendReporters
<1>5. reply' \in [Callers -> Replies] /\ ToldTruth' /\ ToldResultIsOver'
  <2>1. FuturesMoveOn
    BY <1>3 DEF FuturesMoveOn
  <2> QED BY <1>3, <2>1, ToldStaysTrue
<1>6. TypeOK'
  <2>1. pc' \in [Callers -> {"idle", "blocking", "send", "await", "dead"}]
    BY <1>3 DEF IInv, TypeOK, Returns
  <2>2. cur' \in [Callers -> Ids \cup {None}] /\ want' \in [Callers -> Requests \cup {None}]
    BY <1>3 DEF IInv, TypeOK, Returns
  <2>3. slot' \in [Callers -> Answers \cup {None}]
    BY <1>3 DEF IInv, TypeOK
  <2> QED BY <1>3, <1>4, <1>5, <2>1, <2>2, <2>3 DEF IInv, TypeOK
<1>7. CallersAreBusy'
  <2>1. ASSUME NEW d \in Callers, d # c
        PROVE  pc'[d] = pc[d] /\ cur'[d] = cur[d] /\ want'[d] = want[d]
    BY <1>3, <2>1 DEF IInv, TypeOK, Returns
  <2>2. /\ pc'[c] \notin {"blocking", "send"}
        /\ pc'[c] = "await" => cur'[c] \in Ids
    BY <1>1, <1>3 DEF IInv, TypeOK, Returns
  <2> QED BY <1>3, <2>1, <2>2 DEF IInv, CallersAreBusy, BlocksOn
<1>8. TruthfulResult'
  BY <1>3, <1>5 DEF IInv, TruthfulResult, ToldTruth, MayBeTold
<1>9. WaiterHasAnswerer'
  <2>1. ASSUME NEW d \in Callers, pc'[d] = "await", slot'[d] = None, d # c
        PROVE  pc[d] = "await" /\ cur'[d] = cur[d] /\ cur[d] \in Ids /\ slot[d] = None
    BY <1>3, <2>1 DEF IInv, TypeOK, CallersAreBusy, Returns
  <2>2. pc'[c] = "await" => cur'[c] = i /\ c \in Reporters(i)'
    BY <1>1, <1>3, <1>4 DEF IInv, TypeOK, Returns
  <2> QED BY <1>3, <1>4, <2>1, <2>2 DEF IInv, WaiterHasAnswerer
<1>10. IdsAreFresh' /\ RunningIsListed' /\ ExclusiveIsListedOnce' /\ EndedHasOutcome' /\ ControlIsOwned'
  BY <1>3 DEF IInv, IdsAreFresh, RunningIsListed, ExclusiveIsListedOnce, EndedHasOutcome, ControlIsOwned
<1> QED BY <1>5, <1>6, <1>7, <1>8, <1>9, <1>10 DEF IInv

-----------------------------------------------------------------------------
(* Steps of a future. *)

\* The operation takes an event: the caller whose status request it is gets an
\* answer, every other request stays in the queue.
LEMMA OpTakeEventStep ==
    ASSUME IInv, NEW i \in Ids, NEW answer \in Answers, OpTakeEvent(i, answer)
    PROVE  IInv'
<1>1. /\ queue[i] # <<>> /\ queue' = [queue EXCEPT ![i] = Tail(@)]
      /\ slot' = [slot EXCEPT ![Head(queue[i]).from] =
                      IF Head(queue[i]).kind = "ReportStatus" THEN answer ELSE @]
      /\ UNCHANGED <<nextId, entry, opOf, timed, recorded, task, outcome, rxOpen, poisoned, pc, cur, want, reply>>
  BY DEF OpTakeEvent, tableVars, callerVars
<1>2. Head(queue[i]) \in Events /\ Head(queue[i]).from \in Callers
  <2>1. queue[i] \in Seq(Events)
    BY DEF IInv, TypeOK
  <2>2. Head(queue[i]) \in Events
    BY <1>1, <2>1
  <2> QED BY <2>2 DEF Events
<1>3. /\ queue' \in [Ids -> Seq(Events)]
      /\ \A j \in Ids : j # i => Reporters(j)' = Reporters(j)
      /\ \A c \in Reporters(i) :
           \/ c \in Reporters(i)'
           \/ Head(queue[i]).kind = "ReportStatus" /\ Head(queue[i]).from = c
  BY <1>1, TailReporters DEF IInv, TypeOK
<1>4. TypeOK'
  BY <1>1, <1>2, <1>3 DEF IInv, TypeOK
<1>5. WaiterHasAnswerer'
  <2> SUFFICES ASSUME NEW d \in Callers, pc[d] = "await", slot'[d] = None
               PROVE  rxOpen[cur[d]] /\ task[cur[d]] = "running" /\ d \in Reporters(cur[d])'
    BY <1>1 DEF WaiterHasAnswerer
  <2>1. answer # None
    BY EntityAssumption DEF Answers
  <2>2. slot[d] = None /\ ~(Head(queue[i]).kind = "ReportStatus" /\ Head(queue[i]).from = d)
    BY <1>1, <1>2, <2>1 DEF IInv, TypeOK
  <2>3. cur[d] \in Ids /\ rxOpen[cur[d]] /\ task[cur[d]] = "running" /\ d \in Reporters(cur[d])
    BY <2>2 DEF IInv, WaiterHasAnswerer, CallersAreBusy
  <2>4. PICK j \in Ids : j = cur[d]
    BY <2>3
  <2>5. d \in Reporters(j)'
    BY <1>3, <2>2, <2>3, <2>4
  <2> QED BY <1>1, <2>3, <2>4, <2>5
<1>6. CallersAreBusy'
  BY <1>1 DEF IInv, CallersAreBusy, BlocksOn
<1>7. /\ IdsAreFresh' /\ RunningIsListed' /\ ExclusiveIsListedOnce' /\ EndedHasOutcome'
      /\ ControlIsOwned' /\ TruthfulResult' /\ ToldResultIsOver'
  BY <1>1 DEF IInv, IdsAreFresh, RunningIsListed, ExclusiveIsListedOnce, EndedHasOutcome,
              ControlIsOwned, TruthfulResult, ToldResultIsOver, MayBeTold
<1> QED BY <1>4, <1>5, <1>6, <1>7 DEF IInv

\* The operation drops its control, or its future is over: completed, panicked
\* or timed out.  Every waiting caller of that execution is answered.
LEMMA ControlClosesStep ==
    ASSUME IInv, NEW i \in Ids, task[i] = "running", CloseControl(i),
           UNCHANGED <<tableVars, poisoned, cur, want, reply>>,
           \/ UNCHANGED <<task, outcome>>
           \/ \E o \in Outcomes : Ends(i, o),
           \A c \in Callers : pc'[c] = pc[c] \/ pc'[c] = "dead",
           pc' \in [Callers -> {"idle", "blocking", "send", "await", "dead"}]
    PROVE  IInv'
<1> USE DEF tableVars
<1>1. \A j \in Ids : j # i => task'[j] = task[j] /\ outcome'[j] = outcome[j]
  BY DEF IInv, TypeOK, Ends
<1>2. \/ task'[i] = "running" /\ outcome'[i] = outcome[i]
      \/ task'[i] = "finished" /\ outcome'[i] \in Outcomes
  BY DEF IInv, TypeOK, Ends
<1>3. /\ rxOpen' \in [Ids -> BOOLEAN] /\ queue' \in [Ids -> Seq(Events)]
      /\ slot' \in [Callers -> Answers \cup {None}]
      /\ ~rxOpen'[i] /\ \A j \in Ids : j # i => rxOpen'[j] = rxOpen[j]
  BY CloseControlType DEF IInv, TypeOK, CloseControl
<1>4. TypeOK'
  <2>1. task' \in [Ids -> {"none", "running", "finished"}] /\ outcome' \in [Ids -> Outcomes \cup {None}]
    BY DEF IInv, TypeOK, Ends
  <2> QED BY <1>3, <2>1 DEF IInv, TypeOK
<1>5. IdsAreFresh' /\ RunningIsListed' /\ ExclusiveIsListedOnce'
  BY <1>1, <1>2 DEF IInv, IdsAreFresh, RunningIsListed, ExclusiveIsListedOnce
<1>6. EndedHasOutcome' /\ ControlIsOwned'
  BY <1>1, <1>2, <1>3 DEF IInv, EndedHasOutcome, ControlIsOwned
<1>7. CallersAreBusy'
  BY <1>1, <1>2 DEF IInv, CallersAreBusy, BlocksOn
<1>8. TruthfulResult' /\ ToldResultIsOver'
  <2>1. \A d \in Callers : reply[d].kind = "result" => reply[d].of \in Ids /\ reply[d].of # i
    BY DEF IInv, TypeOK, ToldResultIsOver, Replies
  <2>2. \A j \in Ids : j # i => MayBeTold(j)' = MayBeTold(j)
    BY <1>1 DEF MayBeTold
  <2>3. \A j \in Ids : entry[j] = "completed" => j # i
    BY DEF IInv, TruthfulResult
  <2>4. ASSUME NEW d \in Callers, reply[d].kind = "result"
        PROVE  reply[d].value \in MayBeTold(reply[d].of)' /\ task'[reply[d].of] = "finished"
    BY <1>1, <2>1, <2>2, <2>4 DEF IInv, TruthfulResult, ToldResultIsOver
  <2> QED BY <1>1, <2>2, <2>3, <2>4 DEF IInv, TruthfulResult, ToldResultIsOver, MayBeTold
<1>9. WaiterHasAnswerer'
  <2> SUFFICES ASSUME NEW d \in Callers, pc'[d] = "await", slot'[d] = None
               PROVE  rxOpen'[cur[d]] /\ task'[cur[d]] = "running" /\ d \in Reporters(cur[d])'
    BY DEF WaiterHasAnswerer
  <2>1. pc[d] = "await"
    BY DEF IInv
  <2>2. /\ cur[d] \in Ids /\ cur[d] # i /\ rxOpen'[cur[d]]
        /\ task[cur[d]] = "running" /\ d \in Reporters(cur[d])'
    BY <2>1, CloseControlWaiters
  <2> QED BY <1>1, <2>2
<1> QED BY <1>4, <1>5, <1>6, <1>7, <1>8, <1>9 DEF IInv

-----------------------------------------------------------------------------
(* The inductive invariant. *)

LEMMA InitIInv == Init => IInv
<1> SUFFICES ASSUME Init PROVE IInv
  OBVIOUS
<1> USE DEF Init
<1>1. TypeOK
  <2>1. nextId \in 1..(MaxExecs + 1)
    BY EntityAssumption
  <2>2. reply \in [Callers -> Replies]
    BY PlainReplies
  <2>3. queue \in [Ids -> Seq(Events)]
    OBVIOUS
  <2> QED BY <2>1, <2>2, <2>3 DEF TypeOK
<1>2. IdsAreFresh /\ RunningIsListed /\ ExclusiveIsListedOnce /\ EndedHasOutcome /\ ControlIsOwned
  BY DEF IdsAreFresh, RunningIsListed, ExclusiveIsListedOnce, EndedHasOutcome, ControlIsOwned
<1>3. CallersAreBusy /\ WaiterHasAnswerer
  BY DEF CallersAreBusy, WaiterHasAnswerer
<1>4. TruthfulResult /\ ToldResultIsOver
  BY PlainReplies DEF TruthfulResult, ToldResultIsOver
<1> QED BY <1>1, <1>2, <1>3, <1>4 DEF IInv

LEMMA CallerStepIInv ==
    ASSUME IInv, NEW c \in Callers, CallerStep(c)
    PROVE  IInv'
<1>1. CASE MutexPoisoned(c)
  BY <1>1, ReplyOnlyStep DEF MutexPoisoned, TellsNoResult
<1>2. CASE ListOperations(c)
  <2>1. /\ pc[c] = "idle" /\ TellsNoResult(c)
        /\ UNCHANGED <<tableVars, futureVars, poisoned, cur, want>>
        /\ UNCHANGED pc \/ pc' = [pc EXCEPT ![c] = "dead"]
    BY <1>2 DEF ListOperations, TellsNoResult
  <2> QED BY <2>1, ReplyOnlyStep
<1>3. CASE StoreSyncResult(c)
  BY <1>3, StoreSyncResultStep
<1>4. CASE SendFails(c)
  BY <1>4, CallerMovesStep DEF SendFails, Returns, TellsNoResult, futureVars
<1>5. CASE SendEvent(c)
  BY <1>5, SendEventStep
<1>6. CASE ReceiveStatus(c)
  <2>1. TellsNoResult(c)
    BY <1>6 DEF ReceiveStatus, TellsNoResult
  <2> QED BY <1>6, <2>1, CallerMovesStep DEF ReceiveStatus, Returns
<1>7. ASSUME NEW op \in Ops, ExecuteRefused(c, op)
      PROVE  IInv'
  BY <1>7, ReplyOnlyStep DEF ExecuteRefused, Locks, TellsNoResult
<1>8. ASSUME NEW op \in Ops, ExecuteFails(c, op) \/ ExecutePanics(c, op)
      PROVE  IInv'
  BY <1>8, ExecuteWithoutHandleStep
<1>9. ASSUME NEW op \in Ops, NEW withTimeout \in BOOLEAN, NEW keepsControl \in BOOLEAN,
             ExecuteStarts(c, op, withTimeout, keepsControl)
      PROVE  IInv'
  BY <1>9, ExecuteStartsStep
<1>10. ASSUME NEW i \in Ids, ExecutionNotFound(c, i) \/ RemoveRefused(c, i) \/ ControlRefused(c, i)
       PROVE  IInv'
  BY <1>10, ReplyOnlyStep DEF ExecutionNotFound, RemoveRefused, ControlRefused, Locks, TellsNoResult
<1>11. ASSUME NEW i \in Ids, GetResult(c, i)
       PROVE  IInv'
  BY <1>11, GetResultStep
<1>12. ASSUME NEW i \in Ids, Remove(c, i)
       PROVE  IInv'
  BY <1>12, RemoveStep
<1>13. ASSUME NEW i \in Ids, NEW kind \in Requests, GetControl(c, i, kind)
       PROVE  IInv'
  <2>1. /\ pc[c] # "blocking" /\ TellsNoResult(c)
        /\ UNCHANGED <<tableVars, task, outcome, rxOpen, queue, poisoned>>
        /\ pc' = [pc EXCEPT ![c] = "send"] /\ cur' = [cur EXCEPT ![c] = i]
        /\ want' = [want EXCEPT ![c] = kind] /\ UNCHANGED slot
    BY <1>13 DEF GetControl, Locks, futureVars, TellsNoResult
  <2> QED BY <2>1, CallerMovesStep
<1>14. CASE CallerIsDropped(c)
  BY <1>14, CallerMovesStep DEF CallerIsDropped, TellsNoResult, futureVars
<1> QED
  BY <1>1, <1>2, <1>3, <1>4, <1>5, <1>6, <1>7, <1>8, <1>9, <1>10, <1>11, <1>12, <1>13, <1>14
  DEF CallerStep

LEMMA FutureStepIInv ==
    ASSUME IInv, NEW i \in Ids, FutureStep(i)
    PROVE  IInv'
<1>1. pc \in [Callers -> {"idle", "blocking", "send", "await", "dead"}]
  BY DEF IInv, TypeOK
<1>2. ASSUME NEW answer \in Answers, OpTakeEvent(i, answer)
      PROVE  IInv'
  BY <1>2, OpTakeEventStep
<1>3. CASE OpDropsControl(i)
  BY <1>1, <1>3, ControlClosesStep DEF OpDropsControl, Polled, callerVars
<1>4. ASSUME NEW o \in OpResults, OpCompletes(i, o)
      PROVE  IInv'
  BY <1>1, <1>4, ControlClosesStep DEF OpCompletes, Polled, callerVars, Ends, Outcomes
<1>5. CASE OpPanics(i)
  <2>1. \A c \in Callers : pc'[c] = pc[c] \/ pc'[c] = "dead"
    BY <1>5 DEF OpPanics
  <2>2. pc' \in [Callers -> {"idle", "blocking", "send", "await", "dead"}]
    BY <1>1, <1>5 DEF OpPanics
  <2> QED BY <1>5, <2>1, <2>2, ControlClosesStep DEF OpPanics, Polled, Ends, Outcomes
<1>6. CASE TimeoutFires(i)
  BY <1>1, <1>6, ControlClosesStep DEF TimeoutFires, callerVars, Ends, Outcomes
<1> QED BY <1>2, <1>3, <1>4, <1>5, <1>6 DEF FutureStep

LEMMA StutterIInv ==
    ASSUME IInv, UNCHANGED vars
    PROVE  IInv'
BY DEF vars, tableVars, futureVars, callerVars, IInv, TypeOK, IdsAreFresh, RunningIsListed,
    ExclusiveIsListedOnce, EndedHasOutcome, ControlIsOwned, CallersAreBusy, TruthfulResult,
    ToldResultIsOver, WaiterHasAnswerer, BlocksOn, Reporters, MayBeTold

\* IInv holds in every reachable state: types, and everything below.
THEOREM Invariance == Spec => []IInv
<1>1. IInv /\ [Next]_vars => IInv'
  BY CallerStepIInv, FutureStepIInv, StutterIInv DEF Next
<1> QED BY InitIInv, <1>1, PTL DEF Spec

\* The variables keep to their types.
THEOREM TypeCorrect == Spec => []TypeOK
<1>1. IInv => TypeOK
  BY DEF IInv
<1> QED BY Invariance, <1>1, PTL

\* An operation with exclusive_execution never has two executions under way,
\* because a future under way is listed (RunningIsListed) and the table holds
\* at most one execution of the operation (ExclusiveIsListedOnce).
THEOREM ExclusiveExecution == Spec => []NoParallelExclusive
<1>1. IInv => NoParallelExclusive
  BY DEF IInv, RunningIsListed, ExclusiveIsListedOnce, NoParallelExclusive
<1> QED BY Invariance, <1>1, PTL

\* No execution under way drops out of the table of executions.
THEOREM NoOrphans == Spec => []RunningIsListed
<1>1. IInv => RunningIsListed
  BY DEF IInv
<1> QED BY Invariance, <1>1, PTL

\* Recorded and reported results are what the futures ended with.
THEOREM ResultsAreTruthful == Spec => []TruthfulResult
<1>1. IInv => TruthfulResult
  BY DEF IInv
<1> QED BY Invariance, <1>1, PTL

\* No caller waits for a status nobody is left to report.
THEOREM NoLostStatusRequest == Spec => []WaiterHasAnswerer
<1>1. IInv => WaiterHasAnswerer
  BY DEF IInv
<1> QED BY Invariance, <1>1, PTL

-----------------------------------------------------------------------------
(* What a step does to one execution. *)

Kept(i) ==
    /\ entry'[i] = entry[i] /\ recorded'[i] = recorded[i] /\ opOf'[i] = opOf[i]
    /\ task'[i] = task[i] /\ outcome'[i] = outcome[i]

Begins(i) ==
    /\ i = nextId /\ task[i] = "none"
    /\ task'[i] = "running" /\ entry'[i] = "running"
    /\ outcome'[i] = outcome[i]

Finishes(i) ==
    /\ task[i] = "running" /\ task'[i] = "finished"
    /\ outcome'[i] \in Outcomes
    /\ entry'[i] = entry[i] /\ recorded'[i] = recorded[i] /\ opOf'[i] = opOf[i]

IsResolved(i) ==
    /\ entry[i] = "running" /\ entry'[i] = "completed" /\ opOf'[i] = opOf[i]
    /\ task[i] = "finished" /\ task'[i] = task[i] /\ outcome'[i] = outcome[i]

Leaves(i) ==
    /\ entry[i] # "none" /\ entry'[i] = "none" /\ opOf'[i] = opOf[i]
    /\ task[i] = "finished" /\ task'[i] = task[i] /\ outcome'[i] = outcome[i]

Moves(i) == Begins(i) \/ Finishes(i) \/ IsResolved(i) \/ Leaves(i)

\* A step moves at most one execution, and moves it on.
MovesOne == \E i \in Ids : (Kept(i) \/ Moves(i)) /\ \A j \in Ids : j # i => Kept(j)

KeepsAll == \A j \in Ids : Kept(j)

LEMMA CallerStepMoves ==
    ASSUME IInv, NEW c \in Callers, CallerStep(c)
    PROVE  KeepsAll \/ MovesOne
<1> USE DEF MovesOne, KeepsAll, Kept, tableVars, futureVars
<1>1. CASE \/ MutexPoisoned(c) \/ ListOperations(c) \/ SendFails(c) \/ SendEvent(c)
           \/ ReceiveStatus(c) \/ CallerIsDropped(c)
  BY <1>1 DEF MutexPoisoned, ListOperations, SendFails, SendEvent, ReceiveStatus, CallerIsDropped
<1>2. CASE StoreSyncResult(c)
  <2>1. /\ cur[c] \in Ids /\ task[cur[c]] = "finished" /\ entry[cur[c]] = "running"
    BY <1>2 DEF StoreSyncResult, IInv, CallersAreBusy
  <2>2. PICK i \in Ids : i = cur[c]
    BY <2>1
  <2>3. CASE poisoned
    BY <1>2, <2>3 DEF StoreSyncResult
  <2>4. CASE ~poisoned
    <3>1. /\ entry' = [entry EXCEPT ![i] = "completed"]
          /\ recorded' = [recorded EXCEPT ![i] = outcome[i]]
          /\ UNCHANGED <<task, outcome, opOf>>
      BY <1>2, <2>1, <2>2, <2>4 DEF StoreSyncResult
    <3>2. IsResolved(i)
      BY <2>1, <2>2, <3>1 DEF IsResolved, IInv, TypeOK
    <3>3. \A j \in Ids : j # i => Kept(j)
      BY <3>1 DEF IInv, TypeOK
    <3> QED BY <3>2, <3>3 DEF Moves
  <2> QED BY <2>3, <2>4
<1>3. ASSUME NEW op \in Ops, ExecuteRefused(c, op) \/ ExecuteFails(c, op) \/ ExecutePanics(c, op)
      PROVE  KeepsAll
  BY <1>3 DEF ExecuteRefused, ExecuteFails, ExecutePanics
<1>4. ASSUME NEW op \in Ops, NEW withTimeout \in BOOLEAN, NEW keepsControl \in BOOLEAN,
             ExecuteStarts(c, op, withTimeout, keepsControl)
      PROVE  MovesOne
  <2>1. nextId \in Ids /\ task[nextId] = "none"
    BY <1>4, EntityAssumption DEF ExecuteStarts, MayExecute, IInv, TypeOK, IdsAreFresh
  <2>2. /\ entry' = [entry EXCEPT ![nextId] = "running"]
        /\ task' = [task EXCEPT ![nextId] = "running"]
        /\ opOf' = [opOf EXCEPT ![nextId] = op]
        /\ UNCHANGED <<recorded, outcome>>
    BY <1>4 DEF ExecuteStarts
  <2>3. Begins(nextId)
    BY <2>1, <2>2 DEF Begins, IInv, TypeOK
  <2>4. \A j \in Ids : j # nextId => Kept(j)
    BY <2>2 DEF IInv, TypeOK
  <2> QED BY <2>1, <2>3, <2>4 DEF Moves
<1>5. ASSUME NEW i \in Ids, \/ ExecutionNotFound(c, i) \/ RemoveRefused(c, i) \/ ControlRefused(c, i)
                            \/ \E kind \in Requests : GetControl(c, i, kind)
      PROVE  KeepsAll
  BY <1>5 DEF ExecutionNotFound, RemoveRefused, ControlRefused, GetControl
<1>6. ASSUME NEW i \in Ids, GetResult(c, i)
      PROVE  MovesOne
  <2>1. UNCHANGED <<task, outcome, opOf>> /\ TryResolve(i)
    BY <1>6 DEF GetResult
  <2>2. \A j \in Ids : j # i => Kept(j)
    BY <2>1 DEF TryResolve, IInv, TypeOK
  <2>3. Kept(i) \/ IsResolved(i)
    BY <2>1, TryResolveTable DEF IsResolved
  <2> QED BY <2>2, <2>3 DEF Moves
<1>7. ASSUME NEW i \in Ids, Remove(c, i)
      PROVE  MovesOne
  <2>1. /\ entry' = [entry EXCEPT ![i] = "none"] /\ recorded' = [recorded EXCEPT ![i] = None]
        /\ UNCHANGED <<task, outcome, opOf>>
        /\ task[i] = "finished" /\ entry[i] # "none"
    BY <1>7 DEF Remove, Resolvable, IInv, TruthfulResult
  <2>2. Leaves(i) /\ \A j \in Ids : j # i => Kept(j)
    BY <2>1 DEF Leaves, IInv, TypeOK
  <2> QED BY <2>2 DEF Moves
<1> QED BY <1>1, <1>2, <1>3, <1>4, <1>5, <1>6, <1>7 DEF CallerStep

LEMMA FutureStepMoves ==
    ASSUME IInv, NEW i \in Ids, FutureStep(i)
    PROVE  KeepsAll \/ MovesOne
<1> USE DEF MovesOne, KeepsAll, Kept, tableVars
<1>1. CASE OpDropsControl(i) \/ \E answer \in Answers : OpTakeEvent(i, answer)
  BY <1>1 DEF OpDropsControl, OpTakeEvent
<1>2. ASSUME NEW o \in Outcomes, Ends(i, o), task[i] = "running", UNCHANGED tableVars
      PROVE  MovesOne
  <2>1. Finishes(i) /\ \A j \in Ids : j # i => Kept(j)
    BY <1>2 DEF Ends, Finishes, IInv, TypeOK
  <2> QED BY <2>1 DEF Moves
<1> QED BY <1>1, <1>2 DEF FutureStep, OpCompletes, OpPanics, TimeoutFires, Polled, Outcomes

LEMMA StepMoves ==
    ASSUME IInv, [Next]_vars
    PROVE  KeepsAll \/ MovesOne
<1>1. CASE UNCHANGED vars
  BY <1>1 DEF vars, tableVars, futureVars, KeepsAll, Kept
<1> QED BY <1>1, CallerStepMoves, FutureStepMoves DEF Next

\* A future that is over stays over, with the outcome it has.
LEMMA OverIsOver ==
    ASSUME IInv, [Next]_vars
    PROVE  FuturesMoveOn
<1> SUFFICES ASSUME NEW i \in Ids, task[i] = "finished"
             PROVE  task'[i] = "finished" /\ outcome'[i] = outcome[i] /\ opOf'[i] = opOf[i]
  BY DEF FuturesMoveOn
<1>1. Kept(i) \/ Moves(i)
  BY StepMoves DEF MovesOne, KeepsAll
<1> QED BY <1>1 DEF Kept, Moves, Begins, Finishes, IsResolved, Leaves

\* A recorded result is final, and an execution taken out never comes back.
THEOREM ResultsAreFinal == Spec => ResultIsFinal
<1>1. ASSUME IInv, [Next]_vars, NEW i \in Ids
      PROVE  /\ entry[i] = "completed" /\ entry'[i] # "none" =>
                    entry'[i] = "completed" /\ recorded'[i] = recorded[i]
             /\ entry[i] = "none" /\ i < nextId => entry'[i] = "none"
  <2>1. Kept(i) \/ Moves(i)
    BY <1>1, StepMoves DEF MovesOne, KeepsAll
  <2>2. entry[i] = "completed" => task[i] = "finished"
    BY <1>1 DEF IInv, TruthfulResult
  <2>3. i = nextId => ~(i < nextId)
    BY <1>1 DEF IInv, TypeOK
  <2>4. entry[i] = "none" => task[i] # "running"
    BY <1>1 DEF IInv, RunningIsListed
  <2> QED BY <2>1, <2>2, <2>3, <2>4 DEF Kept, Moves, Begins, Finishes, IsResolved, Leaves
<1>2. IInv /\ [Next]_vars =>
          [\A i \in Ids :
              /\ entry[i] = "completed" /\ entry'[i] # "none" =>
                    entry'[i] = "completed" /\ recorded'[i] = recorded[i]
              /\ entry[i] = "none" /\ i < nextId => entry'[i] = "none"]_vars
  BY <1>1
<1> QED BY <1>2, Invariance, PTL DEF Spec, ResultIsFinal

-----------------------------------------------------------------------------
(* Entity implements ExecutionLifecycle. *)

\* The stage of every execution, as the mapping reads it.
LEMMA StageOf ==
    ASSUME IInv, NEW i \in Ids
    PROVE  /\ task[i] = "none" => stageOf[i] = "absent"
           /\ task[i] = "running" => stageOf[i] = "running"
           /\ task[i] = "finished" /\ entry[i] # "none" => stageOf[i] = "ended"
           /\ task[i] = "finished" /\ entry[i] = "none" => stageOf[i] = "forgotten"
BY DEF stageOf

LEMMA StageOfNext ==
    ASSUME IInv', NEW i \in Ids
    PROVE  /\ task'[i] = "none" => stageOf'[i] = "absent"
           /\ task'[i] = "running" => stageOf'[i] = "running"
           /\ task'[i] = "finished" /\ entry'[i] # "none" => stageOf'[i] = "ended"
           /\ task'[i] = "finished" /\ entry'[i] = "none" => stageOf'[i] = "forgotten"
BY DEF stageOf

\* Every step begins, ends or forgets one execution, or is a stutter.
LEMMA StepImplements ==
    ASSUME IInv, IInv', [Next]_vars
    PROVE  [Lifecycle!Next]_Lifecycle!lifecycleVars
<1>1. /\ task \in [Ids -> {"none", "running", "finished"}]
      /\ entry \in [Ids -> {"none", "running", "completed"}]
      /\ outcome \in [Ids -> Outcomes \cup {None}]
      /\ task' \in [Ids -> {"none", "running", "finished"}]
      /\ entry' \in [Ids -> {"none", "running", "completed"}]
      /\ outcome' \in [Ids -> Outcomes \cup {None}]
  BY DEF IInv, TypeOK
<1>2. /\ stageOf = [j \in Ids |-> stageOf[j]] /\ stageOf' = [j \in Ids |-> stageOf'[j]]
      /\ outcome = [j \in Ids |-> outcome[j]] /\ outcome' = [j \in Ids |-> outcome'[j]]
  BY <1>1 DEF stageOf
<1>3. ASSUME NEW j \in Ids, Kept(j)
      PROVE  stageOf'[j] = stageOf[j] /\ outcome'[j] = outcome[j]
  BY <1>1, <1>3, StageOf, StageOfNext DEF Kept
<1>4. CASE KeepsAll
  <2>1. \A j \in Ids : stageOf'[j] = stageOf[j] /\ outcome'[j] = outcome[j]
    BY <1>3, <1>4 DEF KeepsAll
  <2>2. outcome' = outcome /\ stageOf' = stageOf
    BY <1>2, <2>1, Zenon
  <2> QED BY <2>2 DEF Lifecycle!lifecycleVars
<1>5. CASE MovesOne
  <2>1. PICK i \in Ids : (Kept(i) \/ Moves(i)) /\ \A j \in Ids : j # i => Kept(j)
    BY <1>5 DEF MovesOne
  <2>2. \A j \in Ids : j # i => stageOf'[j] = stageOf[j] /\ outcome'[j] = outcome[j]
    BY <1>3, <2>1
  <2>3. stageOf' = [stageOf EXCEPT ![i] = stageOf'[i]] /\ outcome' = [outcome EXCEPT ![i] = outcome'[i]]
    BY <1>1, <1>2, <2>2
  <2>4. CASE Kept(i) \/ IsResolved(i)
    <3>1. stageOf'[i] = stageOf[i] /\ outcome'[i] = outcome[i]
      BY <1>3, <2>4, StageOf, StageOfNext DEF IsResolved
    <3>2. \A j \in Ids : stageOf'[j] = stageOf[j] /\ outcome'[j] = outcome[j]
      BY <2>2, <3>1
    <3>3. outcome' = outcome /\ stageOf' = stageOf
      BY <1>2, <3>2, Zenon
    <3> QED BY <3>3 DEF Lifecycle!lifecycleVars
  <2>5. CASE Begins(i)
    <3>1. stageOf[i] = "absent" /\ stageOf'[i] = "running" /\ outcome'[i] = outcome[i]
      BY <2>5, StageOf, StageOfNext DEF Begins
    <3>2. \A j \in Ids : outcome'[j] = outcome[j]
      BY <2>2, <3>1
    <3>3. outcome' = outcome
      BY <1>2, <3>2, Zenon
    <3>4. Lifecycle!Begin(i)
      BY <2>3, <3>1, <3>3 DEF Lifecycle!Begin
    <3> QED BY <3>4 DEF Lifecycle!Next
  <2>6. CASE Finishes(i)
    <3>1. stageOf[i] = "running" /\ stageOf'[i] = "ended"
      BY <2>6, StageOf, StageOfNext DEF Finishes, IInv, RunningIsListed
    <3>2. Lifecycle!End(i, outcome'[i]) /\ outcome'[i] \in Outcomes
      BY <2>3, <2>6, <3>1 DEF Lifecycle!End, Finishes
    <3> QED BY <3>2 DEF Lifecycle!Next
  <2>7. CASE Leaves(i)
    <3>1. stageOf[i] = "ended" /\ stageOf'[i] = "forgotten" /\ outcome'[i] = outcome[i]
      BY <2>7, StageOf, StageOfNext DEF Leaves
    <3>2. \A j \in Ids : outcome'[j] = outcome[j]
      BY <2>2, <3>1
    <3>3. outcome' = outcome
      BY <1>2, <3>2, Zenon
    <3>4. Lifecycle!Forget(i)
      BY <2>3, <3>1, <3>3 DEF Lifecycle!Forget
    <3> QED BY <3>4 DEF Lifecycle!Next
  <2> QED BY <2>1, <2>4, <2>5, <2>6, <2>7 DEF Moves
<1> QED BY <1>4, <1>5, StepMoves

\* Whatever the executions of an entity do, a client sees each of them begin at
\* most once, end at most once with one outcome, and be forgotten only then.
THEOREM Refinement == Spec => Implements
<1>1. Init => Lifecycle!Init
  BY DEF Init, Lifecycle!Init, stageOf
<1>2. IInv /\ IInv' /\ [Next]_vars => [Lifecycle!Next]_Lifecycle!lifecycleVars
  BY StepImplements
<1> QED BY <1>1, <1>2, Invariance, PTL DEF Spec, Implements, Lifecycle!Spec
=============================================================================
