------------------------- MODULE DiagExampleTestProofs -------------------------
(***************************************************************************)
(* The tests of DiagExample pass, for every capacity of the mailbox and of *)
(* the control channels and every order in which select! polls.            *)
(***************************************************************************)
EXTENDS DiagExampleProofs

USE DEF E!Ids

-----------------------------------------------------------------------------
(* The executor forgets nobody. *)

\* Whoever can go on is being polled or queued: no wake-up is lost.
WakeInv == \A t \in Tasks : CanGoOn(t) => t = current \/ In(runQueue, t)

\* A step that wakes appends everybody who can go on then, and nobody else.
LEMMA WakesAll ==
    ASSUME runQueue \in Seq(Tasks), Wakes
    PROVE  \E order \in Seq(Tasks) :
              /\ runQueue' = runQueue \o order
              /\ \A t \in Tasks : In(order, t) <=> CanGoOn(t)' /\ t # current' /\ ~In(runQueue, t)
<1> DEFINE woken == {t \in Tasks : CanGoOn(t)' /\ t # current' /\ t \notin ToSet(runQueue)}
           n == Cardinality(woken)
<1>1. IsFiniteSet(Tasks)
  <2>1. IsFiniteSet(E!Ids)
    BY Setting, FS_Interval
  <2>2. Tasks = E!Ids \cup {Loop}
    BY DEF Tasks
  <2> QED BY <2>1, <2>2, FS_AddElement
<1>2. woken \subseteq Tasks /\ \A t \in Tasks : t \in woken <=> CanGoOn(t)' /\ t # current' /\ ~In(runQueue, t)
  BY DEF ToSet, In
<1>3. PICK order \in SetToSeqs(woken) : runQueue' = runQueue \o order
  BY DEF Wakes, Tasks
<1> HIDE DEF woken
<1>4. n \in Nat /\ IsFiniteSet(woken)
  BY <1>1, <1>2, FS_Subset, FS_CardinalityType
<1>5. order \in [1..n -> woken] /\ order \in Injection(1..n, woken)
  BY <1>3 DEF SetToSeqs, Injection, IsInjective
<1> HIDE DEF n
<1>6. IsFiniteSet(1..n) /\ Cardinality(1..n) = n
  BY <1>4, FS_Interval
<1>7. order \in Surjection(1..n, woken)
  BY <1>4, <1>5, <1>6, FS_Injection DEF n
<1>8. order \in Seq(Tasks) /\ DOMAIN order = 1..n
  BY <1>2, <1>4, <1>5, SeqDef
<1>9. \A t : In(order, t) <=> t \in woken
  BY <1>5, <1>7, <1>8 DEF In, Surjection
<1> QED BY <1>2, <1>3, <1>8, <1>9

LEMMA WakesKeepsWakeInv ==
    ASSUME runQueue \in Seq(Tasks), Wakes
    PROVE  WakeInv'
<1>1. PICK order \in Seq(Tasks) :
              /\ runQueue' = runQueue \o order
              /\ \A t \in Tasks : In(order, t) <=> CanGoOn(t)' /\ t # current' /\ ~In(runQueue, t)
  BY WakesAll
<1>2. \A t \in Tasks : In(runQueue', t) <=> In(runQueue, t) \/ In(order, t)
  BY <1>1, ConcatIn
<1> QED BY <1>1, <1>2 DEF WakeInv

LEMMA HeadOrTail ==
    ASSUME NEW S, NEW s \in Seq(S), s # <<>>, NEW x, In(s, x)
    PROVE  x = Head(s) \/ In(Tail(s), x)
<1>1. PICK k \in DOMAIN s : s[k] = x
  BY DEF In
<1>2. Len(s) \in Nat /\ DOMAIN s = 1..Len(s) /\ Head(s) = s[1] /\ DOMAIN Tail(s) = 1..(Len(s) - 1)
  OBVIOUS
<1>3. CASE k = 1
  BY <1>1, <1>2, <1>3
<1>4. CASE k # 1
  <2>1. k - 1 \in 1..(Len(s) - 1) /\ Tail(s)[k - 1] = s[(k - 1) + 1] /\ (k - 1) + 1 = k
    BY <1>1, <1>2, <1>4
  <2> QED BY <1>1, <1>2, <2>1 DEF In
<1> QED BY <1>3, <1>4

LEMMA StepKeepsWakeInv ==
    ASSUME ExampleInv, WakeInv, [ExampleNext]_exampleVars
    PROVE  WakeInv'
<1>1. runQueue \in Seq(Tasks)
  BY ExampleInvParts
<1>2. CASE PollNext
  <2>1. ASSUME NEW t \in Tasks, CanGoOn(t)'
        PROVE  t = current' \/ CanGoOn(t)
    BY <1>2, <2>1 DEF PollNext, CanGoOn, vars, entityVars, runtimeVars, loopVars, operationVars
  <2>2. /\ runQueue # <<>> /\ current = None
        /\ current' = Head(runQueue) /\ runQueue' = Tail(runQueue)
    BY <1>2 DEF PollNext
  <2>3. ASSUME NEW t \in Tasks, CanGoOn(t)'
        PROVE  t = current' \/ In(runQueue', t)
    <3>1. t # None
      BY Setting DEF Tasks
    <3>2. t = current' \/ In(runQueue, t)
      BY <2>1, <2>2, <2>3, <3>1 DEF WakeInv
    <3> QED BY <1>1, <2>2, <3>2, HeadOrTail
  <2> QED BY <2>3 DEF WakeInv
<1>3. CASE \E i \in E!Ids : NextBranch(i)
  BY <1>3 DEF NextBranch, WakeInv, CanGoOn, vars, entityVars, runtimeVars, loopVars, operationVars
<1>4. CASE UNCHANGED exampleVars
  BY <1>4 DEF exampleVars, executorVars, WakeInv, CanGoOn, vars, entityVars, runtimeVars, loopVars, operationVars
<1>5. Park \/ TestStep \/ LoopStep \/ LoopSuspends \/ (\E i \in E!Ids : ExecutionStep(i) \/ ExecutionSuspends(i))
        => Wakes
  BY DEF Park, TestStep, LoopStep, LoopSuspends, ExecutionStep, ExecutionSuspends
<1> QED BY <1>1, <1>2, <1>3, <1>4, <1>5, WakesKeepsWakeInv DEF ExampleNext
-----------------------------------------------------------------------------
(* What a step of the test, of the loop and of an execution leaves alone. *)

LEMMA Apart ==
    /\ Test # Loop /\ Test # None /\ Loop # None
    /\ Test \notin E!Ids /\ Loop \notin E!Ids /\ None \notin E!Ids
    /\ Clients = {Test} /\ 1 \in E!Ids
BY Setting, ExampleAssumption, RuntimeAssumption

\* No execution gets any further, and no request.
Quiet == UNCHANGED <<entityVars, operationVars, detail, stopped, misled, serving, answer, shutdownRequested>>

LEMMA QuietSteps ==
    /\ PollNext \/ Park \/ LoopSuspends => Quiet /\ UNCHANGED <<vars, script>>
    /\ \A i \in E!Ids : NextBranch(i) \/ ExecutionSuspends(i) => Quiet /\ UNCHANGED <<vars, testVars>>
    /\ UNCHANGED exampleVars => Quiet /\ UNCHANGED <<vars, testVars>>
<1>1. UNCHANGED <<vars, operationVars, detail, stopped, misled>> => Quiet
  BY DEF Quiet, vars, runtimeVars, loopVars
<1>2. PollNext \/ Park \/ LoopSuspends => UNCHANGED <<vars, operationVars, detail, stopped, misled, script>>
  BY DEF PollNext, Park, LoopSuspends, testVars
<1>3. \A i \in E!Ids : NextBranch(i) \/ ExecutionSuspends(i)
                          => UNCHANGED <<vars, operationVars, detail, stopped, misled, testVars>>
  BY DEF NextBranch, ExecutionSuspends
<1>4. UNCHANGED exampleVars => UNCHANGED <<vars, operationVars, detail, stopped, misled, testVars>>
  BY DEF exampleVars
<1> QED BY <1>1, <1>2, <1>3, <1>4

\* The loop does not touch what the test is about.
LEMMA LoopLeavesTest ==
    ASSUME LoopStep
    PROVE  /\ current = Loop /\ UNCHANGED <<current, branches, expired, testVars, clientVars>>
           /\ shutdownRequested' = shutdownRequested /\ inner' = inner
<1>1. LoopExecutes \/ LoopLooksUp => UNCHANGED clientVars /\ UNCHANGED <<shutdownRequested, inner>>
  BY DEF LoopExecutes, LoopLooksUp, LoopReceives
<1>2. SyncOperationRuns => UNCHANGED clientVars /\ UNCHANGED <<shutdownRequested, inner>>
  BY DEF SyncOperationRuns, LoopUnwinds
<1>3. LoopQueries => UNCHANGED clientVars /\ UNCHANGED <<shutdownRequested, inner>>
  BY DEF LoopQueries, LoopAnswersOther
<1>4. LoopGoesOn => UNCHANGED clientVars /\ UNCHANGED <<shutdownRequested, inner>>
  BY DEF LoopGoesOn, LoopContinues
<1>5. LoopEnds => UNCHANGED clientVars /\ UNCHANGED <<shutdownRequested, inner>>
  BY DEF LoopEnds
<1> QED BY <1>1, <1>2, <1>3, <1>4, <1>5 DEF LoopStep

\* An execution touches nobody but itself, and the status it reports.
LEMMA ExecutionLeavesRest ==
    ASSUME ExampleInv, E!IInv, NEW i \in E!Ids, ExecutionStep(i)
    PROVE  /\ UNCHANGED <<runtimeVars, testVars, current, fresh, expired, detail, stopped, misled, activeExecId>>
           /\ UNCHANGED <<nextId, entry, opOf, timed, pc, cur, want>>
           /\ task[i] = "running" /\ i < nextId
<1>1. TakesOne(i) \/ \E o \in E!Outcomes : EndsAs(i, o)
  BY ExecutionEffect
<1>2. UNCHANGED <<nextId, entry, opOf, timed, pc, cur, want, activeExecId>> /\ task[i] = "running"
  BY <1>1 DEF TakesOne, EndsAs, E!OpTakeEvent, E!Polled, E!tableVars, E!callerVars
<1>3. LoopUnwinds
  <2>1. \A o : Resolves(i, o) => LoopUnwinds
    BY DEF Resolves
  <2>2. Control(i) => LoopUnwinds
    BY <2>1 DEF Control, AsyncControl, RoutineControl, AsyncReports, AsyncCapability, AsyncPanics, AsyncStop,
                RoutineReports, RoutineStop, RoutineUnsupported, Takes
  <2>3. UserCode(i) => LoopUnwinds
    BY <2>1 DEF UserCode
  <2>4. Head(branches) \in {"user", "control", "timer"}
    BY DEF ExecutionStep, ExampleInv, ExampleTypes
  <2> QED BY <2>1, <2>2, <2>3, <2>4 DEF ExecutionStep
<1>4. UNCHANGED runtimeVars
  BY <1>2, <1>3 DEF LoopUnwinds, runtimeVars
<1>5. i < nextId
  BY <1>2, EntityFacts
<1> QED BY <1>2, <1>4, <1>5 DEF ExecutionStep

-----------------------------------------------------------------------------
(* What the test finds when it is polled. *)

Spawned(i) == task[i] = "running" /\ opOf[i] # SyncOp

\* It is polled after everybody else got as far as they can.
SettledInv ==
    current = Test => \A i \in E!Ids : Spawned(i) => i \notin fresh /\ queue[i] = <<>> /\ notified[i] = 0

LEMMA StepKeepsSettledInv ==
    ASSUME ExampleInv, E!IInv, WakeInv, SettledInv, [ExampleNext]_exampleVars
    PROVE  SettledInv'
<1> USE Apart
<1>1. CASE PollNext
  <2>1. runQueue \in Seq(Tasks) /\ runQueue # <<>> /\ current' = Head(runQueue)
    BY <1>1, ExampleInvParts DEF PollNext
  <2>2. current' \in Tasks
    BY <2>1
  <2> QED BY <2>2 DEF Tasks, SettledInv
<1>2. CASE Park
  <2>1. \A t \in Tasks : ~CanGoOn(t)
    BY <1>2, EmptyIn DEF Park, WakeInv, Tasks
  <2>2. \A i \in E!Ids : Spawned(i) => i \notin fresh /\ queue[i] = <<>> /\ notified[i] = 0
    BY <2>1 DEF Tasks, CanGoOn, Spawned, ExampleInv, ExampleTypes
  <2>3. UNCHANGED <<task, opOf, queue, notified, fresh>>
    BY <1>2 DEF Park, vars, entityVars, operationVars
  <2> QED BY <2>2, <2>3 DEF SettledInv, Spawned
<1>3. CASE TestStep
  <2>1. current' = None \/ current = Test
    BY <1>3 DEF TestStep, TestRuns, TestSends, TestAwaitsReply, TestTakesReply, TestWrites, TestPauses,
               TestShutsDown, TestJoins, ClientChooses, TestEnds, Begins
  <2>2. UNCHANGED <<task, opOf, queue, notified, fresh>>
    BY <1>3, TestLeavesExecutions DEF entityVars, operationVars
  <2> QED BY <2>1, <2>2 DEF SettledInv, Spawned
<1>4. CASE LoopStep
  BY <1>4, LoopLeavesTest DEF SettledInv
<1>5. CASE LoopSuspends
  BY <1>5 DEF LoopSuspends, Suspends, SettledInv
<1>6. ASSUME NEW i \in E!Ids, ExecutionStep(i) \/ NextBranch(i) \/ ExecutionSuspends(i)
      PROVE  SettledInv'
  BY <1>6 DEF ExecutionStep, NextBranch, ExecutionSuspends, Suspends, SettledInv
<1>7. CASE UNCHANGED exampleVars
  BY <1>7 DEF exampleVars, executorVars, vars, entityVars, operationVars, SettledInv, Spawned
<1> QED BY <1>1, <1>2, <1>3, <1>4, <1>5, <1>6, <1>7 DEF ExampleNext

-----------------------------------------------------------------------------
(* What the steps of an execution do to it. *)

\* An event is taken: what it does to the operation that takes it.
LEMMA Taking ==
    ASSUME ExampleInv, E!IInv, NEW i \in E!Ids, TakesOne(i)
    PROVE  /\ UNCHANGED <<task, outcome, rxOpen, stopped, misled>>
           /\ queue[i] \in Seq(E!Events) /\ queue[i] # <<>> /\ queue'[i] = Tail(queue[i])
           /\ \A j \in E!Ids : j # i =>
                 queue'[j] = queue[j] /\ notified'[j] = notified[j] /\ opStatus'[j] = opStatus[j]
           /\ slot'[Loop] = IF Event(i) = "ReportStatus" THEN opStatus[i] ELSE slot[Loop]
           /\ \/ Event(i) = "ReportStatus" /\ OfRoutine(i)
                 /\ opStatus'[i] = opStatus[i] /\ notified'[i] = notified[i]
              \/ Event(i) = "Stop" /\ OfRoutine(i) /\ notified'[i] = 1
              \/ Event(i) \in CustomCapabilities /\ OfRoutine(i) /\ notified'[i] = notified[i]
              \/ Event(i) = "ReportStatus" /\ ~OfRoutine(i) /\ opStatus'[i] = "Running"
                 /\ notified'[i] = IF opStatus[i] = "Scheduled" THEN notified[i] ELSE notified[i] + 1
              \/ Event(i) = "HandleCustomCapability" /\ ~OfRoutine(i)
                 /\ opStatus'[i] = "HandleCustomCapability" /\ notified'[i] = notified[i]
<1>0. OperationInv
  BY ExampleInvParts
<1>1. /\ UNCHANGED <<task, outcome, rxOpen, stopped, misled>> /\ queue[i] # <<>>
      /\ queue' = [queue EXCEPT ![i] = Tail(@)]
      /\ slot'[Loop] = IF Event(i) = "ReportStatus" THEN opStatus[i] ELSE slot[Loop]
  BY <1>0, TakesChanges
<1>2. queue \in [E!Ids -> Seq(E!Events)] /\ notified \in [E!Ids -> Nat] /\ opStatus \in [E!Ids -> Statuses]
  BY EntityFacts DEF ExampleInv, ExampleTypes
<1>3. /\ queue[i] \in Seq(E!Events) /\ queue'[i] = Tail(queue[i])
      /\ \A j \in E!Ids : j # i => queue'[j] = queue[j]
  BY <1>1, <1>2
<1>4. \A j \in E!Ids : j # i => notified'[j] = notified[j] /\ opStatus'[j] = opStatus[j]
  BY <1>0, <1>2, TakesChanges
<1>5. CASE OfRoutine(i)
  BY <1>0, <1>1, <1>2, <1>3, <1>4, <1>5, TakesChanges
<1>6. CASE ~OfRoutine(i)
  <2>1. AsyncReports(i) \/ AsyncCapability(i)
    BY <1>6 DEF TakesOne
  <2>2. \/ Event(i) = "ReportStatus" /\ opStatus'[i] = "Running"
           /\ notified'[i] = IF opStatus[i] = "Scheduled" THEN notified[i] ELSE notified[i] + 1
        \/ Event(i) = "HandleCustomCapability"
           /\ opStatus'[i] = "HandleCustomCapability" /\ notified'[i] = notified[i]
    BY <1>2, <2>1 DEF AsyncReports, AsyncCapability
  <2> QED BY <1>1, <1>3, <1>4, <1>6, <2>2
<1> QED BY <1>5, <1>6

\* A future resolves: its channel is closed.
LEMMA Ending ==
    ASSUME E!IInv, NEW i \in E!Ids, NEW o, EndsAs(i, o)
    PROVE  /\ UNCHANGED <<opStatus, notified, stopped, misled>>
           /\ task'[i] = "finished" /\ outcome'[i] = o /\ ~rxOpen'[i] /\ queue'[i] = <<>>
           /\ \A j \in E!Ids : j # i => /\ task'[j] = task[j] /\ outcome'[j] = outcome[j]
                                     /\ rxOpen'[j] = rxOpen[j] /\ queue'[j] = queue[j]
BY EntityFacts DEF EndsAs, E!Ends, E!CloseControl

\* An operation that was spawned can be stopped until it is over, and the stop
\* is in its channel until it was understood.
StopInv ==
    \A i \in E!Ids : Spawned(i) =>
        /\ rxOpen[i]
        /\ i \in stopped => Queued(i, "Stop") \/ notified[i] > 0

LEMMA StepKeepsStopInv ==
    ASSUME ExampleInv, E!IInv, MessageType, StopInv, [ExampleNext]_exampleVars
    PROVE  StopInv'
<1>1. CASE Rests
  BY <1>1 DEF Rests, StopInv, Spawned, Queued, operationVars
<1>2. CASE LoopMoves
  BY <1>2 DEF LoopMoves, StopInv, Spawned, Queued, operationVars
<1>3. CASE Refused
  BY <1>3 DEF Refused, StopInv, Spawned, Queued, operationVars
<1>4. ASSUME NEW op \in Ops, Starts(op)
      PROVE  StopInv'
  <2>1. nextId \in E!Ids /\ task[nextId] = "none" /\ UNCHANGED <<queue, notified, stopped>>
    BY <1>4 DEF Starts
  <2>2. nextId \notin stopped
    BY <2>1 DEF ExampleInv, StartedInv
  <2>3. /\ opOf'[nextId] = op /\ rxOpen'[nextId] = (op # SyncOp)
        /\ \A i \in E!Ids : i # nextId => task'[i] = task[i] /\ opOf'[i] = opOf[i] /\ rxOpen'[i] = rxOpen[i]
    BY <1>4, EntityFacts DEF Starts
  <2> QED BY <2>1, <2>2, <2>3 DEF StopInv, Spawned, Queued
<1>5. CASE Asking
  <2>0. PICK c \in E!Ids : c = cur[Loop]
    BY <1>5 DEF Asking
  <2> DEFINE e == [kind |-> want[Loop], from |-> Loop]
  <2>1. /\ UNCHANGED <<task, opOf, rxOpen, notified>> /\ pc[Loop] = "send"
        /\ queue' = [queue EXCEPT ![c] = Append(queue[c], e)]
        /\ stopped' = IF want[Loop] = "Stop" THEN stopped \cup {c} ELSE stopped
    BY <1>5, <2>0 DEF Asking, E!SendEvent, E!tableVars
  <2>2. e \in E!Events /\ e.kind = want[Loop]
    BY <2>0, <2>1 DEF E!IInv, E!CallersAreBusy, E!Events
  <2> HIDE DEF e
  <2>3. /\ \A i \in E!Ids : i # c => queue'[i] = queue[i]
        /\ queue[c] \in Seq(E!Events) /\ queue'[c] = Append(queue[c], e)
    BY <2>1, EntityFacts
  <2>4. /\ \A kind : Queued(c, kind) => Queued(c, kind)'
        /\ \A kind : kind = want[Loop] => Queued(c, kind)'
    <3> DEFINE q == queue[c]
    <3>1. /\ \A k \in DOMAIN q : k \in DOMAIN Append(q, e) /\ Append(q, e)[k] = q[k]
          /\ Len(q) + 1 \in DOMAIN Append(q, e) /\ Append(q, e)[Len(q) + 1] = e
      BY <2>3
    <3> HIDE DEF q
    <3>2. /\ \A k \in DOMAIN q : k \in DOMAIN queue'[c] /\ queue'[c][k] = q[k]
          /\ \E k \in DOMAIN queue'[c] : queue'[c][k] = e
      BY <2>3, <3>1 DEF q
    <3>3. ASSUME NEW kind, Queued(c, kind)
          PROVE  Queued(c, kind)'
      <4>1. PICK k \in DOMAIN q : q[k].kind = kind
        BY <3>3 DEF Queued, q
      <4> QED BY <3>2, <4>1 DEF Queued
    <3>4. ASSUME NEW kind, kind = want[Loop]
          PROVE  Queued(c, kind)'
      BY <3>4, <2>2, <3>2 DEF Queued
    <3> QED BY <3>3, <3>4
  <2>5. \A i \in E!Ids : \A kind : Queued(i, kind) => Queued(i, kind)'
    BY <2>3, <2>4 DEF Queued
  <2>6. ASSUME NEW i \in E!Ids, Spawned(i)', i \in stopped'
        PROVE  Queued(i, "Stop")' \/ notified'[i] > 0
    <3>1. i \in stopped \/ (i = c /\ want[Loop] = "Stop")
      BY <2>1, <2>6
    <3>2. CASE i = c /\ want[Loop] = "Stop"
      BY <2>4, <3>2
    <3>3. CASE i \in stopped
      <4>1. Queued(i, "Stop") \/ notified[i] > 0
        BY <2>1, <2>6, <3>3 DEF StopInv, Spawned
      <4> QED BY <2>1, <2>5, <4>1
    <3> QED BY <3>1, <3>2, <3>3
  <2> QED BY <2>1, <2>6 DEF StopInv, Spawned
<1>6. ASSUME NEW i \in E!Ids, NEW o \in E!Outcomes, EndsAs(i, o)
      PROVE  StopInv'
  BY <1>6, Ending DEF StopInv, Spawned, Queued, EndsAs
<1>7. ASSUME NEW i \in E!Ids, TakesOne(i)
      PROVE  StopInv'
  <2>1. /\ UNCHANGED <<task, opOf, rxOpen, stopped>>
        /\ \A j \in E!Ids : j # i => queue'[j] = queue[j] /\ notified'[j] = notified[j]
    BY <1>7, Taking DEF TakesOne, E!OpTakeEvent, E!tableVars
  <2>2. ASSUME i \in stopped, Queued(i, "Stop") \/ notified[i] > 0
        PROVE  Queued(i, "Stop")' \/ notified'[i] > 0
    <3>1. notified[i] \in Nat /\ queue[i] \in Seq(E!Events) /\ queue[i] # <<>> /\ queue'[i] = Tail(queue[i])
      BY <1>7, Taking DEF ExampleInv, ExampleTypes
    <3>2. CASE notified[i] > 0 \/ Event(i) = "Stop"
      BY <1>7, <3>1, <3>2, Taking, RuntimeAssumption DEF E!EntityAssumption
    <3>3. CASE Queued(i, "Stop") /\ Event(i) # "Stop"
      <4>1. PICK k \in DOMAIN queue[i] : queue[i][k].kind = "Stop"
        BY <3>3 DEF Queued
      <4>2. In(queue[i], queue[i][k])
        BY DEF In
      <4>3. In(Tail(queue[i]), queue[i][k])
        BY <3>1, <3>3, <4>1, <4>2, HeadOrTail DEF Event
      <4> QED BY <3>1, <4>1, <4>3 DEF In, Queued
    <3> QED BY <2>2, <3>2, <3>3
  <2>3. \A j \in E!Ids : j # i => (Queued(j, "Stop") <=> Queued(j, "Stop")')
    BY <2>1 DEF Queued
  <2> QED BY <2>1, <2>2, <2>3 DEF StopInv, Spawned
<1> QED BY <1>1, <1>2, <1>3, <1>4, <1>5, <1>6, <1>7, StepEffect DEF Effect

-----------------------------------------------------------------------------
(* The request under way. *)

Answered == answer[Test] # Pending
Underway == Test = serving \/ In(mailbox, Test)

\* Only a request under way is answered.
LEMMA LoopAnswers ==
    ASSUME RuntimeInv, LoopStep
    PROVE  answer'[Test] = answer[Test] \/ Underway
<1> USE Apart
<1>1. Received(Test) => In(mailbox, Test)
  <2>1. mailbox \in Seq({Test}) /\ Once(mailbox)
    BY DEF RuntimeInv, RuntimeTypes, OwedInv
  <2> QED BY <2>1, TailIn DEF Received
<1>2. serving # None => serving = Test
  BY DEF RuntimeInv, RuntimeTypes
<1>3. LoopExecutes \/ LoopLooksUp => Underway
  BY <1>1 DEF LoopExecutes, LoopLooksUp, LoopReceives, Underway
<1>4. LoopQueries => Underway
  BY <1>1 DEF LoopQueries, LoopAnswersOther, Underway
<1>5. LoopGoesOn => Underway
  BY <1>2 DEF LoopGoesOn, LoopContinues, Underway
<1>6. SyncOperationRuns => answer'[Test] = answer[Test]
  BY DEF SyncOperationRuns, LoopUnwinds, E!OpCompletes, E!callerVars
<1>7. LoopEnds => answer'[Test] = answer[Test] \/ Underway
  BY DEF LoopEnds, LoopIsDropped, Owed, Underway, In
<1> QED BY <1>3, <1>4, <1>5, <1>6, <1>7 DEF LoopStep

\* What the client sends or waits for an answer to is what the test asks.
AsksInv ==
    /\ client[Test] # "gone"
    /\ client[Test] \in {"sending", "waiting"} =>
          script # <<>> /\ Head(script).do = "ask" /\ message[Test] = Head(script).message
    /\ client[Test] # "waiting" => ~Answered

LEMMA StepKeepsAsksInv ==
    ASSUME ExampleInv, E!IInv, RuntimeInv, AsksInv, [ExampleNext]_exampleVars
    PROVE  AsksInv'
<1> USE Apart
<1>0. /\ client \in [{Test} -> {"idle", "sending", "waiting", "panicked", "gone"}]
      /\ message \in [{Test} -> Messages \cup {NoMessage}]
      /\ answer \in [{Test} -> E!Replies \cup {Pending, Dropped}]
  BY DEF RuntimeInv, RuntimeTypes
<1>1. CASE UNCHANGED <<vars, script>>
  BY <1>1 DEF AsksInv, Answered, vars, runtimeVars, clientVars
<1>2. CASE LoopStep
  <2>1. UNCHANGED <<clientVars, script>>
    BY <1>2, LoopLeavesTest DEF testVars
  <2>2. Underway => client[Test] = "waiting"
    BY DEF Underway, RuntimeInv, OwedInv, AsksInv
  <2> QED BY <1>2, <2>1, <2>2, LoopAnswers DEF AsksInv, Answered, clientVars
<1>3. ASSUME NEW i \in E!Ids, ExecutionStep(i)
      PROVE  AsksInv'
  BY <1>3, ExecutionLeavesRest DEF AsksInv, Answered, runtimeVars, clientVars, testVars
<1>4. CASE TestStep
  <2>1. CASE TestSends
    <3>1. script' = script /\ script # <<>> /\ Head(script).do = "ask"
      BY <2>1 DEF TestSends, Begins, testVars
    <3>2. CASE Send(Test, Head(script).message)
      <4>1. client'[Test] \in {"panicked", "sending"} /\ answer' = answer /\ client[Test] = "idle"
        BY <1>0, <3>2 DEF Send
      <4>2. client'[Test] = "sending" => message'[Test] = Head(script).message
        BY <1>0, <3>2 DEF Send
      <4> QED BY <3>1, <4>1, <4>2 DEF AsksInv, Answered
    <3>3. CASE Deliver(Test)
      <4>1. client'[Test] = "waiting" /\ client[Test] = "sending" /\ message' = message
        BY <1>0, <3>3 DEF Deliver
      <4> QED BY <3>1, <4>1 DEF AsksInv, Answered
    <3> QED BY <2>1, <3>2, <3>3 DEF TestSends
  <2>2. CASE TestTakesReply
    BY <1>0, <2>2 DEF TestTakesReply, TakeAnswer, AsksInv, Answered
  <2>3. ASSUME UNCHANGED <<clientVars, answer>>,
               script = <<>> \/ Head(script).do # "ask"
        PROVE  AsksInv'
    BY <2>3 DEF AsksInv, Answered, clientVars
  <2>4. TestRuns \/ TestShutsDown \/ TestWrites \/ TestPauses \/ TestJoins
          => Head(script).do # "ask" /\ UNCHANGED <<clientVars, answer>>
    BY DEF TestRuns, Run, TestShutsDown, Shutdown, TestWrites, TestPauses, TestJoins, Begins, AwaitsAs,
           vars, runtimeVars
  <2>5. ClientChooses \/ TestEnds => script = <<>> /\ UNCHANGED <<clientVars, answer>>
    BY DEF ClientChooses, TestEnds, vars, runtimeVars
  <2>6. TestAwaitsReply => UNCHANGED <<vars, script>>
    BY DEF TestAwaitsReply, AwaitsAs
  <2> QED BY <1>1, <1>4, <2>1, <2>2, <2>3, <2>4, <2>5, <2>6 DEF TestStep
<1> QED BY <1>1, <1>2, <1>3, <1>4, QuietSteps DEF ExampleNext, testVars

\* A request in hand.
LEMMA UnderwayIsAsked ==
    ASSUME RuntimeInv, AsksInv, Underway
    PROVE  /\ client[Test] = "waiting" /\ ~Answered
           /\ script # <<>> /\ Head(script).do = "ask" /\ message[Test] = Head(script).message
BY Apart DEF Underway, RuntimeInv, OwedInv, AsksInv, Answered

\* Where the loop is in its handler for a request.
HandInv ==
    /\ pc[Loop] = "blocking" => message[Test].kind = "Execute" /\ message[Test].op = SyncOp
    /\ pc[Loop] \in {"send", "await"} =>
          message[Test].kind \in E!Requests /\ cur[Loop] = message[Test].exec
    /\ pc[Loop] = "send" => want[Loop] = message[Test].kind
    /\ pc[Loop] = "await" => message[Test].kind = "ReportStatus"

LEMMA LoopKeepsHandInv ==
    ASSUME ExampleInv, E!IInv, MessageType, RuntimeInv, HandInv, LoopStep
    PROVE  HandInv'
<1> USE Apart
<1>0. /\ pc \in [{Loop} -> {"idle", "blocking", "send", "await", "dead"}]
      /\ cur \in [{Loop} -> E!Ids \cup {None}] /\ want \in [{Loop} -> E!Requests \cup {None}]
  <2>1. Threads \cup {Loop} = {Loop}
    BY ExampleAssumption
  <2> QED BY <2>1 DEF E!IInv, E!TypeOK
<1>1. message' = message
  BY LoopLeavesTest DEF clientVars
<1> DEFINE m == message[Test]
<1>2. ASSUME pc'[Loop] \notin {"blocking", "send", "await"}
      PROVE  HandInv'
  BY <1>2 DEF HandInv
<1>3. CASE LoopExecutes
  <2>1. pc'[Loop] \in {"idle", "blocking", "send", "await"} /\ m.kind = "Execute" /\ Handle(m)
    BY <1>3 DEF LoopExecutes, LoopReceives, Goes
  <2>2. ASSUME pc'[Loop] \in {"blocking", "send", "await"}
        PROVE  pc'[Loop] = "blocking" /\ m.op = SyncOp
    <3>1. ~poisoned /\ pc[Loop] = "idle"
      BY <1>0, <2>1, <2>2, ExampleAssumption, OtherKinds DEF ExampleInv, StartedInv, Handle, E!MutexPoisoned, E!Locks,
            E!ExecuteRefused, E!ExecuteFails, E!ExecutePanics, E!ExecuteStarts, E!MayExecute
    <3>2. \E t, k \in BOOLEAN : E!ExecuteStarts(Loop, m.op, t, k)
      BY <1>0, <2>1, <2>2, <3>1, ExampleAssumption, OtherKinds
         DEF Handle, E!MutexPoisoned, E!ExecuteRefused, E!ExecuteFails, E!ExecutePanics
    <3>3. PICK t, k \in BOOLEAN : E!ExecuteStarts(Loop, m.op, t, k)
      BY <3>2
    <3>4. m.op \in SyncOps /\ pc'[Loop] = "blocking"
      <4> HIDE DEF m
      <4> QED BY <1>0, <2>2, <3>1, <3>3 DEF E!ExecuteStarts
    <3> QED BY <3>4, ExampleAssumption
  <2> QED BY <1>1, <1>2, <2>1, <2>2 DEF HandInv
<1>4. CASE LoopLooksUp
  <2>1. m.kind # "Execute" /\ Handle(m)
    BY <1>4 DEF LoopLooksUp, LoopReceives
  <2>2. ASSUME NEW e
        PROVE  E!ExecutionNotFound(Loop, e) \/ E!RemoveRefused(Loop, e) \/ E!Remove(Loop, e)
                 \/ E!GetResult(Loop, e) \/ E!ControlRefused(Loop, e) => pc' = pc /\ pc[Loop] = "idle"
    BY DEF E!ExecutionNotFound, E!RemoveRefused, E!Remove, E!GetResult, E!ControlRefused, E!Locks
  <2>3. E!ListOperations(Loop) => pc'[Loop] \in {"idle", "dead"}
    BY <1>0 DEF E!ListOperations
  <2>4. E!MutexPoisoned(Loop) => pc' = pc /\ pc[Loop] = "idle"
    BY DEF E!MutexPoisoned
  <2>5. \/ pc'[Loop] \in {"idle", "dead"}
        \/ m.kind \in E!Requests /\ E!GetControl(Loop, m.exec, m.kind)
    <3> HIDE DEF m
    <3> QED BY <2>1, <2>2, <2>3, <2>4 DEF Handle
  <2>6. CASE m.kind \in E!Requests /\ E!GetControl(Loop, m.exec, m.kind)
    <3>1. pc'[Loop] = "send" /\ cur'[Loop] = m.exec /\ want'[Loop] = m.kind
      <4> HIDE DEF m
      <4> QED BY <1>0, <2>6 DEF E!GetControl
    <3> QED BY <1>1, <2>6, <3>1 DEF HandInv
  <2> QED BY <1>2, <2>5, <2>6
<1>5. CASE LoopGoesOn
  <2>1. E!StoreSyncResult(Loop) \/ E!SendFails(Loop) \/ E!ReceiveStatus(Loop) => pc'[Loop] = "idle"
    BY <1>0 DEF E!StoreSyncResult, E!SendFails, E!ReceiveStatus, E!Returns
  <2>2. CASE E!SendEvent(Loop)
    <3>1. pc[Loop] = "send"
      BY <2>2 DEF E!SendEvent
    <3>2. \/ pc'[Loop] = "idle"
          \/ pc'[Loop] = "await" /\ want[Loop] = "ReportStatus" /\ cur' = cur
      BY <1>0, <2>2 DEF E!SendEvent, E!Returns
    <3> QED BY <1>1, <1>2, <3>1, <3>2 DEF HandInv
  <2> QED BY <1>2, <1>5, <2>1, <2>2 DEF LoopGoesOn, LoopContinues
<1>6. CASE SyncOperationRuns
  <2>1. UNCHANGED <<pc, cur, want>>
    BY <1>6 DEF SyncOperationRuns, E!OpCompletes, E!callerVars
  <2> QED BY <1>1, <2>1 DEF HandInv
<1>7. CASE LoopQueries
  <2>1. UNCHANGED <<pc, cur, want>>
    BY <1>7 DEF LoopQueries, LoopAnswersOther, entityVars
  <2> QED BY <1>1, <2>1 DEF HandInv
<1>8. CASE LoopEnds
  <2>1. UNCHANGED <<pc, cur, want>> \/ pc'[Loop] = "dead"
    BY <1>0, <1>8 DEF LoopEnds, E!CallerIsDropped, entityVars
  <2> QED BY <1>1, <1>2, <2>1 DEF HandInv
<1> QED BY <1>3, <1>4, <1>5, <1>6, <1>7, <1>8 DEF LoopStep

LEMMA StepKeepsHandInv ==
    ASSUME ExampleInv, E!IInv, MessageType, RuntimeInv, AsksInv, HandInv, [ExampleNext]_exampleVars
    PROVE  HandInv'
<1> USE Apart
<1>1. ASSUME UNCHANGED <<pc, cur, want>>, message' = message \/ ~Underway
      PROVE  HandInv'
  <2>1. pc[Loop] \in {"blocking", "send", "await"} => Underway
    BY DEF RuntimeInv, RuntimeTypes, LoopInv, Underway
  <2> QED BY <1>1, <2>1 DEF HandInv
<1>2. CASE UNCHANGED vars
  BY <1>1, <1>2 DEF vars, entityVars, runtimeVars, clientVars
<1>3. ASSUME NEW i \in E!Ids, ExecutionStep(i)
      PROVE  HandInv'
  BY <1>1, <1>3, ExecutionLeavesRest DEF runtimeVars, clientVars
<1>4. CASE TestStep
  <2>1. UNCHANGED <<pc, cur, want>>
    BY <1>4, TestLeavesExecutions DEF entityVars
  <2>2. Underway => client[Test] = "waiting" /\ ~Answered
    BY UnderwayIsAsked
  <2>3. TestTakesReply => ~Underway
    BY <2>2 DEF TestTakesReply, TakeAnswer, Answered
  <2>4. TestSends => message' = message \/ ~Underway
    BY <2>2 DEF TestSends, Send, Deliver
  <2>5. TestRuns \/ TestShutsDown => message' = message
    BY DEF TestRuns, Run, TestShutsDown, Shutdown, clientVars
  <2>6. TestAwaitsReply \/ TestWrites \/ TestPauses \/ TestJoins \/ ClientChooses \/ TestEnds
          => message' = message
    BY DEF TestAwaitsReply, TestWrites, TestPauses, TestJoins, ClientChooses, TestEnds, AwaitsAs,
           vars, runtimeVars, clientVars
  <2> QED BY <1>1, <1>4, <2>1, <2>3, <2>4, <2>5, <2>6 DEF TestStep
<1> QED BY <1>2, <1>3, <1>4, LoopKeepsHandInv, QuietSteps DEF ExampleNext

\* All of this at once.
Base ==
    /\ Joint
    /\ RuntimeInv
    /\ WakeInv
    /\ SettledInv
    /\ StopInv
    /\ AsksInv
    /\ HandInv

LEMMA InitBase == ExampleInit => Base
<1> SUFFICES ASSUME ExampleInit PROVE Base
  OBVIOUS
<1> USE Apart
<1>1. Joint /\ RuntimeInv
  BY InitExampleInv, InitIsRuntime, InitRuntimeInv DEF Joint
<1>2. /\ pc[Loop] = "idle" /\ receiver = "unclaimed" /\ current = None /\ fresh = {} /\ expired = {}
      /\ client[Test] = "idle" /\ answer[Test] = Pending
      /\ \A i \in E!Ids : task[i] = "none"
  BY DEF ExampleInit, Init, E!Init
<1>3. WakeInv
  BY <1>2 DEF WakeInv, CanGoOn, Tasks
<1>4. SettledInv /\ StopInv /\ AsksInv /\ HandInv
  BY <1>2 DEF SettledInv, StopInv, Spawned, AsksInv, Answered, HandInv
<1> QED BY <1>1, <1>3, <1>4 DEF Base

LEMMA StepKeepsBase == Base /\ [ExampleNext]_exampleVars => Base'
<1> SUFFICES ASSUME Base, [ExampleNext]_exampleVars PROVE Base'
  OBVIOUS
<1>1. Joint' /\ [Next]_vars
  BY StepKeepsJoint DEF Base
<1>2. RuntimeInv'
  BY <1>1, NextRuntimeInv DEF Base, Joint
<1> QED BY <1>1, <1>2, StepKeepsWakeInv, StepKeepsSettledInv, StepKeepsStopInv, StepKeepsAsksInv,
           StepKeepsHandInv DEF Base, Joint

LEMMA BaseHolds == ExampleSpec => []Base
BY InitBase, StepKeepsBase, PTL DEF ExampleSpec

-----------------------------------------------------------------------------
(* The tests, step by step: how far the request that is under way got, and *)
(* what is known of the one execution.                                     *)

Waits == serving = None /\ ~Answered
Told(what) == answer[Test].kind = "ok" /\ detail = what

NoneYet == nextId = 1 /\ activeExecId = None
One(op, withTimeout) ==
    /\ nextId = 2 /\ opOf[1] = op /\ timed[1] = withTimeout
    /\ entry[1] # "none" /\ 1 \notin misled
Over(how) == task[1] = "finished" /\ outcome[1] = how

\* It has nothing to do, and is not over unless it timed out.
Calm(status) ==
    /\ queue[1] = <<>> /\ notified[1] = 0 /\ 1 \notin stopped
    /\ opStatus[1] = status /\ outcome[1] # "ok"

\* It has one event to take, and nothing else to do.
Busy(status, kind) ==
    /\ notified[1] = 0 /\ 1 \notin stopped /\ opStatus[1] = status /\ outcome[1] # "ok"
    /\ Len(queue[1]) = 1 /\ Event(1) = kind

\* It is over, or ends when it is polled.
Signalled == queue[1] = <<>> /\ 1 \notin stopped /\ (task[1] = "running" => notified[1] > 0)

StatusAtStart(op) == IF op = AsyncOp THEN "Scheduled" ELSE "Running"

\* The second status request signals MyAsyncOperation.
AfterStatus(op, status) == IF op = AsyncOp /\ status # "Scheduled" THEN Signalled ELSE Calm("Running")

Querying(what) == Answered => Told(what)

Executing(op, withTimeout) ==
    /\ Waits => NoneYet
    /\ ~Waits => One(op, withTimeout) /\ (op # SyncOp => Calm(StatusAtStart(op)))
    /\ Answered => Told(None) /\ (op = SyncOp => Over("ok") /\ entry[1] = "completed")
    /\ serving # None => op = SyncOp /\ cur[Loop] = 1

AskingStatus(op, status) ==
    /\ One(op, FALSE)
    /\ Waits \/ pc[Loop] = "send" => Calm(status)
    /\ pc[Loop] = "await" =>
         IF slot[Loop] = None THEN Busy(status, "ReportStatus")
         ELSE slot[Loop] = status /\ AfterStatus(op, status)
    /\ Answered => Told(status) /\ AfterStatus(op, status)

AskingCapability ==
    /\ One(AsyncOp, FALSE)
    /\ ~Answered => Calm("Running")
    /\ Answered => Told(None) /\ (Calm("HandleCustomCapability") \/ Busy("Running", "HandleCustomCapability"))

\* "execution may have already finished", and it always has.
AskingLate ==
    /\ One(AsyncOp, FALSE) /\ Over("ok")
    /\ pc[Loop] # "await"
    /\ Answered => answer[Test].kind = "error"

\* The routine may still be on its way to the end.
Stopping(op, status) ==
    /\ One(op, FALSE)
    /\ ~Answered => Calm(status)
    /\ Answered => /\ Told(None) /\ 1 \in stopped
                   /\ op = AsyncOp =>
                        notified[1] = 0 /\ ~Queued(1, "ReportStatus") /\ outcome[1] # "ok"

Yielding(op, how) == One(op, FALSE) /\ Over(how)

\* The timer of the execution fired: its branch is still to be polled, and that
\* before the loop is.
Due ==
    /\ 1 \in expired
    /\ \/ current = 1 /\ In(branches, "timer")
       \/ /\ current # Loop
          /\ \E k \in DOMAIN runQueue : runQueue[k] = 1 /\ \A j \in 1..k : runQueue[j] # Loop

TimesOut ==
    /\ One(AsyncOp, TRUE) /\ Calm("Scheduled")
    /\ root = "sleeps" \/ Over("timeout") \/ Due
    /\ root = "sleeps" => client[Test] # "waiting" /\ current # Test

Resulting(op, how) ==
    /\ IF how = "timeout" THEN TimesOut
       ELSE One(op, FALSE) /\ Over(how) /\ (op = SyncOp => entry[1] = "completed")
    /\ Answered => answer[Test].kind = "result"

Ahead(steps) == script = steps \o Ends

ReadTest ==
    \/ Ahead(DataResourceRead) /\ Querying(Listed)
    \/ Ahead(Tail(DataResourceRead)) /\ Querying(R!FromString("value"))
RdbiTest == Ahead(DataResourceUdsRdbi) /\ Querying(R!FromByteVector("deadbeef"))
SyncTest ==
    \/ Ahead(ExecutionOfSynchronousOperation) /\ Executing(SyncOp, FALSE)
    \/ Ahead(<<AsksResult(SyncOp, "ok")>>) /\ Resulting(SyncOp, "ok")
StopTest ==
    \/ Ahead(ExecutionAndStopOfAsynchronousOperation) /\ Executing(AsyncOp, FALSE)
    \/ Ahead(<<Stops, Does("yield"), AsksResult(AsyncOp, "err")>>) /\ Stopping(AsyncOp, "Scheduled")
    \/ Ahead(<<Does("yield"), AsksResult(AsyncOp, "err")>>) /\ Yielding(AsyncOp, "err")
    \/ Ahead(<<AsksResult(AsyncOp, "err")>>) /\ Resulting(AsyncOp, "err")
TimeoutTest ==
    \/ Ahead(ExecutionTimeoutOfAsynchronousOperation) /\ Executing(AsyncOp, TRUE)
    \/ /\ Ahead(<<Does("sleep"), AsksResult(AsyncOp, "timeout")>>)
       /\ One(AsyncOp, TRUE) /\ Calm("Scheduled")
    \/ Ahead(<<AsksResult(AsyncOp, "timeout")>>) /\ Resulting(AsyncOp, "timeout")
QueryTest ==
    \/ Ahead(ExecutionAndQueryOfAsynchronousOperation) /\ Executing(AsyncOp, FALSE)
    \/ /\ Ahead(<<AsksStatus({Yes("Scheduled")}), AsksCapability, AsksStatus({Yes("HandleCustomCapability")}),
                  AsksStatus({Yes("Running"), No}), Does("yield"), AsksResult(AsyncOp, "ok")>>)
       /\ AskingStatus(AsyncOp, "Scheduled")
    \/ /\ Ahead(<<AsksCapability, AsksStatus({Yes("HandleCustomCapability")}),
                  AsksStatus({Yes("Running"), No}), Does("yield"), AsksResult(AsyncOp, "ok")>>)
       /\ AskingCapability
    \/ /\ Ahead(<<AsksStatus({Yes("HandleCustomCapability")}),
                  AsksStatus({Yes("Running"), No}), Does("yield"), AsksResult(AsyncOp, "ok")>>)
       /\ AskingStatus(AsyncOp, "HandleCustomCapability")
    \/ /\ Ahead(<<AsksStatus({Yes("Running"), No}), Does("yield"), AsksResult(AsyncOp, "ok")>>)
       /\ AskingLate
    \/ Ahead(<<Does("yield"), AsksResult(AsyncOp, "ok")>>) /\ Yielding(AsyncOp, "ok")
    \/ Ahead(<<AsksResult(AsyncOp, "ok")>>) /\ Resulting(AsyncOp, "ok")
RoutineTest ==
    \/ Ahead(ExecutionAndQueryOfUdsRoutine) /\ Executing(RoutineOp, FALSE)
    \/ /\ Ahead(<<AsksStatus({Yes("Running")}), Stops, Does("yield"), AsksResult(RoutineOp, "ok")>>)
       /\ AskingStatus(RoutineOp, "Running")
    \/ Ahead(<<Stops, Does("yield"), AsksResult(RoutineOp, "ok")>>) /\ Stopping(RoutineOp, "Running")
    \/ Ahead(<<Does("yield"), AsksResult(RoutineOp, "ok")>>) /\ Yielding(RoutineOp, "ok")
    \/ Ahead(<<AsksResult(RoutineOp, "ok")>>) /\ Resulting(RoutineOp, "ok")

UnderTest == ReadTest \/ RdbiTest \/ SyncTest \/ StopTest \/ TimeoutTest \/ QueryTest \/ RoutineTest
AtStart == NoneYet /\ \E t \in Tests : script = <<Does("run")>> \o t \o Ends

\* Nothing more is asserted.
Free == \A k \in DOMAIN script : script[k].do = "ask" => script[k].expect = {}

Stage == Free \/ (~shutdownRequested /\ (AtStart \/ UnderTest))

-----------------------------------------------------------------------------
(* What is asked, and what is left of a script. *)

\* The script goes on with a step.
Has(step, rest) ==
    /\ script # <<>> /\ Head(script) = step
    /\ script' = Tail(script) => Ahead(rest)'

LEMMA Scripting ==
    /\ \A a : Ahead(<<a>>) => Has(a, <<>>)
    /\ \A a, b : Ahead(<<a, b>>) => Has(a, <<b>>)
    /\ \A a, b, c : Ahead(<<a, b, c>>) => Has(a, <<b, c>>)
    /\ \A a, b, c, d : Ahead(<<a, b, c, d>>) => Has(a, <<b, c, d>>)
    /\ \A a, b, c, d, e : Ahead(<<a, b, c, d, e>>) => Has(a, <<b, c, d, e>>)
    /\ \A a, b, c, d, e, f : Ahead(<<a, b, c, d, e, f>>) => Has(a, <<b, c, d, e, f>>)
    /\ \A a, b, c, d, e, f, g : Ahead(<<a, b, c, d, e, f, g>>) => Has(a, <<b, c, d, e, f, g>>)
<1>1. ASSUME NEW S, NEW s \in Seq(S), s # <<>>, Ahead(s)
      PROVE  Has(Head(s), Tail(s))
  <2> DEFINE T == S \cup {Does("shutdown"), Does("join")}
  <2>1. s \in Seq(T) /\ Ends \in Seq(T)
    BY DEF Ends
  <2> HIDE DEF T
  <2>2. s \o Ends # <<>> /\ Head(s \o Ends) = Head(s) /\ Tail(s \o Ends) = Tail(s) \o Ends
    BY <1>1, <2>1
  <2> QED BY <1>1, <2>2 DEF Ahead, Has, Ends, Does
<1>2. ASSUME NEW a, Ahead(<<a>>)
      PROVE  Has(a, <<>>)
  <2>1. <<a>> \in Seq({a}) /\ <<a>> # <<>>
        /\ Head(<<a>>) = a /\ Tail(<<a>>) = <<>>
    OBVIOUS
  <2>2. Has(Head(<<a>>), Tail(<<a>>))
    BY <1>1, <1>2, <2>1
  <2> QED BY <2>1, <2>2
<1>3. ASSUME NEW a, NEW b, Ahead(<<a, b>>)
      PROVE  Has(a, <<b>>)
  <2>1. <<a, b>> \in Seq({a, b}) /\ <<a, b>> # <<>>
        /\ Head(<<a, b>>) = a /\ Tail(<<a, b>>) = <<b>>
    OBVIOUS
  <2>2. Has(Head(<<a, b>>), Tail(<<a, b>>))
    BY <1>1, <1>3, <2>1
  <2> QED BY <2>1, <2>2
<1>4. ASSUME NEW a, NEW b, NEW c, Ahead(<<a, b, c>>)
      PROVE  Has(a, <<b, c>>)
  <2>1. <<a, b, c>> \in Seq({a, b, c}) /\ <<a, b, c>> # <<>>
        /\ Head(<<a, b, c>>) = a /\ Tail(<<a, b, c>>) = <<b, c>>
    OBVIOUS
  <2>2. Has(Head(<<a, b, c>>), Tail(<<a, b, c>>))
    BY <1>1, <1>4, <2>1
  <2> QED BY <2>1, <2>2
<1>5. ASSUME NEW a, NEW b, NEW c, NEW d, Ahead(<<a, b, c, d>>)
      PROVE  Has(a, <<b, c, d>>)
  <2>1. <<a, b, c, d>> \in Seq({a, b, c, d}) /\ <<a, b, c, d>> # <<>>
        /\ Head(<<a, b, c, d>>) = a /\ Tail(<<a, b, c, d>>) = <<b, c, d>>
    OBVIOUS
  <2>2. Has(Head(<<a, b, c, d>>), Tail(<<a, b, c, d>>))
    BY <1>1, <1>5, <2>1
  <2> QED BY <2>1, <2>2
<1>6. ASSUME NEW a, NEW b, NEW c, NEW d, NEW e, Ahead(<<a, b, c, d, e>>)
      PROVE  Has(a, <<b, c, d, e>>)
  <2>1. <<a, b, c, d, e>> \in Seq({a, b, c, d, e}) /\ <<a, b, c, d, e>> # <<>>
        /\ Head(<<a, b, c, d, e>>) = a /\ Tail(<<a, b, c, d, e>>) = <<b, c, d, e>>
    OBVIOUS
  <2>2. Has(Head(<<a, b, c, d, e>>), Tail(<<a, b, c, d, e>>))
    BY <1>1, <1>6, <2>1
  <2> QED BY <2>1, <2>2
<1>7. ASSUME NEW a, NEW b, NEW c, NEW d, NEW e, NEW f, Ahead(<<a, b, c, d, e, f>>)
      PROVE  Has(a, <<b, c, d, e, f>>)
  <2>1. <<a, b, c, d, e, f>> \in Seq({a, b, c, d, e, f}) /\ <<a, b, c, d, e, f>> # <<>>
        /\ Head(<<a, b, c, d, e, f>>) = a /\ Tail(<<a, b, c, d, e, f>>) = <<b, c, d, e, f>>
    OBVIOUS
  <2>2. Has(Head(<<a, b, c, d, e, f>>), Tail(<<a, b, c, d, e, f>>))
    BY <1>1, <1>7, <2>1
  <2> QED BY <2>1, <2>2
<1>8. ASSUME NEW a, NEW b, NEW c, NEW d, NEW e, NEW f, NEW g, Ahead(<<a, b, c, d, e, f, g>>)
      PROVE  Has(a, <<b, c, d, e, f, g>>)
  <2>1. <<a, b, c, d, e, f, g>> \in Seq({a, b, c, d, e, f, g}) /\ <<a, b, c, d, e, f, g>> # <<>>
        /\ Head(<<a, b, c, d, e, f, g>>) = a /\ Tail(<<a, b, c, d, e, f, g>>) = <<b, c, d, e, f, g>>
    OBVIOUS
  <2>2. Has(Head(<<a, b, c, d, e, f, g>>), Tail(<<a, b, c, d, e, f, g>>))
    BY <1>1, <1>8, <2>1
  <2> QED BY <2>1, <2>2
<1> QED BY <1>2, <1>3, <1>4, <1>5, <1>6, <1>7, <1>8

LEMMA Requesting ==
    /\ \A op : /\ Executes(op).do = "ask" /\ Executes(op).timeout = FALSE
               /\ Executes(op).message = [kind |-> "Execute", op |-> op]
               /\ Executes(op).expect = {Yes(None)}
    /\ \A op : /\ ExecutesWithTimeout(op).do = "ask" /\ ExecutesWithTimeout(op).timeout = TRUE
               /\ ExecutesWithTimeout(op).message = [kind |-> "Execute", op |-> op]
               /\ ExecutesWithTimeout(op).expect = {Yes(None)}
    /\ \A expected : /\ AsksStatus(expected).do = "ask"
                     /\ AsksStatus(expected).message = [kind |-> "ReportStatus", exec |-> 1]
                     /\ AsksStatus(expected).expect = expected
    /\ AsksCapability.do = "ask" /\ AsksCapability.expect = {Yes(None)}
    /\ AsksCapability.message = [kind |-> "HandleCustomCapability", exec |-> 1]
    /\ Stops.do = "ask" /\ Stops.expect = {Yes(None)}
    /\ Stops.message = [kind |-> "Stop", exec |-> 1]
    /\ \A op, how : /\ AsksResult(op, how).do = "ask"
                    /\ AsksResult(op, how).message = [kind |-> "GetResult", exec |-> 1]
                    /\ AsksResult(op, how).expect = {Yes(ResultOf(op, how))}
    /\ \A query, reply_ : /\ Queries(query, reply_).do = "ask" /\ Queries(query, reply_).query = query
                         /\ Queries(query, reply_).message = [kind |-> "Other"]
                         /\ Queries(query, reply_).expect = {reply_}
    /\ \A what : Does(what).do = what
BY DEF Executes, ExecutesWithTimeout, AsksStatus, AsksCapability, Stops, AsksResult, Queries, Asks, Does

\* What the message of a request is.
LEMMA Requested ==
    ASSUME message[Test] = Head(script).message
    PROVE  /\ \A op : Head(script) \in {Executes(op), ExecutesWithTimeout(op)} =>
                 message[Test].kind = "Execute" /\ message[Test].op = op
           /\ \A expected : Head(script) = AsksStatus(expected) =>
                 message[Test].kind = "ReportStatus" /\ message[Test].exec = 1
           /\ Head(script) = AsksCapability =>
                 message[Test].kind = "HandleCustomCapability" /\ message[Test].exec = 1
           /\ Head(script) = Stops => message[Test].kind = "Stop" /\ message[Test].exec = 1
           /\ \A op, how : Head(script) = AsksResult(op, how) =>
                 message[Test].kind = "GetResult" /\ message[Test].exec = 1
           /\ \A query, reply_ : Head(script) = Queries(query, reply_) => message[Test].kind = "Other"
<1>1. ASSUME NEW op, Head(script) \in {Executes(op), ExecutesWithTimeout(op)}
      PROVE  message[Test].kind = "Execute" /\ message[Test].op = op
  <2>1. Head(script).message = [kind |-> "Execute", op |-> op]
    BY <1>1, Requesting
  <2> QED BY <2>1
<1>2. ASSUME NEW expected, Head(script) = AsksStatus(expected)
      PROVE  message[Test].kind = "ReportStatus" /\ message[Test].exec = 1
  BY <1>2, Requesting
<1>3. /\ Head(script) = AsksCapability =>
            message[Test].kind = "HandleCustomCapability" /\ message[Test].exec = 1
      /\ Head(script) = Stops => message[Test].kind = "Stop" /\ message[Test].exec = 1
  BY Requesting
<1>4. ASSUME NEW op, NEW how, Head(script) = AsksResult(op, how)
      PROVE  message[Test].kind = "GetResult" /\ message[Test].exec = 1
  BY <1>4, Requesting
<1>5. ASSUME NEW query, NEW reply_, Head(script) = Queries(query, reply_)
      PROVE  message[Test].kind = "Other"
  BY <1>5, Requesting
<1> QED BY <1>1, <1>2, <1>3, <1>4, <1>5

-----------------------------------------------------------------------------
(* The one execution of a test. *)

LEMMA OneFacts ==
    ASSUME Base, NEW op, NEW withTimeout, One(op, withTimeout)
    PROVE  /\ op \in Ops /\ task[1] \in {"running", "finished"} /\ entry[1] \in {"running", "completed"}
           /\ opStatus[1] \in Statuses /\ notified[1] \in Nat /\ queue[1] \in Seq(E!Events)
           /\ task[1] = "running" => entry[1] = "running" /\ (op # SyncOp => rxOpen[1])
           /\ task[1] = "finished" =>
                 ~rxOpen[1] /\ queue[1] = <<>> /\ outcome[1] \in {"ok", "err", "timeout"}
           /\ outcome[1] = "err" => op = AsyncOp /\ 1 \in stopped
           /\ outcome[1] = "ok" /\ op = RoutineOp => 1 \in stopped
           /\ outcome[1] = "timeout" => withTimeout /\ op # SyncOp
           /\ \A i \in E!Ids : i < nextId => i = 1
<1> USE Apart
<1>1. ExampleInv /\ E!IInv /\ StopInv
  BY DEF Base, Joint
<1>2. /\ entry \in [E!Ids -> {"none", "running", "completed"}]
      /\ task[1] = "none" => entry[1] = "none"
      /\ task[1] = "running" => entry[1] = "running"
      /\ task[1] = "finished" => outcome[1] \in {"ok", "err", "timeout", "unavailable"}
  BY <1>1 DEF E!IInv, E!TypeOK, E!IdsAreFresh, E!RunningIsListed, E!EndedHasOutcome, E!Outcomes, E!OpResults
<1>3. task[1] \in {"running", "finished"} /\ entry[1] \in {"running", "completed"}
  BY <1>1, <1>2, EntityFacts DEF One
<1>4. op \in Ops /\ (rxOpen[1] => task[1] = "running") /\ (queue[1] # <<>> => rxOpen[1])
  BY <1>1, <1>3, EntityFacts DEF One, ExampleInv, StartedInv
<1>5. opStatus[1] \in Statuses /\ notified[1] \in Nat /\ queue[1] \in Seq(E!Events)
  BY <1>1, EntityFacts DEF ExampleInv, ExampleTypes
<1>6. /\ outcome[1] = "err" => op = AsyncOp /\ 1 \in stopped
      /\ outcome[1] = "ok" /\ op = RoutineOp => 1 \in stopped
      /\ outcome[1] = "timeout" => withTimeout /\ op # SyncOp
      /\ outcome[1] # "unavailable"
  BY <1>1 DEF ExampleInv, OutcomeHasCause, OfRoutine, One
<1>7. \A i \in E!Ids : i < nextId => i = 1
  BY Setting DEF One
<1>8. task[1] = "running" /\ op # SyncOp => rxOpen[1]
  BY <1>1 DEF StopInv, Spawned, One
<1> QED BY <1>2, <1>3, <1>4, <1>5, <1>6, <1>7, <1>8

\* Only the one execution takes a step, and it stays the one.
LEMMA OneSteps ==
    ASSUME Base, NEW op, NEW withTimeout, One(op, withTimeout), NEW i \in E!Ids, ExecutionStep(i)
    PROVE  /\ i = 1 /\ task[1] = "running" /\ One(op, withTimeout)'
           /\ TakesOne(1) \/ \E o \in E!Outcomes : EndsAs(1, o)
           /\ UNCHANGED <<serving, answer, detail, stopped, misled, shutdownRequested, pc, cur, entry, script>>
<1>1. ExampleInv /\ E!IInv
  BY DEF Base, Joint
<1>2. i = 1
  BY <1>1, OneFacts, ExecutionLeavesRest
<1>3. UNCHANGED <<nextId, opOf, timed, entry, serving, answer, detail, stopped, misled, shutdownRequested,
                  pc, cur, script>>
      /\ task[1] = "running"
  BY <1>1, <1>2, ExecutionLeavesRest DEF runtimeVars, loopVars, testVars
<1>4. One(op, withTimeout)'
  BY <1>3 DEF One
<1> QED BY <1>1, <1>2, <1>3, <1>4, ExecutionEffect

LEMMA OverStays ==
    ASSUME Base, NEW op, NEW withTimeout, One(op, withTimeout), NEW how, Over(how)
    PROVE  \A i \in E!Ids : ~ExecutionStep(i)
BY OneSteps DEF Over

\* What has nothing to do can only time out.
LEMMA CalmStays ==
    ASSUME Base, NEW op, NEW withTimeout \in BOOLEAN, One(op, withTimeout), op # SyncOp,
           NEW status, Calm(status), NEW i \in E!Ids, ExecutionStep(i)
    PROVE  withTimeout /\ Calm(status)' /\ Over("timeout")'
<1> USE Apart
<1>1. ExampleInv /\ E!IInv
  BY DEF Base, Joint
<1>2. ~TakesOne(1)
  BY <1>1, Taking DEF Calm
<1>3. PICK o \in E!Outcomes : EndsAs(1, o)
  BY <1>2, OneSteps
<1>4. o = "timeout" /\ timed[1]
  BY <1>3 DEF EndsAs, Calm, Queued, One
<1>5. /\ UNCHANGED <<opStatus, notified, stopped, misled>>
      /\ task'[1] = "finished" /\ outcome'[1] = "timeout" /\ queue'[1] = <<>>
  BY <1>1, <1>3, <1>4, Ending
<1> QED BY <1>4, <1>5 DEF Calm, Over, One

\* Without a timeout it is under way.
LEMMA CalmIsAlive ==
    ASSUME Base, NEW op, One(op, FALSE), op # SyncOp, NEW status, Calm(status)
    PROVE  task[1] = "running" /\ entry[1] = "running" /\ rxOpen[1]
BY OneFacts DEF Calm

LEMMA BusyIsAlive ==
    ASSUME Base, NEW op, One(op, FALSE), op # SyncOp, NEW status, NEW kind, Busy(status, kind)
    PROVE  task[1] = "running"
BY OneFacts DEF Busy

\* What has one event takes it.
LEMMA BusyTakes ==
    ASSUME Base, NEW op, One(op, FALSE), op # SyncOp,
           NEW status, NEW kind, Busy(status, kind), kind # "Stop", NEW i \in E!Ids, ExecutionStep(i)
    PROVE  TakesOne(1) /\ queue'[1] = <<>> /\ outcome'[1] # "ok" /\ Event(1) = kind
<1> USE Apart
<1>1. ExampleInv /\ E!IInv
  BY DEF Base, Joint
<1>2. ASSUME NEW s \in Seq(E!Events), Len(s) = 1
      PROVE  Head(s) = s[1] /\ DOMAIN s = {1} /\ Tail(s) = <<>>
  <2>1. s # <<>> /\ Head(s) = s[1] /\ DOMAIN s = 1..1
    BY <1>2
  <2>2. Tail(s) \in Seq(E!Events) /\ Len(Tail(s)) = 0
    BY <1>2, <2>1, HeadTailProperties
  <2>3. Tail(s) = <<>>
    BY <2>2, EmptySeq
  <2> QED BY <2>1, <2>3
<1>3. /\ queue[1][1].kind = kind /\ DOMAIN queue[1] = {1} /\ Tail(queue[1]) = <<>>
      /\ ~Queued(1, "Stop")
  BY <1>2, OneFacts DEF Busy, Event, Queued
<1>4. \A o \in E!Outcomes : ~EndsAs(1, o)
  <2>1. ~Queued(1, "HandleOtherCapability")
    BY <1>1 DEF ExampleInv, CauseInv, One
  <2> QED BY <1>3, <2>1 DEF EndsAs, Busy, One
<1>5. TakesOne(1)
  BY <1>4, OneSteps
<1>6. queue'[1] = Tail(queue[1]) /\ outcome' = outcome
  BY <1>1, <1>5, Taking
<1> QED BY <1>3, <1>5, <1>6 DEF Busy

\* What is signalled stays so until it is over.
LEMMA SignalledStays ==
    ASSUME Base, NEW op, One(op, FALSE), Signalled, NEW i \in E!Ids, ExecutionStep(i)
    PROVE  Signalled' /\ slot'[Loop] = slot[Loop]
<1> USE Apart
<1>1. ExampleInv /\ E!IInv
  BY DEF Base, Joint
<1>2. ~TakesOne(1) /\ E!Reporters(1) = {}
  BY <1>1, Taking DEF Signalled, E!Reporters
<1>3. PICK o \in E!Outcomes : EndsAs(1, o)
  BY <1>2, OneSteps
<1>4. slot'[Loop] = slot[Loop]
  BY <1>1, <1>2, <1>3, EntityFacts DEF EndsAs, E!Ends, E!CloseControl
<1> QED BY <1>1, <1>3, <1>4, Ending DEF Signalled

-----------------------------------------------------------------------------
(* The loop at work on the request of a test. *)

\* The request gets a reply.
Replied(kind, what) == answer'[Test].kind = kind /\ detail' = what /\ serving' = None /\ pc'[Loop] = "idle"

\* The loop keeps the request in hand.
StillInHand == serving' = Test /\ UNCHANGED answer

\* The executions stay what they are, but for their channels.
Undisturbed ==
    UNCHANGED <<nextId, entry, opOf, timed, task, outcome, rxOpen, opStatus, notified, activeExecId, misled,
                shutdownRequested>>

LEMMA LoopUnderway ==
    ASSUME Base, LoopStep, ~shutdownRequested
    PROVE  /\ Underway /\ ~Answered /\ current = Loop /\ UNCHANGED <<script, shutdownRequested>>
           /\ script # <<>> /\ Head(script).do = "ask" /\ message[Test] = Head(script).message
           /\ \/ Waits /\ pc[Loop] = "idle" /\ (LoopExecutes \/ LoopLooksUp \/ LoopQueries)
              \/ ~Waits /\ pc[Loop] = "blocking" /\ message[Test].kind = "Execute"
                 /\ (SyncOperationRuns \/ (LoopGoesOn /\ serving = Test))
              \/ ~Waits /\ pc[Loop] = "send" /\ message[Test].kind \in E!Requests /\ LoopGoesOn /\ serving = Test
              \/ ~Waits /\ pc[Loop] = "await" /\ message[Test].kind = "ReportStatus" /\ LoopGoesOn /\ serving = Test
<1> USE Apart
<1>1. /\ RuntimeTypes /\ LoopInv /\ OwedInv /\ RuntimeInv /\ AsksInv /\ HandInv
  BY DEF Base, RuntimeInv
<1>2. serving \in {Test, None} /\ mailbox \in Seq({Test})
  BY <1>1 DEF RuntimeTypes
<1>3. ASSUME Received(Test)
      PROVE  serving = None /\ pc[Loop] = "idle" /\ In(mailbox, Test)
  <2>1. pc[Loop] \in {"idle", "blocking", "send", "await", "dead"}
    BY EntityFacts DEF Base, Joint
  <2>2. serving = None /\ pc[Loop] = "idle" /\ mailbox # <<>> /\ Test = Head(mailbox)
    BY <1>1, <1>3, <2>1 DEF Received, Idle, LoopInv
  <2> QED BY <1>1, <1>2, <2>2, TailIn DEF OwedInv
<1>4. CASE LoopExecutes \/ LoopLooksUp \/ LoopQueries
  <2>1. Received(Test)
    BY <1>4 DEF LoopExecutes, LoopLooksUp, LoopReceives, LoopQueries, LoopAnswersOther
  <2>2. Underway
    BY <1>3, <2>1 DEF Underway
  <2> QED BY <1>1, <1>3, <1>4, <2>1, <2>2, UnderwayIsAsked, LoopLeavesTest DEF Waits, testVars
<1>5. CASE SyncOperationRuns \/ LoopGoesOn
  <2>1. serving = Test
    BY <1>1, <1>2, <1>5 DEF LoopInv, SyncOperationRuns, LoopGoesOn, LoopContinues
  <2>2. SyncOperationRuns => pc[Loop] = "blocking"
    BY DEF SyncOperationRuns
  <2>3. pc[Loop] \in {"blocking", "send", "await"}
    BY <1>1, <2>1 DEF LoopInv
  <2>4. Underway
    BY <2>1 DEF Underway
  <2> QED BY <1>1, <1>5, <2>1, <2>2, <2>3, <2>4, UnderwayIsAsked, LoopLeavesTest DEF Waits, HandInv, testVars
<1>6. ~LoopEnds
  BY DEF LoopEnds
<1> QED BY <1>4, <1>5, <1>6 DEF LoopStep

\* A control request is looked up in the table,
LEMMA ControlLooksUp ==
    ASSUME Base, LoopStep, ~shutdownRequested, pc[Loop] = "idle",
           message[Test].kind \in E!Requests, message[Test].exec = 1, entry[1] # "none"
    PROVE  /\ Undisturbed /\ UNCHANGED <<queue, slot, stopped>>
           /\ \/ entry[1] = "completed" /\ Replied("error", None)
              \/ pc'[Loop] = "send" /\ StillInHand
<1> USE Apart
<1> DEFINE kind == message[Test].kind
<1>1. LoopLooksUp /\ Handle(message[Test]) /\ Goes(Test)
  BY LoopUnderway, OtherKinds DEF LoopExecutes, LoopQueries, LoopAnswersOther, LoopLooksUp, LoopReceives
<1>2. ~E!MutexPoisoned(Loop)
  BY DEF Base, Joint, ExampleInv, StartedInv, E!MutexPoisoned
<1>3. E!ControlRefused(Loop, 1) \/ E!GetControl(Loop, 1, kind)
  BY <1>1, <1>2, OtherKinds DEF Handle, E!ExecutionNotFound
<1>4. pc \in [{Loop} -> {"idle", "blocking", "send", "await", "dead"}] /\ reply \in [{Loop} -> E!Replies]
      /\ answer \in [{Test} -> E!Replies \cup {Pending, Dropped}]
  <2>1. Threads \cup {Loop} = {Loop}
    BY ExampleAssumption
  <2> QED BY <2>1 DEF Base, Joint, RuntimeInv, RuntimeTypes, E!IInv, E!TypeOK
<1>5. detail' = None /\ UNCHANGED <<notified, opStatus, activeExecId, stopped, misled, shutdownRequested>>
  BY <1>1 DEF LoopLooksUp, LoopReceives, operationVars
<1>6. CASE E!ControlRefused(Loop, 1)
  <2>1. pc' = pc /\ reply'[Loop].kind = "error" /\ entry[1] = "completed"
        /\ UNCHANGED <<nextId, entry, opOf, timed, task, outcome, rxOpen, queue, slot>>
    BY <1>4, <1>6 DEF E!ControlRefused, E!Refuses, E!tableVars, E!futureVars
  <2> QED BY <1>1, <1>4, <1>5, <2>1 DEF Goes, Replied, Undisturbed
<1>7. CASE E!GetControl(Loop, 1, kind)
  <2>1. pc'[Loop] = "send"
        /\ UNCHANGED <<nextId, entry, opOf, timed, task, outcome, rxOpen, queue, slot>>
    BY <1>4, <1>7 DEF E!GetControl, E!tableVars, E!futureVars
  <2> QED BY <1>1, <1>5, <2>1 DEF Goes, StillInHand, Undisturbed
<1> QED BY <1>3, <1>6, <1>7

\* then its event is sent, if the operation can still take it,
LEMMA ControlSends ==
    ASSUME Base, LoopStep, ~shutdownRequested, pc[Loop] = "send", message[Test].exec = 1,
           message[Test].kind # "HandleOtherCapability"
    PROVE  /\ Undisturbed
           /\ \/ ~rxOpen[1] /\ Replied("error", None) /\ UNCHANGED <<queue, stopped>>
              \/ /\ rxOpen[1]
                 /\ queue'[1] = Append(queue[1], [kind |-> message[Test].kind, from |-> Loop])
                 /\ stopped' = IF message[Test].kind = "Stop" THEN stopped \cup {1} ELSE stopped
                 /\ IF message[Test].kind = "ReportStatus"
                    THEN pc'[Loop] = "await" /\ slot'[Loop] = None /\ StillInHand
                    ELSE Replied("ok", None)
<1> USE Apart
<1> DEFINE e == [kind |-> message[Test].kind, from |-> Loop]
<1>1. LoopGoesOn /\ serving = Test /\ cur[Loop] = 1 /\ want[Loop] = message[Test].kind
  BY LoopUnderway DEF Base, HandInv
<1>2. /\ Goes(Test) /\ (E!SendFails(Loop) \/ E!SendEvent(Loop))
      /\ detail' = None /\ UNCHANGED <<notified, opStatus, activeExecId, shutdownRequested>>
  BY <1>1 DEF LoopGoesOn, LoopContinues, E!StoreSyncResult, E!ReceiveStatus
<1>3. /\ pc \in [{Loop} -> {"idle", "blocking", "send", "await", "dead"}] /\ reply \in [{Loop} -> E!Replies]
      /\ slot \in [{Loop} -> E!Answers \cup {None}] /\ queue \in [E!Ids -> Seq(E!Events)]
      /\ answer \in [{Test} -> E!Replies \cup {Pending, Dropped}]
  <2>1. Threads \cup {Loop} = {Loop}
    BY ExampleAssumption
  <2> QED BY <2>1 DEF Base, Joint, RuntimeInv, RuntimeTypes, E!IInv, E!TypeOK
<1>4. CASE E!SendFails(Loop)
  <2>1. /\ ~rxOpen[1] /\ pc'[Loop] = "idle" /\ reply'[Loop].kind = "error"
        /\ UNCHANGED <<nextId, entry, opOf, timed, task, outcome, rxOpen, queue, slot>>
    BY <1>1, <1>3, <1>4 DEF E!SendFails, E!Refuses, E!Returns, E!tableVars, E!futureVars
  <2>2. UNCHANGED <<stopped, misled>>
    BY <1>1, <2>1 DEF LoopGoesOn
  <2> QED BY <1>2, <1>3, <2>1, <2>2 DEF Goes, Replied, Undisturbed
<1>5. CASE E!SendEvent(Loop)
  <2>1. /\ rxOpen[1] /\ UNCHANGED <<nextId, entry, opOf, timed, task, outcome, rxOpen>>
        /\ IF message[Test].kind = "ReportStatus" THEN pc'[Loop] = "await" /\ slot'[Loop] = None
           ELSE pc'[Loop] = "idle" /\ reply'[Loop].kind = "ok"
    BY <1>1, <1>3, <1>5 DEF E!SendEvent, E!Confirms, E!Returns, E!tableVars
  <2>2. queue'[1] = Append(queue[1], e) /\ queue[1] \in Seq(E!Events)
    BY <1>1, <1>3, <1>5 DEF E!SendEvent
  <2>3. queue' # queue
    <3> HIDE DEF e
    <3>1. Len(Append(queue[1], e)) = Len(queue[1]) + 1 /\ Len(queue[1]) \in Nat
      BY <2>2
    <3> QED BY <2>2, <3>1
  <2>4. stopped' = (IF message[Test].kind = "Stop" THEN stopped \cup {1} ELSE stopped) /\ misled' = misled
    BY <1>1, <2>3 DEF LoopGoesOn, E!SendEvent
  <2> HIDE DEF e
  <2> QED BY <1>2, <1>3, <2>1, <2>2, <2>4 DEF Goes, Replied, StillInHand, Undisturbed, e
<1> QED BY <1>2, <1>4, <1>5

\* and a status is received.
LEMMA StatusReceived ==
    ASSUME Base, LoopStep, ~shutdownRequested, pc[Loop] = "await"
    PROVE  /\ Undisturbed /\ UNCHANGED <<queue, stopped>> /\ slot[Loop] # None
           /\ slot[Loop] # "dropped" => Replied("ok", slot[Loop])
<1> USE Apart
<1>1. LoopGoesOn /\ serving = Test
  BY LoopUnderway
<1>2. /\ Goes(Test) /\ E!ReceiveStatus(Loop) /\ detail' = slot[Loop] /\ UNCHANGED <<stopped, misled>>
      /\ UNCHANGED <<notified, opStatus, activeExecId, shutdownRequested>>
  BY <1>1 DEF LoopGoesOn, LoopContinues, E!StoreSyncResult, E!SendFails, E!SendEvent
<1>3. /\ pc \in [{Loop} -> {"idle", "blocking", "send", "await", "dead"}] /\ reply \in [{Loop} -> E!Replies]
      /\ answer \in [{Test} -> E!Replies \cup {Pending, Dropped}]
  <2>1. Threads \cup {Loop} = {Loop}
    BY ExampleAssumption
  <2> QED BY <2>1 DEF Base, Joint, RuntimeInv, RuntimeTypes, E!IInv, E!TypeOK
<1>4. /\ pc'[Loop] = "idle" /\ slot[Loop] # None
      /\ slot[Loop] # "dropped" => reply'[Loop].kind = "ok"
      /\ UNCHANGED <<nextId, entry, opOf, timed, task, outcome, rxOpen, queue>>
  BY <1>2, <1>3 DEF E!ReceiveStatus, E!Confirms, E!Returns, E!tableVars
<1> QED BY <1>2, <1>3, <1>4 DEF Goes, Replied, Undisturbed

-----------------------------------------------------------------------------
(* What keeps being so while the request is under way. *)

\* No step of the executor touches it.
LEMMA QuietKeeps ==
    ASSUME Quiet
    PROVE  /\ \A what : Querying(what) => Querying(what)'
           /\ \A op, withTimeout : Executing(op, withTimeout) => Executing(op, withTimeout)'
           /\ \A op, status : AskingStatus(op, status) => AskingStatus(op, status)'
           /\ AskingCapability => AskingCapability'
           /\ AskingLate => AskingLate'
           /\ \A op, status : Stopping(op, status) => Stopping(op, status)'
           /\ \A op, how : Yielding(op, how) => Yielding(op, how)'
           /\ \A op, how : how # "timeout" /\ Resulting(op, how) => Resulting(op, how)'
           /\ \A op, withTimeout, status :
                 One(op, withTimeout) /\ Calm(status) => One(op, withTimeout)' /\ Calm(status)'
           /\ NoneYet => NoneYet'
<1>1. \A what : Told(what)' <=> Told(what)
  BY DEF Quiet, Told
<1>2. (Waits' <=> Waits) /\ (Answered' <=> Answered) /\ (NoneYet' <=> NoneYet)
  BY DEF Quiet, Waits, Answered, NoneYet, entityVars, operationVars
<1>3. \A op, withTimeout : One(op, withTimeout)' <=> One(op, withTimeout)
  BY DEF Quiet, One, entityVars
<1>4. \A how : Over(how)' <=> Over(how)
  BY DEF Quiet, Over, entityVars
<1>5. \A status : Calm(status)' <=> Calm(status)
  BY DEF Quiet, Calm, entityVars, operationVars
<1>6. \A status, kind : Busy(status, kind)' <=> Busy(status, kind)
  BY DEF Quiet, Busy, Event, entityVars, operationVars
<1>7. Signalled' <=> Signalled
  BY DEF Quiet, Signalled, entityVars, operationVars
<1>8. \A op, status : AfterStatus(op, status)' <=> AfterStatus(op, status)
  BY <1>5, <1>7 DEF AfterStatus
<1>9. UNCHANGED <<pc, cur, slot, entry, notified, stopped, outcome, serving, answer>>
      /\ (Queued(1, "ReportStatus")' <=> Queued(1, "ReportStatus"))
  BY DEF Quiet, Queued, entityVars, operationVars
<1>10. \A what : Querying(what)' <=> Querying(what)
  BY <1>1, <1>2 DEF Querying
<1>11. \A op, withTimeout : Executing(op, withTimeout)' <=> Executing(op, withTimeout)
  BY <1>1, <1>2, <1>3, <1>4, <1>5, <1>9 DEF Executing
<1>12. \A op, status : AskingStatus(op, status)' <=> AskingStatus(op, status)
  BY <1>1, <1>2, <1>3, <1>5, <1>6, <1>8, <1>9 DEF AskingStatus
<1>13. (AskingCapability' <=> AskingCapability) /\ (AskingLate' <=> AskingLate)
  BY <1>1, <1>2, <1>3, <1>4, <1>5, <1>6, <1>9 DEF AskingCapability, AskingLate
<1>14. \A op, status : Stopping(op, status)' <=> Stopping(op, status)
  BY <1>1, <1>2, <1>3, <1>5, <1>9 DEF Stopping
<1>15. \A op, how : Yielding(op, how)' <=> Yielding(op, how)
  BY <1>3, <1>4 DEF Yielding
<1>16. \A op, how : how # "timeout" => (Resulting(op, how)' <=> Resulting(op, how))
  BY <1>2, <1>3, <1>4, <1>9 DEF Resulting
<1> QED BY <1>2, <1>3, <1>5, <1>10, <1>11, <1>12, <1>13, <1>14, <1>15, <1>16

\* A request for the status,
LEMMA StatusAsked ==
    ASSUME Base, NEW op \in {AsyncOp, RoutineOp}, NEW status \in Statuses, op = RoutineOp => status = "Running",
           AskingStatus(op, status), ~shutdownRequested, LoopStep,
           NEW expected, Head(script) = AsksStatus(expected)
    PROVE  AskingStatus(op, status)'
<1> USE Apart
<1>1. message[Test].kind = "ReportStatus" /\ message[Test].exec = 1 /\ op # SyncOp
      /\ status # "dropped" /\ status # None
  BY LoopUnderway, Requesting, RuntimeAssumption, ExampleAssumption DEF E!EntityAssumption
<1>2. Undisturbed => One(op, FALSE)'
  BY DEF Undisturbed, One, AskingStatus
<1>3. CASE pc[Loop] = "idle"
  <2>1. Waits /\ ~Answered /\ Calm(status) /\ One(op, FALSE)
    BY <1>3, LoopUnderway DEF AskingStatus
  <2>2. Undisturbed /\ UNCHANGED <<queue, slot, stopped>> /\ pc'[Loop] = "send" /\ StillInHand
    BY <1>1, <1>3, <2>1, CalmIsAlive, ControlLooksUp DEF E!Requests, One
  <2>3. Calm(status)'
    BY <2>1, <2>2 DEF Undisturbed, Calm
  <2> QED BY <1>2, <2>1, <2>2, <2>3 DEF AskingStatus, StillInHand, Answered, Waits
<1>4. CASE pc[Loop] = "send"
  <2>1. ~Answered /\ Calm(status) /\ One(op, FALSE)
    BY <1>4, LoopUnderway DEF AskingStatus
  <2> DEFINE e == [kind |-> "ReportStatus", from |-> Loop]
  <2>2. /\ Undisturbed /\ queue'[1] = Append(queue[1], e) /\ stopped' = stopped
        /\ pc'[Loop] = "await" /\ slot'[Loop] = None /\ StillInHand
    BY <1>1, <1>4, <2>1, CalmIsAlive, ControlSends
  <2>3. queue'[1] = <<e>> /\ e.kind = "ReportStatus"
    BY <2>1, <2>2 DEF Calm
  <2>4. Busy(status, "ReportStatus")'
    BY <2>1, <2>2, <2>3 DEF Calm, Busy, Event, Undisturbed
  <2> QED BY <1>2, <2>1, <2>2, <2>4 DEF AskingStatus, StillInHand, Answered, Waits
<1>5. CASE pc[Loop] = "await"
  <2>1. Undisturbed /\ UNCHANGED <<queue, stopped>> /\ slot[Loop] = status /\ AfterStatus(op, status)
    BY <1>5, StatusReceived DEF AskingStatus
  <2>2. Replied("ok", status)
    BY <1>1, <1>5, <2>1, StatusReceived
  <2>3. AfterStatus(op, status)'
    BY <2>1 DEF Undisturbed, AfterStatus, Calm, Signalled
  <2>4. answer'[Test] # Pending /\ Told(status)' /\ pc'[Loop] = "idle"
    BY <2>2 DEF Replied, Told, Pending
  <2> QED BY <1>2, <2>1, <2>3, <2>4 DEF AskingStatus, Answered, Waits
<1> QED BY <1>1, <1>3, <1>4, <1>5, LoopUnderway

LEMMA StatusReported ==
    ASSUME Base, NEW op \in {AsyncOp, RoutineOp}, NEW status \in Statuses, op = RoutineOp => status = "Running",
           AskingStatus(op, status), NEW i \in E!Ids, ExecutionStep(i),
           NEW expected, Head(script) = AsksStatus(expected)
    PROVE  AskingStatus(op, status)'
<1> USE Apart
<1>1. ExampleInv /\ E!IInv /\ One(op, FALSE) /\ op # SyncOp /\ status # None
  BY ExampleAssumption, RuntimeAssumption DEF Base, Joint, AskingStatus, E!EntityAssumption
<1>2. One(op, FALSE)' /\ UNCHANGED <<serving, answer, detail, stopped, pc>>
  BY <1>1, OneSteps
<1>3. \A s : ~Calm(s)
  BY <1>1, CalmStays
<1>4. ~Waits /\ pc[Loop] # "send"
  BY <1>3 DEF AskingStatus
<1>5. CASE AfterStatus(op, status)
  <2>1. AfterStatus(op, status) <=> Signalled
    BY <1>3, <1>5 DEF AfterStatus
  <2>2. op = AsyncOp /\ status # "Scheduled"
    BY <1>3, <1>5 DEF AfterStatus
  <2>3. AfterStatus(op, status)' /\ slot'[Loop] = slot[Loop]
    BY <1>1, <1>5, <2>1, <2>2, SignalledStays DEF AfterStatus
  <2>4. pc[Loop] = "await" => slot[Loop] # None
    BY <1>5, <2>1 DEF AskingStatus, Signalled, Busy
  <2> QED BY <1>2, <1>4, <2>3, <2>4 DEF AskingStatus, Waits, Answered, Told
<1>6. CASE ~AfterStatus(op, status)
  <2>1. pc[Loop] = "await" /\ slot[Loop] = None /\ Busy(status, "ReportStatus") /\ ~Answered
    <3>1. ~Answered
      BY <1>6 DEF AskingStatus
    <3>2. serving # None
      BY <1>4, <3>1 DEF Waits
    <3>3. serving = Test /\ pc[Loop] \in {"blocking", "send", "await"}
      BY <3>2 DEF Base, RuntimeInv, RuntimeTypes, LoopInv
    <3>4. message[Test].kind = "ReportStatus"
      BY <3>3, UnderwayIsAsked, Requesting DEF Base, Underway
    <3>5. pc[Loop] = "await"
      BY <1>4, <3>3, <3>4 DEF Base, HandInv
    <3> QED BY <1>6, <3>1, <3>5 DEF AskingStatus
  <2>2. TakesOne(1) /\ queue'[1] = <<>> /\ outcome'[1] # "ok" /\ Event(1) = "ReportStatus"
    BY <1>1, <2>1, BusyTakes
  <2>3. slot'[Loop] = status
    BY <1>1, <2>1, <2>2, Taking DEF Busy
  <2>4. AfterStatus(op, status)'
    <3>1. stopped' = stopped /\ 1 \notin stopped /\ notified[1] = 0 /\ opStatus[1] = status
      BY <1>1, <1>2, <2>1, <2>2, Taking DEF Busy
    <3>2. CASE op = RoutineOp
      <4>1. opStatus'[1] = "Running" /\ notified'[1] = 0
        BY <1>1, <2>2, <3>1, <3>2, Taking, RuntimeAssumption DEF OfRoutine, One, E!EntityAssumption
      <4> QED BY <2>2, <3>1, <3>2, <4>1, ExampleAssumption DEF AfterStatus, Calm
    <3>3. CASE op = AsyncOp
      <4>1. ~OfRoutine(1)
        BY <1>1, <3>3, ExampleAssumption DEF OfRoutine, One
      <4>2. opStatus'[1] = "Running" /\ notified'[1] = IF status = "Scheduled" THEN 0 ELSE 1
        BY <1>1, <2>2, <3>1, <4>1, Taking
      <4> QED BY <2>2, <3>1, <3>3, <4>2 DEF AfterStatus, Calm, Signalled
    <3> QED BY <3>2, <3>3
  <2> QED BY <1>1, <1>2, <1>4, <2>1, <2>3, <2>4 DEF AskingStatus, Waits, Answered
<1> QED BY <1>5, <1>6

\* for the capability,
LEMMA CapabilityAsked ==
    ASSUME Base, AskingCapability, ~shutdownRequested, LoopStep, Head(script) = AsksCapability
    PROVE  AskingCapability'
<1> USE Apart
<1>1. message[Test].kind = "HandleCustomCapability" /\ message[Test].exec = 1 /\ AsyncOp # SyncOp
      /\ One(AsyncOp, FALSE) /\ Calm("Running") /\ ~Answered
  BY LoopUnderway, Requested, ExampleAssumption DEF AskingCapability
<1>2. Undisturbed => One(AsyncOp, FALSE)'
  BY <1>1 DEF Undisturbed, One
<1>3. CASE pc[Loop] = "idle"
  <2>1. Undisturbed /\ UNCHANGED <<queue, slot, stopped>> /\ StillInHand
    BY <1>1, <1>3, CalmIsAlive, ControlLooksUp, ExampleAssumption DEF E!Requests, One
  <2>2. Calm("Running")'
    BY <1>1, <2>1 DEF Undisturbed, Calm
  <2> QED BY <1>1, <1>2, <2>1, <2>2 DEF AskingCapability, StillInHand, Answered
<1>4. CASE pc[Loop] = "send"
  <2> DEFINE e == [kind |-> "HandleCustomCapability", from |-> Loop]
  <2>1. Undisturbed /\ queue'[1] = Append(queue[1], e) /\ stopped' = stopped /\ Replied("ok", None)
    BY <1>1, <1>4, CalmIsAlive, ControlSends
  <2>2. queue'[1] = <<e>> /\ e.kind = "HandleCustomCapability"
    BY <1>1, <2>1 DEF Calm
  <2>3. Busy("Running", "HandleCustomCapability")'
    BY <1>1, <2>1, <2>2 DEF Calm, Busy, Event, Undisturbed
  <2>4. answer'[Test] # Pending /\ Told(None)'
    BY <2>1 DEF Replied, Told, Pending
  <2> QED BY <1>2, <2>1, <2>3, <2>4 DEF AskingCapability, Answered
<1> QED BY <1>1, <1>3, <1>4, LoopUnderway

LEMMA CapabilityHandled ==
    ASSUME Base, AskingCapability, NEW i \in E!Ids, ExecutionStep(i)
    PROVE  AskingCapability'
<1> USE Apart
<1>1. ExampleInv /\ E!IInv /\ One(AsyncOp, FALSE) /\ AsyncOp # SyncOp
  BY ExampleAssumption DEF Base, Joint, AskingCapability
<1>2. One(AsyncOp, FALSE)' /\ UNCHANGED <<answer, detail, stopped>>
  BY <1>1, OneSteps
<1>3. \A s : ~Calm(s)
  BY <1>1, CalmStays
<1>4. Answered /\ Told(None) /\ Busy("Running", "HandleCustomCapability")
  BY <1>3 DEF AskingCapability
<1>5. TakesOne(1) /\ queue'[1] = <<>> /\ outcome'[1] # "ok" /\ Event(1) = "HandleCustomCapability"
  BY <1>1, <1>4, BusyTakes
<1>6. ~OfRoutine(1)
  BY <1>1, ExampleAssumption DEF OfRoutine, One
<1>7. opStatus'[1] = "HandleCustomCapability" /\ notified'[1] = notified[1]
  BY <1>1, <1>5, <1>6, Taking
<1>8. Calm("HandleCustomCapability")'
  BY <1>2, <1>4, <1>5, <1>7 DEF Calm, Busy
<1> QED BY <1>2, <1>4, <1>8 DEF AskingCapability, Answered, Told

\* for the status once more,
LEMMA LateAsked ==
    ASSUME Base, AskingLate, ~shutdownRequested, LoopStep,
           NEW expected, Head(script) = AsksStatus(expected)
    PROVE  AskingLate'
<1> USE Apart
<1>1. message[Test].kind = "ReportStatus" /\ message[Test].exec = 1
      /\ One(AsyncOp, FALSE) /\ Over("ok") /\ ~Answered /\ ~rxOpen[1]
  BY LoopUnderway, Requested, OneFacts DEF AskingLate, Over
<1>2. Undisturbed => One(AsyncOp, FALSE)' /\ Over("ok")'
  BY <1>1 DEF Undisturbed, One, Over
<1>3. CASE pc[Loop] = "idle"
  <2>1. Undisturbed /\ (Replied("error", None) \/ (pc'[Loop] = "send" /\ StillInHand))
    BY <1>1, <1>3, ControlLooksUp DEF E!Requests, One
  <2> QED BY <1>1, <1>2, <2>1 DEF AskingLate, Replied, StillInHand, Answered
<1>4. CASE pc[Loop] = "send"
  <2>1. Undisturbed /\ Replied("error", None)
    BY <1>1, <1>4, ControlSends
  <2> QED BY <1>2, <2>1 DEF AskingLate, Replied, Answered
<1> QED BY <1>1, <1>3, <1>4, LoopUnderway DEF AskingLate

LEMMA LateStays ==
    ASSUME Base, AskingLate
    PROVE  \A i \in E!Ids : ~ExecutionStep(i)
BY OverStays DEF AskingLate

\* to stop,
LEMMA StopAsked ==
    ASSUME Base, NEW op \in {AsyncOp, RoutineOp}, NEW status,
           Stopping(op, status), ~shutdownRequested, LoopStep, Head(script) = Stops
    PROVE  Stopping(op, status)'
<1> USE Apart
<1>1. message[Test].kind = "Stop" /\ message[Test].exec = 1 /\ op # SyncOp
      /\ One(op, FALSE) /\ Calm(status) /\ ~Answered
  BY LoopUnderway, Requested, ExampleAssumption DEF Stopping
<1>2. Undisturbed => One(op, FALSE)'
  BY <1>1 DEF Undisturbed, One
<1>3. CASE pc[Loop] = "idle"
  <2>1. Undisturbed /\ UNCHANGED <<queue, slot, stopped>> /\ StillInHand
    BY <1>1, <1>3, CalmIsAlive, ControlLooksUp DEF E!Requests, One
  <2>2. Calm(status)'
    BY <1>1, <2>1 DEF Undisturbed, Calm
  <2> QED BY <1>1, <1>2, <2>1, <2>2 DEF Stopping, StillInHand, Answered
<1>4. CASE pc[Loop] = "send"
  <2> DEFINE e == [kind |-> "Stop", from |-> Loop]
  <2>1. Undisturbed /\ queue'[1] = Append(queue[1], e) /\ stopped' = stopped \cup {1} /\ Replied("ok", None)
    BY <1>1, <1>4, CalmIsAlive, ControlSends
  <2>2. queue'[1] = <<e>> /\ e.kind = "Stop"
    BY <1>1, <2>1 DEF Calm
  <2>3. ~Queued(1, "ReportStatus")'
    BY <2>2 DEF Queued
  <2>4. 1 \in stopped' /\ notified'[1] = 0 /\ outcome'[1] # "ok"
    BY <1>1, <2>1 DEF Calm, Undisturbed
  <2>5. answer'[Test] # Pending /\ Told(None)'
    BY <2>1 DEF Replied, Told, Pending
  <2> QED BY <1>2, <2>1, <2>3, <2>4, <2>5 DEF Stopping, Answered
<1> QED BY <1>1, <1>3, <1>4, LoopUnderway

LEMMA StopTaken ==
    ASSUME Base, NEW op \in {AsyncOp, RoutineOp}, NEW status, Stopping(op, status),
           NEW i \in E!Ids, ExecutionStep(i)
    PROVE  Stopping(op, status)'
<1> USE Apart
<1>1. ExampleInv /\ E!IInv /\ One(op, FALSE) /\ op # SyncOp
  BY ExampleAssumption DEF Base, Joint, Stopping
<1>2. One(op, FALSE)' /\ UNCHANGED <<answer, detail, stopped>>
  BY <1>1, OneSteps
<1>3. Answered /\ Told(None) /\ 1 \in stopped
  BY <1>1, CalmStays DEF Stopping
<1>4. ASSUME op = AsyncOp
      PROVE  notified'[1] = 0 /\ ~Queued(1, "ReportStatus")' /\ outcome'[1] # "ok"
  <2>1. notified[1] = 0 /\ ~Queued(1, "ReportStatus") /\ outcome[1] # "ok" /\ ~OfRoutine(1)
    BY <1>1, <1>3, <1>4, ExampleAssumption DEF Stopping, OfRoutine, One
  <2>2. CASE TakesOne(1)
    <3>1. queue[1] \in Seq(E!Events) /\ queue[1] # <<>> /\ queue'[1] = Tail(queue[1]) /\ outcome' = outcome
      BY <1>1, <2>2, Taking
    <3>2. /\ Head(queue[1]) = queue[1][1] /\ 1 \in DOMAIN queue[1]
          /\ \A k \in DOMAIN Tail(queue[1]) : k + 1 \in DOMAIN queue[1] /\ Tail(queue[1])[k] = queue[1][k + 1]
      BY <3>1
    <3>3. Event(1) # "ReportStatus" /\ ~Queued(1, "ReportStatus")'
      BY <2>1, <3>1, <3>2 DEF Event, Queued
    <3>4. notified'[1] = notified[1]
      BY <1>1, <2>1, <2>2, <3>3, Taking
    <3> QED BY <2>1, <3>1, <3>3, <3>4
  <2>3. ASSUME NEW o \in E!Outcomes, EndsAs(1, o)
        PROVE  notified'[1] = 0 /\ ~Queued(1, "ReportStatus")' /\ outcome'[1] # "ok"
    <3>1. o # "ok"
      BY <1>1, <2>1, <2>3 DEF EndsAs, One
    <3> QED BY <1>1, <2>1, <2>3, <3>1, Ending DEF Queued
  <2> QED BY <1>1, <2>2, <2>3, OneSteps
<1> QED BY <1>2, <1>3, <1>4 DEF Stopping, Answered, Told

\* for data,
Asserts(query, what) ==
    \/ query = [ask |-> "list"] /\ what = Listed
    \/ query = [ask |-> "read", id |-> "my_data_resource", encoding |-> "UTF8"] /\ what = R!FromString("value")
    \/ query = [ask |-> "read", id |-> "uds_data_resource", encoding |-> "Binary"]
       /\ what = R!FromByteVector("deadbeef")

LEMMA QueryAsked ==
    ASSUME Base, NEW query, NEW what, Asserts(query, what), Querying(what), ~shutdownRequested, LoopStep,
           Head(script) = Queries(query, Yes(what))
    PROVE  Querying(what)'
<1> USE Apart
<1>1. message[Test].kind = "Other" /\ Head(script).query = query
  BY LoopUnderway, Requested, Requesting
<1>2. LoopQueries
  <2>1. ~LoopExecutes
    BY <1>1 DEF LoopExecutes
  <2>2. ~LoopLooksUp
    BY <1>1, OtherKinds DEF LoopLooksUp, LoopReceives, Handle
  <2> QED BY <1>1, <2>1, <2>2, LoopUnderway, OtherKinds
<1> DEFINE handle == R!Read(DataResourceOf[query.id], query.encoding, R!Ok("deadbeef"))
<1>3. CASE query.ask = "list"
  <2>1. what = Listed
    BY <1>3 DEF Asserts
  <2> QED BY <1>1, <1>2, <1>3, <2>1 DEF LoopQueries, Querying, Told
<1>4. CASE query.ask # "list"
  <2>1. handle.is = "Ready" /\ handle.result.is = "Ok" /\ handle.result.value.data = what
    <3>1. CASE query = [ask |-> "read", id |-> "my_data_resource", encoding |-> "UTF8"]
      <4>1. DataResourceOf[query.id] = R!User("ready") /\ query.encoding = "UTF8"
        BY <3>1 DEF DataResourceOf, MyDataResource
      <4>2. handle = R!Ready(R!Ok(R!ReadReply(R!FromString("value"))))
        BY <4>1 DEF R!Read, R!User, R!UserRead
      <4>3. what = R!FromString("value")
        BY <3>1 DEF Asserts
      <4> QED BY <4>2, <4>3 DEF R!Ready, R!Ok, R!ReadReply
    <3>2. CASE query = [ask |-> "read", id |-> "uds_data_resource", encoding |-> "Binary"]
      <4>1. DataResourceOf[query.id] = R!Adapter(TRUE, FALSE) /\ query.encoding = "Binary"
        BY <3>2 DEF DataResourceOf, UdsDataResource
      <4>2. handle = R!ReadReady(R!ReadReply(R!FromByteVector("deadbeef")))
        BY <4>1 DEF R!Read, R!Adapter, R!AdapterRead, R!Ok
      <4>3. what = R!FromByteVector("deadbeef")
        BY <3>2 DEF Asserts
      <4> QED BY <4>2, <4>3 DEF R!ReadReady, R!Ready, R!Ok, R!ReadReply
    <3> QED BY <1>4, <3>1, <3>2 DEF Asserts
  <2> HIDE DEF handle
  <2>2. answer'[Test].kind = "ok" /\ detail' = what
    <3>1. /\ answer'[Test].kind = IF handle.result.is = "Ok" THEN "ok" ELSE "error"
          /\ detail' = IF handle.result.is = "Ok" THEN handle.result.value.data ELSE None
      BY <1>1, <1>2, <1>4 DEF LoopQueries, handle
    <3> QED BY <2>1, <3>1
  <2> QED BY <2>2 DEF Querying, Told
<1> QED BY <1>3, <1>4

\* for an execution,
LEMMA FirstExecution ==
    ASSUME Base, NoneYet, LoopExecutes, UNCHANGED expired, NEW op \in Ops, message[Test].op = op,
           NEW withTimeout \in BOOLEAN, Head(script).timeout = withTimeout
    PROVE  /\ One(op, withTimeout)'
           /\ op # SyncOp => Calm(StatusAtStart(op))' /\ Replied("ok", None)
           /\ op = SyncOp => pc'[Loop] = "blocking" /\ cur'[Loop] = 1 /\ StillInHand
<1> USE Apart
<1>1. ExampleInv /\ E!IInv /\ MessageType
  BY DEF Base, Joint
<1>2. PICK o \in Ops : Starts(o)
  BY <1>1, ExecutesEffect DEF Refused, NoneYet
<1>3. /\ nextId = 1 /\ nextId' = 2 /\ task[1] = "none" /\ task'[1] = "running"
      /\ UNCHANGED <<outcome, queue, notified, stopped, misled, poisoned>>
      /\ opOf' = [opOf EXCEPT ![1] = o]
      /\ o = AsyncOp => opStatus' = [opStatus EXCEPT ![1] = "Scheduled"]
      /\ o = RoutineOp => opStatus' = opStatus /\ activeExecId' = 1
  BY <1>1, <1>2, EntityFacts, ExampleAssumption DEF Starts, NoneYet
<1>4. /\ Handle(message[Test]) /\ message[Test].kind = "Execute" /\ Goes(Test) /\ detail' = None
      /\ pc[Loop] = "idle" /\ poisoned = FALSE
  BY <1>1, <1>2 DEF LoopExecutes, LoopReceives, Starts, ExampleInv, StartedInv
<1>5. /\ pc \in [{Loop} -> {"idle", "blocking", "send", "await", "dead"}] /\ reply \in [{Loop} -> E!Replies]
      /\ answer \in [{Test} -> E!Replies \cup {Pending, Dropped}]
      /\ cur \in [{Loop} -> E!Ids \cup {None}]
      /\ entry \in [E!Ids -> {"none", "running", "completed"}] /\ timed \in [E!Ids -> BOOLEAN]
  <2>1. Threads \cup {Loop} = {Loop}
    BY ExampleAssumption
  <2> QED BY <2>1 DEF Base, Joint, RuntimeInv, RuntimeTypes, E!IInv, E!TypeOK
<1>6. PICK t, k \in BOOLEAN : E!ExecuteStarts(Loop, op, t, k)
  <2>1. pc'[Loop] # "dead"
    BY <1>4 DEF Goes
  <2>2. ~E!ExecuteFails(Loop, op)
    BY <1>3 DEF E!ExecuteFails, E!futureVars
  <2>3. ~E!ExecutePanics(Loop, op)
    BY <1>5, <2>1 DEF E!ExecutePanics
  <2>4. ~E!ExecuteRefused(Loop, op) /\ ~E!MutexPoisoned(Loop)
    BY <1>4, ExampleAssumption DEF E!ExecuteRefused, E!MutexPoisoned
  <2> QED BY <1>4, <2>2, <2>3, <2>4, OtherKinds DEF Handle
<1>7. /\ entry'[1] = "running" /\ opOf'[1] = op /\ timed'[1] = t
      /\ op = SyncOp => pc'[Loop] = "blocking" /\ cur'[Loop] = 1
      /\ op # SyncOp => pc'[Loop] = "idle" /\ reply'[Loop].kind = "ok"
  <2>1. opOf'[1] = op
    BY <1>1, <1>3, <1>6, EntityFacts DEF E!ExecuteStarts
  <2> QED BY <1>3, <1>4, <1>5, <1>6, <2>1, ExampleAssumption DEF E!ExecuteStarts, E!Confirms
<1>8. o = op
  BY <1>1, <1>3, <1>7, EntityFacts
<1>9. timed'[1] = Head(script).timeout
  <2>1. op # RoutineOp \/ activeExecId' # activeExecId
    BY <1>3, <1>8 DEF NoneYet
  <2> QED BY <1>3, <2>1 DEF LoopExecutes
<1>10. One(op, withTimeout)'
  <2>1. 1 \notin misled
    BY <1>1, <1>3 DEF ExampleInv, StartedInv
  <2> QED BY <1>3, <1>7, <1>9, <2>1 DEF One
<1>11. ASSUME op # SyncOp PROVE Calm(StatusAtStart(op))' /\ Replied("ok", None)
  <2>1. queue[1] = <<>> /\ notified[1] = 0 /\ 1 \notin stopped /\ outcome[1] # "ok" /\ opStatus[1] = "Running"
        /\ opStatus \in [E!Ids -> Statuses]
    BY <1>1, <1>3, EntityFacts, RuntimeAssumption
       DEF ExampleInv, StartedInv, ExampleTypes, E!EntityAssumption
  <2>2. opStatus'[1] = StatusAtStart(op)
    BY <1>3, <1>8, <1>11, <2>1, ExampleAssumption DEF StatusAtStart
  <2>3. Calm(StatusAtStart(op))'
    BY <1>3, <2>1, <2>2 DEF Calm
  <2> QED BY <1>4, <1>5, <1>7, <1>11, <2>3 DEF Goes, Replied
<1>12. ASSUME op = SyncOp PROVE pc'[Loop] = "blocking" /\ cur'[Loop] = 1 /\ StillInHand
  BY <1>4, <1>7, <1>12 DEF Goes, StillInHand
<1> QED BY <1>10, <1>11, <1>12

Request(op, withTimeout) == IF withTimeout THEN ExecutesWithTimeout(op) ELSE Executes(op)

LEMMA ExecutionAsked ==
    ASSUME Base, NEW op \in Ops, NEW withTimeout \in BOOLEAN, Executing(op, withTimeout),
           ~shutdownRequested, LoopStep, Head(script) = Request(op, withTimeout)
    PROVE  Executing(op, withTimeout)'
<1> USE Apart
<1>1. message[Test].kind = "Execute" /\ message[Test].op = op /\ Head(script).timeout = withTimeout
  <2>1. message[Test] = Head(script).message
    BY LoopUnderway
  <2>2. Head(script) \in {Executes(op), ExecutesWithTimeout(op)}
    BY DEF Request
  <2>3. Head(script).timeout = withTimeout
    <3>1. Executes(op).timeout = FALSE /\ ExecutesWithTimeout(op).timeout = TRUE
      BY Requesting
    <3>2. CASE withTimeout = TRUE
      BY <3>1, <3>2 DEF Request
    <3>3. CASE withTimeout = FALSE
      BY <3>1, <3>3 DEF Request
    <3> QED BY <3>2, <3>3
  <2> QED BY <2>1, <2>2, <2>3, Requested
<1>2. ~Answered /\ message[Test].kind \notin E!Requests
  BY <1>1, LoopUnderway, OtherKinds
<1>3. CASE pc[Loop] = "idle"
  <2>1. LoopExecutes /\ Waits /\ NoneYet /\ UNCHANGED expired
    BY <1>1, <1>3, LoopUnderway, LoopLeavesTest
       DEF LoopLooksUp, LoopQueries, LoopAnswersOther, Executing
  <2>2. One(op, withTimeout)'
    BY <1>1, <2>1, FirstExecution
  <2>3. CASE op # SyncOp
    <3>1. Calm(StatusAtStart(op))' /\ Replied("ok", None)
      BY <1>1, <2>1, <2>3, FirstExecution
    <3>2. answer'[Test] # Pending /\ Told(None)' /\ serving' = None
      BY <3>1 DEF Replied, Told, Pending
    <3> QED BY <2>2, <2>3, <3>1, <3>2 DEF Executing, Answered, Waits
  <2>4. CASE op = SyncOp
    <3>1. cur'[Loop] = 1 /\ StillInHand
      BY <1>1, <2>1, <2>4, FirstExecution
    <3> QED BY <1>2, <2>2, <2>4, <3>1 DEF Executing, Answered, Waits, StillInHand
  <2> QED BY <2>3, <2>4
<1>4. CASE pc[Loop] = "blocking"
  <2>1. serving = Test /\ ~Waits
    BY <1>4, LoopUnderway DEF Base, RuntimeInv, RuntimeTypes, LoopInv
  <2>2. op = SyncOp /\ cur[Loop] = 1 /\ One(op, withTimeout)
    BY <2>1 DEF Executing
  <2>3. CASE SyncOperationRuns
    <3>1. UNCHANGED <<nextId, entry, opOf, timed, pc, cur, misled>>
      BY <2>3 DEF SyncOperationRuns, E!OpCompletes, E!tableVars, E!callerVars
    <3>2. UNCHANGED <<serving, answer>>
      BY <2>3, <3>1 DEF SyncOperationRuns, LoopUnwinds, loopVars
    <3>3. One(op, withTimeout)'
      BY <2>2, <3>1 DEF One
    <3> QED BY <1>2, <2>1, <2>2, <3>1, <3>2, <3>3 DEF Executing, Answered, Waits
  <2>4. CASE LoopGoesOn
    <3>1. Goes(Test) /\ E!StoreSyncResult(Loop) /\ detail' = None /\ misled' = misled
      BY <1>4, <2>1, <2>4 DEF LoopGoesOn, LoopContinues, E!SendFails, E!SendEvent, E!ReceiveStatus
    <3>2. poisoned = FALSE
      BY DEF Base, Joint, ExampleInv, StartedInv
    <3>3. /\ pc \in [{Loop} -> {"idle", "blocking", "send", "await", "dead"}]
          /\ reply \in [{Loop} -> E!Replies]
          /\ answer \in [{Test} -> E!Replies \cup {Pending, Dropped}]
          /\ entry \in [E!Ids -> {"none", "running", "completed"}]
      <4>1. Threads \cup {Loop} = {Loop}
        BY ExampleAssumption
      <4> QED BY <4>1 DEF Base, Joint, RuntimeInv, RuntimeTypes, E!IInv, E!TypeOK
    <3>4. /\ task[1] = "finished" /\ pc'[Loop] = "idle" /\ reply'[Loop].kind = "ok"
          /\ entry'[1] = "completed" /\ UNCHANGED <<nextId, opOf, timed, task, outcome>>
      BY <2>2, <3>1, <3>2, <3>3 DEF E!StoreSyncResult, E!Confirms, E!futureVars, One
    <3>5. outcome[1] = "ok"
      BY <2>2, <3>4, OneFacts, ExampleAssumption
    <3>6. serving' = None /\ answer'[Test].kind = "ok"
      BY <3>1, <3>3, <3>4 DEF Goes
    <3>7. One(op, withTimeout)' /\ Over("ok")'
      BY <2>2, <3>1, <3>4, <3>5 DEF One, Over
    <3>8. answer'[Test] # Pending /\ Told(None)'
      BY <3>1, <3>6 DEF Told, Pending
    <3> QED BY <2>2, <3>4, <3>6, <3>7, <3>8 DEF Executing, Answered, Waits
  <2> QED BY <1>4, <2>3, <2>4, LoopUnderway
<1> QED BY <1>1, <1>2, <1>3, <1>4, LoopUnderway

LEMMA ExecutionBegins ==
    ASSUME Base, NEW op \in Ops, NEW withTimeout \in BOOLEAN, Executing(op, withTimeout),
           NEW i \in E!Ids, ExecutionStep(i)
    PROVE  Executing(op, withTimeout)'
<1> USE Apart
<1>1. i < nextId
  BY ExecutionLeavesRest DEF Base, Joint
<1>2. ~Waits /\ One(op, withTimeout)
  BY <1>1 DEF Executing, NoneYet
<1>3. One(op, withTimeout)' /\ UNCHANGED <<serving, answer, detail, cur>>
  BY <1>2, OneSteps
<1>4. CASE op # SyncOp
  <2>1. Calm(StatusAtStart(op))'
    BY <1>2, <1>4, CalmStays DEF Executing
  <2> QED BY <1>2, <1>3, <1>4, <2>1 DEF Executing, Answered, Told, Waits
<1>5. CASE op = SyncOp
  <2>1. ~Answered
    BY <1>2, <1>5, OverStays DEF Executing
  <2> QED BY <1>2, <1>3, <1>5, <2>1 DEF Executing, Answered, Waits
<1> QED BY <1>4, <1>5

\* and for the result of an execution that is over.
LEMMA ResultAsked ==
    ASSUME Base, NEW op \in Ops, NEW withTimeout, One(op, withTimeout), NEW outcome_, Over(outcome_),
           op = SyncOp => entry[1] = "completed", ~shutdownRequested, LoopStep,
           NEW how, Head(script) = AsksResult(op, how)
    PROVE  /\ One(op, withTimeout)' /\ Over(outcome_)'
           /\ op = SyncOp => entry'[1] = "completed"
           /\ answer'[Test].kind = "result"
           /\ UNCHANGED <<queue, notified, stopped, misled, opStatus, outcome>>
<1> USE Apart
<1>1. message[Test].kind = "GetResult" /\ message[Test].exec = 1
  BY LoopUnderway, Requested
<1>2. LoopLooksUp /\ Handle(message[Test]) /\ Goes(Test)
  BY <1>1, LoopUnderway, OtherKinds
     DEF LoopExecutes, LoopLooksUp, LoopReceives, LoopQueries, LoopAnswersOther
<1>3. ~E!MutexPoisoned(Loop) /\ ~E!ExecutionNotFound(Loop, 1)
  BY DEF Base, Joint, ExampleInv, StartedInv, E!MutexPoisoned, E!ExecutionNotFound, One
<1>4. E!GetResult(Loop, 1)
  BY <1>1, <1>2, <1>3, OtherKinds DEF Handle
<1>5. /\ pc \in [{Loop} -> {"idle", "blocking", "send", "await", "dead"}] /\ reply \in [{Loop} -> E!Replies]
      /\ answer \in [{Test} -> E!Replies \cup {Pending, Dropped}]
      /\ entry \in [E!Ids -> {"none", "running", "completed"}]
  <2>1. Threads \cup {Loop} = {Loop}
    BY ExampleAssumption
  <2> QED BY <2>1 DEF Base, Joint, RuntimeInv, RuntimeTypes, E!IInv, E!TypeOK
<1>6. entry'[1] = "completed"
  <2>1. entry[1] = "completed" \/ E!Resolvable(1)
    BY <1>5, OneFacts, ExampleAssumption DEF E!Resolvable, One, Over
  <2> QED BY <1>4, <1>5, <2>1 DEF E!GetResult, E!TryResolve
<1>7. /\ reply'[Loop].kind = "result" /\ pc' = pc /\ pc[Loop] = "idle"
      /\ UNCHANGED <<nextId, opOf, timed, task, outcome, queue>>
  BY <1>4, <1>5, <1>6 DEF E!GetResult, E!Locks, E!futureVars
<1>8. answer'[Test].kind = "result"
  BY <1>2, <1>5, <1>7 DEF Goes
<1>9. UNCHANGED <<notified, stopped, misled, opStatus>>
  BY <1>2 DEF LoopLooksUp, operationVars
<1> QED BY <1>6, <1>7, <1>8, <1>9 DEF One, Over

-----------------------------------------------------------------------------
(* The reply is what the test asserts, and the next request starts out well. *)

\* The request is over, and the next one not sent.
LEMMA Taken ==
    ASSUME Base, TestStep, TestTakesReply
    PROVE  /\ current = Test /\ Answered /\ script # <<>> /\ Head(script).do = "ask"
           /\ message[Test] = Head(script).message
           /\ UNCHANGED <<entityVars, operationVars, detail, stopped, misled, serving, shutdownRequested>>
           /\ serving = None /\ ~Answered' /\ pc[Loop] \notin {"blocking", "send", "await"}
           /\ Heard \in Head(script).expect => script' = Tail(script) /\ root' = root
<1> USE Apart
<1>1. current = Test /\ script # <<>> /\ Head(script).do = "ask" /\ TakeAnswer(Test)
  BY DEF TestTakesReply, Begins
<1>2. Answered /\ client[Test] = "waiting" /\ answer'[Test] = Pending
  BY <1>1 DEF TakeAnswer, Answered, Base, RuntimeInv, RuntimeTypes
<1>3. serving = None
  BY <1>2, UnderwayIsAsked DEF Underway, Base, RuntimeInv, RuntimeTypes
<1>4. pc[Loop] \notin {"blocking", "send", "await"}
  BY <1>3 DEF Base, RuntimeInv, LoopInv
<1>5. UNCHANGED <<entityVars, operationVars, detail, stopped, misled, serving, shutdownRequested>>
  BY <1>1, TestLeavesExecutions DEF TakeAnswer, loopVars
<1>6. message[Test] = Head(script).message
  BY <1>2 DEF Base, AsksInv
<1>7. Heard \in Head(script).expect => script' = Tail(script) /\ root' = root
  BY DEF TestTakesReply, GoesOn
<1> QED BY <1>1, <1>2, <1>3, <1>4, <1>5, <1>6, <1>7 DEF Answered

LEMMA HeardIs ==
    ASSUME Base, TestStep, TestTakesReply
    PROVE  /\ \A what : Told(what) => Heard = Yes(what)
           /\ answer[Test].kind = "error" => Heard = No
           /\ answer[Test].kind = "result" /\ message[Test].exec = 1 =>
                 Heard = Yes(ResultOf(opOf[1], outcome[1])) /\ task[1] = "finished"
<1> USE Apart
<1>1. \A what : Told(what) => Heard = Yes(what)
  BY DEF Told, Heard
<1>2. answer[Test].kind = "error" => Heard = No
  BY DEF Heard
<1>3. ASSUME answer[Test].kind = "result", message[Test].exec = 1
      PROVE  Heard = Yes(ResultOf(opOf[1], outcome[1])) /\ task[1] = "finished"
  <2>1. answer[Test].of = 1 /\ answer[Test].value = outcome[1] /\ task[1] = "finished"
    BY <1>3, ExampleAssumption DEF Base, RuntimeInv, ResultInv, IsAskedFor, E!MayBeTold
  <2> QED BY <1>3, <2>1 DEF Heard
<1> QED BY <1>1, <1>2, <1>3

\* Whoever is spawned went as far as it could.
LEMMA SettledOne ==
    ASSUME Base, current = Test, NEW op, One(op, FALSE), op # SyncOp
    PROVE  /\ Signalled => Over("ok")
           /\ \A status, kind : ~Busy(status, kind) \/ task[1] # "running"
           /\ 1 \in stopped /\ op = AsyncOp /\ outcome[1] # "ok" => Over("err")
           /\ 1 \in stopped /\ op = RoutineOp => Over("ok")
<1> USE Apart
<1>1. task[1] = "running" => queue[1] = <<>> /\ notified[1] = 0
  BY DEF Base, SettledInv, Spawned, One
<1>2. task[1] = "running" /\ 1 \in stopped => Queued(1, "Stop") \/ notified[1] > 0
  BY DEF Base, StopInv, Spawned, One
<1>0. task[1] \in {"running", "finished"} /\ notified[1] \in Nat
  BY OneFacts
<1>3. 1 \in stopped => task[1] = "finished"
  <2>1. queue[1] = <<>> => ~Queued(1, "Stop")
    BY DEF Queued
  <2> QED BY <1>0, <1>1, <1>2, <2>1
<1>4. Signalled => task[1] = "finished" /\ 1 \notin stopped
  BY <1>0, <1>1 DEF Signalled
<1>5. task[1] = "finished" => outcome[1] \in {"ok", "err"}
  BY OneFacts
<1>6. outcome[1] = "err" => op = AsyncOp /\ 1 \in stopped
  BY OneFacts
<1>7. Signalled => Over("ok")
  BY <1>4, <1>5, <1>6 DEF Over
<1>8. \A status, kind : ~Busy(status, kind) \/ task[1] # "running"
  BY <1>1 DEF Busy
<1> QED BY <1>3, <1>5, <1>6, <1>7, <1>8, ExampleAssumption DEF Over

\* What is so of the execution stays so.
LEMMA TakenKeeps ==
    ASSUME Base, TestStep, TestTakesReply
    PROVE  /\ \A op, withTimeout : One(op, withTimeout) => One(op, withTimeout)'
           /\ \A how : Over(how) => Over(how)'
           /\ \A status : Calm(status) => Calm(status)'
           /\ entry'[1] = entry[1] /\ pc'[Loop] = pc[Loop] /\ ~Answered' /\ serving' = None
BY Taken DEF One, Over, Calm, entityVars, operationVars

LEMMA QueryTaken ==
    ASSUME Base, TestStep, TestTakesReply, NEW query, NEW what, Querying(what),
           Head(script) = Queries(query, Yes(what))
    PROVE  Heard \in Head(script).expect /\ \A other : Querying(other)'
<1>1. Heard = Yes(what) /\ Head(script).expect = {Yes(what)}
  BY Taken, HeardIs, Requesting DEF Querying
<1> QED BY <1>1, Taken DEF Querying

LEMMA ExecutionTaken ==
    ASSUME Base, TestStep, TestTakesReply, NEW op \in Ops, NEW withTimeout \in BOOLEAN,
           Executing(op, withTimeout), Head(script) = Request(op, withTimeout)
    PROVE  /\ Heard \in Head(script).expect
           /\ One(op, withTimeout)'
           /\ op # SyncOp => Calm(StatusAtStart(op))'
           /\ op = SyncOp => Over("ok")' /\ entry'[1] = "completed"
<1>1. Heard = Yes(None)
  BY Taken, HeardIs DEF Executing
<1>2. Head(script).expect = {Yes(None)}
  BY Requesting DEF Request
<1>3. One(op, withTimeout) /\ (op # SyncOp => Calm(StatusAtStart(op)))
        /\ (op = SyncOp => Over("ok") /\ entry[1] = "completed")
  BY Taken DEF Executing, Waits
<1> QED BY <1>1, <1>2, <1>3, TakenKeeps

LEMMA StatusTaken ==
    ASSUME Base, TestStep, TestTakesReply, NEW op \in {AsyncOp, RoutineOp}, NEW status, AskingStatus(op, status),
           NEW expected, Yes(status) \in expected, Head(script) = AsksStatus(expected)
    PROVE  /\ Heard \in Head(script).expect
           /\ One(op, FALSE)'
           /\ IF op = AsyncOp /\ status # "Scheduled" THEN Over("ok")' ELSE Calm("Running")'
<1>1. op # SyncOp
  BY ExampleAssumption
<1>2. Heard = Yes(status) /\ Head(script).expect = expected
  BY Taken, HeardIs, Requesting DEF AskingStatus
<1>3. One(op, FALSE) /\ AfterStatus(op, status)
  BY Taken DEF AskingStatus
<1>4. IF op = AsyncOp /\ status # "Scheduled" THEN Over("ok") ELSE Calm("Running")
  BY <1>1, <1>3, Taken, SettledOne DEF AfterStatus
<1> QED BY <1>2, <1>3, <1>4, TakenKeeps

LEMMA CapabilityTaken ==
    ASSUME Base, TestStep, TestTakesReply, AskingCapability, Head(script) = AsksCapability
    PROVE  /\ Heard \in Head(script).expect
           /\ One(AsyncOp, FALSE)' /\ Calm("HandleCustomCapability")'
<1>1. AsyncOp # SyncOp
  BY ExampleAssumption
<1>2. Heard = Yes(None) /\ Head(script).expect = {Yes(None)}
  BY Taken, HeardIs, Requesting DEF AskingCapability
<1>3. One(AsyncOp, FALSE) /\ (Calm("HandleCustomCapability") \/ Busy("Running", "HandleCustomCapability"))
  BY Taken DEF AskingCapability
<1>4. Calm("HandleCustomCapability")
  BY <1>1, <1>3, Taken, SettledOne, BusyIsAlive
<1> QED BY <1>2, <1>3, <1>4, TakenKeeps

LEMMA LateTaken ==
    ASSUME Base, TestStep, TestTakesReply, AskingLate,
           NEW expected, No \in expected, Head(script) = AsksStatus(expected)
    PROVE  Heard \in Head(script).expect /\ Yielding(AsyncOp, "ok")'
<1>1. Heard = No /\ Head(script).expect = expected
  BY Taken, HeardIs, Requesting DEF AskingLate
<1> QED BY <1>1, TakenKeeps DEF AskingLate, Yielding

LEMMA StopTakenUp ==
    ASSUME Base, TestStep, TestTakesReply, NEW op \in {AsyncOp, RoutineOp}, NEW status, Stopping(op, status),
           Head(script) = Stops
    PROVE  Heard \in Head(script).expect /\ Yielding(op, IF op = AsyncOp THEN "err" ELSE "ok")'
<1>1. op # SyncOp
  BY ExampleAssumption
<1>2. Heard = Yes(None) /\ Head(script).expect = {Yes(None)}
  BY Taken, HeardIs, Requesting DEF Stopping
<1>3. Over(IF op = AsyncOp THEN "err" ELSE "ok")
  BY <1>1, Taken, SettledOne DEF Stopping
<1>4. One(op, FALSE)
  BY DEF Stopping
<1> QED BY <1>2, <1>3, <1>4, TakenKeeps DEF Yielding

LEMMA ResultTaken ==
    ASSUME Base, TestStep, TestTakesReply, NEW op \in Ops, NEW how, Resulting(op, how),
           how = "timeout" => op = AsyncOp, Head(script) = AsksResult(op, how)
    PROVE  Heard \in Head(script).expect
<1>1. message[Test].exec = 1 /\ Head(script).expect = {Yes(ResultOf(op, how))}
  BY Taken, Requested, Requesting
<1>2. Heard = Yes(ResultOf(opOf[1], outcome[1])) /\ task[1] = "finished"
  BY <1>1, Taken, HeardIs DEF Resulting
<1>3. opOf[1] = op
  BY DEF Resulting, TimesOut, One
<1>4. outcome[1] = how
  <2>1. CASE how = "timeout"
    <3>1. One(AsyncOp, TRUE) /\ Calm("Scheduled")
      BY <2>1 DEF Resulting, TimesOut
    <3> QED BY <1>2, <2>1, <3>1, OneFacts DEF Calm
  <2>2. CASE how # "timeout"
    BY <2>2 DEF Resulting, Over
  <2> QED BY <2>1, <2>2
<1> QED BY <1>1, <1>2, <1>3, <1>4

-----------------------------------------------------------------------------
(* The timer of the test that sleeps. *)

\* What is due stays due while others are queued.
LEMMA DueStays ==
    ASSUME Base, Due, current # 1 \/ branches = <<>>, Wakes, current' # Loop, expired' = expired
    PROVE  Due'
<1>1. runQueue \in Seq(Tasks)
  BY ExampleInvParts DEF Base, Joint
<1>2. PICK k \in DOMAIN runQueue : runQueue[k] = 1 /\ \A j \in 1..k : runQueue[j] # Loop
  BY EmptyIn DEF Due
<1>3. PICK order \in Seq(Tasks) : runQueue' = runQueue \o order
  BY <1>1, WakesAll
<1>4. /\ k \in DOMAIN runQueue'
      /\ \A j \in 1..k : runQueue'[j] = runQueue[j]
      /\ k \in 1..k
  BY <1>1, <1>2, <1>3
<1>5. runQueue'[k] = 1 /\ \A j \in 1..k : runQueue'[j] # Loop
  BY <1>2, <1>4
<1> QED BY <1>4, <1>5 DEF Due

\* The execution that is due is polled before the loop.
LEMMA DuePolled ==
    ASSUME Base, Due, timed[1], PollNext
    PROVE  Due'
<1> USE Apart
<1>1. runQueue \in Seq(Tasks) /\ current = None /\ runQueue # <<>>
      /\ current' = Head(runQueue) /\ runQueue' = Tail(runQueue) /\ expired' = expired
  BY ExampleInvParts DEF Base, Joint, PollNext
<1>2. PICK k \in DOMAIN runQueue : runQueue[k] = 1 /\ \A j \in 1..k : runQueue[j] # Loop
  BY <1>1 DEF Due
<1>3. /\ k \in 1..Len(runQueue) /\ Len(runQueue) \in Nat /\ Head(runQueue) = runQueue[1]
      /\ DOMAIN Tail(runQueue) = 1..(Len(runQueue) - 1)
      /\ \A j \in 1..(Len(runQueue) - 1) : Tail(runQueue)[j] = runQueue[j + 1]
  BY <1>1
<1>4. CASE k = 1
  <2>1. current' = 1 /\ branches' \in BranchOrders(1)
    BY <1>1, <1>2, <1>3, <1>4 DEF PollNext
  <2>2. \A o \in {<<"user", "control">>, <<"control", "user">>} :
            In(<<"timer">> \o o, "timer") /\ In(o \o <<"timer">>, "timer")
    <3>1. \A o \in {<<"user", "control">>, <<"control", "user">>} :
             /\ 1 \in DOMAIN (<<"timer">> \o o) /\ (<<"timer">> \o o)[1] = "timer"
             /\ 3 \in DOMAIN (o \o <<"timer">>) /\ (o \o <<"timer">>)[3] = "timer"
      OBVIOUS
    <3> QED BY <3>1 DEF In
  <2>3. In(branches', "timer")
    BY <2>1, <2>2 DEF BranchOrders
  <2> QED BY <1>1, <2>1, <2>3 DEF Due
<1>5. CASE k # 1
  <2>1. k - 1 \in DOMAIN runQueue' /\ runQueue'[k - 1] = runQueue[k]
    BY <1>1, <1>3, <1>5
  <2>2. \A j \in 1..(k - 1) : runQueue'[j] # Loop
    BY <1>1, <1>2, <1>3, <1>5
  <2>3. current' # Loop
    BY <1>1, <1>2, <1>3
  <2> QED BY <1>1, <1>2, <2>1, <2>2, <2>3 DEF Due
<1> QED BY <1>4, <1>5

\* The sleep outlasts the timeout: whoever sleeps is woken with the timer.
LEMMA SleepEnds ==
    ASSUME Base, One(AsyncOp, TRUE), Calm("Scheduled"), ~Over("timeout"),
           root = "sleeps", client[Test] # "waiting", ~shutdownRequested, Park, root' # "sleeps"
    PROVE  Due'
<1> USE Apart
<1>1. /\ ExampleInv /\ E!IInv /\ RuntimeInv /\ WakeInv /\ runQueue \in Seq(Tasks)
      /\ AsyncOp # SyncOp
  BY ExampleInvParts, ExampleAssumption DEF Base, Joint
<1>2. /\ current = None /\ runQueue = <<>> /\ current' = Test /\ expired' = expired \cup Armed /\ Wakes
      /\ UNCHANGED <<vars, operationVars, fresh>>
  BY DEF Park, RootCanGoOn
<1>3. task[1] = "running" /\ opOf[1] = AsyncOp /\ timed[1] = TRUE
  BY OneFacts DEF Calm, Over, One
<1>4. 1 \notin fresh
  BY <1>1, <1>2, <1>3, EmptyIn DEF WakeInv, CanGoOn, Tasks
<1>5. 1 \in expired'
  BY <1>1, <1>2, <1>3, <1>4 DEF Armed
<1>6. CanGoOn(1)'
  BY <1>1, <1>2, <1>3, <1>5 DEF CanGoOn, vars, entityVars
<1>7. ~CanGoOn(Loop)'
  <2>1. ~Underway
    BY <1>1, UnderwayIsAsked DEF Base
  <2>2. serving = None
    BY <1>1, <2>1 DEF RuntimeInv, RuntimeTypes, Underway
  <2>3. mailbox = <<>>
    <3>1. mailbox \in Seq({Test})
      BY <1>1 DEF RuntimeInv, RuntimeTypes
    <3>2. ~In(mailbox, Test)
      BY <2>1 DEF Underway
    <3> QED BY <3>1, <3>2 DEF In
  <2>4. pc[Loop] \notin {"blocking", "send", "await"}
    BY <1>1, <2>2 DEF RuntimeInv, LoopInv
  <2> QED BY <1>2, <2>3, <2>4 DEF CanGoOn, vars, entityVars, runtimeVars, loopVars
<1>8. PICK order \in Seq(Tasks) :
            /\ runQueue' = runQueue \o order
            /\ \A t \in Tasks : In(order, t) <=> CanGoOn(t)' /\ t # current' /\ ~In(runQueue, t)
  BY <1>1, <1>2, WakesAll
<1>9. runQueue' = order /\ 1 \in Tasks /\ Loop \in Tasks /\ ~In(runQueue, 1)
  BY <1>2, <1>8, EmptyIn DEF Tasks
<1>10. In(order, 1) /\ ~In(order, Loop)
  BY <1>2, <1>6, <1>7, <1>8, <1>9
<1>11. PICK k \in DOMAIN order : order[k] = 1
  BY <1>10 DEF In
<1>12. \A j \in 1..k : order[j] # Loop
  <2>1. \A j \in 1..k : j \in DOMAIN order
    BY <1>8, <1>11
  <2> QED BY <1>10, <2>1 DEF In
<1> QED BY <1>2, <1>5, <1>9, <1>11, <1>12 DEF Due

\* Until the timeout, whatever happens.
LEMMA TimesOutSteps ==
    ASSUME Base, TimesOut, ~shutdownRequested
    PROVE  /\ PollNext => TimesOut'
           /\ Park => TimesOut'
           /\ LoopSuspends => TimesOut'
           /\ \A i \in E!Ids : NextBranch(i) => TimesOut'
           /\ \A i \in E!Ids : ExecutionSuspends(i) => TimesOut'
           /\ \A i \in E!Ids : ExecutionStep(i) => TimesOut'
           /\ UNCHANGED exampleVars => TimesOut'
           /\ TestStep /\ (TestSends \/ TestAwaitsReply) => TimesOut'
           /\ LoopStep => Over("timeout") /\ root # "sleeps"
<1> USE Apart
<1>0. /\ ExampleInv /\ E!IInv /\ RuntimeInv /\ One(AsyncOp, TRUE) /\ Calm("Scheduled") /\ AsyncOp # SyncOp
      /\ timed[1] = TRUE
  BY ExampleAssumption DEF Base, Joint, TimesOut, One
<1>1. ASSUME Quiet, client' = client, root' = root, current' # Test, Due => Due'
      PROVE  TimesOut'
  <2>1. One(AsyncOp, TRUE)' /\ Calm("Scheduled")'
    BY <1>0, <1>1, QuietKeeps
  <2>2. Over("timeout") => Over("timeout")'
    BY <1>1 DEF Quiet, Over, entityVars
  <2> QED BY <1>1, <2>1, <2>2 DEF TimesOut
<1>2. ASSUME PollNext PROVE TimesOut'
  <2>1. runQueue \in Seq(Tasks) /\ runQueue # <<>> /\ current' = Head(runQueue)
    BY <1>0, <1>2, ExampleInvParts DEF PollNext
  <2>2. current' # Test
    BY <2>1 DEF Tasks
  <2>3. client' = client /\ root' = root
    BY <1>2 DEF PollNext, vars, runtimeVars, clientVars, testVars
  <2> QED BY <1>0, <1>1, <1>2, <2>2, <2>3, QuietSteps, DuePolled
<1>3. ASSUME Park PROVE TimesOut'
  <2>1. Quiet /\ client' = client /\ current = None /\ runQueue = <<>>
    BY <1>3, QuietSteps DEF Park, vars, runtimeVars, clientVars
  <2>2. ~Due
    BY <2>1 DEF Due
  <2>3. One(AsyncOp, TRUE)' /\ Calm("Scheduled")'
    BY <1>0, <2>1, QuietKeeps
  <2>4. CASE root' = "sleeps"
    <3>1. root = "sleeps" /\ current' = None
      BY <1>3, <2>1, <2>4 DEF Park
    <3> QED BY <2>1, <2>3, <2>4, <3>1 DEF TimesOut
  <2>5. CASE root' # "sleeps" /\ Over("timeout")
    BY <2>1, <2>3, <2>5 DEF TimesOut, Over, Quiet, entityVars
  <2>6. CASE root' # "sleeps" /\ ~Over("timeout")
    <3>1. root = "sleeps" /\ client[Test] # "waiting"
      BY <2>2, <2>6 DEF TimesOut
    <3>2. Due'
      BY <1>0, <1>3, <2>6, <3>1, SleepEnds
    <3> QED BY <2>3, <2>6, <3>2 DEF TimesOut
  <2> QED BY <2>4, <2>5, <2>6
<1>4. ASSUME LoopSuspends PROVE TimesOut'
  <2>1. current = Loop /\ current' = None /\ client' = client /\ root' = root
    BY <1>4 DEF LoopSuspends, Suspends, vars, runtimeVars, clientVars, testVars
  <2>2. ~Due
    BY <2>1 DEF Due
  <2> QED BY <1>1, <1>4, <2>1, <2>2, QuietSteps
<1>5. ASSUME NEW i \in E!Ids, NextBranch(i) PROVE TimesOut'
  <2>1. /\ client' = client /\ UNCHANGED <<root, current, runQueue, expired>> /\ current = i
        /\ branches # <<>> /\ BranchWaits(i) /\ branches' = Tail(branches)
    BY <1>5 DEF NextBranch, vars, runtimeVars, clientVars, testVars
  <2>2. In(branches, "timer") /\ Head(branches) # "timer" => In(branches', "timer")
    BY <1>0, <2>1, HeadOrTail DEF ExampleInv, ExampleTypes
  <2>3. Head(branches) = "timer" => i \notin expired
    BY <2>1 DEF BranchWaits
  <2>4. Due => Due'
    BY <2>1, <2>2, <2>3 DEF Due
  <2> QED BY <1>1, <1>5, <2>1, <2>4, QuietSteps
<1>6. ASSUME NEW i \in E!Ids, ExecutionSuspends(i) PROVE TimesOut'
  <2>1. client' = client /\ root' = root /\ expired' = expired /\ current' = None /\ branches = <<>> /\ Wakes
    BY <1>6 DEF ExecutionSuspends, Suspends, vars, runtimeVars, clientVars, testVars
  <2> QED BY <1>1, <1>6, <2>1, DueStays, QuietSteps
<1>7. ASSUME NEW i \in E!Ids, ExecutionStep(i) PROVE TimesOut'
  <2>1. One(AsyncOp, TRUE)' /\ Calm("Scheduled")' /\ Over("timeout")'
    BY <1>0, <1>7, OneSteps, CalmStays
  <2>2. client' = client /\ current' = current /\ root' = root
    BY <1>0, <1>7, ExecutionLeavesRest DEF runtimeVars, clientVars, testVars
  <2> QED BY <2>1, <2>2 DEF TimesOut
<1>8. ASSUME UNCHANGED exampleVars PROVE TimesOut'
  BY <1>8 DEF TimesOut, One, Calm, Over, Due, exampleVars, executorVars, operationVars, testVars,
              vars, entityVars, runtimeVars, clientVars
<1>9. ASSUME TestStep, TestSends \/ TestAwaitsReply PROVE TimesOut'
  <2>1. current = Test /\ root # "sleeps"
    BY <1>9 DEF TestSends, TestAwaitsReply, Begins, TimesOut
  <2>2. current' # Loop /\ root' # "sleeps" /\ Wakes /\ expired' = expired
    BY <1>9, <2>1 DEF TestStep, TestSends, TestAwaitsReply, AwaitsAs, Suspends, testVars
  <2>3. UNCHANGED <<entityVars, operationVars, stopped, misled>>
    BY <1>9, TestLeavesExecutions
  <2>4. One(AsyncOp, TRUE)' /\ Calm("Scheduled")' /\ (Over("timeout") => Over("timeout")')
    BY <1>0, <2>3 DEF One, Calm, Over, entityVars, operationVars
  <2>5. Due => Due'
    BY <2>1, <2>2, DueStays
  <2> QED BY <2>1, <2>2, <2>4, <2>5 DEF TimesOut
<1>10. ASSUME LoopStep PROVE Over("timeout") /\ root # "sleeps"
  <2>1. client[Test] = "waiting" /\ current = Loop
    BY <1>10, LoopUnderway, UnderwayIsAsked DEF Base
  <2> QED BY <2>1 DEF TimesOut, Due
<1> QED BY <1>2, <1>3, <1>4, <1>5, <1>6, <1>7, <1>8, <1>9, <1>10

-----------------------------------------------------------------------------
(* From one request to the next. *)

\* Whoever does what while a request is asked.
LEMMA AskingSteps ==
    ASSUME Base, [ExampleNext]_exampleVars, ~shutdownRequested, root # "panicked",
           script # <<>>, Head(script).do = "ask"
    PROVE  /\ ~shutdownRequested'
           /\ \/ script' = script /\ root' # "panicked" /\ Quiet
              \/ script' = script /\ root' # "panicked" /\ LoopStep
              \/ script' = script /\ root' # "panicked" /\ \E i \in E!Ids : ExecutionStep(i)
              \/ TestStep /\ TestTakesReply
                 /\ (Heard \in Head(script).expect => script' = Tail(script) /\ root' # "panicked")
<1> USE Apart
<1>1. CASE PollNext \/ Park \/ LoopSuspends \/ UNCHANGED exampleVars
  <2>1. Quiet /\ script' = script
    BY <1>1, QuietSteps DEF testVars
  <2>2. root' \in {root, "ready"}
    BY <1>1 DEF PollNext, Park, LoopSuspends, exampleVars, testVars
  <2> QED BY <2>1, <2>2 DEF Quiet
<1>2. ASSUME NEW i \in E!Ids, NextBranch(i) \/ ExecutionSuspends(i)
      PROVE  Quiet /\ script' = script /\ root' = root /\ shutdownRequested' = shutdownRequested
  BY <1>2, QuietSteps DEF Quiet, testVars
<1>3. CASE LoopStep
  BY <1>3, LoopLeavesTest DEF testVars
<1>4. ASSUME NEW i \in E!Ids, ExecutionStep(i)
      PROVE  script' = script /\ root' = root /\ shutdownRequested' = shutdownRequested
  BY <1>4, ExecutionLeavesRest DEF Base, Joint, runtimeVars, testVars
<1>5. CASE TestStep
  <2>1. TestSends \/ TestAwaitsReply \/ TestTakesReply
    BY <1>5 DEF TestStep, TestRuns, TestWrites, TestPauses, TestShutsDown, TestJoins, ClientChooses, TestEnds, Begins
  <2>2. CASE TestSends
    <3>1. UNCHANGED <<answer, serving, shutdownRequested, script, root>>
      BY <2>2 DEF TestSends, Send, Deliver, loopVars, testVars
    <3> QED BY <1>5, <3>1, TestLeavesExecutions DEF Quiet
  <2>3. CASE TestAwaitsReply
    <3>1. UNCHANGED <<answer, serving, shutdownRequested, script>> /\ root' = "waits"
      BY <2>3 DEF TestAwaitsReply, AwaitsAs, vars, runtimeVars, loopVars
    <3> QED BY <1>5, <3>1, TestLeavesExecutions DEF Quiet
  <2>4. CASE TestTakesReply
    BY <1>5, <2>4, Taken
  <2> QED BY <2>1, <2>2, <2>3, <2>4
<1> QED BY <1>1, <1>2, <1>3, <1>4, <1>5 DEF ExampleNext

LEMMA QuerySteps ==
    ASSUME Base, [ExampleNext]_exampleVars, ~shutdownRequested, root # "panicked",
           NEW query, NEW what, Asserts(query, what), Querying(what),
           NEW rest, Has(Queries(query, Yes(what)), rest)
    PROVE  /\ ~shutdownRequested' /\ root' # "panicked"
           /\ \/ script' = script /\ Querying(what)'
              \/ Ahead(rest)' /\ \A other : Querying(other)'
<1>1. script # <<>> /\ Head(script) = Queries(query, Yes(what)) /\ Head(script).do = "ask"
  BY Requesting DEF Has
<1>2. ASSUME NEW i \in E!Ids, ExecutionStep(i)
      PROVE  Querying(what)'
  BY <1>2, ExecutionLeavesRest DEF Base, Joint, runtimeVars, Querying, Answered, Told
<1> QED BY <1>1, <1>2, AskingSteps, QuietKeeps, QueryAsked, QueryTaken DEF Has

LEMMA ExecutionRequestSteps ==
    ASSUME Base, [ExampleNext]_exampleVars, ~shutdownRequested, root # "panicked",
           NEW op \in Ops, NEW withTimeout \in BOOLEAN, Executing(op, withTimeout),
           NEW rest, Has(Request(op, withTimeout), rest)
    PROVE  /\ ~shutdownRequested' /\ root' # "panicked"
           /\ \/ script' = script /\ Executing(op, withTimeout)'
              \/ /\ Ahead(rest)' /\ One(op, withTimeout)' /\ ~Answered' /\ pc'[Loop] \notin {"send", "await"}
                 /\ op # SyncOp => Calm(StatusAtStart(op))'
                 /\ op = SyncOp => Over("ok")' /\ entry'[1] = "completed"
<1>1. script # <<>> /\ Head(script) = Request(op, withTimeout)
  BY DEF Has
<1>2. Head(script).do = "ask"
  BY <1>1, Requesting DEF Request
<1>3. CASE TestStep /\ TestTakesReply
  BY <1>1, <1>2, <1>3, AskingSteps, ExecutionTaken, Taken, TakenKeeps DEF Has
<1> QED BY <1>1, <1>2, <1>3, AskingSteps, QuietKeeps, ExecutionAsked, ExecutionBegins

LEMMA StatusSteps ==
    ASSUME Base, [ExampleNext]_exampleVars, ~shutdownRequested, root # "panicked",
           NEW op \in {AsyncOp, RoutineOp}, NEW status \in Statuses, op = RoutineOp => status = "Running",
           AskingStatus(op, status), NEW expected, Yes(status) \in expected,
           NEW rest, Has(AsksStatus(expected), rest)
    PROVE  /\ ~shutdownRequested' /\ root' # "panicked"
           /\ \/ script' = script /\ AskingStatus(op, status)'
              \/ /\ Ahead(rest)' /\ One(op, FALSE)' /\ ~Answered' /\ pc'[Loop] \notin {"send", "await"}
                 /\ IF op = AsyncOp /\ status # "Scheduled" THEN Over("ok")' ELSE Calm("Running")'
<1>1. script # <<>> /\ Head(script) = AsksStatus(expected) /\ Head(script).do = "ask"
  BY Requesting DEF Has
<1>2. CASE TestStep /\ TestTakesReply
  BY <1>1, <1>2, AskingSteps, StatusTaken, Taken, TakenKeeps DEF Has
<1> QED BY <1>1, <1>2, AskingSteps, QuietKeeps, StatusAsked, StatusReported

LEMMA CapabilitySteps ==
    ASSUME Base, [ExampleNext]_exampleVars, ~shutdownRequested, root # "panicked",
           AskingCapability, NEW rest, Has(AsksCapability, rest)
    PROVE  /\ ~shutdownRequested' /\ root' # "panicked"
           /\ \/ script' = script /\ AskingCapability'
              \/ /\ Ahead(rest)' /\ One(AsyncOp, FALSE)' /\ Calm("HandleCustomCapability")'
                 /\ ~Answered' /\ pc'[Loop] \notin {"send", "await"}
<1>1. script # <<>> /\ Head(script) = AsksCapability /\ Head(script).do = "ask"
  BY Requesting DEF Has
<1>2. CASE TestStep /\ TestTakesReply
  BY <1>1, <1>2, AskingSteps, CapabilityTaken, Taken, TakenKeeps DEF Has
<1> QED BY <1>1, <1>2, AskingSteps, QuietKeeps, CapabilityAsked, CapabilityHandled

LEMMA LateSteps ==
    ASSUME Base, [ExampleNext]_exampleVars, ~shutdownRequested, root # "panicked",
           AskingLate, NEW expected, No \in expected, NEW rest, Has(AsksStatus(expected), rest)
    PROVE  /\ ~shutdownRequested' /\ root' # "panicked"
           /\ \/ script' = script /\ AskingLate'
              \/ Ahead(rest)' /\ Yielding(AsyncOp, "ok")'
<1>1. script # <<>> /\ Head(script) = AsksStatus(expected) /\ Head(script).do = "ask"
  BY Requesting DEF Has
<1>2. CASE TestStep /\ TestTakesReply
  BY <1>1, <1>2, LateTaken, Taken DEF Has
<1> QED BY <1>1, <1>2, AskingSteps, QuietKeeps, LateAsked, LateStays

LEMMA StopSteps ==
    ASSUME Base, [ExampleNext]_exampleVars, ~shutdownRequested, root # "panicked",
           NEW op \in {AsyncOp, RoutineOp}, NEW status, Stopping(op, status), NEW rest, Has(Stops, rest)
    PROVE  /\ ~shutdownRequested' /\ root' # "panicked"
           /\ \/ script' = script /\ Stopping(op, status)'
              \/ Ahead(rest)' /\ op = AsyncOp /\ Yielding(op, "err")'
              \/ Ahead(rest)' /\ op = RoutineOp /\ Yielding(op, "ok")'
<1>1. script # <<>> /\ Head(script) = Stops /\ Head(script).do = "ask"
  BY Requesting DEF Has
<1>2. CASE TestStep /\ TestTakesReply
  <2>1. Ahead(rest)' /\ root' # "panicked" /\ ~shutdownRequested'
    BY <1>1, <1>2, StopTakenUp, Taken DEF Has
  <2>2. op = AsyncOp => Yielding(op, "err")'
    <3>1. ASSUME op = AsyncOp PROVE (IF op = AsyncOp THEN "err" ELSE "ok") = "err"
      BY <3>1
    <3> QED BY <1>1, <1>2, <3>1, StopTakenUp
  <2>3. op = RoutineOp => Yielding(op, "ok")'
    <3>1. ASSUME op = RoutineOp PROVE (IF op = AsyncOp THEN "err" ELSE "ok") = "ok"
      BY <3>1, ExampleAssumption
    <3> QED BY <1>1, <1>2, <3>1, StopTakenUp
  <2> QED BY <2>1, <2>2, <2>3
<1> QED BY <1>1, <1>2, AskingSteps, QuietKeeps, StopAsked, StopTaken

\* The last request of a test: whatever comes after it asserts nothing.
LEMMA ResultSteps ==
    ASSUME Base, [ExampleNext]_exampleVars, ~shutdownRequested, root # "panicked",
           NEW op \in Ops, NEW how, how # "timeout", Resulting(op, how),
           NEW rest, Has(AsksResult(op, how), rest)
    PROVE  /\ ~shutdownRequested' /\ root' # "panicked"
           /\ (script' = script /\ Resulting(op, how)') \/ Ahead(rest)'
<1>1. script # <<>> /\ Head(script) = AsksResult(op, how) /\ Head(script).do = "ask"
  BY Requesting DEF Has
<1>2. One(op, FALSE) /\ Over(how) /\ (op = SyncOp => entry[1] = "completed")
  BY DEF Resulting
<1>3. CASE TestStep /\ TestTakesReply
  BY <1>1, <1>3, ResultTaken, Taken DEF Has
<1>4. ASSUME LoopStep PROVE Resulting(op, how)'
  BY <1>1, <1>2, <1>4, ResultAsked DEF Resulting
<1>5. \A i \in E!Ids : ~ExecutionStep(i)
  BY <1>2, OverStays
<1> QED BY <1>1, <1>3, <1>4, <1>5, AskingSteps, QuietKeeps

LEMMA TimeoutResultSteps ==
    ASSUME Base, [ExampleNext]_exampleVars, ~shutdownRequested, root # "panicked",
           Resulting(AsyncOp, "timeout"), NEW rest, Has(AsksResult(AsyncOp, "timeout"), rest)
    PROVE  /\ ~shutdownRequested' /\ root' # "panicked"
           /\ (script' = script /\ Resulting(AsyncOp, "timeout")') \/ Ahead(rest)'
<1> USE Apart
<1>1. script # <<>> /\ Head(script) = AsksResult(AsyncOp, "timeout") /\ Head(script).do = "ask"
  BY Requesting DEF Has
<1>2. TimesOut /\ AsyncOp # SyncOp /\ AsyncOp \in Ops
  BY ExampleAssumption DEF Resulting
<1>3. ASSUME TimesOut', answer' = answer PROVE Resulting(AsyncOp, "timeout")'
  BY <1>3 DEF Resulting, Answered
<1>4. CASE TestStep /\ TestTakesReply
  BY <1>1, <1>2, <1>4, ResultTaken, Taken DEF Has
<1>5. CASE LoopStep
  <2>1. Over("timeout") /\ root # "sleeps" /\ One(AsyncOp, TRUE) /\ Calm("Scheduled")
    BY <1>2, <1>5, TimesOutSteps DEF TimesOut
  <2>2. /\ One(AsyncOp, TRUE)' /\ Over("timeout")' /\ answer'[Test].kind = "result"
        /\ UNCHANGED <<queue, notified, stopped, misled, opStatus, outcome>>
    BY <1>1, <1>2, <1>5, <2>1, ResultAsked
  <2>3. Calm("Scheduled")' /\ root' = root
    BY <1>5, <2>1, <2>2, LoopLeavesTest DEF Calm, testVars
  <2>4. Resulting(AsyncOp, "timeout")'
    BY <2>1, <2>2, <2>3 DEF Resulting, TimesOut
  <2> QED BY <1>1, <1>5, <2>4, AskingSteps, LoopLeavesTest DEF testVars, TestStep
<1>6. CASE TestStep /\ ~TestTakesReply
  <2>1. TestSends \/ TestAwaitsReply
    BY <1>1, <1>6 DEF TestStep, TestRuns, TestWrites, TestPauses, TestShutsDown, TestJoins, ClientChooses, TestEnds, Begins
  <2>2. TimesOut' /\ answer' = answer
    BY <1>2, <1>6, <2>1, TimesOutSteps DEF TestSends, TestAwaitsReply, Send, Deliver, AwaitsAs, vars, runtimeVars
  <2>3. script' = script /\ root' # "panicked" /\ ~shutdownRequested'
    BY <2>1 DEF TestSends, TestAwaitsReply, Send, Deliver, AwaitsAs, testVars, vars, runtimeVars
  <2> QED BY <1>3, <2>2, <2>3
<1>7. CASE ~TestStep /\ ~LoopStep
  <2>1. TimesOut'
    BY <1>2, <1>7, TimesOutSteps DEF ExampleNext
  <2>2. script' = script /\ root' # "panicked" /\ ~shutdownRequested'
    BY <1>1, <1>7, AskingSteps
  <2>3. answer' = answer
    <3>1. ASSUME NEW i \in E!Ids, ExecutionStep(i) PROVE answer' = answer
      BY <3>1, ExecutionLeavesRest DEF Base, Joint, runtimeVars
    <3> QED BY <1>1, <1>7, <3>1, AskingSteps DEF Quiet
  <2> QED BY <1>3, <2>1, <2>2, <2>3
<1> QED BY <1>4, <1>5, <1>6, <1>7

\* Whoever does what while nothing is asked.
LEMMA PausingSteps ==
    ASSUME Base, [ExampleNext]_exampleVars, ~shutdownRequested, root # "panicked",
           script # <<>>, Head(script).do \in {"run", "yield", "sleep"}
    PROVE  /\ ~shutdownRequested' /\ root' # "panicked" /\ ~Answered /\ client[Test] # "waiting" /\ serving = None
           /\ \/ script' = script /\ Quiet
              \/ script' = script /\ \E i \in E!Ids : ExecutionStep(i)
              \/ /\ TestStep /\ Quiet /\ script' = Tail(script) /\ client' = client
                 /\ \/ Head(script).do = "run"
                    \/ Head(script).do = "yield" /\ root' = "yields"
                    \/ Head(script).do = "sleep" /\ root' = "sleeps" /\ current' = None
<1> USE Apart
<1>1. ~Underway /\ ~Answered /\ client[Test] # "waiting"
  BY UnderwayIsAsked DEF Base, AsksInv
<1>2. serving = None
  BY <1>1 DEF Underway, Base, RuntimeInv, RuntimeTypes
<1>3. CASE PollNext \/ Park \/ LoopSuspends \/ UNCHANGED exampleVars
  <2>1. Quiet /\ script' = script
    BY <1>3, QuietSteps DEF testVars
  <2>2. root' \in {root, "ready"}
    BY <1>3 DEF PollNext, Park, LoopSuspends, exampleVars, testVars
  <2> QED BY <1>1, <1>2, <2>1, <2>2 DEF Quiet
<1>4. ASSUME NEW i \in E!Ids, NextBranch(i) \/ ExecutionSuspends(i)
      PROVE  Quiet /\ script' = script /\ root' = root /\ shutdownRequested' = shutdownRequested
  BY <1>4, QuietSteps DEF Quiet, testVars
<1>5. ~LoopStep
  BY <1>1, LoopUnderway
<1>6. ASSUME NEW i \in E!Ids, ExecutionStep(i)
      PROVE  script' = script /\ root' = root /\ shutdownRequested' = shutdownRequested
  BY <1>6, ExecutionLeavesRest DEF Base, Joint, runtimeVars, testVars
<1>7. CASE TestStep
  <2>1. TestRuns \/ TestPauses
    BY <1>7 DEF TestStep, TestSends, TestAwaitsReply, TestTakesReply, TestWrites, TestShutsDown, TestJoins,
               ClientChooses, TestEnds, Begins
  <2>2. CASE TestRuns
    <3>1. UNCHANGED <<answer, serving, shutdownRequested, root, client>> /\ script' = Tail(script)
          /\ Head(script).do = "run"
      BY <2>2 DEF TestRuns, Run, GoesOn, Begins, clientVars
    <3> QED BY <1>1, <1>2, <1>7, <3>1, TestLeavesExecutions DEF Quiet
  <2>3. CASE TestPauses
    <3>1. /\ UNCHANGED <<answer, serving, shutdownRequested, client>> /\ script' = Tail(script)
          /\ \/ Head(script).do = "yield" /\ root' = "yields"
             \/ Head(script).do = "sleep" /\ root' = "sleeps" /\ current' = None
      BY <2>3 DEF TestPauses, AwaitsAs, Suspends, Begins, vars, runtimeVars, loopVars, clientVars
    <3> QED BY <1>1, <1>2, <1>7, <3>1, TestLeavesExecutions DEF Quiet
  <2> QED BY <2>1, <2>2, <2>3
<1> QED BY <1>1, <1>2, <1>3, <1>4, <1>5, <1>6, <1>7 DEF ExampleNext

LEMMA YieldSteps ==
    ASSUME Base, [ExampleNext]_exampleVars, ~shutdownRequested, root # "panicked",
           NEW op \in {AsyncOp, RoutineOp}, NEW how, how # "timeout", Yielding(op, how),
           NEW rest, Has(Does("yield"), rest)
    PROVE  /\ ~shutdownRequested' /\ root' # "panicked"
           /\ \/ script' = script /\ Yielding(op, how)'
              \/ Ahead(rest)' /\ Resulting(op, how)'
<1>1. script # <<>> /\ Head(script).do = "yield"
  BY Requesting DEF Has
<1>2. \A i \in E!Ids : ~ExecutionStep(i)
  BY OverStays DEF Yielding
<1>3. Quiet => Yielding(op, how)' /\ answer' = answer
  BY QuietKeeps DEF Quiet
<1>4. ~Answered /\ op # SyncOp
  BY <1>1, PausingSteps, ExampleAssumption
<1>5. Quiet => Resulting(op, how)'
  BY <1>3, <1>4 DEF Yielding, Resulting, Answered
<1> QED BY <1>1, <1>2, <1>3, <1>5, PausingSteps DEF Has

LEMMA SleepSteps ==
    ASSUME Base, [ExampleNext]_exampleVars, ~shutdownRequested, root # "panicked",
           One(AsyncOp, TRUE), Calm("Scheduled"), NEW rest, Has(Does("sleep"), rest)
    PROVE  /\ ~shutdownRequested' /\ root' # "panicked" /\ One(AsyncOp, TRUE)' /\ Calm("Scheduled")'
           /\ script' = script \/ (Ahead(rest)' /\ Resulting(AsyncOp, "timeout")')
<1> USE Apart
<1>1. script # <<>> /\ Head(script).do = "sleep"
  BY Requesting DEF Has
<1>2. AsyncOp # SyncOp
  BY ExampleAssumption
<1>3. ASSUME NEW i \in E!Ids, ExecutionStep(i) PROVE One(AsyncOp, TRUE)' /\ Calm("Scheduled")'
  BY <1>2, <1>3, OneSteps, CalmStays
<1>4. Quiet => One(AsyncOp, TRUE)' /\ Calm("Scheduled")' /\ answer' = answer
  BY QuietKeeps DEF Quiet
<1>5. ASSUME TestStep, Quiet, root' = "sleeps", current' = None, client' = client
      PROVE  Resulting(AsyncOp, "timeout")'
  <2>1. ~Answered /\ client[Test] # "waiting"
    BY <1>1, PausingSteps
  <2> QED BY <1>4, <1>5, <2>1 DEF Resulting, TimesOut, Answered
<1> QED BY <1>1, <1>3, <1>4, <1>5, PausingSteps DEF Has

-----------------------------------------------------------------------------
(* Test by test. *)

LEMMA Named ==
    /\ SyncOp \in Ops /\ AsyncOp \in Ops /\ RoutineOp \in Ops
    /\ SyncOp # AsyncOp /\ SyncOp # RoutineOp /\ AsyncOp # RoutineOp
    /\ {"Scheduled", "Running", "HandleCustomCapability"} \subseteq Statuses
    /\ \A op : Request(op, FALSE) = Executes(op) /\ Request(op, TRUE) = ExecutesWithTimeout(op)
BY ExampleAssumption DEF Request

\* When the assertions are through nothing is asserted any more.
LEMMA LastIsFree ==
    /\ script' = Ends => Free'
    /\ Ahead(<<>>)' => Free'
    /\ Ahead(<<Does("write")>>)' => Free'
<1> DEFINE S == {Does("write"), Does("shutdown"), Does("join")}
<1>1. \A step \in S : step.do # "ask"
  BY DEF Does
<1>2. <<>> \in Seq(S) /\ <<Does("write")>> \in Seq(S) /\ Ends \in Seq(S)
  BY DEF Ends
<1> HIDE DEF S
<1>3. ASSUME NEW s \in Seq(S), script' = s
      PROVE  Free'
  <2>1. \A k \in DOMAIN s : s[k] \in S
    BY <1>3
  <2> QED BY <1>1, <1>3, <2>1 DEF Free
<1>4. <<>> \o Ends \in Seq(S) /\ <<Does("write")>> \o Ends \in Seq(S)
  BY <1>2, ConcatIn
<1> QED BY <1>2, <1>3, <1>4 DEF Ahead

LEMMA ReadTestSteps ==
    ASSUME Base, [ExampleNext]_exampleVars, ~shutdownRequested, root # "panicked", ReadTest
    PROVE  ~shutdownRequested' /\ root' # "panicked" /\ (ReadTest' \/ Free')
<1> DEFINE list == [ask |-> "list"]
           read == [ask |-> "read", id |-> "my_data_resource", encoding |-> "UTF8"]
           value == R!FromString("value")
<1>1. DataResourceRead = <<Queries(list, Yes(Listed)), Queries(read, Yes(value))>>
      /\ Tail(DataResourceRead) = <<Queries(read, Yes(value))>>
  BY DEF DataResourceRead
<1>2. Asserts(list, Listed) /\ Asserts(read, value)
  BY DEF Asserts
<1> HIDE DEF list, read, value
<1>3. CASE Ahead(DataResourceRead) /\ Querying(Listed)
  <2>1. Has(Queries(list, Yes(Listed)), Tail(DataResourceRead))
    BY <1>1, <1>3, Scripting
  <2>2. /\ ~shutdownRequested' /\ root' # "panicked"
        /\ \/ script' = script /\ Querying(Listed)'
           \/ Ahead(Tail(DataResourceRead))' /\ \A other : Querying(other)'
    BY <1>2, <1>3, <2>1, QuerySteps
  <2> QED BY <1>3, <2>2 DEF ReadTest, Ahead
<1>4. CASE Ahead(Tail(DataResourceRead)) /\ Querying(value)
  <2>1. Has(Queries(read, Yes(value)), <<>>)
    BY <1>1, <1>4, Scripting
  <2>2. /\ ~shutdownRequested' /\ root' # "panicked"
        /\ (script' = script /\ Querying(value)') \/ Ahead(<<>>)'
    BY <1>2, <1>4, <2>1, QuerySteps
  <2> QED BY <1>4, <2>2, LastIsFree DEF ReadTest, Ahead, value
<1> QED BY <1>3, <1>4 DEF ReadTest, value

LEMMA RdbiTestSteps ==
    ASSUME Base, [ExampleNext]_exampleVars, ~shutdownRequested, root # "panicked", RdbiTest
    PROVE  ~shutdownRequested' /\ root' # "panicked" /\ (RdbiTest' \/ Free')
<1> DEFINE read == [ask |-> "read", id |-> "uds_data_resource", encoding |-> "Binary"]
           value == R!FromByteVector("deadbeef")
<1>1. DataResourceUdsRdbi = <<Queries(read, Yes(value)), Does("write")>>
  BY DEF DataResourceUdsRdbi
<1>2. Asserts(read, value)
  BY DEF Asserts
<1>3. Ahead(DataResourceUdsRdbi) /\ Querying(value)
  BY DEF RdbiTest
<1> HIDE DEF read, value
<1>4. Has(Queries(read, Yes(value)), <<Does("write")>>)
  BY <1>1, <1>3, Scripting
<1>5. /\ ~shutdownRequested' /\ root' # "panicked"
      /\ (script' = script /\ Querying(value)') \/ Ahead(<<Does("write")>>)'
  BY <1>2, <1>3, <1>4, QuerySteps
<1> QED BY <1>3, <1>5, LastIsFree DEF RdbiTest, Ahead, value

LEMMA SyncTestSteps ==
    ASSUME Base, [ExampleNext]_exampleVars, ~shutdownRequested, root # "panicked", SyncTest
    PROVE  ~shutdownRequested' /\ root' # "panicked" /\ (SyncTest' \/ Free')
<1> DEFINE last == <<AsksResult(SyncOp, "ok")>>
<1>1. CASE Ahead(ExecutionOfSynchronousOperation) /\ Executing(SyncOp, FALSE)
  <2>1. Has(Request(SyncOp, FALSE), last)
    BY <1>1, Scripting, Named DEF ExecutionOfSynchronousOperation
  <2>2. /\ ~shutdownRequested' /\ root' # "panicked"
        /\ \/ script' = script /\ Executing(SyncOp, FALSE)'
           \/ /\ Ahead(last)' /\ One(SyncOp, FALSE)' /\ ~Answered' /\ Over("ok")' /\ entry'[1] = "completed"
    BY <1>1, <2>1, ExecutionRequestSteps, Named
  <2>3. One(SyncOp, FALSE)' /\ ~Answered' /\ Over("ok")' /\ entry'[1] = "completed" => Resulting(SyncOp, "ok")'
    BY DEF Resulting
  <2> QED BY <1>1, <2>2, <2>3 DEF SyncTest, Ahead
<1>2. CASE Ahead(last) /\ Resulting(SyncOp, "ok")
  <2>1. Has(AsksResult(SyncOp, "ok"), <<>>)
    BY <1>2, Scripting
  <2>2. /\ ~shutdownRequested' /\ root' # "panicked"
        /\ (script' = script /\ Resulting(SyncOp, "ok")') \/ Ahead(<<>>)'
    BY <1>2, <2>1, ResultSteps, Named
  <2> QED BY <1>2, <2>2, LastIsFree DEF SyncTest, Ahead
<1> QED BY <1>1, <1>2 DEF SyncTest

LEMMA StopTestSteps ==
    ASSUME Base, [ExampleNext]_exampleVars, ~shutdownRequested, root # "panicked", StopTest
    PROVE  ~shutdownRequested' /\ root' # "panicked" /\ (StopTest' \/ Free')
<1> DEFINE last == <<AsksResult(AsyncOp, "err")>>
           yield == <<Does("yield"), AsksResult(AsyncOp, "err")>>
           stop == <<Stops, Does("yield"), AsksResult(AsyncOp, "err")>>
<1>1. CASE Ahead(ExecutionAndStopOfAsynchronousOperation) /\ Executing(AsyncOp, FALSE)
  <2>1. Has(Request(AsyncOp, FALSE), stop)
    BY <1>1, Scripting, Named DEF ExecutionAndStopOfAsynchronousOperation
  <2>2. StatusAtStart(AsyncOp) = "Scheduled"
    BY DEF StatusAtStart
  <2>3. /\ ~shutdownRequested' /\ root' # "panicked"
        /\ \/ script' = script /\ Executing(AsyncOp, FALSE)'
           \/ Ahead(stop)' /\ One(AsyncOp, FALSE)' /\ ~Answered' /\ Calm("Scheduled")'
    BY <1>1, <2>1, <2>2, ExecutionRequestSteps, Named
  <2>4. One(AsyncOp, FALSE)' /\ ~Answered' /\ Calm("Scheduled")' => Stopping(AsyncOp, "Scheduled")'
    BY DEF Stopping
  <2> QED BY <1>1, <2>3, <2>4 DEF StopTest, Ahead
<1>2. CASE Ahead(stop) /\ Stopping(AsyncOp, "Scheduled")
  <2>1. Has(Stops, yield)
    BY <1>2, Scripting
  <2>2. /\ ~shutdownRequested' /\ root' # "panicked"
        /\ \/ script' = script /\ Stopping(AsyncOp, "Scheduled")'
           \/ Ahead(yield)' /\ Yielding(AsyncOp, "err")'
    BY <1>2, <2>1, StopSteps, Named
  <2> QED BY <1>2, <2>2 DEF StopTest, Ahead
<1>3. CASE Ahead(yield) /\ Yielding(AsyncOp, "err")
  <2>1. Has(Does("yield"), last)
    BY <1>3, Scripting
  <2>2. /\ ~shutdownRequested' /\ root' # "panicked"
        /\ \/ script' = script /\ Yielding(AsyncOp, "err")'
           \/ Ahead(last)' /\ Resulting(AsyncOp, "err")'
    BY <1>3, <2>1, YieldSteps
  <2> QED BY <1>3, <2>2 DEF StopTest, Ahead
<1>4. CASE Ahead(last) /\ Resulting(AsyncOp, "err")
  <2>1. Has(AsksResult(AsyncOp, "err"), <<>>)
    BY <1>4, Scripting
  <2>2. /\ ~shutdownRequested' /\ root' # "panicked"
        /\ (script' = script /\ Resulting(AsyncOp, "err")') \/ Ahead(<<>>)'
    BY <1>4, <2>1, ResultSteps, Named
  <2> QED BY <1>4, <2>2, LastIsFree DEF StopTest, Ahead
<1> QED BY <1>1, <1>2, <1>3, <1>4 DEF StopTest

LEMMA TimeoutTestSteps ==
    ASSUME Base, [ExampleNext]_exampleVars, ~shutdownRequested, root # "panicked", TimeoutTest
    PROVE  ~shutdownRequested' /\ root' # "panicked" /\ (TimeoutTest' \/ Free')
<1> DEFINE last == <<AsksResult(AsyncOp, "timeout")>>
           sleep == <<Does("sleep"), AsksResult(AsyncOp, "timeout")>>
<1>1. CASE Ahead(ExecutionTimeoutOfAsynchronousOperation) /\ Executing(AsyncOp, TRUE)
  <2>1. Has(Request(AsyncOp, TRUE), sleep)
    BY <1>1, Scripting, Named DEF ExecutionTimeoutOfAsynchronousOperation
  <2>2. StatusAtStart(AsyncOp) = "Scheduled"
    BY DEF StatusAtStart
  <2>3. /\ ~shutdownRequested' /\ root' # "panicked"
        /\ \/ script' = script /\ Executing(AsyncOp, TRUE)'
           \/ Ahead(sleep)' /\ One(AsyncOp, TRUE)' /\ Calm("Scheduled")'
    BY <1>1, <2>1, <2>2, ExecutionRequestSteps, Named
  <2> QED BY <1>1, <2>3 DEF TimeoutTest, Ahead
<1>2. CASE Ahead(sleep) /\ One(AsyncOp, TRUE) /\ Calm("Scheduled")
  <2>1. Has(Does("sleep"), last)
    BY <1>2, Scripting
  <2>2. /\ ~shutdownRequested' /\ root' # "panicked" /\ One(AsyncOp, TRUE)' /\ Calm("Scheduled")'
        /\ script' = script \/ (Ahead(last)' /\ Resulting(AsyncOp, "timeout")')
    BY <1>2, <2>1, SleepSteps
  <2> QED BY <1>2, <2>2 DEF TimeoutTest, Ahead
<1>3. CASE Ahead(last) /\ Resulting(AsyncOp, "timeout")
  <2>1. Has(AsksResult(AsyncOp, "timeout"), <<>>)
    BY <1>3, Scripting
  <2>2. /\ ~shutdownRequested' /\ root' # "panicked"
        /\ (script' = script /\ Resulting(AsyncOp, "timeout")') \/ Ahead(<<>>)'
    BY <1>3, <2>1, TimeoutResultSteps
  <2> QED BY <1>3, <2>2, LastIsFree DEF TimeoutTest, Ahead
<1> QED BY <1>1, <1>2, <1>3 DEF TimeoutTest

LEMMA QueryTestSteps ==
    ASSUME Base, [ExampleNext]_exampleVars, ~shutdownRequested, root # "panicked", QueryTest
    PROVE  ~shutdownRequested' /\ root' # "panicked" /\ (QueryTest' \/ Free')
<1> DEFINE last == <<AsksResult(AsyncOp, "ok")>>
           yield == <<Does("yield"), AsksResult(AsyncOp, "ok")>>
           late == <<AsksStatus({Yes("Running"), No}), Does("yield"), AsksResult(AsyncOp, "ok")>>
           again == <<AsksStatus({Yes("HandleCustomCapability")}),
                      AsksStatus({Yes("Running"), No}), Does("yield"), AsksResult(AsyncOp, "ok")>>
           capability == <<AsksCapability, AsksStatus({Yes("HandleCustomCapability")}),
                           AsksStatus({Yes("Running"), No}), Does("yield"), AsksResult(AsyncOp, "ok")>>
           first == <<AsksStatus({Yes("Scheduled")}), AsksCapability, AsksStatus({Yes("HandleCustomCapability")}),
                      AsksStatus({Yes("Running"), No}), Does("yield"), AsksResult(AsyncOp, "ok")>>
<1>1. CASE Ahead(ExecutionAndQueryOfAsynchronousOperation) /\ Executing(AsyncOp, FALSE)
  <2>1. Has(Request(AsyncOp, FALSE), first)
    BY <1>1, Scripting, Named DEF ExecutionAndQueryOfAsynchronousOperation
  <2>2. StatusAtStart(AsyncOp) = "Scheduled"
    BY DEF StatusAtStart
  <2>3. /\ ~shutdownRequested' /\ root' # "panicked"
        /\ \/ script' = script /\ Executing(AsyncOp, FALSE)'
           \/ /\ Ahead(first)' /\ One(AsyncOp, FALSE)' /\ ~Answered' /\ pc'[Loop] # "await"
              /\ Calm("Scheduled")'
    BY <1>1, <2>1, <2>2, ExecutionRequestSteps, Named
  <2>4. One(AsyncOp, FALSE)' /\ ~Answered' /\ pc'[Loop] # "await" /\ Calm("Scheduled")'
          => AskingStatus(AsyncOp, "Scheduled")'
    BY DEF AskingStatus
  <2> QED BY <1>1, <2>3, <2>4 DEF QueryTest, Ahead
<1>2. CASE Ahead(first) /\ AskingStatus(AsyncOp, "Scheduled")
  <2>1. Has(AsksStatus({Yes("Scheduled")}), capability)
    BY <1>2, Scripting
  <2>2. /\ ~shutdownRequested' /\ root' # "panicked"
        /\ \/ script' = script /\ AskingStatus(AsyncOp, "Scheduled")'
           \/ Ahead(capability)' /\ One(AsyncOp, FALSE)' /\ ~Answered' /\ Calm("Running")'
    <3>1. Yes("Scheduled") \in {Yes("Scheduled")} /\ AsyncOp \in {AsyncOp, RoutineOp}
      OBVIOUS
    <3> QED BY <1>2, <2>1, <3>1, StatusSteps, Named
  <2>3. One(AsyncOp, FALSE)' /\ ~Answered' /\ Calm("Running")' => AskingCapability'
    BY DEF AskingCapability
  <2> QED BY <1>2, <2>2, <2>3 DEF QueryTest, Ahead
<1>3. CASE Ahead(capability) /\ AskingCapability
  <2>1. Has(AsksCapability, again)
    BY <1>3, Scripting
  <2>2. /\ ~shutdownRequested' /\ root' # "panicked"
        /\ \/ script' = script /\ AskingCapability'
           \/ /\ Ahead(again)' /\ One(AsyncOp, FALSE)' /\ Calm("HandleCustomCapability")'
              /\ ~Answered' /\ pc'[Loop] # "await"
    BY <1>3, <2>1, CapabilitySteps
  <2>3. One(AsyncOp, FALSE)' /\ ~Answered' /\ pc'[Loop] # "await" /\ Calm("HandleCustomCapability")'
          => AskingStatus(AsyncOp, "HandleCustomCapability")'
    BY DEF AskingStatus
  <2> QED BY <1>3, <2>2, <2>3 DEF QueryTest, Ahead
<1>4. CASE Ahead(again) /\ AskingStatus(AsyncOp, "HandleCustomCapability")
  <2>1. Has(AsksStatus({Yes("HandleCustomCapability")}), late)
    BY <1>4, Scripting
  <2>2. /\ ~shutdownRequested' /\ root' # "panicked"
        /\ \/ script' = script /\ AskingStatus(AsyncOp, "HandleCustomCapability")'
           \/ /\ Ahead(late)' /\ One(AsyncOp, FALSE)' /\ ~Answered' /\ pc'[Loop] # "await" /\ Over("ok")'
    <3>1. Yes("HandleCustomCapability") \in {Yes("HandleCustomCapability")} /\ AsyncOp \in {AsyncOp, RoutineOp}
      OBVIOUS
    <3> QED BY <1>4, <2>1, <3>1, StatusSteps, Named
  <2>3. One(AsyncOp, FALSE)' /\ ~Answered' /\ pc'[Loop] # "await" /\ Over("ok")' => AskingLate'
    BY DEF AskingLate
  <2> QED BY <1>4, <2>2, <2>3 DEF QueryTest, Ahead
<1>5. CASE Ahead(late) /\ AskingLate
  <2>1. Has(AsksStatus({Yes("Running"), No}), yield)
    BY <1>5, Scripting
  <2>2. /\ ~shutdownRequested' /\ root' # "panicked"
        /\ \/ script' = script /\ AskingLate'
           \/ Ahead(yield)' /\ Yielding(AsyncOp, "ok")'
    <3>1. No \in {Yes("Running"), No}
      OBVIOUS
    <3> QED BY <1>5, <2>1, <3>1, LateSteps
  <2> QED BY <1>5, <2>2 DEF QueryTest, Ahead
<1>6. CASE Ahead(yield) /\ Yielding(AsyncOp, "ok")
  <2>1. Has(Does("yield"), last)
    BY <1>6, Scripting
  <2>2. /\ ~shutdownRequested' /\ root' # "panicked"
        /\ \/ script' = script /\ Yielding(AsyncOp, "ok")'
           \/ Ahead(last)' /\ Resulting(AsyncOp, "ok")'
    BY <1>6, <2>1, YieldSteps
  <2> QED BY <1>6, <2>2 DEF QueryTest, Ahead
<1>7. CASE Ahead(last) /\ Resulting(AsyncOp, "ok")
  <2>1. Has(AsksResult(AsyncOp, "ok"), <<>>)
    BY <1>7, Scripting
  <2>2. /\ ~shutdownRequested' /\ root' # "panicked"
        /\ (script' = script /\ Resulting(AsyncOp, "ok")') \/ Ahead(<<>>)'
    BY <1>7, <2>1, ResultSteps, Named
  <2> QED BY <1>7, <2>2, LastIsFree DEF QueryTest, Ahead
<1> QED BY <1>1, <1>2, <1>3, <1>4, <1>5, <1>6, <1>7 DEF QueryTest

LEMMA RoutineTestSteps ==
    ASSUME Base, [ExampleNext]_exampleVars, ~shutdownRequested, root # "panicked", RoutineTest
    PROVE  ~shutdownRequested' /\ root' # "panicked" /\ (RoutineTest' \/ Free')
<1> DEFINE last == <<AsksResult(RoutineOp, "ok")>>
           yield == <<Does("yield"), AsksResult(RoutineOp, "ok")>>
           stop == <<Stops, Does("yield"), AsksResult(RoutineOp, "ok")>>
           status == <<AsksStatus({Yes("Running")}), Stops, Does("yield"), AsksResult(RoutineOp, "ok")>>
<1>1. CASE Ahead(ExecutionAndQueryOfUdsRoutine) /\ Executing(RoutineOp, FALSE)
  <2>1. Has(Request(RoutineOp, FALSE), status)
    BY <1>1, Scripting, Named DEF ExecutionAndQueryOfUdsRoutine
  <2>2. StatusAtStart(RoutineOp) = "Running"
    BY Named DEF StatusAtStart
  <2>3. /\ ~shutdownRequested' /\ root' # "panicked"
        /\ \/ script' = script /\ Executing(RoutineOp, FALSE)'
           \/ /\ Ahead(status)' /\ One(RoutineOp, FALSE)' /\ ~Answered' /\ pc'[Loop] # "await"
              /\ Calm("Running")'
    BY <1>1, <2>1, <2>2, ExecutionRequestSteps, Named
  <2>4. One(RoutineOp, FALSE)' /\ ~Answered' /\ pc'[Loop] # "await" /\ Calm("Running")'
          => AskingStatus(RoutineOp, "Running")'
    BY DEF AskingStatus
  <2> QED BY <1>1, <2>3, <2>4 DEF RoutineTest, Ahead
<1>2. CASE Ahead(status) /\ AskingStatus(RoutineOp, "Running")
  <2>1. Has(AsksStatus({Yes("Running")}), stop)
    BY <1>2, Scripting
  <2>2. /\ ~shutdownRequested' /\ root' # "panicked"
        /\ \/ script' = script /\ AskingStatus(RoutineOp, "Running")'
           \/ Ahead(stop)' /\ One(RoutineOp, FALSE)' /\ ~Answered' /\ Calm("Running")'
    <3>1. Yes("Running") \in {Yes("Running")} /\ RoutineOp \in {AsyncOp, RoutineOp}
      OBVIOUS
    <3> QED BY <1>2, <2>1, <3>1, StatusSteps, Named
  <2>3. One(RoutineOp, FALSE)' /\ ~Answered' /\ Calm("Running")' => Stopping(RoutineOp, "Running")'
    BY DEF Stopping
  <2> QED BY <1>2, <2>2, <2>3 DEF RoutineTest, Ahead
<1>3. CASE Ahead(stop) /\ Stopping(RoutineOp, "Running")
  <2>1. Has(Stops, yield)
    BY <1>3, Scripting
  <2>2. /\ ~shutdownRequested' /\ root' # "panicked"
        /\ \/ script' = script /\ Stopping(RoutineOp, "Running")'
           \/ Ahead(yield)' /\ Yielding(RoutineOp, "ok")'
    BY <1>3, <2>1, StopSteps, Named
  <2> QED BY <1>3, <2>2 DEF RoutineTest, Ahead
<1>4. CASE Ahead(yield) /\ Yielding(RoutineOp, "ok")
  <2>1. Has(Does("yield"), last)
    BY <1>4, Scripting
  <2>2. /\ ~shutdownRequested' /\ root' # "panicked"
        /\ \/ script' = script /\ Yielding(RoutineOp, "ok")'
           \/ Ahead(last)' /\ Resulting(RoutineOp, "ok")'
    BY <1>4, <2>1, YieldSteps
  <2> QED BY <1>4, <2>2 DEF RoutineTest, Ahead
<1>5. CASE Ahead(last) /\ Resulting(RoutineOp, "ok")
  <2>1. Has(AsksResult(RoutineOp, "ok"), <<>>)
    BY <1>5, Scripting
  <2>2. /\ ~shutdownRequested' /\ root' # "panicked"
        /\ (script' = script /\ Resulting(RoutineOp, "ok")') \/ Ahead(<<>>)'
    BY <1>5, <2>1, ResultSteps, Named
  <2> QED BY <1>5, <2>2, LastIsFree DEF RoutineTest, Ahead
<1> QED BY <1>1, <1>2, <1>3, <1>4, <1>5 DEF RoutineTest

-----------------------------------------------------------------------------
(* Every test, from its start to its end. *)

\* The first request of a test finds no execution.
LEMMA AtStartSteps ==
    ASSUME Base, [ExampleNext]_exampleVars, ~shutdownRequested, root # "panicked", AtStart
    PROVE  ~shutdownRequested' /\ root' # "panicked" /\ (AtStart' \/ UnderTest')
<1>1. PICK t \in Tests : script = <<Does("run")>> \o t \o Ends
  BY DEF AtStart
<1>2. script # <<>> /\ Head(script) = Does("run") /\ Tail(script) = t \o Ends
  <2> DEFINE T == Elements(t) \cup {Does("run"), Does("shutdown"), Does("join")}
             s == <<Does("run")>> \o t
  <2>1. t \in Seq(T) /\ Ends \in Seq(T) /\ <<Does("run")>> \in Seq(T)
    BY TestsAreScripts DEF IsScript, Ends
  <2> HIDE DEF T
  <2>2. s \in Seq(T) /\ s # <<>> /\ Head(s) = Does("run") /\ Tail(s) = t
    BY <2>1
  <2> HIDE DEF s
  <2>3. s \o Ends # <<>> /\ Head(s \o Ends) = Head(s) /\ Tail(s \o Ends) = Tail(s) \o Ends
    BY <2>1, <2>2
  <2> QED BY <1>1, <2>2, <2>3 DEF s
<1>3. Head(script).do = "run"
  BY <1>2, Requesting
<1>4. \A i \in E!Ids : ~ExecutionStep(i)
  <2>1. ASSUME NEW i \in E!Ids, ExecutionStep(i) PROVE FALSE
    <3>1. i < nextId /\ nextId = 1
      BY <2>1, ExecutionLeavesRest DEF AtStart, NoneYet, Base, Joint
    <3> QED BY <3>1
  <2> QED BY <2>1
<1>5. Quiet => NoneYet' /\ ~Answered' /\ Waits'
  <2>1. ~Answered /\ serving = None /\ NoneYet
    BY <1>2, <1>3, PausingSteps DEF AtStart
  <2> QED BY <2>1, QuietKeeps DEF Quiet, Answered, Waits
<1>6. ASSUME Quiet, script' = Tail(script) PROVE UnderTest'
  <2>1. Ahead(t)'
    BY <1>2, <1>6 DEF Ahead
  <2>2. \A what : Querying(what)'
    BY <1>5, <1>6 DEF Querying
  <2>3. \A op, withTimeout : Executing(op, withTimeout)'
    BY <1>5, <1>6 DEF Executing, Waits
  <2>4. t \in { DataResourceRead, DataResourceUdsRdbi } => UnderTest'
    BY <2>1, <2>2 DEF UnderTest, ReadTest, RdbiTest
  <2>5. t \in { ExecutionOfSynchronousOperation, ExecutionAndStopOfAsynchronousOperation,
                ExecutionTimeoutOfAsynchronousOperation, ExecutionAndQueryOfAsynchronousOperation,
                ExecutionAndQueryOfUdsRoutine } => UnderTest'
    BY <2>1, <2>3 DEF UnderTest, SyncTest, StopTest, TimeoutTest, QueryTest, RoutineTest
  <2> QED BY <2>4, <2>5 DEF Tests
<1>7. ASSUME Quiet, script' = script PROVE AtStart'
  BY <1>1, <1>5, <1>7 DEF AtStart
<1> QED BY <1>2, <1>3, <1>4, <1>6, <1>7, PausingSteps

\* The write of the test is refused by the adapter that has no service for it.
LEMMA WriteIsRefused == TestWrites => script' = Tail(script) /\ root' = root
<1> DEFINE error == R!FromCode("PreconditionNotFulfilled", "no wdbi")
           dataError == R!DataErrorFromError(error)
           handle == R!Write(UdsDataResource, None, R!Ok("written"))
<1>1. handle = R!HandleFromError(dataError)
  BY DEF R!Write, R!AdapterWrite, UdsDataResource, R!Adapter
<1>2. error.sovd_error = "precondition-not-fulfilled"
  BY DEF R!FromCode, R!GenericError, R!ErrorCode
<1> HIDE DEF error
<1>3. dataError.error = error
  BY DEF R!DataErrorFromError, R!WithError, R!DataError
<1> HIDE DEF dataError, handle
<1>4. handle.is = "Ready" /\ handle.result.is = "Err" /\ handle.result.error = dataError
  BY <1>1 DEF R!HandleFromError, R!Ready, R!Err
<1> QED BY <1>2, <1>3, <1>4 DEF TestWrites, GoesOn, handle

\* What asserts nothing passes.
LEMMA FreeSteps ==
    ASSUME Base, [ExampleNext]_exampleVars, root # "panicked", Free
    PROVE  root' # "panicked" /\ Free'
<1> USE Apart
<1>1. script' = script => Free'
  BY DEF Free
<1>2. script \in Seq(Steps)
  BY DEF Base, Joint, ExampleInv, ExampleTypes
<1>3. script # <<>> /\ script' = Tail(script) => Free'
  <2>1. ASSUME script # <<>>
        PROVE  \A k \in DOMAIN Tail(script) : k + 1 \in DOMAIN script /\ Tail(script)[k] = script[k + 1]
    BY <1>2, <2>1
  <2> QED BY <2>1 DEF Free
<1>4. CASE PollNext \/ Park \/ LoopSuspends \/ UNCHANGED exampleVars
  <2>1. script' = script
    BY <1>4, QuietSteps DEF testVars
  <2>2. root' \in {root, "ready"}
    BY <1>4 DEF PollNext, Park, LoopSuspends, exampleVars, testVars
  <2> QED BY <1>1, <2>1, <2>2
<1>5. ASSUME NEW i \in E!Ids, NextBranch(i) \/ ExecutionSuspends(i)
      PROVE  script' = script /\ root' = root
  BY <1>5, QuietSteps DEF testVars
<1>6. CASE LoopStep
  BY <1>1, <1>6, LoopLeavesTest DEF testVars
<1>7. ASSUME NEW i \in E!Ids, ExecutionStep(i)
      PROVE  script' = script /\ root' = root
  BY <1>7, ExecutionLeavesRest DEF Base, Joint, testVars
<1>8. CASE TestStep
  <2>1. TestRuns \/ TestShutsDown => script # <<>> /\ script' = Tail(script) /\ root' = root
    BY DEF TestRuns, TestShutsDown, Begins, GoesOn
  <2>2. TestSends => script' = script /\ root' = root
    BY DEF TestSends, testVars
  <2>3. TestAwaitsReply => script' = script /\ root' = "waits"
    BY DEF TestAwaitsReply, AwaitsAs
  <2>4. CASE TestTakesReply
    <3>1. script # <<>> /\ Head(script).do = "ask"
      BY <2>4 DEF TestTakesReply, Begins
    <3>2. 1 \in DOMAIN script /\ Head(script) = script[1]
      BY <1>2, <3>1
    <3>3. Head(script).expect = {}
      BY <3>1, <3>2 DEF Free
    <3>4. script' = Tail(script) /\ root' = root
      BY <2>4, <3>3 DEF TestTakesReply, GoesOn
    <3> QED BY <1>3, <3>1, <3>4
  <2>5. TestWrites => script # <<>> /\ script' = Tail(script) /\ root' = root
    BY WriteIsRefused DEF TestWrites, Begins
  <2>6. TestPauses => script # <<>> /\ script' = Tail(script) /\ root' \in {"yields", "sleeps"}
    BY DEF TestPauses, Begins, AwaitsAs
  <2>7. TestJoins => script # <<>> /\ script' \in {script, Tail(script)} /\ root' \in {root, "joins"}
    BY DEF TestJoins, Begins, GoesOn, AwaitsAs
  <2>8. CASE ClientChooses
    <3>1. root' = root /\ ((\E r \in AnyRequest : script' = <<r>>) \/ script' = Ends)
      BY <2>8 DEF ClientChooses
    <3>2. script' = Ends => Free'
      BY LastIsFree
    <3>3. ASSUME NEW r \in AnyRequest, script' = <<r>>
          PROVE  Free'
      <4>1. ASSUME NEW m, NEW withTimeout PROVE [Asks(m, {}) EXCEPT !.timeout = withTimeout].expect = {}
        BY DEF Asks
      <4>2. ASSUME NEW m PROVE Asks(m, {}).expect = {}
        BY DEF Asks
      <4>3. (\E m \in Messages : r = Asks(m, {}))
            \/ \E withTimeout \in BOOLEAN, m \in Messages : r = [Asks(m, {}) EXCEPT !.timeout = withTimeout]
        BY DEF AnyRequest
      <4>4. r.expect = {}
        BY <4>1, <4>2, <4>3
      <4> QED BY <3>3, <4>4 DEF Free
    <3> QED BY <3>1, <3>2, <3>3
  <2>9. TestEnds => script' = script /\ root' = "done"
    BY DEF TestEnds
  <2> QED BY <1>1, <1>3, <1>8, <2>1, <2>2, <2>3, <2>4, <2>5, <2>6, <2>7, <2>8, <2>9 DEF TestStep
<1> QED BY <1>1, <1>4, <1>5, <1>6, <1>7, <1>8 DEF ExampleNext

LEMMA StepKeepsStage ==
    ASSUME Base, [ExampleNext]_exampleVars, Stage, TestsPass
    PROVE  Stage' /\ TestsPass'
<1>1. CASE Free
  BY <1>1, FreeSteps DEF Stage, TestsPass
<1>2. CASE ~shutdownRequested /\ AtStart
  BY <1>2, AtStartSteps DEF Stage, TestsPass
<1>3. CASE ~shutdownRequested /\ UnderTest
  <2>1. ~shutdownRequested' /\ root' # "panicked" /\ (UnderTest' \/ Free')
    BY <1>3, ReadTestSteps, RdbiTestSteps, SyncTestSteps, StopTestSteps, TimeoutTestSteps, QueryTestSteps,
       RoutineTestSteps DEF UnderTest, TestsPass
  <2> QED BY <2>1 DEF Stage, TestsPass
<1> QED BY <1>1, <1>2, <1>3 DEF Stage

LEMMA InitStage == ExampleInit => Stage /\ TestsPass
<1> SUFFICES ASSUME ExampleInit PROVE Stage /\ TestsPass
  OBVIOUS
<1>1. root = "ready" /\ ~shutdownRequested /\ nextId = 1 /\ activeExecId = None
  BY DEF ExampleInit, Init, E!Init
<1>2. (\E t \in Tests : script = <<Does("run")>> \o t \o Ends) \/ script = <<Does("run")>>
  BY DEF ExampleInit
<1>3. script = <<Does("run")>> => Free
  BY DEF Free, Does
<1> QED BY <1>1, <1>2, <1>3 DEF Stage, AtStart, NoneYet, TestsPass

\* No assertion of a test of example.rs fails, in whatever order select! polls
\* its branches and the executor its tasks, and whatever the bounds are: every
\* reply and every result is the one the test compares it with.
THEOREM TestsAlwaysPass == ExampleSpec => []TestsPass
<1>1. ExampleInit => Stage /\ TestsPass
  BY InitStage
<1>2. Base /\ Stage /\ TestsPass /\ [ExampleNext]_exampleVars => (Stage /\ TestsPass)'
  BY StepKeepsStage
<1> QED BY <1>1, <1>2, BaseHolds, PTL DEF ExampleSpec
=============================================================================
