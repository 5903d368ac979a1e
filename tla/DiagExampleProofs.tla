--------------------------- MODULE DiagExampleProofs ---------------------------
(***************************************************************************)
(* Theorems about DiagExample, for every number of executions, every       *)
(* capacity and however much the client without a test asks for.           *)
(***************************************************************************)
EXTENDS DiagExample, DiagRuntimeProofs, FiniteSetTheorems, SequenceTheorems

-----------------------------------------------------------------------------
(* The inductive invariant. *)

\* What there is to do for a test or the client without one.
Elements(s) == {s[k] : k \in DOMAIN s}
Scripts == {<<Does("run")>> \o t \o Ends : t \in Tests} \cup {<<Does("run")>>, Ends}
Steps == (UNION {Elements(s) : s \in Scripts}) \cup AnyRequest

ExampleTypes ==
    /\ script \in Seq(Steps)
    /\ budget \in 0..MaxAsked
    /\ root \in {"ready", "waits", "sleeps", "yields", "joins", "done", "panicked"}
    /\ current \in {None, Test, Loop} \cup E!Ids
    /\ branches \in Seq({"user", "control", "timer"})
    /\ runQueue \in Seq({Loop} \cup E!Ids)
    /\ fresh \cup expired \cup stopped \cup misled \subseteq E!Ids
    /\ activeExecId \in E!Ids \cup {None}
    /\ opStatus \in [E!Ids -> Statuses]
    /\ lastKind \in [E!Ids -> A!Capabilities]
    /\ notified \in [E!Ids -> Nat]
    /\ report \in A!Reports \cup {A!Idle, A!Waiting, A!Dropped}

\* Nothing is known of an execution that was never started, and a channel with
\* something in it is open.
StartedInv ==
    /\ \A i \in E!Ids :
        /\ task[i] = "none" =>
            /\ opOf[i] = None /\ outcome[i] = None /\ opStatus[i] = "Running" /\ notified[i] = 0
            /\ i \notin expired \cup stopped \cup misled
        /\ task[i] # "none" => opOf[i] \in Ops
        /\ queue[i] # <<>> => rxOpen[i]
    /\ poisoned = FALSE

Queued(i, kind) == \E k \in DOMAIN queue[i] : queue[i][k].kind = kind

\* Where an outcome comes from.
CauseInv ==
    \A i \in E!Ids :
        /\ opOf[i] = SyncOp => ~rxOpen[i] /\ i \notin expired
        /\ OfRoutine(i) /\ notified[i] > 0 => i \in stopped
        /\ Queued(i, "Stop") => i \in stopped
        /\ Queued(i, "HandleOtherCapability") => i \in misled

\* A status request is in one channel, once, and the loop waits for the answer,
\* or waited for it when it was dropped.
LoopAsks(i) == pc[Loop] = "dead" \/ (pc[Loop] = "await" /\ cur[Loop] = i /\ slot[Loop] = None)
ReporterInv ==
    /\ \A i \in E!Ids :
        /\ \A j, k \in DOMAIN queue[i] :
              queue[i][j].kind = "ReportStatus" /\ queue[i][k].kind = "ReportStatus" => j = k
        /\ Queued(i, "ReportStatus") => LoopAsks(i) /\ (OfRoutine(i) => report = A!Waiting)
    /\ report = A!Waiting => \E i \in E!Ids : OfRoutine(i) /\ LoopAsks(i)

\* There is one execution of the routine, and it has the status of an adapter.
RoutineInv ==
    \A i \in E!Ids : OfRoutine(i) => activeExecId = i /\ opStatus[i] \in A!ExecStatuses

ExampleInv ==
    /\ ExampleTypes
    /\ StartedInv
    /\ OutcomeHasCause
    /\ CauseInv
    /\ ReporterInv
    /\ RoutineInv

-----------------------------------------------------------------------------
(* What the tests have to say. *)

USE DEF E!Ids

LEMMA Setting ==
    /\ MaxExecs \in Nat /\ 1 \in E!Ids
    /\ None # Loop /\ None \notin E!Ids /\ None \notin Ops
    /\ E!Ids \subseteq Nat
BY ExampleAssumption, RuntimeAssumption DEF E!EntityAssumption

Says(step) == step.do = "ask" => step.message \in Messages

\* Whatever a test asks for is a message the runtime knows.
LEMMA StepsOfTests ==
    /\ \A op \in Ops : Says(Executes(op)) /\ Says(ExecutesWithTimeout(op))
    /\ \A op, expected : Says(AsksResult(op, expected))
    /\ \A expected : Says(AsksStatus(expected))
    /\ \A query, expected : Says(Queries(query, expected))
    /\ Says(AsksCapability) /\ Says(Stops)
    /\ \A what : what # "ask" => Says(Does(what))
<1>1. ASSUME NEW m \in Messages, NEW expected PROVE Says(Asks(m, expected))
  BY DEF Says, Asks
<1>2. \A op \in Ops : [kind |-> "Execute", op |-> op] \in Messages
  BY DEF Messages
<1>3. \A kind \in {"ReportStatus", "HandleCustomCapability", "Stop", "GetResult"} :
        [kind |-> kind, exec |-> 1] \in Messages
  BY Setting, ExampleAssumption DEF Messages, E!Requests
<1>4. [kind |-> "Other"] \in Messages
  BY DEF Messages
<1>5. \A op \in Ops : Says(Executes(op))
  BY <1>1, <1>2 DEF Executes
<1>6. \A op \in Ops : Says(ExecutesWithTimeout(op))
  BY <1>2 DEF ExecutesWithTimeout, Executes, Asks, Says
<1>7. \A op, expected : Says(AsksResult(op, expected))
  BY <1>1, <1>3 DEF AsksResult
<1>8. \A expected : Says(AsksStatus(expected))
  BY <1>1, <1>3 DEF AsksStatus
<1>9. \A query, expected : Says(Queries(query, expected))
  BY <1>4 DEF Queries, Asks, Says
<1>10. Says(AsksCapability) /\ Says(Stops)
  BY <1>1, <1>3 DEF AsksCapability, Stops
<1>11. \A what : what # "ask" => Says(Does(what))
  BY DEF Says, Does
<1> QED BY <1>5, <1>6, <1>7, <1>8, <1>9, <1>10, <1>11

IsScript(s) == s \in Seq(Elements(s)) /\ \A k \in DOMAIN s : Says(s[k])

LEMMA TestsAreScripts == ASSUME NEW t \in Tests PROVE IsScript(t)
<1>1. ASSUME NEW a, NEW b, Says(a), Says(b)
      PROVE  IsScript(<<a, b>>)
  BY <1>1 DEF IsScript, Elements
<1>2. ASSUME NEW a, NEW b, NEW c, Says(a), Says(b), Says(c)
      PROVE  IsScript(<<a, b, c>>)
  BY <1>2 DEF IsScript, Elements
<1>3. ASSUME NEW a, NEW b, NEW c, NEW d, Says(a), Says(b), Says(c), Says(d)
      PROVE  IsScript(<<a, b, c, d>>)
  BY <1>3 DEF IsScript, Elements
<1>4. ASSUME NEW a, NEW b, NEW c, NEW d, NEW e, Says(a), Says(b), Says(c), Says(d), Says(e)
      PROVE  IsScript(<<a, b, c, d, e>>)
  BY <1>4 DEF IsScript, Elements
<1>5. ASSUME NEW a, NEW b, NEW c, NEW d, NEW e, NEW f, NEW g,
             Says(a), Says(b), Says(c), Says(d), Says(e), Says(f), Says(g)
      PROVE  IsScript(<<a, b, c, d, e, f, g>>)
  BY <1>5 DEF IsScript, Elements
<1>6. SyncOp \in Ops /\ AsyncOp \in Ops /\ RoutineOp \in Ops
  BY ExampleAssumption
<1>7. \A what \in {"write", "yield", "sleep"} : Says(Does(what))
  BY StepsOfTests
<1>8. IsScript(DataResourceRead)
  BY <1>1, StepsOfTests DEF DataResourceRead
<1>9. IsScript(DataResourceUdsRdbi)
  BY <1>1, <1>7, StepsOfTests DEF DataResourceUdsRdbi
<1>10. IsScript(ExecutionOfSynchronousOperation)
  BY <1>1, <1>6, StepsOfTests DEF ExecutionOfSynchronousOperation
<1>11. IsScript(ExecutionAndStopOfAsynchronousOperation)
  BY <1>3, <1>6, <1>7, StepsOfTests DEF ExecutionAndStopOfAsynchronousOperation
<1>12. IsScript(ExecutionTimeoutOfAsynchronousOperation)
  BY <1>2, <1>6, <1>7, StepsOfTests DEF ExecutionTimeoutOfAsynchronousOperation
<1>13. IsScript(ExecutionAndQueryOfAsynchronousOperation)
  BY <1>5, <1>6, <1>7, StepsOfTests DEF ExecutionAndQueryOfAsynchronousOperation
<1>14. IsScript(ExecutionAndQueryOfUdsRoutine)
  BY <1>4, <1>6, <1>7, StepsOfTests DEF ExecutionAndQueryOfUdsRoutine
<1> QED BY <1>8, <1>9, <1>10, <1>11, <1>12, <1>13, <1>14 DEF Tests

\* A sequence is one of its own elements.
LEMMA OwnElements ==
    ASSUME NEW S, NEW s \in Seq(S)
    PROVE  s \in Seq(Elements(s))
<1>1. Len(s) \in Nat /\ DOMAIN s = 1..Len(s) /\ s \in [1..Len(s) -> Elements(s)]
  BY DEF Elements
<1> QED BY <1>1, SeqDef

LEMMA JoinedScripts ==
    ASSUME NEW s, NEW t, IsScript(s), IsScript(t)
    PROVE  IsScript(s \o t)
<1> DEFINE S == Elements(s) \cup Elements(t)
<1>1. s \in Seq(S) /\ t \in Seq(S)
  BY DEF IsScript
<1> HIDE DEF S
<1>2. /\ s \o t \in Seq(S)
      /\ \A k \in DOMAIN (s \o t) :
            (\E j \in DOMAIN s : (s \o t)[k] = s[j]) \/ (\E j \in DOMAIN t : (s \o t)[k] = t[j])
  BY <1>1, ConcatIn
<1>3. s \o t \in Seq(Elements(s \o t))
  BY <1>2, OwnElements
<1>4. \A k \in DOMAIN (s \o t) : Says((s \o t)[k])
  BY <1>2 DEF IsScript, Elements
<1> QED BY <1>3, <1>4 DEF IsScript

LEMMA ScriptsAreScripts == ASSUME NEW s \in Scripts PROVE IsScript(s) /\ s \in Seq(Steps)
<1>1. \A what \in {"run", "shutdown", "join"} : Says(Does(what))
  BY StepsOfTests
<1>2. IsScript(<<Does("run")>>) /\ IsScript(Ends)
  BY <1>1 DEF IsScript, Elements, Ends
<1>3. IsScript(s)
  BY <1>2, TestsAreScripts, JoinedScripts DEF Scripts
<1>4. Elements(s) \subseteq Steps
  BY DEF Steps
<1> QED BY <1>3, <1>4 DEF IsScript

LEMMA AnyRequestSays ==
    ASSUME NEW r \in AnyRequest
    PROVE  Says(r) /\ <<r>> \in Seq(Steps)
<1>1. r \in Steps
  BY Zenon DEF Steps
<1>2. ASSUME NEW m \in Messages, NEW withTimeout PROVE Says([Asks(m, {}) EXCEPT !.timeout = withTimeout])
  BY DEF Says, Asks
<1>3. ASSUME NEW m \in Messages PROVE Says(Asks(m, {}))
  BY DEF Says, Asks
<1>4. (\E m \in Messages : r = Asks(m, {}))
        \/ \E withTimeout \in BOOLEAN, m \in Messages : r = [Asks(m, {}) EXCEPT !.timeout = withTimeout]
  BY DEF AnyRequest
<1> QED BY <1>1, <1>2, <1>3, <1>4

LEMMA StepsSay == ASSUME NEW step \in Steps PROVE Says(step)
<1>1. CASE step \in AnyRequest
  BY <1>1, AnyRequestSays
<1>2. ASSUME NEW s \in Scripts, step \in Elements(s)
      PROVE  Says(step)
  BY <1>2, ScriptsAreScripts DEF IsScript, Elements
<1>3. step \in AnyRequest \/ \E s \in Scripts : step \in Elements(s)
  BY Zenon DEF Steps
<1> QED BY <1>1, <1>2, <1>3

-----------------------------------------------------------------------------
(* The example implements DiagRuntime. *)

\* The test does not touch the executions, nor what the operations keep.
LEMMA TestLeavesExecutions ==
    ASSUME TestStep
    PROVE  UNCHANGED <<entityVars, operationVars, branches, fresh, expired, detail, stopped, misled>>
<1>1. TestRuns => UNCHANGED entityVars
  BY DEF TestRuns, Run
<1>2. TestSends => UNCHANGED entityVars
  BY DEF TestSends, Send, Deliver
<1>3. TestTakesReply => UNCHANGED entityVars
  BY DEF TestTakesReply, TakeAnswer
<1>4. TestAwaitsReply \/ TestWrites \/ TestPauses \/ ClientChooses \/ TestEnds => UNCHANGED entityVars
  BY DEF TestAwaitsReply, TestWrites, TestPauses, ClientChooses, TestEnds, AwaitsAs, vars
<1>5. TestShutsDown => UNCHANGED entityVars
  BY DEF TestShutsDown, Shutdown
<1>6. TestJoins => UNCHANGED entityVars
  BY DEF TestJoins, AwaitsAs, vars
<1> QED BY <1>1, <1>2, <1>3, <1>4, <1>5, <1>6 DEF TestStep

\* What the test does to its script, and where it goes.
LEMMA TestTypes ==
    ASSUME ExampleTypes, TestStep
    PROVE  /\ script' \in Seq(Steps)
           /\ budget' \in 0..MaxAsked
           /\ root' \in {"ready", "waits", "sleeps", "yields", "joins", "done", "panicked"}
           /\ current' \in {None, Test}
<1> DEFINE Roots == {"ready", "waits", "sleeps", "yields", "joins", "done", "panicked"}
<1> DEFINE Stays == UNCHANGED <<script, budget, root, current>>
<1> DEFINE Moves == /\ script' \in {script, Tail(script)} /\ script # <<>> /\ budget' = budget
                    /\ root' \in Roots \cup {root} /\ current' \in {None, current}
<1>1. current = Test
  BY DEF TestStep, TestRuns, TestSends, TestAwaitsReply, TestTakesReply, TestWrites, TestPauses,
         TestShutsDown, TestJoins, ClientChooses, TestEnds, Begins
<1>2. TestRuns \/ TestShutsDown => Moves
  BY DEF TestRuns, TestShutsDown, Begins, GoesOn
<1>3. TestSends => Stays
  BY DEF TestSends, testVars
<1>4. TestTakesReply => Moves
  BY DEF TestTakesReply, Begins, GoesOn, Panic, Suspends
<1>5. TestWrites => Moves
  BY DEF TestWrites, Begins, GoesOn, Panic, Suspends
<1>6. TestAwaitsReply \/ TestPauses \/ TestJoins => Moves
  BY DEF TestAwaitsReply, TestPauses, TestJoins, Begins, GoesOn, AwaitsAs, Suspends
<1>7. CASE Moves
  <2>1. script \in Seq(Steps) /\ script # <<>> => Tail(script) \in Seq(Steps)
    BY HeadTailProperties
  <2>2. script' \in Seq(Steps)
    BY <1>7, <2>1 DEF ExampleTypes
  <2> QED BY <1>1, <1>7, <2>2 DEF ExampleTypes
<1>8. CASE Stays
  BY <1>1, <1>8 DEF ExampleTypes
<1>9. CASE ClientChooses
  <2>1. script' \in Seq(Steps)
    <3>1. Ends \in Seq(Steps)
      BY ScriptsAreScripts DEF Scripts
    <3> QED BY <1>9, <3>1, AnyRequestSays DEF ClientChooses
  <2>2. budget' \in 0..MaxAsked
    BY <1>9, ExampleAssumption DEF ClientChooses, ExampleTypes
  <2> QED BY <1>1, <1>9, <2>1, <2>2 DEF ClientChooses, ExampleTypes
<1>10. CASE TestEnds
  BY <1>10 DEF TestEnds, Suspends, ExampleTypes
<1> QED BY <1>2, <1>3, <1>4, <1>5, <1>6, <1>7, <1>8, <1>9, <1>10 DEF TestStep

LEMMA TestIsRuntime ==
    ASSUME ExampleTypes, TestStep
    PROVE  [Next]_vars
<1>0. Test \in Clients
  BY ExampleAssumption
<1>1. TestRuns \/ TestShutsDown => Next
  BY DEF TestRuns, TestShutsDown, Next
<1>2. TestSends => Next
  <2> SUFFICES ASSUME TestSends PROVE ClientStep(Test)
    BY <1>0 DEF Next
  <2>1. CASE Deliver(Test)
    BY <2>1 DEF ClientStep
  <2>2. CASE Send(Test, Head(script).message)
    <3>1. Head(script) \in Steps /\ Head(script).do = "ask"
      BY DEF TestSends, Begins, ExampleTypes
    <3>2. Head(script).message \in Messages
      BY <3>1, StepsSay DEF Says
    <3>3. \A m \in Messages : m.kind \in Asked
      BY ExampleAssumption DEF Messages
    <3> QED BY <2>2, <3>2, <3>3 DEF ClientStep
  <2> QED BY <2>1, <2>2 DEF TestSends
<1>3. TestTakesReply => Next
  BY <1>0 DEF TestTakesReply, ClientStep, Next
<1>4. TestAwaitsReply \/ TestWrites \/ TestPauses \/ ClientChooses \/ TestEnds => UNCHANGED vars
  BY DEF TestAwaitsReply, TestWrites, TestPauses, ClientChooses, TestEnds, AwaitsAs
<1>5. TestJoins => UNCHANGED vars
  BY DEF TestJoins, AwaitsAs
<1> QED BY <1>1, <1>2, <1>3, <1>4, <1>5 DEF TestStep

LEMMA LoopIsRuntime ==
    ASSUME E!IInv, LoopStep
    PROVE  Next
<1>0. Test \in Clients
  BY ExampleAssumption
<1>1. LoopExecutes \/ LoopLooksUp \/ LoopQueries => Next
  BY <1>0 DEF LoopExecutes, LoopLooksUp, LoopQueries, ClientStep, Next
<1>2. SyncOperationRuns => Next
  <2> SUFFICES ASSUME SyncOperationRuns PROVE Execution(cur[Loop]) /\ cur[Loop] \in E!Ids
    BY DEF Next
  <2>1. cur[Loop] \in E!Ids
    BY DEF SyncOperationRuns, E!IInv, E!CallersAreBusy
  <2> QED BY <2>1 DEF SyncOperationRuns, Execution, E!FutureStep, E!OpResults
<1>3. LoopGoesOn \/ LoopEnds => Next
  BY DEF LoopGoesOn, Next
<1> QED BY <1>1, <1>2, <1>3 DEF LoopStep

\* A step of the future of an execution is one of Entity's.
LEMMA ExecutionIsRuntime ==
    ASSUME ExampleTypes, NEW i \in E!Ids, ExecutionStep(i)
    PROVE  Execution(i)
<1>1. ASSUME NEW o \in E!Outcomes, Resolves(i, o)
      PROVE  Execution(i)
  BY <1>1 DEF Resolves, Execution, E!FutureStep, E!Outcomes
<1>2. ASSUME Takes(i)
      PROVE  Execution(i)
  <2>1. opStatus[i] \in E!Answers
    BY DEF ExampleTypes, E!Answers
  <2> QED BY <1>2, <2>1 DEF Takes, Execution, E!FutureStep
<1>3. Control(i) => Takes(i) \/ Resolves(i, "err") \/ Resolves(i, "unavailable")
  BY DEF Control, AsyncControl, RoutineControl, AsyncReports, AsyncCapability, AsyncPanics, AsyncStop,
         RoutineReports, RoutineStop, RoutineUnsupported
<1>4. UserCode(i) => Resolves(i, "ok")
  BY DEF UserCode
<1>5. Head(branches) \in {"user", "control", "timer"}
  BY DEF ExecutionStep, ExampleTypes
<1>6. Control(i) \/ UserCode(i) \/ Resolves(i, "timeout")
  BY <1>5 DEF ExecutionStep
<1> QED BY <1>1, <1>2, <1>3, <1>4, <1>6 DEF E!Outcomes, E!OpResults

LEMMA StepIsRuntime ==
    ASSUME ExampleTypes, E!IInv, [ExampleNext]_exampleVars
    PROVE  [Next]_vars
<1>1. PollNext \/ Park \/ LoopSuspends => UNCHANGED vars
  BY DEF PollNext, Park, LoopSuspends
<1>2. \A i \in E!Ids : NextBranch(i) \/ ExecutionSuspends(i) => UNCHANGED vars
  BY DEF NextBranch, ExecutionSuspends
<1>3. \A i \in E!Ids : ExecutionStep(i) => Next
  BY ExecutionIsRuntime DEF Next
<1>4. UNCHANGED exampleVars => UNCHANGED vars
  BY DEF exampleVars
<1> QED BY <1>1, <1>2, <1>3, <1>4, TestIsRuntime, LoopIsRuntime DEF ExampleNext

\* The invariant of the entity is kept by every step of the runtime.
LEMMA EntityStep ==
    ASSUME E!IInv, MessageType, [Next]_vars
    PROVE  E!IInv'
<1>1. EP!IInv /\ [EP!Next]_(EP!vars)
  BY SameInvariant, SameStep, StepCallsEntity
<1>2. EP!EntityAssumption
  BY RuntimeAssumption DEF E!EntityAssumption, EP!EntityAssumption
<1>3. EP!IInv'
  BY <1>1, <1>2, EP!CallerStepIInv, EP!FutureStepIInv, EP!StutterIInv DEF EP!Next
<1> QED BY <1>3, SameInvariant, PTL

-----------------------------------------------------------------------------
(* The executor. *)

Tasks == {Loop} \cup E!Ids

\* What is woken is queued, and nothing else.
LEMMA WakesType ==
    ASSUME runQueue \in Seq(Tasks), Wakes
    PROVE  runQueue' \in Seq(Tasks)
<1> DEFINE woken == {t \in {Loop} \cup E!Ids : CanGoOn(t)' /\ t # current' /\ t \notin ToSet(runQueue)}
<1>1. IsFiniteSet(Tasks)
  <2>1. IsFiniteSet(E!Ids)
    BY Setting, FS_Interval
  <2>2. Tasks = E!Ids \cup {Loop}
    BY DEF Tasks
  <2> QED BY <2>1, <2>2, FS_AddElement
<1>2. woken \subseteq Tasks
  BY DEF Tasks
<1>3. \E order \in SetToSeqs(woken) : runQueue' = runQueue \o order
  BY DEF Wakes
<1> HIDE DEF woken
<1>4. Cardinality(woken) \in Nat
  BY <1>1, <1>2, FS_Subset, FS_CardinalityType
<1>5. ASSUME NEW order \in SetToSeqs(woken)
      PROVE  order \in Seq(Tasks)
  <2>1. order \in [1..Cardinality(woken) -> woken]
    BY DEF SetToSeqs
  <2>2. order \in [1..Cardinality(woken) -> Tasks]
    BY <1>2, <2>1
  <2> QED BY <1>4, <2>2, SeqDef
<1> QED BY <1>3, <1>5, ConcatProperties

Branches == {"user", "control", "timer"}

LEMMA BranchOrdersType == ASSUME NEW i PROVE BranchOrders(i) \subseteq Seq(Branches)
<1> DEFINE own == {<<"user", "control">>, <<"control", "user">>}
<1>1. own \subseteq Seq(Branches) /\ <<"timer">> \in Seq(Branches)
  BY DEF Branches
<1>2. \A o \in own : <<"timer">> \o o \in Seq(Branches) /\ o \o <<"timer">> \in Seq(Branches)
  BY <1>1, ConcatProperties
<1> QED BY <1>1, <1>2 DEF BranchOrders

LEMMA ExecutorTypes ==
    ASSUME ExampleTypes, E!IInv, [ExampleNext]_exampleVars
    PROVE  /\ script' \in Seq(Steps)
           /\ budget' \in 0..MaxAsked
           /\ root' \in {"ready", "waits", "sleeps", "yields", "joins", "done", "panicked"}
           /\ current' \in {None, Test} \cup Tasks
           /\ branches' \in Seq(Branches)
           /\ runQueue' \in Seq(Tasks)
           /\ fresh' \cup expired' \subseteq E!Ids
<1> USE DEF ExampleTypes
<1>0. runQueue \in Seq(Tasks) /\ branches \in Seq(Branches) /\ fresh \cup expired \subseteq E!Ids
  BY DEF Tasks, Branches
<1>1. CASE PollNext
  <2>1. runQueue' \in Seq(Tasks) /\ current' \in Tasks
    BY <1>0, <1>1, HeadTailProperties DEF PollNext
  <2>2. branches' \in Seq(Branches)
    BY <1>0, <1>1, BranchOrdersType DEF PollNext
  <2> QED BY <1>0, <1>1, <2>1, <2>2 DEF PollNext, testVars
<1>2. CASE Park
  BY <1>0, <1>2, WakesType DEF Park, Armed, Tasks
<1>3. CASE TestStep
  BY <1>0, <1>3, TestTypes, TestLeavesExecutions, WakesType DEF TestStep, Tasks
<1>4. CASE LoopStep
  <2>1. fresh' \subseteq E!Ids
    <3>1. CASE LoopExecutes
      <4>1. nextId \in Nat /\ nextId >= 1
        BY Setting DEF E!IInv, E!TypeOK
      <4> QED BY <1>0, <3>1, <4>1, Setting DEF LoopExecutes
    <3>2. CASE ~LoopExecutes
      BY <1>0, <1>4, <3>2 DEF LoopStep, SyncOperationRuns, LoopLooksUp, LoopQueries, LoopGoesOn
    <3> QED BY <3>1, <3>2
  <2> QED BY <1>0, <1>4, <2>1, WakesType DEF LoopStep, testVars, Tasks
<1>5. CASE LoopSuspends
  BY <1>0, <1>5, WakesType DEF LoopSuspends, Suspends, testVars
<1>6. ASSUME NEW i \in E!Ids, ExecutionStep(i)
      PROVE  branches' \in Seq(Branches)
  <2>1. <<>> \in Seq(Branches)
    OBVIOUS
  <2>2. ASSUME NEW o, Resolves(i, o) PROVE branches' = <<>>
    BY <2>2 DEF Resolves
  <2>3. Takes(i) => branches' = branches
    BY DEF Takes
  <2>4. Control(i) => branches' \in {<<>>, branches}
    BY <2>2, <2>3 DEF Control, AsyncControl, RoutineControl, AsyncReports, AsyncCapability, AsyncPanics,
         AsyncStop, RoutineReports, RoutineStop, RoutineUnsupported
  <2>5. UserCode(i) => branches' = <<>>
    BY <2>2 DEF UserCode
  <2>6. Head(branches) \in {"user", "control", "timer"}
    BY <1>6 DEF ExecutionStep
  <2> QED BY <1>0, <1>6, <2>1, <2>2, <2>4, <2>5, <2>6 DEF ExecutionStep
<1>7. ASSUME NEW i \in E!Ids, ExecutionStep(i) \/ NextBranch(i) \/ ExecutionSuspends(i)
      PROVE  branches' \in Seq(Branches) /\ runQueue' \in Seq(Tasks)
  <2>1. branches # <<>> => Tail(branches) \in Seq(Branches)
    BY <1>0, HeadTailProperties
  <2>2. branches' \in Seq(Branches)
    BY <1>0, <1>6, <1>7, <2>1 DEF NextBranch, ExecutionSuspends
  <2> QED BY <1>0, <1>7, <2>2, WakesType DEF ExecutionStep, NextBranch, ExecutionSuspends
<1>8. ASSUME NEW i \in E!Ids, ExecutionStep(i) \/ NextBranch(i) \/ ExecutionSuspends(i)
      PROVE  current' \in {None, current} /\ UNCHANGED <<testVars, fresh, expired>>
  BY <1>8 DEF ExecutionStep, NextBranch, ExecutionSuspends, Suspends
<1>9. CASE \E i \in E!Ids : ExecutionStep(i) \/ NextBranch(i) \/ ExecutionSuspends(i)
  BY <1>0, <1>7, <1>8, <1>9 DEF testVars, Tasks
<1>10. CASE UNCHANGED exampleVars
  BY <1>0, <1>10 DEF exampleVars, executorVars, testVars, Tasks
<1> QED BY <1>1, <1>2, <1>3, <1>4, <1>5, <1>9, <1>10 DEF ExampleNext

-----------------------------------------------------------------------------
(* What the steps of the example do to the executions. *)

\* Nothing, but timers may fire.
Rests ==
    /\ UNCHANGED <<nextId, opOf, timed, task, outcome, rxOpen, queue, slot, poisoned, pc, cur>>
    /\ UNCHANGED <<operationVars, stopped, misled>>
    /\ expired' \subseteq expired \cup Armed

\* The loop goes on; it gets the answer it waits for, or is dropped.
LoopMoves ==
    /\ UNCHANGED <<nextId, opOf, timed, task, outcome, rxOpen, queue, poisoned>>
    /\ UNCHANGED <<operationVars, stopped, misled, expired>>
    /\ \/ pc[Loop] \notin {"await", "dead"}
       \/ pc[Loop] = "await" /\ slot[Loop] # None
       \/ pc'[Loop] = "dead"
    /\ pc'[Loop] # "await"

\* An operation is executed.
Starts(op) ==
    /\ nextId \in E!Ids /\ task[nextId] = "none" /\ op \in Ops
    /\ nextId' = nextId + 1
    /\ opOf' = [opOf EXCEPT ![nextId] = op]
    /\ task' = [task EXCEPT ![nextId] = "running"]
    /\ rxOpen' = [rxOpen EXCEPT ![nextId] = (op # SyncOp)]
    /\ \A i \in E!Ids : i # nextId => timed'[i] = timed[i]
    /\ UNCHANGED <<outcome, queue, slot, poisoned, lastKind, notified, report, stopped, misled, expired>>
    /\ \/ op = RoutineOp /\ activeExecId = None /\ activeExecId' = nextId /\ UNCHANGED opStatus
       \/ op = AsyncOp /\ opStatus' = [opStatus EXCEPT ![nextId] = "Scheduled"] /\ UNCHANGED activeExecId
       \/ op = SyncOp /\ UNCHANGED <<activeExecId, opStatus>>
    /\ pc[Loop] = "idle" /\ pc'[Loop] \in {"idle", "blocking"}

\* The routine refuses to be executed again.
Refused ==
    /\ nextId \in E!Ids /\ activeExecId # None
    /\ nextId' = nextId + 1
    /\ UNCHANGED <<opOf, timed, task, outcome, rxOpen, queue, slot, poisoned, pc, cur>>
    /\ UNCHANGED <<operationVars, stopped, misled, expired>>

\* An event is sent.
Asking ==
    /\ pc[Loop] = "send" /\ cur[Loop] \in E!Ids /\ rxOpen[cur[Loop]]
    /\ E!SendEvent(Loop)
    /\ UNCHANGED <<activeExecId, opStatus, lastKind, notified, expired>>
    /\ stopped' = IF want[Loop] = "Stop" THEN stopped \cup {cur[Loop]} ELSE stopped
    /\ misled' = IF want[Loop] = "HandleOtherCapability" THEN misled \cup {cur[Loop]} ELSE misled
    /\ report' = IF want[Loop] = "ReportStatus" /\ OfRoutine(cur[Loop]) THEN A!Waiting ELSE report

\* A future resolves, for one of four reasons.
EndsAs(i, o) ==
    /\ task[i] = "running" /\ E!Ends(i, o)
    /\ UNCHANGED <<nextId, entry, opOf, timed, poisoned, pc, cur, want>>
    /\ UNCHANGED <<activeExecId, opStatus, lastKind, notified, stopped, misled, expired>>
    /\ report' = IF OfRoutine(i) /\ report = A!Waiting /\ Loop \in E!Reporters(i) THEN A!Dropped ELSE report
    /\ \/ o = "ok" /\ (opOf[i] # SyncOp => notified[i] > 0)
       \/ o = "err" /\ ~OfRoutine(i) /\ Queued(i, "Stop")
       \/ o = "timeout" /\ i \in expired /\ timed[i]
       \/ o = "unavailable" /\ ~OfRoutine(i) /\ Queued(i, "HandleOtherCapability")

\* An event is taken.
TakesOne(i) ==
    /\ E!OpTakeEvent(i, opStatus[i])
    /\ UNCHANGED <<activeExecId, stopped, misled, expired>>
    /\ \/ OfRoutine(i) /\ RoutineControl(i)
       \/ ~OfRoutine(i) /\ (AsyncReports(i) \/ AsyncCapability(i))

Effect ==
    \/ Rests \/ LoopMoves \/ Refused \/ Asking
    \/ \E op \in Ops : Starts(op)
    \/ \E i \in E!Ids : TakesOne(i) \/ \E o \in E!Outcomes : EndsAs(i, o)

LEMMA ExecutesEffect ==
    ASSUME ExampleInv, E!IInv, MessageType, LoopExecutes, UNCHANGED expired
    PROVE  Refused \/ \E op \in Ops : Starts(op)
<1> DEFINE op == message[Test].op
<1>1. message[Test].kind = "Execute" /\ Handle(message[Test]) /\ pc'[Loop] # "dead" /\ nextId <= MaxExecs
  BY DEF LoopExecutes, LoopReceives, Goes
<1>2. op \in Ops /\ ~poisoned
  <2>1. message[Test] \in Messages \cup {NoMessage}
    BY ExampleAssumption DEF MessageType
  <2> QED BY <1>1, <2>1, OtherKinds DEF Messages, NoMessage, ExampleInv, StartedInv
<1>3. nextId \in E!Ids /\ task[nextId] = "none"
  BY <1>1, Setting DEF E!IInv, E!TypeOK, E!IdsAreFresh
<1>4. E!ExecuteFails(Loop, op) \/ \E t, k \in BOOLEAN : E!ExecuteStarts(Loop, op, t, k)
  <2>1. ~E!MutexPoisoned(Loop)
    BY <1>2 DEF E!MutexPoisoned
  <2>2. ~E!ExecuteRefused(Loop, op)
    BY ExampleAssumption DEF E!ExecuteRefused
  <2>3. ~E!ExecutePanics(Loop, op)
    <3>1. pc \in [Threads \cup {Loop} -> {"idle", "blocking", "send", "await", "dead"}]
      BY DEF E!IInv, E!TypeOK
    <3> QED BY <1>1, <3>1 DEF E!ExecutePanics
  <2> QED BY <1>1, <2>1, <2>2, <2>3, OtherKinds DEF Handle
<1>5. task \in [E!Ids -> {"none", "running", "finished"}] /\ rxOpen \in [E!Ids -> BOOLEAN]
        /\ pc \in [Threads \cup {Loop} -> {"idle", "blocking", "send", "await", "dead"}]
  BY DEF E!IInv, E!TypeOK
<1>6. /\ \/ op = RoutineOp /\ activeExecId' = (IF activeExecId = None THEN nextId ELSE activeExecId)
            /\ UNCHANGED opStatus
         \/ op = AsyncOp /\ opStatus' = [opStatus EXCEPT ![nextId] = "Scheduled"] /\ UNCHANGED activeExecId
         \/ op = SyncOp /\ UNCHANGED <<activeExecId, opStatus>>
      /\ IF op # RoutineOp \/ activeExecId' # activeExecId
         THEN task'[nextId] = "running" /\ rxOpen'[nextId] = (op # SyncOp)
         ELSE task' = task
      /\ UNCHANGED <<lastKind, notified, report, stopped, misled>>
  BY <1>2, ExampleAssumption DEF LoopExecutes, RoutineExecute, AsyncExecute
<1>7. CASE E!ExecuteFails(Loop, op)
  <2>1. task' = task /\ nextId' = nextId + 1
    BY <1>1, <1>7 DEF E!ExecuteFails, E!MayExecute, E!futureVars
  <2>2. op = RoutineOp /\ activeExecId' = activeExecId
    BY <1>3, <1>6, <2>1
  <2>3. activeExecId # None
    BY <1>3, <1>6, <2>2, Setting, ExampleAssumption
  <2>4. UNCHANGED opStatus
    BY <1>6, <2>2, ExampleAssumption
  <2>5. UNCHANGED <<opOf, timed, task, outcome, rxOpen, queue, slot, poisoned, pc, cur>>
    BY <1>7 DEF E!ExecuteFails, E!futureVars
  <2> QED BY <1>3, <1>6, <2>1, <2>2, <2>3, <2>4, <2>5 DEF Refused, operationVars
<1>8. ASSUME NEW t \in BOOLEAN, NEW k \in BOOLEAN, E!ExecuteStarts(Loop, op, t, k)
      PROVE  Starts(op)
  <2>1. /\ nextId' = nextId + 1
        /\ opOf' = [opOf EXCEPT ![nextId] = op]
        /\ task' = [task EXCEPT ![nextId] = "running"]
        /\ rxOpen' = [rxOpen EXCEPT ![nextId] = k]
        /\ timed' = [timed EXCEPT ![nextId] = t]
        /\ UNCHANGED <<outcome, queue, slot, poisoned>>
    BY <1>1, <1>8 DEF E!ExecuteStarts, E!MayExecute
  <2>6. \A i \in E!Ids : i # nextId => timed'[i] = timed[i]
    BY <2>1 DEF E!IInv, E!TypeOK
  <2>2. pc[Loop] = "idle" /\ pc'[Loop] \in {"idle", "blocking"}
    BY <1>5, <1>8 DEF E!ExecuteStarts, E!MayExecute, E!Locks
  <2>3. op # RoutineOp \/ activeExecId' # activeExecId
    BY <1>3, <1>5, <1>6, <2>1
  <2>4. rxOpen' = [rxOpen EXCEPT ![nextId] = (op # SyncOp)]
    BY <1>3, <1>5, <1>6, <2>1, <2>3
  <2>5. \/ op = RoutineOp /\ activeExecId = None /\ activeExecId' = nextId /\ UNCHANGED opStatus
        \/ op = AsyncOp /\ opStatus' = [opStatus EXCEPT ![nextId] = "Scheduled"] /\ UNCHANGED activeExecId
        \/ op = SyncOp /\ UNCHANGED <<activeExecId, opStatus>>
    BY <1>6, <2>3
  <2> QED BY <1>2, <1>3, <1>6, <2>1, <2>2, <2>4, <2>5, <2>6 DEF Starts
<1> QED BY <1>2, <1>4, <1>7, <1>8

LEMMA LooksUpEffect ==
    ASSUME E!IInv, LoopLooksUp, UNCHANGED expired
    PROVE  LoopMoves
<1> DEFINE m == message[Test]
<1> DEFINE Looks == /\ UNCHANGED <<nextId, opOf, timed, task, outcome, rxOpen, queue, poisoned>>
                    /\ pc[Loop] = "idle"
<1>2. Handle(m) /\ m.kind # "Execute"
  BY DEF LoopLooksUp, LoopReceives
<1>3. ASSUME NEW e
      PROVE  E!ExecutionNotFound(Loop, e) \/ E!RemoveRefused(Loop, e) \/ E!ControlRefused(Loop, e)
               => Looks /\ UNCHANGED pc
  BY DEF E!ExecutionNotFound, E!RemoveRefused, E!ControlRefused, E!Locks, E!tableVars, E!futureVars
<1>4. ASSUME NEW e PROVE E!GetResult(Loop, e) \/ E!Remove(Loop, e) => Looks /\ UNCHANGED pc
  BY DEF E!GetResult, E!Remove, E!Locks, E!futureVars
<1>5. ASSUME NEW e, NEW k PROVE E!GetControl(Loop, e, k) => Looks /\ pc' = [pc EXCEPT ![Loop] = "send"]
  BY DEF E!GetControl, E!Locks, E!tableVars, E!futureVars
<1>6. E!MutexPoisoned(Loop) => Looks /\ UNCHANGED pc
  BY DEF E!MutexPoisoned, E!tableVars, E!futureVars
<1>7. E!ListOperations(Loop) => Looks /\ (UNCHANGED pc \/ pc' = [pc EXCEPT ![Loop] = "dead"])
  BY DEF E!ListOperations, E!tableVars, E!futureVars
<1> DEFINE Goes_ == UNCHANGED pc \/ pc' = [pc EXCEPT ![Loop] = "send"] \/ pc' = [pc EXCEPT ![Loop] = "dead"]
<1>8. Looks /\ Goes_
  <2> HIDE DEF Looks
  <2> QED BY <1>2, <1>3, <1>4, <1>5, <1>6, <1>7 DEF Handle
<1>9. pc'[Loop] # "await"
  <2>1. pc \in [Threads \cup {Loop} -> {"idle", "blocking", "send", "await", "dead"}]
    BY DEF E!IInv, E!TypeOK
  <2> QED BY <1>8, <2>1
<1>10. UNCHANGED <<operationVars, stopped, misled>>
  BY DEF LoopLooksUp
<1> QED BY <1>8, <1>9, <1>10 DEF LoopMoves

LEMMA GoesOnEffect ==
    ASSUME ExampleInv, E!IInv, LoopGoesOn, UNCHANGED expired
    PROVE  LoopMoves \/ Asking
<1>0. /\ pc \in [Threads \cup {Loop} -> {"idle", "blocking", "send", "await", "dead"}]
      /\ queue \in [E!Ids -> Seq(E!Events)]
      /\ pc[Loop] = "send" => cur[Loop] \in E!Ids
  BY DEF E!IInv, E!TypeOK, E!CallersAreBusy
<1>1. UNCHANGED <<activeExecId, opStatus, lastKind, notified, expired>>
  BY DEF LoopGoesOn
<1>2. CASE E!StoreSyncResult(Loop)
  <2>1. /\ UNCHANGED <<nextId, opOf, timed, task, outcome, rxOpen, queue, poisoned>>
        /\ pc[Loop] = "blocking" /\ pc'[Loop] = "idle"
    BY <1>0, <1>2 DEF E!StoreSyncResult, E!futureVars
  <2>2. UNCHANGED <<report, stopped, misled>>
    BY <2>1 DEF LoopGoesOn
  <2> QED BY <1>1, <2>1, <2>2 DEF LoopMoves, operationVars
<1>3. CASE E!SendFails(Loop)
  <2>1. /\ UNCHANGED <<nextId, opOf, timed, task, outcome, rxOpen, queue, poisoned>>
        /\ pc[Loop] = "send" /\ pc'[Loop] = "idle"
    BY <1>0, <1>3 DEF E!SendFails, E!Returns, E!tableVars, E!futureVars
  <2>2. UNCHANGED <<report, stopped, misled>>
    BY <2>1 DEF LoopGoesOn
  <2> QED BY <1>1, <2>1, <2>2 DEF LoopMoves, operationVars
<1>4. CASE E!ReceiveStatus(Loop)
  <2>1. /\ UNCHANGED <<nextId, opOf, timed, task, outcome, rxOpen, queue, poisoned>>
        /\ pc[Loop] = "await" /\ slot[Loop] # None /\ pc'[Loop] = "idle"
    BY <1>0, <1>4 DEF E!ReceiveStatus, E!Returns, E!tableVars
  <2>2. UNCHANGED <<report, stopped, misled>>
    BY <2>1 DEF LoopGoesOn
  <2> QED BY <1>1, <2>1, <2>2 DEF LoopMoves, operationVars
<1>5. CASE E!SendEvent(Loop)
  <2> DEFINE i == cur[Loop]
  <2> DEFINE e == [kind |-> want[Loop], from |-> Loop]
  <2>1. pc[Loop] = "send" /\ rxOpen[i] /\ i \in E!Ids
    BY <1>0, <1>5 DEF E!SendEvent
  <2>2. queue' # queue
    <3>1. queue'[i] = Append(queue[i], e) /\ queue[i] \in Seq(E!Events)
      BY <1>0, <1>5, <2>1 DEF E!SendEvent
    <3> HIDE DEF i, e
    <3>2. Len(Append(queue[i], e)) = Len(queue[i]) + 1 /\ Len(queue[i]) \in Nat
      BY <3>1
    <3> QED BY <3>1, <3>2
  <2> QED BY <1>1, <1>5, <2>1, <2>2 DEF Asking, LoopGoesOn
<1> QED BY <1>2, <1>3, <1>4, <1>5 DEF LoopGoesOn, LoopContinues

LEMMA LoopEffect ==
    ASSUME ExampleInv, E!IInv, MessageType, LoopStep
    PROVE  Effect
<1>0. UNCHANGED expired /\ expired' \subseteq expired \cup Armed
  BY DEF LoopStep
<1>1. CASE LoopExecutes
  BY <1>0, <1>1, ExecutesEffect DEF Effect
<1>2. CASE LoopLooksUp
  BY <1>0, <1>2, LooksUpEffect DEF Effect
<1>3. CASE LoopQueries
  BY <1>0, <1>3 DEF LoopQueries, LoopAnswersOther, Effect, Rests, entityVars
<1>4. CASE LoopGoesOn
  BY <1>0, <1>4, GoesOnEffect DEF Effect
<1>5. CASE LoopEnds /\ UNCHANGED <<operationVars, stopped, misled>>
  <2>1. CASE UNCHANGED entityVars
    BY <1>0, <1>5, <2>1 DEF Effect, Rests, entityVars
  <2>2. CASE E!CallerIsDropped(Loop)
    <3>1. pc \in [Threads \cup {Loop} -> {"idle", "blocking", "send", "await", "dead"}]
      BY DEF E!IInv, E!TypeOK
    <3>2. LoopMoves
      BY <1>0, <1>5, <2>2, <3>1 DEF E!CallerIsDropped, E!tableVars, E!futureVars, LoopMoves
    <3> QED BY <3>2 DEF Effect
  <2> QED BY <1>5, <2>1, <2>2 DEF LoopEnds
<1>6. CASE SyncOperationRuns
  <2> DEFINE i == cur[Loop]
  <2>1. i \in E!Ids /\ opOf[i] = SyncOp
    BY <1>6, ExampleAssumption DEF SyncOperationRuns, E!IInv, E!CallersAreBusy
  <2>2. ~OfRoutine(i)
    BY <2>1, ExampleAssumption DEF OfRoutine
  <2>3. task[i] = "running" /\ E!Ends(i, "ok")
        /\ UNCHANGED <<nextId, entry, opOf, timed, poisoned, pc, cur, want>>
    BY <1>6 DEF SyncOperationRuns, E!OpCompletes, E!Polled, E!tableVars, E!callerVars
  <2>4. UNCHANGED <<operationVars, stopped, misled>>
    BY <1>6 DEF SyncOperationRuns
  <2>5. EndsAs(i, "ok")
    BY <1>0, <2>1, <2>2, <2>3, <2>4 DEF EndsAs, operationVars
  <2> QED BY <2>1, <2>5 DEF Effect, E!Outcomes, E!OpResults
<1> QED BY <1>1, <1>2, <1>3, <1>4, <1>5, <1>6 DEF LoopStep

LEMMA ExecutionEffect ==
    ASSUME ExampleInv, E!IInv, NEW i \in E!Ids, ExecutionStep(i)
    PROVE  TakesOne(i) \/ \E o \in E!Outcomes : EndsAs(i, o)
<1>0. UNCHANGED <<expired, stopped, misled>>
  BY DEF ExecutionStep
<1>1. ASSUME NEW o, Resolves(i, o),
             \/ o = "ok" /\ notified[i] > 0
             \/ o = "err" /\ ~OfRoutine(i) /\ Queued(i, "Stop")
             \/ o = "timeout" /\ i \in expired
             \/ o = "unavailable" /\ ~OfRoutine(i) /\ Queued(i, "HandleOtherCapability")
      PROVE  EndsAs(i, o)
  <2>1. /\ task[i] = "running" /\ E!Ends(i, o)
        /\ UNCHANGED <<nextId, entry, opOf, timed, poisoned, pc, cur, want>>
        /\ o = "timeout" => timed[i]
    <3>1. CASE o # "unavailable"
      BY <1>1, <3>1 DEF Resolves, E!OpCompletes, E!TimeoutFires, E!Polled, E!tableVars, E!callerVars
    <3>2. CASE o = "unavailable"
      <4>1. E!OpPanics(i) /\ queue[i] # <<>>
        BY <1>1, <3>2 DEF Resolves, Queued
      <4>2. opOf[i] # SyncOp
        BY <4>1 DEF ExampleInv, StartedInv, CauseInv
      <4>3. ~E!BlocksOn(Loop, i)
        BY <4>2, ExampleAssumption DEF E!IInv, E!CallersAreBusy, E!BlocksOn
      <4>4. Threads \cup {Loop} = {Loop} /\ pc \in [{Loop} -> {"idle", "blocking", "send", "await", "dead"}]
        BY ExampleAssumption DEF E!IInv, E!TypeOK
      <4> QED BY <3>2, <4>1, <4>3, <4>4 DEF E!OpPanics, E!Polled, E!tableVars
    <3> QED BY <3>1, <3>2
  <2> QED BY <1>0, <1>1, <2>1 DEF EndsAs, Resolves
<1>2. Takes(i) => E!OpTakeEvent(i, opStatus[i]) /\ UNCHANGED activeExecId
  BY DEF Takes
<1>3. CASE Control(i)
  <2>1. OfRoutine(i) => Takes(i) /\ RoutineControl(i)
    BY <1>3 DEF Control, RoutineControl, RoutineReports, RoutineStop, RoutineUnsupported
  <2>2. ~OfRoutine(i) => AsyncControl(i)
    BY <1>3 DEF Control
  <2>6. Queued(i, Event(i))
    <3>1. queue[i] \in Seq(E!Events) /\ queue[i] # <<>>
      BY <1>3 DEF Control, E!IInv, E!TypeOK
    <3>2. Head(queue[i]) = queue[i][1] /\ 1 \in DOMAIN queue[i]
      BY <3>1
    <3> QED BY <3>2 DEF Event, Queued
  <2>3. CASE ~OfRoutine(i) /\ AsyncStop(i)
    BY <1>1, <2>3, <2>6 DEF AsyncStop, E!Outcomes, E!OpResults
  <2>7. CASE ~OfRoutine(i) /\ AsyncPanics(i)
    BY <1>1, <2>6, <2>7 DEF AsyncPanics, E!Outcomes
  <2>4. CASE ~OfRoutine(i) /\ (AsyncReports(i) \/ AsyncCapability(i))
    <3>1. Takes(i)
      BY <2>4 DEF AsyncReports, AsyncCapability
    <3> QED BY <1>0, <1>2, <2>4, <3>1 DEF TakesOne
  <2>5. CASE OfRoutine(i)
    BY <1>0, <1>2, <2>1, <2>5 DEF TakesOne
  <2> QED BY <2>2, <2>3, <2>4, <2>5, <2>7 DEF AsyncControl
<1>4. CASE UserCode(i)
  BY <1>1, <1>4 DEF UserCode, E!Outcomes, E!OpResults
<1>5. CASE i \in expired /\ Resolves(i, "timeout")
  BY <1>1, <1>5 DEF E!Outcomes
<1>6. Head(branches) \in {"user", "control", "timer"}
  BY DEF ExecutionStep, ExampleInv, ExampleTypes
<1> QED BY <1>3, <1>4, <1>5, <1>6 DEF ExecutionStep

LEMMA StepEffect ==
    ASSUME ExampleInv, E!IInv, MessageType, [ExampleNext]_exampleVars
    PROVE  Effect
<1>0. UNCHANGED expired => expired' \subseteq expired \cup Armed
  OBVIOUS
<1>1. PollNext \/ LoopSuspends => Rests
  BY <1>0 DEF PollNext, LoopSuspends, Rests, vars, entityVars
<1>2. Park => Rests
  BY DEF Park, Rests, vars, entityVars
<1>3. TestStep => Rests
  BY <1>0, TestLeavesExecutions DEF Rests, entityVars
<1>4. \A i \in E!Ids : NextBranch(i) \/ ExecutionSuspends(i) => Rests
  BY <1>0 DEF NextBranch, ExecutionSuspends, Rests, vars, entityVars
<1>5. UNCHANGED exampleVars => Rests
  BY <1>0 DEF exampleVars, executorVars, Rests, vars, entityVars
<1>6. \A i \in E!Ids : ExecutionStep(i) => Effect
  BY ExecutionEffect DEF Effect
<1> QED BY <1>1, <1>2, <1>3, <1>4, <1>5, <1>6, LoopEffect DEF ExampleNext, Effect

-----------------------------------------------------------------------------
(* The invariant is kept. *)

OperationTypes ==
    /\ activeExecId \in E!Ids \cup {None}
    /\ opStatus \in [E!Ids -> Statuses]
    /\ lastKind \in [E!Ids -> A!Capabilities]
    /\ notified \in [E!Ids -> Nat]
    /\ report \in A!Reports \cup {A!Idle, A!Waiting, A!Dropped}
    /\ stopped \cup misled \subseteq E!Ids

OperationInv ==
    /\ OperationTypes
    /\ StartedInv
    /\ OutcomeHasCause
    /\ CauseInv
    /\ ReporterInv
    /\ RoutineInv

LEMMA EntityFacts ==
    ASSUME E!IInv
    PROVE  /\ nextId \in Nat
           /\ opOf \in [E!Ids -> Ops \cup {None}]
           /\ task \in [E!Ids -> {"none", "running", "finished"}]
           /\ outcome \in [E!Ids -> E!Outcomes \cup {None}]
           /\ rxOpen \in [E!Ids -> BOOLEAN]
           /\ queue \in [E!Ids -> Seq(E!Events)]
           /\ pc \in [{Loop} -> {"idle", "blocking", "send", "await", "dead"}]
           /\ cur \in [{Loop} -> E!Ids \cup {None}]
           /\ slot \in [{Loop} -> E!Answers \cup {None}]
           /\ \A i \in E!Ids : (i >= nextId => task[i] = "none") /\ (rxOpen[i] => task[i] = "running")
<1>1. Threads \cup {Loop} = {Loop}
  BY ExampleAssumption
<1>2. nextId \in Nat
  BY Setting DEF E!IInv, E!TypeOK
<1> QED BY <1>1, <1>2 DEF E!IInv, E!TypeOK, E!IdsAreFresh, E!ControlIsOwned

\* What is in a channel is from the loop.
LEMMA EventFacts ==
    ASSUME E!IInv, NEW i \in E!Ids, NEW k \in DOMAIN queue[i]
    PROVE  queue[i][k].from = Loop /\ queue[i][k].kind \in E!Requests
<1>1. queue[i] \in Seq(E!Events)
  BY EntityFacts
<1>2. queue[i][k] \in E!Events
  BY <1>1
<1> QED BY <1>2, ExampleAssumption DEF E!Events

LEMMA RestsKeep ==
    ASSUME OperationInv, E!IInv, Rests
    PROVE  OperationInv'
<1> USE DEF Rests, operationVars, OperationInv
<1>1. OperationTypes'
  BY DEF OperationTypes
<1>2. StartedInv'
  BY DEF StartedInv, Armed
<1>3. CauseInv' /\ OutcomeHasCause'
  BY DEF CauseInv, OutcomeHasCause, Armed, OfRoutine, Queued
<1>4. ReporterInv'
  BY DEF ReporterInv, LoopAsks, OfRoutine, Queued
<1>5. RoutineInv'
  BY DEF RoutineInv, OfRoutine
<1> QED BY <1>1, <1>2, <1>3, <1>4, <1>5

LEMMA LoopMovesKeep ==
    ASSUME OperationInv, E!IInv, LoopMoves
    PROVE  OperationInv'
<1> USE DEF LoopMoves, operationVars, OperationInv
<1>1. OperationTypes'
  BY DEF OperationTypes
<1>2. StartedInv'
  BY DEF StartedInv
<1>3. CauseInv' /\ OutcomeHasCause'
  BY DEF CauseInv, OutcomeHasCause, OfRoutine, Queued
<1>4. ReporterInv'
  <2>1. CASE pc'[Loop] = "dead"
    BY <2>1 DEF ReporterInv, LoopAsks, OfRoutine, Queued
  <2>2. CASE pc[Loop] \notin {"await", "dead"} \/ (pc[Loop] = "await" /\ slot[Loop] # None)
    <3>1. \A i \in E!Ids : ~LoopAsks(i)
      BY <2>2 DEF LoopAsks
    <3>2. report # A!Waiting /\ \A i \in E!Ids : ~Queued(i, "ReportStatus")
      BY <3>1 DEF ReporterInv
    <3> QED BY <3>2 DEF ReporterInv, Queued
  <2> QED BY <2>1, <2>2
<1>5. RoutineInv'
  BY DEF RoutineInv, OfRoutine
<1> QED BY <1>1, <1>2, <1>3, <1>4, <1>5

LEMMA RefusedKeeps ==
    ASSUME OperationInv, E!IInv, Refused
    PROVE  OperationInv'
<1> USE DEF Refused, operationVars, OperationInv
<1>1. OperationTypes'
  BY DEF OperationTypes
<1>2. StartedInv'
  BY DEF StartedInv
<1>3. CauseInv' /\ OutcomeHasCause'
  BY DEF CauseInv, OutcomeHasCause, OfRoutine, Queued
<1>4. ReporterInv'
  BY DEF ReporterInv, LoopAsks, OfRoutine, Queued
<1>5. RoutineInv'
  BY DEF RoutineInv, OfRoutine
<1> QED BY <1>1, <1>2, <1>3, <1>4, <1>5

LEMMA StartsKeeps ==
    ASSUME OperationInv, E!IInv, NEW op \in Ops, Starts(op)
    PROVE  OperationInv'
<1> USE DEF Starts, OperationInv
<1> USE EntityFacts
<1>1. OperationTypes'
  BY ExampleAssumption DEF OperationTypes
<1>2. StartedInv'
  <2>1. \A i \in E!Ids : i # nextId => /\ task'[i] = task[i] /\ opOf'[i] = opOf[i] /\ rxOpen'[i] = rxOpen[i]
                                      /\ opStatus'[i] = opStatus[i]
    BY DEF OperationTypes
  <2>2. task'[nextId] = "running" /\ opOf'[nextId] = op /\ queue[nextId] = <<>>
    BY DEF StartedInv
  <2> QED BY <2>1, <2>2 DEF StartedInv
<1>3. CauseInv' /\ OutcomeHasCause'
  <2>1. queue[nextId] = <<>> /\ outcome[nextId] = None /\ notified[nextId] = 0 /\ nextId \notin expired
    BY DEF StartedInv
  <2>2. \A i \in E!Ids : i # nextId => opOf'[i] = opOf[i] /\ rxOpen'[i] = rxOpen[i] /\ opStatus'[i] = opStatus[i]
    BY DEF OperationTypes
  <2>3. opStatus'[nextId] # "Stopped" /\ opOf'[nextId] = op /\ rxOpen'[nextId] = (op # SyncOp)
    BY DEF OperationTypes, StartedInv
  <2>4. None \notin {"ok", "err", "timeout", "unavailable"}
    BY RuntimeAssumption DEF E!EntityAssumption
  <2>5. OutcomeHasCause'
    BY <2>1, <2>2, <2>3, <2>4 DEF OutcomeHasCause, OfRoutine
  <2>6. CauseInv'
    BY <2>1, <2>2, <2>3 DEF CauseInv, OfRoutine, Queued
  <2> QED BY <2>5, <2>6
<1>4. ReporterInv'
  <2>1. \A i \in E!Ids : ~LoopAsks(i)
    BY DEF LoopAsks
  <2>2. report # A!Waiting /\ \A i \in E!Ids : ~Queued(i, "ReportStatus")
    BY <2>1 DEF ReporterInv
  <2> QED BY <2>2 DEF ReporterInv, Queued
<1>5. RoutineInv'
  <2>1. \A i \in E!Ids : OfRoutine(i) => activeExecId = i /\ i # None
    BY Setting DEF RoutineInv
  <2>2. "Running" \in A!ExecStatuses
    BY DEF A!ExecStatuses
  <2>3. opStatus[nextId] = "Running"
    BY DEF StartedInv
  <2> QED BY <2>1, <2>2, <2>3, ExampleAssumption DEF RoutineInv, OfRoutine, OperationTypes
<1> QED BY <1>1, <1>2, <1>3, <1>4, <1>5

LEMMA AppendElements ==
    ASSUME NEW S, NEW s \in Seq(S), NEW e \in S
    PROVE  /\ Append(s, e) \in Seq(S)
           /\ \A k \in DOMAIN Append(s, e) :
                \/ k \in DOMAIN s /\ Append(s, e)[k] = s[k]
                \/ k = Len(s) + 1 /\ Append(s, e)[k] = e
OBVIOUS

LEMMA TailElements ==
    ASSUME NEW S, NEW s \in Seq(S), s # <<>>
    PROVE  /\ 1 \in DOMAIN s /\ Head(s) = s[1] /\ Tail(s) \in Seq(S)
           /\ \A k \in DOMAIN Tail(s) : k \in Nat /\ k # 0 /\ k + 1 \in DOMAIN s /\ Tail(s)[k] = s[k + 1]
OBVIOUS

LEMMA AskingKeeps ==
    ASSUME OperationInv, E!IInv, Asking
    PROVE  OperationInv'
<1>0. PICK c \in E!Ids : c = cur[Loop]
  BY DEF Asking
<1> DEFINE e == [kind |-> want[Loop], from |-> Loop]
<1> USE DEF OperationInv
<1>1. /\ pc[Loop] = "send" /\ c \in E!Ids /\ rxOpen[c] /\ task[c] = "running"
      /\ UNCHANGED <<activeExecId, opStatus, lastKind, notified, expired>>
  BY <1>0, EntityFacts DEF Asking
<1>2. /\ UNCHANGED <<nextId, opOf, timed, task, outcome, rxOpen, poisoned>>
      /\ queue' = [queue EXCEPT ![c] = Append(queue[c], e)]
      /\ want[Loop] = "ReportStatus" => pc'[Loop] = "await" /\ slot'[Loop] = None /\ UNCHANGED cur
  BY <1>0, EntityFacts DEF Asking, E!SendEvent, E!tableVars
<1>3. want[Loop] \in E!Requests
  BY <1>0, <1>1 DEF E!IInv, E!CallersAreBusy
<1>4. e \in E!Events
  BY <1>3 DEF E!Events
<1>5. /\ \A i \in E!Ids : i # c => queue'[i] = queue[i]
      /\ \A k \in DOMAIN queue'[c] :
            \/ k \in DOMAIN queue[c] /\ queue'[c][k] = queue[c][k]
            \/ k = Len(queue[c]) + 1 /\ queue'[c][k].kind = want[Loop]
  <2>1. queue[c] \in Seq(E!Events) /\ queue'[c] = Append(queue[c], e)
    BY <1>1, <1>2, EntityFacts
  <2>2. e.kind = want[Loop]
    OBVIOUS
  <2> HIDE DEF e
  <2> QED BY <1>1, <1>2, <1>4, <2>1, <2>2, AppendElements, EntityFacts
<1>6. /\ stopped' = IF want[Loop] = "Stop" THEN stopped \cup {c} ELSE stopped
      /\ misled' = IF want[Loop] = "HandleOtherCapability" THEN misled \cup {c} ELSE misled
      /\ report' = IF want[Loop] = "ReportStatus" /\ OfRoutine(c) THEN A!Waiting ELSE report
  BY <1>0 DEF Asking
<1>7. report # A!Waiting /\ \A i \in E!Ids : ~Queued(i, "ReportStatus")
  <2>1. \A i \in E!Ids : ~LoopAsks(i)
    BY <1>1 DEF LoopAsks
  <2> QED BY <2>1 DEF ReporterInv
<1>13. \A i \in E!Ids : \A kind : Queued(i, kind)' => Queued(i, kind) \/ (i = c /\ kind = want[Loop])
  BY <1>5 DEF Queued
<1> HIDE DEF e
<1>8. OperationTypes'
  BY <1>1, <1>6 DEF OperationTypes
<1>9. StartedInv'
  BY <1>1, <1>2, <1>5, <1>6 DEF StartedInv
<1>10. CauseInv' /\ OutcomeHasCause'
  BY <1>1, <1>2, <1>6, <1>13 DEF CauseInv, OutcomeHasCause, OfRoutine
<1>11. ReporterInv'
  <2>1. \A i \in E!Ids : \A j, k \in DOMAIN queue'[i] :
            queue'[i][j].kind = "ReportStatus" /\ queue'[i][k].kind = "ReportStatus" => j = k
    BY <1>5, <1>7 DEF Queued
  <2>2. want[Loop] = "ReportStatus" => LoopAsks(c)'
    BY <1>0, <1>2 DEF LoopAsks
  <2>3. \A i \in E!Ids : Queued(i, "ReportStatus")' => i = c /\ want[Loop] = "ReportStatus"
    BY <1>7, <1>13
  <2>4. \A i \in E!Ids : Queued(i, "ReportStatus")' => LoopAsks(i)' /\ (OfRoutine(i)' => report' = A!Waiting)
    BY <1>2, <1>6, <2>2, <2>3 DEF OfRoutine
  <2>5. report' = A!Waiting => \E i \in E!Ids : OfRoutine(i)' /\ LoopAsks(i)'
    BY <1>1, <1>2, <1>6, <1>7, <2>2 DEF OfRoutine
  <2> QED BY <2>1, <2>4, <2>5 DEF ReporterInv
<1>12. RoutineInv'
  BY <1>1, <1>2 DEF RoutineInv, OfRoutine
<1> QED BY <1>8, <1>9, <1>10, <1>11, <1>12

\* Whoever waits for an execution to report its status is the loop.
LEMMA ReportersFacts ==
    ASSUME E!IInv, NEW i \in E!Ids
    PROVE  Loop \in E!Reporters(i) <=> Queued(i, "ReportStatus")
BY EventFacts DEF E!Reporters, Queued

LEMMA EndsKeep ==
    ASSUME OperationInv, E!IInv, NEW i \in E!Ids, NEW o \in E!Outcomes, EndsAs(i, o)
    PROVE  OperationInv'
<1> USE DEF OperationInv
<1>1. /\ UNCHANGED <<nextId, opOf, timed, poisoned, pc, cur>>
      /\ UNCHANGED <<activeExecId, opStatus, lastKind, notified, stopped, misled, expired>>
      /\ report' = IF OfRoutine(i) /\ report = A!Waiting /\ Loop \in E!Reporters(i) THEN A!Dropped ELSE report
  BY DEF EndsAs
<1>2. /\ task' = [task EXCEPT ![i] = "finished"] /\ task[i] = "running"
      /\ outcome' = [outcome EXCEPT ![i] = o]
      /\ rxOpen' = [rxOpen EXCEPT ![i] = FALSE]
      /\ queue' = [queue EXCEPT ![i] = <<>>]
      /\ slot'[Loop] = slot[Loop] \/ Loop \in E!Reporters(i)
  BY DEF EndsAs, E!Ends, E!CloseControl
<1>3. /\ task'[i] = "finished" /\ outcome'[i] = o /\ ~rxOpen'[i] /\ queue'[i] = <<>>
      /\ \A j \in E!Ids : j # i => /\ task'[j] = task[j] /\ outcome'[j] = outcome[j]
                                /\ rxOpen'[j] = rxOpen[j] /\ queue'[j] = queue[j]
  BY <1>2, EntityFacts
<1>4. OperationTypes'
  BY <1>1 DEF OperationTypes
<1>5. StartedInv'
  BY <1>1, <1>2, <1>3 DEF StartedInv
<1>6. CauseInv'
  BY <1>1, <1>3 DEF CauseInv, OfRoutine, Queued
<1>7. OutcomeHasCause'
  <2>1. opOf[i] \in Ops
    BY <1>2 DEF StartedInv
  <2>2. CASE o = "ok" /\ (opOf[i] # SyncOp => notified[i] > 0)
    BY <1>1, <1>3, <2>2, ExampleAssumption DEF OutcomeHasCause, OfRoutine, CauseInv
  <2>3. CASE o = "err" /\ ~OfRoutine(i) /\ Queued(i, "Stop")
    <3>1. queue[i] # <<>>
      BY <2>3 DEF Queued
    <3>2. opOf[i] = AsyncOp /\ i \in stopped
      BY <2>1, <2>3, <3>1, ExampleAssumption DEF StartedInv, CauseInv, OfRoutine
    <3> QED BY <1>1, <1>3, <2>3, <3>2 DEF OutcomeHasCause, OfRoutine
  <2>4. CASE o = "timeout" /\ i \in expired /\ timed[i]
    BY <1>1, <1>3, <2>4 DEF OutcomeHasCause, OfRoutine, CauseInv
  <2>5. CASE o = "unavailable" /\ ~OfRoutine(i) /\ Queued(i, "HandleOtherCapability")
    <3>1. queue[i] # <<>>
      BY <2>5 DEF Queued
    <3>2. opOf[i] = AsyncOp /\ i \in misled
      BY <2>1, <2>5, <3>1, ExampleAssumption DEF StartedInv, CauseInv, OfRoutine
    <3> QED BY <1>1, <1>3, <2>5, <3>2 DEF OutcomeHasCause, OfRoutine
  <2> QED BY <2>2, <2>3, <2>4, <2>5 DEF EndsAs
<1>8. ReporterInv'
  <2>1. \A j, k \in E!Ids : LoopAsks(j) /\ LoopAsks(k) /\ pc[Loop] # "dead" => j = k
    BY DEF LoopAsks
  <2>2. Loop \in E!Reporters(i) => Queued(i, "ReportStatus") /\ LoopAsks(i)
    BY ReportersFacts DEF ReporterInv
  <2>3. \A j \in E!Ids : j # i /\ LoopAsks(j) => LoopAsks(j)'
    BY <1>1, <1>2, <2>1, <2>2 DEF LoopAsks
  <2>4. \A j \in E!Ids : OfRoutine(i) /\ OfRoutine(j) => j = i
    BY DEF RoutineInv
  <2>5. ASSUME NEW j \in E!Ids, Queued(j, "ReportStatus")'
        PROVE  LoopAsks(j)' /\ (OfRoutine(j)' => report' = A!Waiting)
    <3>1. j # i /\ Queued(j, "ReportStatus")
      BY <1>3, <2>5 DEF Queued
    <3> QED BY <1>1, <2>3, <2>4, <3>1 DEF ReporterInv, OfRoutine
  <2>6. ASSUME report' = A!Waiting
        PROVE  \E j \in E!Ids : OfRoutine(j)' /\ LoopAsks(j)'
    <3>1. report = A!Waiting /\ ~(OfRoutine(i) /\ Loop \in E!Reporters(i))
      BY <1>1, <2>6 DEF A!Waiting, A!Dropped
    <3>2. PICK j \in E!Ids : OfRoutine(j) /\ LoopAsks(j)
      BY <3>1 DEF ReporterInv
    <3>3. LoopAsks(j)'
      <4>1. CASE pc[Loop] = "dead"
        BY <1>1, <4>1 DEF LoopAsks
      <4>2. CASE Loop \in E!Reporters(i) /\ pc[Loop] # "dead"
        BY <2>1, <2>2, <3>1, <3>2, <4>2
      <4>3. CASE Loop \notin E!Reporters(i)
        BY <1>1, <1>2, <3>2, <4>3 DEF LoopAsks
      <4> QED BY <4>1, <4>2, <4>3
    <3> QED BY <1>1, <3>2, <3>3 DEF OfRoutine
  <2>7. \A j \in E!Ids : \A k, l \in DOMAIN queue'[j] :
            queue'[j][k].kind = "ReportStatus" /\ queue'[j][l].kind = "ReportStatus" => k = l
    BY <1>3 DEF ReporterInv
  <2> QED BY <2>5, <2>6, <2>7 DEF ReporterInv
<1>9. RoutineInv'
  BY <1>1 DEF RoutineInv, OfRoutine
<1> QED BY <1>4, <1>5, <1>6, <1>7, <1>8, <1>9

\* Statuses and capabilities of an adapter, and its reports, in words.
LEMMA AdapterTypes ==
    /\ A!ExecStatuses = {"Running", "Stopped"} \cup CustomCapabilities
    /\ A!Capabilities = {"Resume", "Stop"} \cup CustomCapabilities
    /\ A!ExecStatuses \subseteq Statuses
    /\ \A status \in A!ExecStatuses, last \in A!Capabilities :
          A!Report(status, last, FALSE, FALSE) \in A!Reports
    /\ \A status, last : A!Report(status, last, FALSE, FALSE) # A!Waiting
<1>1. /\ A!ExecStatuses = {"Running", "Stopped"} \cup CustomCapabilities
      /\ A!Capabilities = {"Resume", "Stop"} \cup CustomCapabilities
  BY DEF A!ExecStatuses, A!Capabilities, UnsupportedKinds
<1>2. A!ExecStatuses \subseteq Statuses
  BY <1>1, ExampleAssumption
<1>3. \A status \in A!ExecStatuses, last \in A!Capabilities :
          A!Report(status, last, FALSE, FALSE) \in A!Reports
  BY DEF A!Report, A!Reports
<1>4. \A status, last : A!Report(status, last, FALSE, FALSE) # A!Waiting
  BY DEF A!Report, A!Waiting
<1> QED BY <1>1, <1>2, <1>3, <1>4

\* What taking an event changes, by its kind.
LEMMA TakesChanges ==
    ASSUME OperationInv, E!IInv, NEW i \in E!Ids, TakesOne(i)
    PROVE  /\ \/ /\ Event(i) = "ReportStatus" /\ OfRoutine(i)
                 /\ report' = A!Report(opStatus[i], lastKind[i], FALSE, FALSE)
                 /\ UNCHANGED <<opStatus, lastKind, notified>>
              \/ /\ Event(i) = "Stop" /\ OfRoutine(i)
                 /\ opStatus' = [opStatus EXCEPT ![i] = "Stopped"]
                 /\ lastKind' = [lastKind EXCEPT ![i] = "Stop"]
                 /\ notified' = [notified EXCEPT ![i] = 1]
                 /\ UNCHANGED report
              \/ /\ Event(i) \in CustomCapabilities /\ OfRoutine(i)
                 /\ opStatus' = [opStatus EXCEPT ![i] = Event(i)]
                 /\ lastKind' = [lastKind EXCEPT ![i] = Event(i)]
                 /\ UNCHANGED <<notified, report>>
              \/ /\ ~OfRoutine(i)
                 /\ \E status \in {"Running", "HandleCustomCapability"} :
                        opStatus' = [opStatus EXCEPT ![i] = status]
                 /\ \E n \in Nat : notified' = [notified EXCEPT ![i] = n]
                 /\ UNCHANGED <<lastKind, report>>
           /\ UNCHANGED <<nextId, opOf, timed, task, outcome, rxOpen, poisoned, pc, cur>>
           /\ UNCHANGED <<activeExecId, stopped, misled, expired>>
           /\ task[i] = "running" /\ queue[i] # <<>>
           /\ queue' = [queue EXCEPT ![i] = Tail(@)]
           /\ slot'[Loop] = IF Event(i) = "ReportStatus" THEN opStatus[i] ELSE slot[Loop]
<1>1. /\ UNCHANGED <<nextId, opOf, timed, task, outcome, rxOpen, poisoned, pc, cur>>
      /\ task[i] = "running" /\ queue[i] # <<>>
      /\ queue' = [queue EXCEPT ![i] = Tail(@)]
      /\ slot' = [slot EXCEPT ![Head(queue[i]).from] = IF Event(i) = "ReportStatus" THEN opStatus[i] ELSE @]
  BY DEF TakesOne, E!OpTakeEvent, E!Polled, E!tableVars, E!callerVars, Event
<1>2. Head(queue[i]).from = Loop
  <2>1. queue[i] \in Seq(E!Events)
    BY EntityFacts
  <2>2. 1 \in DOMAIN queue[i] /\ Head(queue[i]) = queue[i][1]
    BY <1>1, <2>1
  <2> QED BY <2>2, EventFacts
<1>3. slot'[Loop] = IF Event(i) = "ReportStatus" THEN opStatus[i] ELSE slot[Loop]
  BY <1>1, <1>2, EntityFacts
<1>4. CASE ~OfRoutine(i)
  <2>1. notified \in [E!Ids -> Nat]
    BY DEF OperationInv, OperationTypes
  <2>2. ASSUME AsyncReports(i)
        PROVE  /\ opStatus' = [opStatus EXCEPT ![i] = "Running"]
               /\ \E n \in Nat : notified' = [notified EXCEPT ![i] = n]
               /\ UNCHANGED <<lastKind, report>>
    <3> DEFINE n == IF opStatus[i] = "Scheduled" THEN notified[i] ELSE notified[i] + 1
    <3>1. n \in Nat
      BY <2>1
    <3>2. notified' = [notified EXCEPT ![i] = n]
      BY <2>2 DEF AsyncReports
    <3> HIDE DEF n
    <3>3. \E m \in Nat : notified' = [notified EXCEPT ![i] = m]
      BY <3>1, <3>2
    <3> QED BY <2>2, <3>3 DEF AsyncReports
  <2>3. ASSUME AsyncCapability(i)
        PROVE  /\ opStatus' = [opStatus EXCEPT ![i] = "HandleCustomCapability"]
               /\ UNCHANGED <<notified, lastKind, report>>
    BY <2>3 DEF AsyncCapability
  <2>4. UNCHANGED notified => \E n \in Nat : notified' = [notified EXCEPT ![i] = n]
    BY <2>1
  <2>5. AsyncReports(i) \/ AsyncCapability(i)
    BY <1>4 DEF TakesOne
  <2> QED BY <1>1, <1>3, <1>4, <2>2, <2>3, <2>4, <2>5 DEF TakesOne
<1>5. CASE OfRoutine(i)
  <2>1. RoutineReports(i) \/ RoutineStop(i) \/ RoutineUnsupported(i)
    BY <1>5 DEF TakesOne, RoutineControl
  <2> QED BY <1>1, <1>3, <1>5, <2>1
          DEF TakesOne, RoutineReports, RoutineStop, RoutineUnsupported, UnsupportedKinds
<1> QED BY <1>4, <1>5

LEMMA TakesKeeps ==
    ASSUME OperationInv, E!IInv, NEW i \in E!Ids, TakesOne(i)
    PROVE  OperationInv'
<1> USE DEF OperationInv
<1>1. /\ UNCHANGED <<nextId, opOf, timed, task, outcome, rxOpen, poisoned, pc, cur>>
      /\ UNCHANGED <<activeExecId, stopped, misled, expired>>
      /\ task[i] = "running"
      /\ slot'[Loop] = IF Event(i) = "ReportStatus" THEN opStatus[i] ELSE slot[Loop]
  BY TakesChanges
<1>2. /\ 1 \in DOMAIN queue[i] /\ Event(i) = queue[i][1].kind
      /\ \A k \in DOMAIN queue'[i] : k \in Nat /\ k # 0 /\ k + 1 \in DOMAIN queue[i] /\ queue'[i][k] = queue[i][k + 1]
      /\ \A j \in E!Ids : j # i => queue'[j] = queue[j]
  <2>1. queue[i] \in Seq(E!Events) /\ queue[i] # <<>> /\ queue'[i] = Tail(queue[i])
          /\ \A j \in E!Ids : j # i => queue'[j] = queue[j]
    BY TakesChanges, EntityFacts
  <2> QED BY <2>1, TailElements DEF Event
<1>0. CustomCapabilities = {"HandleCustomCapability", "HandleOtherCapability"}
  BY ExampleAssumption
<1>3. /\ \A j \in E!Ids : \A kind : Queued(j, kind)' => Queued(j, kind)
      /\ Queued(i, Event(i))
  BY <1>2 DEF Queued
<1>4. Event(i) = "Stop" => i \in stopped
  BY <1>3 DEF CauseInv
<1>5. \A j \in E!Ids : j # i => opStatus'[j] = opStatus[j] /\ notified'[j] = notified[j]
  <2>1. opStatus' = opStatus \/ \E status : opStatus' = [opStatus EXCEPT ![i] = status]
    BY TakesChanges
  <2>2. notified' = notified \/ \E n : notified' = [notified EXCEPT ![i] = n]
    BY TakesChanges
  <2> QED BY <2>1, <2>2 DEF OperationTypes
<1>6. /\ opStatus'[i] \in {"Running", "Stopped", opStatus[i]} \cup CustomCapabilities
      /\ opStatus'[i] = "Stopped" => opStatus[i] = "Stopped" \/ Event(i) = "Stop"
      /\ OfRoutine(i) /\ notified'[i] # notified[i] => Event(i) = "Stop"
  BY <1>0, TakesChanges DEF OperationTypes
<1>7. \/ report' = report /\ ~(OfRoutine(i) /\ Event(i) = "ReportStatus")
      \/ /\ OfRoutine(i) /\ Event(i) = "ReportStatus"
         /\ report' \in A!Reports /\ report' # A!Waiting
  <2>1. OfRoutine(i) => opStatus[i] \in A!ExecStatuses /\ lastKind[i] \in A!Capabilities
    BY DEF RoutineInv, OperationTypes
  <2>2. \/ report' = report /\ ~(OfRoutine(i) /\ Event(i) = "ReportStatus")
        \/ /\ OfRoutine(i) /\ Event(i) = "ReportStatus"
           /\ report' = A!Report(opStatus[i], lastKind[i], FALSE, FALSE)
    BY <1>0, TakesChanges
  <2> QED BY <2>1, <2>2, AdapterTypes
<1>8. OperationTypes'
  <2>0. {"Running", "Stopped"} \cup CustomCapabilities \subseteq Statuses
    BY ExampleAssumption
  <2>3. opStatus' \in [E!Ids -> Statuses]
    <3>1. opStatus' = opStatus
            \/ \E status \in {"Running", "Stopped"} \cup CustomCapabilities :
                    opStatus' = [opStatus EXCEPT ![i] = status]
      BY <1>0, TakesChanges
    <3> QED BY <2>0, <3>1 DEF OperationTypes
  <2>4. notified' \in [E!Ids -> Nat]
    <3>1. notified' = notified \/ \E n \in Nat : notified' = [notified EXCEPT ![i] = n]
      BY TakesChanges
    <3> QED BY <3>1 DEF OperationTypes
  <2>1. opStatus' \in [E!Ids -> Statuses] /\ notified' \in [E!Ids -> Nat]
    BY <2>3, <2>4
  <2>2. lastKind' \in [E!Ids -> A!Capabilities]
    <3>1. lastKind' = lastKind
            \/ \E last \in {"Stop"} \cup CustomCapabilities : lastKind' = [lastKind EXCEPT ![i] = last]
      BY TakesChanges
    <3> QED BY <3>1, AdapterTypes DEF OperationTypes
  <2> QED BY <1>1, <1>7, <2>1, <2>2 DEF OperationTypes
<1>9. StartedInv'
  <2>1. \A j \in E!Ids : queue'[j] # <<>> => rxOpen[j]
    <3>1. rxOpen[i]
      BY <1>2 DEF StartedInv
    <3> QED BY <1>2, <3>1 DEF StartedInv
  <2> QED BY <1>1, <1>5, <2>1 DEF StartedInv
<1>10. CauseInv' /\ OutcomeHasCause'
  BY <1>1, <1>3, <1>4, <1>5, <1>6 DEF CauseInv, OutcomeHasCause, OfRoutine
<1>11. ReporterInv'
  <2>1. \A j, k \in E!Ids : LoopAsks(j) /\ LoopAsks(k) /\ pc[Loop] # "dead" => j = k
    BY DEF LoopAsks
  <2>2. Event(i) = "ReportStatus" => LoopAsks(i)
    BY <1>3 DEF ReporterInv
  <2>3. \A j \in E!Ids : LoopAsks(j) /\ (j # i \/ Event(i) # "ReportStatus") => LoopAsks(j)'
    BY <1>1, <2>1, <2>2 DEF LoopAsks
  <2>4. Queued(i, "ReportStatus")' => Event(i) # "ReportStatus"
    <3> SUFFICES ASSUME NEW k \in DOMAIN queue'[i], queue'[i][k].kind = "ReportStatus", Event(i) = "ReportStatus"
                 PROVE  FALSE
      BY DEF Queued
    <3>1. k \in Nat /\ k # 0 /\ k + 1 \in DOMAIN queue[i] /\ queue[i][k + 1].kind = "ReportStatus"
      BY <1>2
    <3>2. k + 1 = 1
      BY <1>2, <3>1 DEF ReporterInv
    <3> QED BY <3>1, <3>2
  <2>5. \A j \in E!Ids : OfRoutine(i) /\ OfRoutine(j) => j = i
    BY DEF RoutineInv
  <2>6. ASSUME NEW j \in E!Ids, Queued(j, "ReportStatus")'
        PROVE  LoopAsks(j)' /\ (OfRoutine(j)' => report' = A!Waiting)
    <3>1. LoopAsks(j) /\ (OfRoutine(j) => report = A!Waiting)
      BY <1>3, <2>6 DEF ReporterInv
    <3> QED BY <1>1, <1>7, <2>3, <2>4, <2>5, <2>6, <3>1 DEF OfRoutine
  <2>7. ASSUME report' = A!Waiting
        PROVE  \E j \in E!Ids : OfRoutine(j)' /\ LoopAsks(j)'
    <3>1. report = A!Waiting /\ ~(OfRoutine(i) /\ Event(i) = "ReportStatus")
      BY <1>7, <2>7
    <3>2. PICK j \in E!Ids : OfRoutine(j) /\ LoopAsks(j)
      BY <3>1 DEF ReporterInv
    <3>3. LoopAsks(j)'
      BY <2>3, <3>1, <3>2
    <3> QED BY <1>1, <3>2, <3>3 DEF OfRoutine
  <2>8. \A j \in E!Ids : \A k, l \in DOMAIN queue'[j] :
            queue'[j][k].kind = "ReportStatus" /\ queue'[j][l].kind = "ReportStatus" => k = l
    <3>1. ASSUME NEW k \in DOMAIN queue'[i], NEW l \in DOMAIN queue'[i],
                 queue'[i][k].kind = "ReportStatus", queue'[i][l].kind = "ReportStatus"
          PROVE  k = l
      <4>1. k + 1 = l + 1 /\ k \in Nat /\ l \in Nat
        BY <1>2, <3>1 DEF ReporterInv
      <4> QED BY <4>1
    <3> QED BY <1>2, <3>1 DEF ReporterInv
  <2> QED BY <2>6, <2>7, <2>8 DEF ReporterInv
<1>12. RoutineInv'
  <2>1. OfRoutine(i) => opStatus'[i] \in A!ExecStatuses
    BY <1>6, AdapterTypes DEF RoutineInv
  <2> QED BY <1>1, <1>5, <2>1 DEF RoutineInv, OfRoutine
<1> QED BY <1>8, <1>9, <1>10, <1>11, <1>12

LEMMA EffectKeeps ==
    ASSUME OperationInv, E!IInv, Effect
    PROVE  OperationInv'
BY RestsKeep, LoopMovesKeep, RefusedKeeps, AskingKeeps, StartsKeeps, TakesKeeps, EndsKeep DEF Effect

LEMMA ExampleInvParts ==
    ExampleInv <=> /\ OperationInv
                   /\ script \in Seq(Steps)
                   /\ budget \in 0..MaxAsked
                   /\ root \in {"ready", "waits", "sleeps", "yields", "joins", "done", "panicked"}
                   /\ current \in {None, Test} \cup Tasks
                   /\ branches \in Seq(Branches)
                   /\ runQueue \in Seq(Tasks)
                   /\ fresh \cup expired \subseteq E!Ids
BY DEF ExampleInv, OperationInv, ExampleTypes, OperationTypes, Tasks, Branches

LEMMA StepKeepsExampleInv ==
    ASSUME ExampleInv, E!IInv, MessageType, [ExampleNext]_exampleVars
    PROVE  ExampleInv'
<1>1. OperationInv'
  BY StepEffect, EffectKeeps, ExampleInvParts
<1>2. ExampleTypes
  BY DEF ExampleInv
<1> QED BY <1>1, <1>2, ExecutorTypes DEF ExampleInv, OperationInv, ExampleTypes, OperationTypes, Tasks, Branches

LEMMA InitExampleInv == ExampleInit => ExampleInv
<1> SUFFICES ASSUME ExampleInit PROVE ExampleInv
  OBVIOUS
<1> USE DEF ExampleInit, Init, E!Init
<1>10. root = "ready" /\ current = None /\ fresh = {} /\ expired = {}
  OBVIOUS
<1>1. script \in Seq(Steps)
  BY ScriptsAreScripts DEF Scripts
<1>2. budget \in 0..MaxAsked
  BY ExampleAssumption
<1>3. OperationTypes
  BY AdapterTypes, ExampleAssumption DEF OperationTypes
<1>4. StartedInv
  BY DEF StartedInv
<1>5. OutcomeHasCause
  BY RuntimeAssumption, ExampleAssumption DEF OutcomeHasCause, E!EntityAssumption, OfRoutine
<1>6. CauseInv
  BY DEF CauseInv, Queued
<1>7. ReporterInv
  BY DEF ReporterInv, Queued, A!Idle, A!Waiting
<1>8. RoutineInv
  BY Setting, ExampleAssumption DEF RoutineInv, OfRoutine
<1>9. branches \in Seq(Branches) /\ runQueue \in Seq(Tasks)
  OBVIOUS
<1>11. OperationInv
  BY <1>3, <1>4, <1>5, <1>6, <1>7, <1>8 DEF OperationInv
<1> HIDE DEF ExampleInit, Init, E!Init
<1>12. /\ root \in {"ready", "waits", "sleeps", "yields", "joins", "done", "panicked"}
       /\ current \in {None, Test} \cup Tasks
       /\ fresh \cup expired \subseteq E!Ids
  BY <1>10
<1> QED BY <1>1, <1>2, <1>9, <1>11, <1>12, ExampleInvParts

LEMMA InitIsRuntime == ExampleInit => Init /\ E!IInv /\ MessageType
<1> SUFFICES ASSUME ExampleInit PROVE Init /\ E!IInv /\ MessageType
  OBVIOUS
<1>1. Init
  BY DEF ExampleInit
<1>2. E!Init => EP!IInv
  BY SameInit, EP!InitIInv, RuntimeAssumption DEF E!EntityAssumption, EP!EntityAssumption
<1>3. E!Init /\ MessageType
  BY <1>1 DEF Init, MessageType
<1> QED BY <1>1, <1>2, <1>3, SameInvariant

Joint == ExampleInv /\ E!IInv /\ MessageType

LEMMA StepKeepsJoint == Joint /\ [ExampleNext]_exampleVars => Joint' /\ [Next]_vars
<1> SUFFICES ASSUME Joint, [ExampleNext]_exampleVars PROVE Joint' /\ [Next]_vars
  OBVIOUS
<1>1. ExampleInv' /\ [Next]_vars
  BY StepKeepsExampleInv, StepIsRuntime DEF Joint, ExampleInv
<1>2. E!IInv'
  BY <1>1, EntityStep DEF Joint
<1>3. MessageType'
  BY <1>1, MessageTypeStep DEF Joint
<1> QED BY <1>1, <1>2, <1>3 DEF Joint

LEMMA JointHolds == ExampleSpec => []Joint
<1>1. ExampleInit => Joint
  BY InitExampleInv, InitIsRuntime DEF Joint
<1> QED BY <1>1, StepKeepsJoint, PTL DEF ExampleSpec

\* The operations, the tests and the executor are a DiagRuntime: what is proved
\* of the runtime, whatever its operations do, holds of the stack of example.rs.
THEOREM ExampleIsRuntime == ExampleSpec => Spec
BY JointHolds, InitIsRuntime, StepKeepsJoint, PTL DEF ExampleSpec, Spec

\* Every variable of the whole stack has the values the code can give it.
THEOREM ExampleTypeCorrect == ExampleSpec => []ExampleTypeOK
<1>1. TypeOK /\ ExampleInv => ExampleTypeOK
  BY DEF ExampleInv, ExampleTypes, ExampleTypeOK
<1>2. Joint => ExampleInv
  BY DEF Joint
<1> QED BY <1>1, <1>2, ExampleIsRuntime, RuntimeTypeCorrect, JointHolds, PTL

\* No execution ends for a reason nobody gave: an error means a stop that a
\* client was confirmed, a timeout was asked for, the Stop the timeout sends
\* itself reaches nobody, and a future only panics over a capability that a
\* client was confirmed and MyAsyncOperation does not know.
THEOREM OutcomesHaveCause == ExampleSpec => []OutcomeHasCause
<1>1. Joint => OutcomeHasCause
  BY DEF Joint, ExampleInv
<1> QED BY <1>1, JointHolds, PTL

-----------------------------------------------------------------------------
(* The routine's executions are those of SimpleOperationAdapter. *)

LEMMA AdapterNames ==
    /\ A!Execs = E!Ids
    /\ E!Requests \subseteq A!Kinds /\ Loop # None
    /\ A!Waiting # A!Dropped
BY Setting DEF A!Execs, E!Requests, A!Kinds, UnsupportedKinds, A!Waiting, A!Dropped

LEMMA StreamElements ==
    ASSUME NEW q \in Seq(E!Events)
    PROVE  /\ AsStream(q) \in Seq([kind : E!Requests, from : {Loop, None}])
           /\ Len(AsStream(q)) = Len(q)
           /\ DOMAIN AsStream(q) = DOMAIN q
           /\ \A k \in DOMAIN q : AsStream(q)[k] =
                 [kind |-> q[k].kind, from |-> IF q[k].kind = "ReportStatus" THEN Loop ELSE None]
<1> DEFINE T == [kind : E!Requests, from : {Loop, None}]
<1>1. Len(q) \in Nat /\ DOMAIN q = 1..Len(q) /\ \A k \in DOMAIN q : q[k] \in E!Events
  OBVIOUS
<1>2. AsStream(q) \in [1..Len(q) -> T]
  BY <1>1 DEF AsStream, E!Events
<1>3. \A k \in DOMAIN q : AsStream(q)[k] =
                 [kind |-> q[k].kind, from |-> IF q[k].kind = "ReportStatus" THEN Loop ELSE None]
  BY DEF AsStream
<1> HIDE DEF T
<1>4. AsStream(q) \in Seq(T)
  BY <1>1, <1>2, SeqDef
<1>5. DOMAIN AsStream(q) = 1..Len(q)
  BY <1>2
<1>6. Len(AsStream(q)) = Len(q)
  BY <1>1, <1>4, <1>5
<1> QED BY <1>1, <1>3, <1>4, <1>5, <1>6 DEF T

LEMMA StreamHead ==
    ASSUME NEW q \in Seq(E!Events), q # <<>>
    PROVE  /\ AsStream(q) # <<>>
           /\ Head(AsStream(q)) =
                 [kind |-> Head(q).kind, from |-> IF Head(q).kind = "ReportStatus" THEN Loop ELSE None]
<1>1. Len(q) > 0 /\ 1 \in DOMAIN q /\ Head(q) = q[1]
  OBVIOUS
<1>2. Len(AsStream(q)) > 0 /\ Head(AsStream(q)) = AsStream(q)[1]
  BY <1>1, StreamElements
<1>3. AsStream(q) # <<>>
  BY <1>2
<1> QED BY <1>1, <1>2, <1>3, StreamElements

LEMMA StreamTail ==
    ASSUME NEW q \in Seq(E!Events), q # <<>>
    PROVE  AsStream(Tail(q)) = Tail(AsStream(q))
<1> DEFINE T == [kind : E!Requests, from : {Loop, None}]
<1>1. Tail(q) \in Seq(E!Events) /\ Len(Tail(q)) = Len(q) - 1 /\ Len(q) \in Nat \ {0}
        /\ \A k \in 1..Len(Tail(q)) : Tail(q)[k] = q[k + 1]
  BY HeadTailProperties
<1>2. AsStream(q) \in Seq(T) /\ AsStream(q) # <<>> /\ AsStream(Tail(q)) \in Seq(T)
        /\ Len(AsStream(q)) = Len(q) /\ Len(AsStream(Tail(q))) = Len(q) - 1
  BY <1>1, StreamElements, StreamHead
<1> HIDE DEF T
<1>3. Tail(AsStream(q)) \in Seq(T) /\ Len(Tail(AsStream(q))) = Len(q) - 1
        /\ \A k \in 1..(Len(q) - 1) : Tail(AsStream(q))[k] = AsStream(q)[k + 1]
  BY <1>2, HeadTailProperties
<1>4. ASSUME NEW k \in 1..(Len(q) - 1)
      PROVE  AsStream(Tail(q))[k] = Tail(AsStream(q))[k]
  <2>1. k \in DOMAIN Tail(q) /\ k + 1 \in DOMAIN q /\ Tail(q)[k] = q[k + 1]
    BY <1>1
  <2> QED BY <1>1, <1>3, <2>1, StreamElements
<1> QED BY <1>1, <1>2, <1>3, <1>4, SeqEqual

LEMMA StreamAppend ==
    ASSUME NEW q \in Seq(E!Events), NEW e \in E!Events
    PROVE  AsStream(Append(q, e)) =
             Append(AsStream(q), [kind |-> e.kind, from |-> IF e.kind = "ReportStatus" THEN Loop ELSE None])
<1> DEFINE T == [kind : E!Requests, from : {Loop, None}]
<1> DEFINE f == [kind |-> e.kind, from |-> IF e.kind = "ReportStatus" THEN Loop ELSE None]
<1>1. Append(q, e) \in Seq(E!Events) /\ Len(Append(q, e)) = Len(q) + 1 /\ Len(q) \in Nat
        /\ (\A k \in 1..Len(q) : Append(q, e)[k] = q[k]) /\ Append(q, e)[Len(q) + 1] = e
  OBVIOUS
<1>2. AsStream(q) \in Seq(T) /\ AsStream(Append(q, e)) \in Seq(T) /\ f \in T
        /\ Len(AsStream(q)) = Len(q) /\ Len(AsStream(Append(q, e))) = Len(q) + 1
  BY <1>1, StreamElements DEF E!Events
<1>3. ASSUME NEW k \in 1..(Len(q) + 1)
      PROVE  AsStream(Append(q, e))[k] = IF k = Len(q) + 1 THEN f ELSE AsStream(q)[k]
  <2> DEFINE r == Append(q, e)
  <2>1. r \in Seq(E!Events) /\ k \in DOMAIN r /\ (k # Len(q) + 1 => k \in DOMAIN q)
    BY <1>1
  <2>2. r[k] = IF k = Len(q) + 1 THEN e ELSE q[k]
    BY <1>1
  <2> HIDE DEF r
  <2>3. AsStream(r)[k] = [kind |-> r[k].kind, from |-> IF r[k].kind = "ReportStatus" THEN Loop ELSE None]
    BY <2>1, StreamElements
  <2>4. k # Len(q) + 1 => AsStream(q)[k] =
            [kind |-> q[k].kind, from |-> IF q[k].kind = "ReportStatus" THEN Loop ELSE None]
    BY <2>1, StreamElements
  <2>5. AsStream(r)[k] = IF k = Len(q) + 1 THEN f ELSE AsStream(q)[k]
    BY <2>2, <2>3, <2>4
  <2> QED BY <2>5 DEF r
<1> HIDE DEF T, f
<1>4. Append(AsStream(q), f) \in Seq(T) /\ Len(Append(AsStream(q), f)) = Len(q) + 1
        /\ \A k \in 1..(Len(q) + 1) :
              Append(AsStream(q), f)[k] = IF k = Len(q) + 1 THEN f ELSE AsStream(q)[k]
  BY <1>1, <1>2
<1>5. AsStream(Append(q, e)) = Append(AsStream(q), f)
  BY <1>1, <1>2, <1>3, <1>4, SeqEqual
<1> QED BY <1>5 DEF f

LEMMA EmptyStream == AsStream(<<>>) = <<>>
<1>1. <<>> \in Seq(E!Events)
  OBVIOUS
<1>2. Len(AsStream(<<>>)) = 0 /\ AsStream(<<>>) \in Seq([kind : E!Requests, from : {Loop, None}])
  BY <1>1, StreamElements
<1> QED BY <1>2, EmptySeq

LEMMA InitIsAdapter == ExampleInit => A!Init
<1> SUFFICES ASSUME ExampleInit PROVE A!Init
  OBVIOUS
<1>1. \A i \in E!Ids : ~OfRoutine(i) /\ ~(i < nextId)
  BY Setting, ExampleAssumption DEF ExampleInit, Init, E!Init, OfRoutine
<1>2. /\ futureOf = [i \in E!Ids |-> "none"]
      /\ resultOf = [i \in E!Ids |-> None]
      /\ streamOf = [i \in E!Ids |-> FALSE]
      /\ eventsOf = [i \in E!Ids |-> <<>>]
      /\ statusOf = [i \in E!Ids |-> "Running"]
  <2>1. futureOf = [i \in E!Ids |-> "none"]
    BY <1>1 DEF futureOf
  <2>2. resultOf = [i \in E!Ids |-> None] /\ streamOf = [i \in E!Ids |-> FALSE]
    <3>1. \A i \in E!Ids : OfRoutine(i) = FALSE
      BY <1>1 DEF OfRoutine
    <3>2. streamOf = [i \in E!Ids |-> FALSE]
      BY <3>1, Zenon DEF streamOf
    <3> QED BY <1>1, <3>2 DEF resultOf
  <2>3. eventsOf = [i \in E!Ids |-> <<>>] /\ statusOf = [i \in E!Ids |-> "Running"]
    BY <1>1 DEF eventsOf, statusOf
  <2> QED BY <2>1, <2>2, <2>3
<1>3. /\ activeExecId = None /\ report = A!Idle
      /\ lastKind = [i \in E!Ids |-> "Resume"]
  BY DEF ExampleInit
<1> QED BY <1>2, <1>3, AdapterNames DEF A!Init

\* What the adapter sees of the executions does not change.
LEMMA UnseenByAdapter ==
    ASSUME \A i \in E!Ids :
              /\ OfRoutine(i)' <=> OfRoutine(i)
              /\ futureOf'[i] = futureOf[i]
              /\ OfRoutine(i) => /\ outcome'[i] = outcome[i] /\ queue'[i] = queue[i]
                                /\ opStatus'[i] = opStatus[i],
           UNCHANGED <<activeExecId, lastKind, report>>
    PROVE  UNCHANGED A!vars
<1>1. futureOf' = futureOf
  BY DEF futureOf
<1>2. resultOf' = resultOf /\ streamOf' = streamOf /\ statusOf' = statusOf
  <2>1. \A i \in E!Ids : OfRoutine(i)' = OfRoutine(i)
    BY DEF OfRoutine
  <2>2. streamOf' = streamOf
    BY <2>1, Zenon DEF streamOf
  <2>3. resultOf' = resultOf
    BY DEF resultOf
  <2>4. statusOf' = statusOf
    BY DEF statusOf
  <2> QED BY <2>2, <2>3, <2>4
<1>3. eventsOf' = eventsOf
  BY DEF eventsOf
<1> QED BY <1>1, <1>2, <1>3 DEF A!vars, A!dataVars, A!loopVars

\* What the adapter sees of one execution.
LEMMA SeenByAdapter ==
    ASSUME NEW i \in E!Ids
    PROVE  /\ futureOf[i] = IF OfRoutine(i)
                            THEN IF task[i] = "running" THEN "pending"
                                 ELSE IF outcome[i] = "timeout" THEN "dropped" ELSE "done"
                            ELSE IF i < nextId /\ opOf[i] = None THEN "refused" ELSE "none"
           /\ resultOf[i] = IF ~OfRoutine(i) \/ outcome[i] = "timeout" THEN None ELSE outcome[i]
           /\ statusOf[i] = IF OfRoutine(i) THEN opStatus[i] ELSE "Running"
           /\ eventsOf[i] = IF OfRoutine(i) THEN AsStream(queue[i]) ELSE <<>>
           /\ OfRoutine(i) => streamOf[i] = TRUE
<1>1. OfRoutine(i) => OfRoutine(i) = TRUE
  BY DEF OfRoutine
<1>2. streamOf[i] = OfRoutine(i)
  BY Zenon DEF streamOf
<1>3. OfRoutine(i) => streamOf[i] = TRUE
  BY <1>1, <1>2, Zenon
<1> QED BY <1>3 DEF futureOf, resultOf, statusOf, eventsOf

\* A step that changes one execution, as the adapter sees it.
LEMMA SeenOneChange ==
    ASSUME NEW i \in E!Ids,
           \A j \in E!Ids : j # i =>
              /\ opOf'[j] = opOf[j] /\ task'[j] = task[j] /\ outcome'[j] = outcome[j]
              /\ queue'[j] = queue[j] /\ opStatus'[j] = opStatus[j]
              /\ j < nextId' <=> j < nextId
    PROVE  /\ futureOf' = [futureOf EXCEPT ![i] = futureOf'[i]]
           /\ resultOf' = [resultOf EXCEPT ![i] = resultOf'[i]]
           /\ statusOf' = [statusOf EXCEPT ![i] = statusOf'[i]]
           /\ eventsOf' = [eventsOf EXCEPT ![i] = eventsOf'[i]]
           /\ streamOf' = [streamOf EXCEPT ![i] = streamOf'[i]]
<1>1. futureOf' = [futureOf EXCEPT ![i] = futureOf'[i]]
  BY DEF futureOf, OfRoutine
<1>2. resultOf' = [resultOf EXCEPT ![i] = resultOf'[i]]
  BY DEF resultOf, OfRoutine
<1>3. statusOf' = [statusOf EXCEPT ![i] = statusOf'[i]]
  BY DEF statusOf, OfRoutine
<1>4. eventsOf' = [eventsOf EXCEPT ![i] = eventsOf'[i]]
  BY DEF eventsOf, OfRoutine
<1>5. streamOf' = [streamOf EXCEPT ![i] = streamOf'[i]]
  BY DEF streamOf, OfRoutine
<1> QED BY <1>1, <1>2, <1>3, <1>4, <1>5

LEMMA RefusedAsAdapter ==
    ASSUME ExampleInv, E!IInv, Refused
    PROVE  A!ExecuteRefused(nextId)
<1>0. PICK n \in E!Ids : n = nextId
  BY DEF Refused
<1>1. /\ n \in Nat /\ activeExecId # None
      /\ nextId' = n + 1 /\ opOf[n] = None
      /\ UNCHANGED <<opOf, task, outcome, queue, opStatus, lastKind, report, activeExecId>>
  BY <1>0, EntityFacts DEF Refused, operationVars, ExampleInv, StartedInv
<1>2. ~OfRoutine(n) /\ ~OfRoutine(n)'
  BY <1>1, Setting, ExampleAssumption DEF OfRoutine
<1>3. futureOf[n] = "none" /\ futureOf'[n] = "refused"
  <2>1. n < nextId' /\ ~(n < nextId)
    BY <1>0, <1>1
  <2> QED BY <1>1, <1>2, <2>1 DEF futureOf
<1>4. futureOf' = [futureOf EXCEPT ![n] = "refused"]
  <2>1. \A j \in E!Ids : j # n => (j < nextId' <=> j < nextId)
    BY <1>0, <1>1
  <2>2. futureOf' = [futureOf EXCEPT ![n] = futureOf'[n]]
    BY <1>1, <2>1, SeenOneChange
  <2> QED BY <1>3, <2>2
<1>5. UNCHANGED <<resultOf, streamOf, eventsOf, statusOf>>
  BY <1>1 DEF resultOf, streamOf, eventsOf, statusOf, OfRoutine
<1> QED BY <1>0, <1>1, <1>3, <1>4, <1>5 DEF A!ExecuteRefused, A!Refuses, A!dataVars, A!loopVars

LEMMA StartsAsAdapter ==
    ASSUME ExampleInv, E!IInv, NEW op \in Ops, Starts(op)
    PROVE  IF op = RoutineOp THEN A!Execute(nextId) ELSE UNCHANGED A!vars
<1>0. PICK n \in E!Ids : n = nextId
  BY DEF Starts
<1>1. /\ n \in Nat /\ nextId' = n + 1
      /\ task[n] = "none" /\ opOf[n] = None /\ outcome[n] = None /\ queue[n] = <<>> /\ opStatus[n] = "Running"
      /\ opOf'[n] = op /\ task'[n] = "running" /\ queue' = queue /\ outcome' = outcome
      /\ UNCHANGED <<lastKind, report>>
      /\ op # None
  BY <1>0, EntityFacts, Setting DEF Starts, ExampleInv, StartedInv
<1>2. \A j \in E!Ids : j # n =>
              /\ opOf'[j] = opOf[j] /\ task'[j] = task[j] /\ outcome'[j] = outcome[j]
              /\ queue'[j] = queue[j] /\ opStatus'[j] = opStatus[j]
              /\ j < nextId' <=> j < nextId
  <2>1. \A j \in E!Ids : j # n => opOf'[j] = opOf[j] /\ task'[j] = task[j] /\ opStatus'[j] = opStatus[j]
    BY <1>0, EntityFacts DEF Starts, ExampleInv, ExampleTypes
  <2>2. \A j \in E!Ids : j # n => (j < nextId' <=> j < nextId)
    BY <1>0, <1>1
  <2> QED BY <1>1, <2>1, <2>2
<1>3. ~OfRoutine(n) /\ (OfRoutine(n)' <=> op = RoutineOp)
  BY <1>1, Setting, ExampleAssumption DEF OfRoutine
<1>4. futureOf[n] = "none" /\ futureOf'[n] = IF op = RoutineOp THEN "pending" ELSE "none"
  BY <1>0, <1>1, <1>3 DEF futureOf
<1>5. CASE op # RoutineOp
  <2>1. UNCHANGED activeExecId
    BY <1>5 DEF Starts
  <2>2. \A j \in E!Ids : j # n => futureOf'[j] = futureOf[j] /\ (OfRoutine(j)' <=> OfRoutine(j))
    BY <1>2 DEF futureOf, OfRoutine
  <2> QED BY <1>1, <1>2, <1>3, <1>4, <1>5, <2>1, <2>2, UnseenByAdapter
<1>6. CASE op = RoutineOp
  <2>1. activeExecId = None /\ activeExecId' = nextId /\ UNCHANGED opStatus
    BY <1>6, ExampleAssumption DEF Starts
  <2>2. resultOf'[n] = None /\ resultOf[n] = None
    BY <1>1, <1>3 DEF resultOf
  <2>3. eventsOf'[n] = <<>> /\ eventsOf[n] = <<>>
    BY <1>1, <1>3, <1>6, EmptyStream DEF eventsOf
  <2>4. statusOf'[n] = "Running" /\ statusOf[n] = "Running"
    BY <1>1, <1>3, <2>1 DEF statusOf
  <2>5. streamOf'[n] = TRUE
    <3>1. OfRoutine(n)' = TRUE
      BY <1>1, <1>6 DEF OfRoutine
    <3>2. streamOf'[n] = OfRoutine(n)'
      BY Zenon DEF streamOf
    <3> QED BY <3>1, <3>2, Zenon
  <2>6. /\ futureOf' = [futureOf EXCEPT ![n] = futureOf'[n]]
        /\ resultOf' = [resultOf EXCEPT ![n] = resultOf'[n]]
        /\ statusOf' = [statusOf EXCEPT ![n] = statusOf'[n]]
        /\ eventsOf' = [eventsOf EXCEPT ![n] = eventsOf'[n]]
        /\ streamOf' = [streamOf EXCEPT ![n] = streamOf'[n]]
    BY <1>2, SeenOneChange
  <2>7. futureOf' = [futureOf EXCEPT ![n] = "pending"] /\ streamOf' = [streamOf EXCEPT ![n] = TRUE]
    BY <1>4, <1>6, <2>5, <2>6
  <2>8. UNCHANGED <<resultOf, statusOf, eventsOf>>
    <3>1. /\ resultOf = [resultOf EXCEPT ![n] = resultOf[n]]
          /\ statusOf = [statusOf EXCEPT ![n] = statusOf[n]]
          /\ eventsOf = [eventsOf EXCEPT ![n] = eventsOf[n]]
      BY DEF resultOf, statusOf, eventsOf
    <3> QED BY <2>2, <2>3, <2>4, <2>6, <3>1
  <2>9. A!Execute(n)
    BY <1>0, <1>1, <1>4, <2>1, <2>7, <2>8 DEF A!Execute, A!TakesTurn, A!loopVars
  <2> QED BY <1>0, <1>6, <2>9
<1> QED BY <1>5, <1>6

LEMMA AskingAsAdapter ==
    ASSUME ExampleInv, E!IInv, Asking
    PROVE  \/ UNCHANGED A!vars
           \/ \E i \in E!Ids : A!SendWithReporter(Loop, i, "ReportStatus")
                               \/ \E kind \in A!Kinds : A!Send(i, kind)
<1>0. PICK c \in E!Ids : c = cur[Loop]
  BY DEF Asking
<1> DEFINE e == [kind |-> want[Loop], from |-> Loop]
<1>1. /\ rxOpen[c] /\ task[c] = "running" /\ pc[Loop] = "send"
      /\ Len(queue[c]) < QueueCap
      /\ queue' = [queue EXCEPT ![c] = Append(queue[c], e)]
      /\ UNCHANGED <<nextId, opOf, task, outcome, activeExecId, opStatus, lastKind>>
      /\ report' = IF want[Loop] = "ReportStatus" /\ OfRoutine(c) THEN A!Waiting ELSE report
  BY <1>0, EntityFacts DEF Asking, E!SendEvent, E!tableVars
<1>2. want[Loop] \in E!Requests /\ want[Loop] \in A!Kinds
  BY <1>0, <1>1, AdapterNames DEF E!IInv, E!CallersAreBusy
<1>3. e \in E!Events /\ e.kind = want[Loop]
  BY <1>2 DEF E!Events
<1>4. queue[c] \in Seq(E!Events)
  BY EntityFacts
<1> HIDE DEF e
<1>5. queue'[c] = Append(queue[c], e) /\ \A j \in E!Ids : j # c => queue'[j] = queue[j]
  BY <1>1, EntityFacts
<1>6. CASE ~OfRoutine(c)
  <2>1. report' = report
    BY <1>1, <1>6
  <2>2. \A j \in E!Ids : futureOf'[j] = futureOf[j] /\ (OfRoutine(j)' <=> OfRoutine(j))
    BY <1>1 DEF futureOf, OfRoutine
  <2> QED BY <1>1, <1>5, <1>6, <2>1, <2>2, UnseenByAdapter
<1>7. CASE OfRoutine(c)
  <2> DEFINE from == IF want[Loop] = "ReportStatus" THEN Loop ELSE None
  <2>1. futureOf[c] = "pending" /\ streamOf[c] = TRUE /\ eventsOf[c] = AsStream(queue[c])
    BY <1>1, <1>7, SeenByAdapter
  <2>2. UNCHANGED <<futureOf, resultOf, streamOf, statusOf>>
    BY <1>1 DEF futureOf, resultOf, streamOf, statusOf, OfRoutine
  <2>3. OfRoutine(c)'
    BY <1>1, <1>7 DEF OfRoutine
  <2>4. eventsOf'[c] = Append(eventsOf[c], [kind |-> want[Loop], from |-> from])
    <3>1. eventsOf'[c] = AsStream(queue'[c])
      BY <2>3 DEF eventsOf
    <3> QED BY <1>3, <1>4, <1>5, <2>1, <3>1, StreamAppend
  <2> HIDE DEF from
  <2>5. eventsOf' = [eventsOf EXCEPT ![c] = Append(@, [kind |-> want[Loop], from |-> from])]
    <3>1. eventsOf' = [eventsOf EXCEPT ![c] = eventsOf'[c]]
      BY <1>1, <1>5, SeenOneChange
    <3>2. eventsOf' = [eventsOf EXCEPT ![c] = Append(eventsOf[c], [kind |-> want[Loop], from |-> from])]
      BY <2>4, <3>1
    <3> QED BY <3>2
  <2>6. Len(eventsOf[c]) < QueueCap
    BY <1>1, <1>4, <2>1, StreamElements
  <2>7. A!Enqueue(c, want[Loop], from)
    BY <1>1, <2>1, <2>2, <2>5, <2>6 DEF A!Enqueue, A!dataVars, A!loopVars
  <2>8. CASE want[Loop] = "ReportStatus"
    <3>1. from = Loop
      BY <2>8 DEF from
    <3>2. report # A!Waiting
      BY <1>1 DEF ExampleInv, ReporterInv, LoopAsks
    <3>3. report' = A!Waiting
      BY <1>1, <1>7, <2>8
    <3>4. A!SendWithReporter(Loop, c, "ReportStatus")
      BY <2>7, <2>8, <3>1, <3>2, <3>3 DEF A!SendWithReporter
    <3> QED BY <3>4
  <2>9. CASE want[Loop] # "ReportStatus"
    <3>1. from = None
      BY <2>9 DEF from
    <3>2. report' = report
      BY <1>1, <2>9
    <3>3. A!Send(c, want[Loop])
      BY <2>7, <3>1, <3>2 DEF A!Send
    <3> QED BY <1>2, <3>3
  <2> QED BY <2>8, <2>9
<1> QED BY <1>6, <1>7

\* The reporters in a stream.
LEMMA AdapterReporters ==
    ASSUME E!IInv, NEW i \in E!Ids, OfRoutine(i)
    PROVE  Loop \in A!Reporters(i) <=> Queued(i, "ReportStatus")
<1>1. eventsOf[i] = AsStream(queue[i]) /\ queue[i] \in Seq(E!Events)
  BY EntityFacts, SeenByAdapter
<1>2. DOMAIN eventsOf[i] = DOMAIN queue[i]
        /\ \A k \in DOMAIN queue[i] :
              eventsOf[i][k].from = IF queue[i][k].kind = "ReportStatus" THEN Loop ELSE None
  <2> DEFINE q == queue[i]
  <2>1. DOMAIN AsStream(q) = DOMAIN q
          /\ \A k \in DOMAIN q : AsStream(q)[k] =
                [kind |-> q[k].kind, from |-> IF q[k].kind = "ReportStatus" THEN Loop ELSE None]
    BY <1>1, StreamElements
  <2> HIDE DEF q
  <2>2. \A k \in DOMAIN q : AsStream(q)[k].from = IF q[k].kind = "ReportStatus" THEN Loop ELSE None
    BY <2>1
  <2> QED BY <1>1, <2>1, <2>2 DEF q
<1> QED BY <1>2, AdapterNames DEF A!Reporters, Queued

LEMMA EndsAsAdapter ==
    ASSUME ExampleInv, E!IInv, NEW i \in E!Ids, NEW o \in E!Outcomes, EndsAs(i, o)
    PROVE  A!OperationEnds(i) \/ A!DropFuture(i) \/ UNCHANGED A!vars
<1>1. /\ UNCHANGED <<nextId, opOf, activeExecId, opStatus, lastKind>>
      /\ report' = IF OfRoutine(i) /\ report = A!Waiting /\ Loop \in E!Reporters(i) THEN A!Dropped ELSE report
      /\ task[i] = "running"
  BY DEF EndsAs
<1>2. /\ task'[i] = "finished" /\ outcome'[i] = o /\ queue'[i] = <<>>
      /\ \A j \in E!Ids : j # i => /\ task'[j] = task[j] /\ outcome'[j] = outcome[j]
                                /\ queue'[j] = queue[j]
  BY EntityFacts DEF EndsAs, E!Ends, E!CloseControl
<1>3. OfRoutine(i)' <=> OfRoutine(i)
  BY <1>1 DEF OfRoutine
<1>4. CASE ~OfRoutine(i)
  <2>1. report' = report
    BY <1>1, <1>4
  <2>2. \A j \in E!Ids : futureOf'[j] = futureOf[j] /\ (OfRoutine(j)' <=> OfRoutine(j))
    BY <1>1, <1>2, <1>4 DEF futureOf, OfRoutine
  <2> QED BY <1>1, <1>2, <1>4, <2>1, <2>2, UnseenByAdapter
<1>5. CASE OfRoutine(i)
  <2> DEFINE how == IF o = "timeout" THEN "dropped" ELSE "done"
  <2> DEFINE value == IF o = "timeout" THEN None ELSE o
  <2>1. o \in {"ok", "timeout"}
    BY <1>5 DEF EndsAs
  <2>2. futureOf[i] = "pending"
    BY <1>1, <1>5, SeenByAdapter
  <2>3. futureOf'[i] = how /\ resultOf'[i] = value
    BY <1>2, <1>3, <1>5 DEF futureOf, resultOf
  <2>4. eventsOf'[i] = <<>>
    BY <1>2, <1>3, <1>5, EmptyStream DEF eventsOf
  <2>5. streamOf' = streamOf /\ statusOf' = statusOf
    BY <1>1 DEF streamOf, statusOf, OfRoutine
  <2>6. report' = IF Loop \in A!Reporters(i) THEN A!Dropped ELSE report
    <3>1. Queued(i, "ReportStatus") => report = A!Waiting
      BY <1>5 DEF ExampleInv, ReporterInv
    <3> QED BY <1>1, <1>5, <3>1, AdapterReporters, ReportersFacts
  <2>7. /\ futureOf' = [futureOf EXCEPT ![i] = futureOf'[i]]
        /\ resultOf' = [resultOf EXCEPT ![i] = resultOf'[i]]
        /\ eventsOf' = [eventsOf EXCEPT ![i] = eventsOf'[i]]
    BY <1>1, <1>2, SeenOneChange
  <2> HIDE DEF how, value
  <2>8. /\ futureOf' = [futureOf EXCEPT ![i] = how]
        /\ resultOf' = [resultOf EXCEPT ![i] = value]
        /\ eventsOf' = [eventsOf EXCEPT ![i] = <<>>]
    BY <2>3, <2>4, <2>7
  <2>9. [r \in {Loop} |-> report'] =
            [r \in {Loop} |-> IF r \in A!Reporters(i) THEN A!Dropped ELSE [q \in {Loop} |-> report][r]]
    BY <2>6
  <2>10. A!Gone(i, how, value)
    BY <1>1, <2>2, <2>5, <2>8, <2>9 DEF A!Gone, A!loopVars
  <2>11. CASE o = "ok"
    <3>1. A!OperationEnds(i)
      BY <2>10, <2>11 DEF A!OperationEnds, how, value
    <3> QED BY <3>1
  <2>12. CASE o = "timeout"
    <3>1. A!DropFuture(i)
      BY <2>10, <2>12 DEF A!DropFuture, how, value
    <3> QED BY <3>1
  <2> QED BY <2>1, <2>11, <2>12
<1> QED BY <1>4, <1>5

LEMMA TakesAsAdapter ==
    ASSUME ExampleInv, E!IInv, NEW i \in E!Ids, TakesOne(i)
    PROVE  \/ A!HandleReportStatus(i)
           \/ A!HandleStop(i, FALSE)
           \/ A!HandleUnsupported(i)
           \/ UNCHANGED A!vars
<1>0. OperationInv
  BY ExampleInvParts
<1>1. /\ UNCHANGED <<nextId, opOf, task, outcome, activeExecId>>
      /\ task[i] = "running" /\ queue[i] # <<>> /\ queue[i] \in Seq(E!Events)
      /\ queue'[i] = Tail(queue[i]) /\ \A j \in E!Ids : j # i => queue'[j] = queue[j]
  BY <1>0, TakesChanges, EntityFacts
<1>2. \A j \in E!Ids : j # i => opStatus'[j] = opStatus[j]
  BY <1>0, TakesChanges DEF OperationInv, OperationTypes
<1>3. OfRoutine(i)' <=> OfRoutine(i)
  BY <1>1 DEF OfRoutine
<1>4. CASE ~OfRoutine(i)
  <2>1. UNCHANGED <<lastKind, report>>
    BY <1>0, <1>4, TakesChanges
  <2>2. \A j \in E!Ids : futureOf'[j] = futureOf[j] /\ (OfRoutine(j)' <=> OfRoutine(j))
    BY <1>1 DEF futureOf, OfRoutine
  <2> QED BY <1>1, <1>2, <1>4, <2>1, <2>2, UnseenByAdapter
<1>5. CASE OfRoutine(i)
  <2> DEFINE from == IF Event(i) = "ReportStatus" THEN Loop ELSE None
  <2>1. futureOf[i] = "pending" /\ eventsOf[i] = AsStream(queue[i]) /\ statusOf[i] = opStatus[i]
    BY <1>1, <1>5, SeenByAdapter
  <2>2. UNCHANGED <<futureOf, resultOf, streamOf>>
    BY <1>1 DEF futureOf, resultOf, streamOf, OfRoutine
  <2>3. eventsOf[i] # <<>> /\ Head(eventsOf[i]) = [kind |-> Event(i), from |-> from]
    BY <1>1, <2>1, StreamHead DEF Event
  <2>4. eventsOf' = [eventsOf EXCEPT ![i] = Tail(@)]
    <3>1. eventsOf'[i] = Tail(eventsOf[i])
      BY <1>1, <1>3, <1>5, <2>1, StreamTail DEF eventsOf
    <3>2. eventsOf' = [eventsOf EXCEPT ![i] = eventsOf'[i]]
      BY <1>1, <1>2, SeenOneChange
    <3> QED BY <3>1, <3>2
  <2>5. statusOf' = [statusOf EXCEPT ![i] = opStatus'[i]]
    <3>1. statusOf'[i] = opStatus'[i]
      BY <1>3, <1>5 DEF statusOf
    <3>2. statusOf' = [statusOf EXCEPT ![i] = statusOf'[i]]
      BY <1>1, <1>2, SeenOneChange
    <3> QED BY <3>1, <3>2
  <2>6. opStatus \in [E!Ids -> Statuses]
    BY <1>0 DEF OperationInv, OperationTypes
  <2>7. statusOf = [statusOf EXCEPT ![i] = statusOf[i]]
    BY DEF statusOf
  <2> DEFINE answered(x) ==
        [r \in {Loop} |-> report'] =
            [r \in {Loop} |-> IF r = Head(eventsOf[i]).from THEN x ELSE [q \in {Loop} |-> report][r]]
  <2>8. ASSUME NEW x, report' = IF from = Loop THEN x ELSE report
        PROVE  A!Answer(i, x)
    <3>1. answered(x)
      BY <2>3, <2>8
    <3> QED BY <3>1 DEF A!Answer
  <2> HIDE DEF from, answered
  <2>9. CASE /\ Event(i) = "ReportStatus"
             /\ report' = A!Report(opStatus[i], lastKind[i], FALSE, FALSE)
             /\ UNCHANGED <<opStatus, lastKind, notified>>
    <3>1. A!TakesEvent(i, {"ReportStatus"})
      BY <2>1, <2>3, <2>4, <2>9 DEF A!TakesEvent
    <3>2. A!Answer(i, A!Report(statusOf[i], lastKind[i], FALSE, FALSE))
      BY <2>1, <2>8, <2>9 DEF from
    <3>3. UNCHANGED statusOf
      BY <2>1, <2>5, <2>7, <2>9
    <3>4. [j \in E!Ids |-> FALSE][i] = FALSE
      OBVIOUS
    <3>5. A!HandleReportStatus(i)
      BY <1>1, <2>2, <2>9, <3>1, <3>2, <3>3, <3>4 DEF A!HandleReportStatus, A!dataVars, A!loopVars
    <3> QED BY <3>5
  <2>10. CASE /\ Event(i) = "Stop"
              /\ opStatus' = [opStatus EXCEPT ![i] = "Stopped"]
              /\ lastKind' = [lastKind EXCEPT ![i] = "Stop"]
              /\ UNCHANGED report
    <3>1. A!TakesEvent(i, {"Stop"})
      BY <2>1, <2>3, <2>4, <2>10 DEF A!TakesEvent
    <3>2. A!Answer(i, A!Dropped)
      BY <2>8, <2>10, AdapterNames DEF from
    <3>3. statusOf' = [statusOf EXCEPT ![i] = "Stopped"]
      BY <2>5, <2>6, <2>10
    <3>4. A!HandleStop(i, FALSE)
      BY <1>1, <2>2, <2>10, <3>1, <3>2, <3>3 DEF A!HandleStop, A!dataVars
    <3> QED BY <3>4
  <2>11. CASE /\ Event(i) \in CustomCapabilities
              /\ opStatus' = [opStatus EXCEPT ![i] = Event(i)]
              /\ lastKind' = [lastKind EXCEPT ![i] = Event(i)]
              /\ UNCHANGED <<notified, report>>
    <3>1. A!TakesEvent(i, UnsupportedKinds)
      BY <2>1, <2>3, <2>4, <2>11 DEF A!TakesEvent, UnsupportedKinds
    <3>0. Event(i) # "ReportStatus"
      BY <2>11, ExampleAssumption
    <3>2. A!Answer(i, A!Dropped)
      BY <2>8, <2>11, <3>0, AdapterNames DEF from
    <3>3. statusOf' = [statusOf EXCEPT ![i] = Event(i)]
      BY <2>5, <2>6, <2>11
    <3>4. Head(eventsOf[i]).kind = Event(i)
      BY <2>3
    <3>5. A!HandleUnsupported(i)
      BY <1>1, <2>2, <2>11, <3>1, <3>2, <3>3, <3>4 DEF A!HandleUnsupported, A!dataVars
    <3> QED BY <3>5
  <2> QED BY <1>0, <1>5, <2>9, <2>10, <2>11, TakesChanges
<1> QED BY <1>4, <1>5

LEMMA QuietAsAdapter ==
    ASSUME Rests \/ LoopMoves
    PROVE  UNCHANGED A!vars
<1>1. UNCHANGED <<nextId, opOf, task, outcome, queue, operationVars>>
  BY DEF Rests, LoopMoves
<1>2. \A j \in E!Ids : futureOf'[j] = futureOf[j] /\ (OfRoutine(j)' <=> OfRoutine(j))
  BY <1>1 DEF futureOf, OfRoutine
<1> QED BY <1>1, <1>2, UnseenByAdapter DEF operationVars

LEMMA StepIsAdapter ==
    ASSUME Joint, [ExampleNext]_exampleVars
    PROVE  [A!Next]_(A!vars)
<1>0. ExampleInv /\ E!IInv /\ Effect
  BY StepEffect DEF Joint
<1> USE AdapterNames
<1>1. CASE Rests \/ LoopMoves
  BY <1>1, QuietAsAdapter
<1>2. CASE Refused
  <2>1. A!ExecuteRefused(nextId) /\ nextId \in A!Execs
    BY <1>0, <1>2, RefusedAsAdapter DEF Refused
  <2> QED BY <2>1 DEF A!Next
<1>3. ASSUME NEW op \in Ops, Starts(op)
      PROVE  [A!Next]_(A!vars)
  <2>1. (A!Execute(nextId) \/ UNCHANGED A!vars) /\ nextId \in A!Execs
    BY <1>0, <1>3, StartsAsAdapter DEF Starts
  <2> QED BY <2>1 DEF A!Next
<1>4. CASE Asking
  <2>1. "ReportStatus" \in A!Kinds
    BY DEF A!Kinds
  <2>2. \/ UNCHANGED A!vars
        \/ \E i \in A!Execs : A!SendWithReporter(Loop, i, "ReportStatus")
                               \/ \E kind \in A!Kinds : A!Send(i, kind)
    BY <1>0, <1>4, AskingAsAdapter
  <2> QED BY <2>1, <2>2 DEF A!Next
<1>5. ASSUME NEW i \in E!Ids, NEW o \in E!Outcomes, EndsAs(i, o)
      PROVE  [A!Next]_(A!vars)
  <2>1. (A!OperationEnds(i) \/ A!DropFuture(i) \/ UNCHANGED A!vars) /\ i \in A!Execs
    BY <1>0, <1>5, EndsAsAdapter
  <2> QED BY <2>1 DEF A!Next, A!FutureStep
<1>6. ASSUME NEW i \in E!Ids, TakesOne(i)
      PROVE  [A!Next]_(A!vars)
  <2>1. \/ A!HandleReportStatus(i) \/ A!HandleStop(i, FALSE) \/ A!HandleUnsupported(i)
        \/ UNCHANGED A!vars
    BY <1>0, <1>6, TakesAsAdapter
  <2>2. i \in A!Execs /\ FALSE \in BOOLEAN
    OBVIOUS
  <2> QED BY <2>1, <2>2 DEF A!Next, A!FutureStep, A!LoopStep
<1> QED BY <1>0, <1>1, <1>2, <1>3, <1>4, <1>5, <1>6 DEF Effect

\* What happens to the routine's executions in the stack happens to those of a
\* SimpleOperationAdapter that is used the way the runtime uses it.
THEOREM AdapterImplemented == ExampleSpec => AdapterIsUsed
BY JointHolds, InitIsAdapter, StepIsAdapter, PTL DEF ExampleSpec, AdapterIsUsed, A!Spec
=============================================================================
