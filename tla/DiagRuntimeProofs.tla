--------------------------- MODULE DiagRuntimeProofs ---------------------------
(***************************************************************************)
(* Theorems about DiagRuntime, for every number of clients, threads,       *)
(* operations and executions and every capacity.                           *)
(***************************************************************************)
EXTENDS DiagRuntime, SequenceFacts, TLAPS

USE DEF entityVars, E!vars, E!tableVars, E!futureVars, E!callerVars

-----------------------------------------------------------------------------
(* The runtime calls the entity as its callers do. *)

MessageType == message \in [Clients -> Messages \cup {NoMessage}]

LEMMA MessageTypeStep ==
    ASSUME MessageType, [Next]_vars
    PROVE  MessageType'
<1>1. ASSUME NEW c \in Clients, NEW m \in Messages, Send(c, m)
      PROVE  MessageType'
  BY <1>1 DEF MessageType, Send
<1>2. ASSUME NEW c \in Clients, DeliverFails(c) \/ TakeAnswer(c)
      PROVE  MessageType'
  BY <1>2 DEF MessageType, DeliverFails, TakeAnswer
<1>3. ASSUME NEW c \in Clients, Deliver(c) \/ GiveUp(c) \/ LoopReceives(c) \/ LoopAnswersOther(c) \/ LoopPanics(c)
      PROVE  MessageType'
  BY <1>3 DEF MessageType, Deliver, GiveUp, LoopReceives, LoopAnswersOther, LoopPanics, clientVars
<1>4. ASSUME NEW i \in E!Ids, Execution(i)
      PROVE  MessageType'
  BY <1>4 DEF MessageType, Execution, LoopUnwinds, clientVars
<1>7. ASSUME NEW t \in Threads, DirectCall(t)
      PROVE  MessageType'
  BY <1>7 DEF MessageType, DirectCall, runtimeVars, clientVars
<1>8. CASE LoopContinues \/ LoopEnds
  BY <1>8 DEF MessageType, LoopContinues, LoopEnds, clientVars
<1>5. CASE Run \/ Shutdown \/ GetEntityWaits \/ GetEntityProceeds \/ GetEntityPanics
  BY <1>5 DEF MessageType, Run, Shutdown, GetEntityWaits, GetEntityProceeds, GetEntityPanics, clientVars
<1>6. CASE UNCHANGED vars
  BY <1>6 DEF MessageType, vars, runtimeVars, clientVars
<1>9. ASSUME NEW c \in Clients, ClientStep(c)
      PROVE  MessageType'
  BY <1>1, <1>2, <1>3, <1>9 DEF ClientStep
<1> QED BY <1>4, <1>5, <1>6, <1>7, <1>8, <1>9 DEF Next

\* The kinds of messages are told apart, whatever the custom capabilities are.
LEMMA OtherKinds ==
    \A kind \in {"Execute", "GetResult", "Remove", "ListOperations", "Other", "none"} :
        kind \notin E!Requests
BY RuntimeAssumption DEF E!Requests

\* What the handler does between two waits is a step of the entity's caller.
LEMMA HandleIsCallerStep ==
    ASSUME NEW m \in Messages \cup {NoMessage}, Handle(m)
    PROVE  E!CallerStep(Loop)
<1>1. m.kind = "Execute" => m.op \in Ops
  BY OtherKinds DEF Messages, NoMessage
<1>2. m.kind \in E!Requests \cup {"GetResult", "Remove"} => m.exec \in E!Ids
  BY OtherKinds DEF Messages, NoMessage
<1> QED BY <1>1, <1>2 DEF Handle, E!CallerStep

LEMMA StepCallsEntity ==
    ASSUME MessageType, [Next]_vars
    PROVE  [E!Next]_(E!vars)
<1>1. E!CallerStep(Loop) => E!Next
  BY DEF E!Next
<1>2. ASSUME NEW c \in Clients, LoopReceives(c)
      PROVE  E!Next
  <2>1. message[c] \in Messages \cup {NoMessage} /\ Handle(message[c])
    BY <1>2 DEF LoopReceives, MessageType
  <2> QED BY <1>1, <2>1, HandleIsCallerStep
<1>3. ASSUME NEW c \in Clients, LoopPanics(c)
      PROVE  E!Next \/ UNCHANGED entityVars
  <2>1. message[c] \in Messages \cup {NoMessage}
    BY DEF MessageType
  <2> QED BY <1>1, <1>3, <2>1, HandleIsCallerStep DEF LoopPanics
<1>4. ASSUME NEW c \in Clients, NEW m \in Messages, Send(c, m)
      PROVE  UNCHANGED entityVars
  BY <1>4 DEF Send
<1>5. ASSUME NEW i \in E!Ids, Execution(i)
      PROVE  E!Next
  BY <1>5 DEF Execution, E!Next
<1>6. ASSUME NEW t \in Threads, DirectCall(t)
      PROVE  E!Next
  BY <1>6 DEF DirectCall, E!Next
<1>7. CASE LoopContinues
  BY <1>1, <1>7 DEF LoopContinues, E!CallerStep
<1>8. CASE LoopEnds
  BY <1>1, <1>8 DEF LoopEnds, E!CallerStep
<1>9. CASE Run \/ Shutdown \/ GetEntityWaits \/ GetEntityProceeds \/ GetEntityPanics
  BY <1>9 DEF Run, Shutdown, GetEntityWaits, GetEntityProceeds, GetEntityPanics
<1>10. CASE UNCHANGED vars
  BY <1>10 DEF vars
<1>11. ASSUME NEW c \in Clients, Deliver(c) \/ DeliverFails(c) \/ TakeAnswer(c) \/ GiveUp(c) \/ LoopAnswersOther(c)
      PROVE  UNCHANGED entityVars
  BY <1>11 DEF Deliver, DeliverFails, TakeAnswer, GiveUp, LoopAnswersOther
<1> QED
  BY <1>2, <1>3, <1>4, <1>5, <1>6, <1>7, <1>8, <1>9, <1>10, <1>11 DEF Next, ClientStep

\* Whatever clients, threads, panics and shutdowns do, the entity only sees
\* calls in the order its model allows: the theorems about Entity hold for the
\* entity inside a runtime.
THEOREM CallsAreEntityCalls == Spec => CallsEntity
<1>1. Init => MessageType /\ E!Init
  BY DEF Init, MessageType
<1>2. MessageType /\ [Next]_vars => MessageType' /\ [E!Next]_(E!vars)
  BY MessageTypeStep, StepCallsEntity
<1> QED BY <1>1, <1>2, PTL DEF Spec, CallsEntity, E!Spec

-----------------------------------------------------------------------------
(* The theorems about Entity hold for the entity inside the runtime.       *)

EP == INSTANCE EntityProofs WITH Callers <- Threads \cup {Loop}

\* E and EP are the same instance of Entity, with and without its theorems.
LEMMA SameInit == E!Init => EP!Init
BY DEF E!Init, EP!Init, E!Ids, EP!Ids

LEMMA SameVars == E!vars = EP!vars
BY DEF E!vars, E!tableVars, E!futureVars, E!callerVars,
       EP!vars, EP!tableVars, EP!futureVars, EP!callerVars

LEMMA SameCallerStep == ASSUME NEW c, E!CallerStep(c) PROVE EP!CallerStep(c)
<1> USE DEF E!Ids, EP!Ids, E!Requests, EP!Requests, E!tableVars, EP!tableVars,
            E!futureVars, EP!futureVars, E!callerVars, EP!callerVars,
            E!Confirms, EP!Confirms, E!Refuses, EP!Refuses, E!Locks, EP!Locks
<1>1. E!MutexPoisoned(c) => EP!MutexPoisoned(c)
  BY DEF E!MutexPoisoned, EP!MutexPoisoned
<1>2. E!ListOperations(c) => EP!ListOperations(c)
  BY DEF E!ListOperations, EP!ListOperations
<1>3. E!StoreSyncResult(c) => EP!StoreSyncResult(c)
  BY DEF E!StoreSyncResult, EP!StoreSyncResult
<1>4. /\ E!SendFails(c) => EP!SendFails(c)
      /\ E!SendEvent(c) => EP!SendEvent(c)
      /\ E!ReceiveStatus(c) => EP!ReceiveStatus(c)
  BY DEF E!SendFails, EP!SendFails, E!SendEvent, EP!SendEvent,
         E!ReceiveStatus, EP!ReceiveStatus, E!Returns, EP!Returns
<1>5. E!CallerIsDropped(c) => EP!CallerIsDropped(c)
  BY DEF E!CallerIsDropped, EP!CallerIsDropped
<1>6. ASSUME NEW op
      PROVE  /\ E!ExecuteRefused(c, op) => EP!ExecuteRefused(c, op)
             /\ E!ExecuteFails(c, op) => EP!ExecuteFails(c, op)
             /\ E!ExecutePanics(c, op) => EP!ExecutePanics(c, op)
  BY DEF E!ExecuteRefused, EP!ExecuteRefused, E!ExecuteFails, EP!ExecuteFails,
         E!ExecutePanics, EP!ExecutePanics, E!MayExecute, EP!MayExecute, E!HasEntry, EP!HasEntry
<1>7. ASSUME NEW op, NEW t, NEW k
      PROVE  E!ExecuteStarts(c, op, t, k) => EP!ExecuteStarts(c, op, t, k)
  BY DEF E!ExecuteStarts, EP!ExecuteStarts, E!MayExecute, EP!MayExecute, E!HasEntry, EP!HasEntry
<1>8. ASSUME NEW i
      PROVE  /\ E!ExecutionNotFound(c, i) => EP!ExecutionNotFound(c, i)
             /\ E!RemoveRefused(c, i) => EP!RemoveRefused(c, i)
             /\ E!Remove(c, i) => EP!Remove(c, i)
             /\ E!ControlRefused(c, i) => EP!ControlRefused(c, i)
  BY DEF E!ExecutionNotFound, EP!ExecutionNotFound, E!RemoveRefused, EP!RemoveRefused,
         E!Remove, EP!Remove, E!ControlRefused, EP!ControlRefused, E!Resolvable, EP!Resolvable
<1>9. ASSUME NEW i PROVE E!GetResult(c, i) => EP!GetResult(c, i)
  BY DEF E!GetResult, EP!GetResult, E!TryResolve, EP!TryResolve, E!Resolvable, EP!Resolvable,
         E!MayBeTold, EP!MayBeTold
<1>10. ASSUME NEW i, NEW kind PROVE E!GetControl(c, i, kind) => EP!GetControl(c, i, kind)
  BY DEF E!GetControl, EP!GetControl
<1> QED BY <1>1, <1>2, <1>3, <1>4, <1>5, <1>6, <1>7, <1>8, <1>9, <1>10
        DEF E!CallerStep, EP!CallerStep

LEMMA SameFutureStep == ASSUME NEW i, E!FutureStep(i) PROVE EP!FutureStep(i)
<1> USE DEF E!Ids, EP!Ids, E!OpResults, EP!OpResults, E!Answers, EP!Answers,
            E!tableVars, EP!tableVars, E!futureVars, EP!futureVars,
            E!callerVars, EP!callerVars, E!Polled, EP!Polled,
            E!Blocked, EP!Blocked, E!WorkerIsLeft, EP!WorkerIsLeft, E!BlocksOn, EP!BlocksOn,
            E!Reporters, EP!Reporters, E!CloseControl, EP!CloseControl, E!Ends, EP!Ends
<1>1. ASSUME NEW a PROVE E!OpTakeEvent(i, a) => EP!OpTakeEvent(i, a)
  BY DEF E!OpTakeEvent, EP!OpTakeEvent
<1>2. E!OpDropsControl(i) => EP!OpDropsControl(i)
  BY DEF E!OpDropsControl, EP!OpDropsControl
<1>3. ASSUME NEW o PROVE E!OpCompletes(i, o) => EP!OpCompletes(i, o)
  BY DEF E!OpCompletes, EP!OpCompletes
<1>4. E!OpPanics(i) => EP!OpPanics(i)
  BY DEF E!OpPanics, EP!OpPanics
<1>5. E!TimeoutFires(i) => EP!TimeoutFires(i)
  BY DEF E!TimeoutFires, EP!TimeoutFires
<1> QED BY <1>1, <1>2, <1>3, <1>4, <1>5 DEF E!FutureStep, EP!FutureStep

LEMMA SameStep == [E!Next]_(E!vars) => [EP!Next]_(EP!vars)
<1>1. E!Next => EP!Next
  BY SameCallerStep, SameFutureStep DEF E!Next, EP!Next, E!Ids, EP!Ids
<1>2. UNCHANGED E!vars => UNCHANGED EP!vars
  BY SameVars DEF E!vars, E!tableVars, E!futureVars, E!callerVars,
       EP!vars, EP!tableVars, EP!futureVars, EP!callerVars
<1> QED BY <1>1, <1>2

LEMMA SameInvariant == EP!IInv <=> E!IInv
BY DEF E!IInv, EP!IInv, E!TypeOK, EP!TypeOK, E!IdsAreFresh, EP!IdsAreFresh,
       E!RunningIsListed, EP!RunningIsListed, E!ExclusiveIsListedOnce, EP!ExclusiveIsListedOnce,
       E!EndedHasOutcome, EP!EndedHasOutcome, E!ControlIsOwned, EP!ControlIsOwned,
       E!CallersAreBusy, EP!CallersAreBusy, E!TruthfulResult, EP!TruthfulResult,
       E!ToldResultIsOver, EP!ToldResultIsOver, E!WaiterHasAnswerer, EP!WaiterHasAnswerer,
       E!Ids, EP!Ids, E!OpResults, EP!OpResults, E!Outcomes, EP!Outcomes,
       E!Requests, EP!Requests, E!Events, EP!Events, E!Answers, EP!Answers,
       E!Replies, EP!Replies, E!Reporters, EP!Reporters, E!BlocksOn, EP!BlocksOn,
       E!MayBeTold, EP!MayBeTold

\* The invariant of the entity holds in the runtime.
THEOREM EntityInvariance == Spec => []E!IInv
<1>1. EP!Spec => []EP!IInv
  BY EP!Invariance, RuntimeAssumption DEF E!EntityAssumption, EP!EntityAssumption
<1>2. Spec => E!Spec
  BY CallsAreEntityCalls DEF CallsEntity
<1>3. E!Spec => EP!Spec
  BY SameInit, SameStep, PTL DEF E!Spec, EP!Spec
<1> QED BY <1>1, <1>2, <1>3, SameInvariant, PTL

\* No future of an execution is revived, and none changes what it ended with.
FuturesGoOn ==
    \A i \in E!Ids : task[i] = "finished" =>
        task'[i] = "finished" /\ outcome'[i] = outcome[i] /\ opOf'[i] = opOf[i]

LEMMA StepGoesOn ==
    ASSUME E!IInv, MessageType, [Next]_vars
    PROVE  FuturesGoOn
<1>1. EP!IInv /\ [EP!Next]_(EP!vars)
  BY SameInvariant, SameStep, StepCallsEntity
<1>2. EP!FuturesMoveOn
  BY <1>1, EP!OverIsOver, RuntimeAssumption DEF E!EntityAssumption, EP!EntityAssumption
<1> QED BY <1>2 DEF FuturesGoOn, EP!FuturesMoveOn, E!Ids, EP!Ids

-----------------------------------------------------------------------------
(* The inductive invariant. *)

\* The loop is at work on a request exactly when it is serving a client.
LoopInv ==
    /\ serving # None <=> pc[Loop] \in {"blocking", "send", "await"}
    /\ serving # None => receiver = "loop"
    /\ receiver # "gone" => pc[Loop] # "dead"

\* A request is in the mailbox or in hand, once, and not answered yet.
OwedInv ==
    /\ Once(mailbox) /\ ~In(mailbox, serving)
    /\ receiver = "gone" => mailbox = <<>>
    /\ \A c \in Clients : c = serving \/ In(mailbox, c) =>
          client[c] \in {"waiting", "gone"} /\ answer[c] = Pending

\* Nobody else waits, and only the end of the loop drops a oneshot.
AnswerInv ==
    \A c \in Clients :
        /\ client[c] \in {"idle", "sending"} => answer[c] = Pending
        /\ client[c] = "waiting" /\ answer[c] = Pending => c = serving \/ In(mailbox, c)
        /\ answer[c] = Dropped => receiver = "gone"

\* The result of an execution goes to who asked for it, after its end.
IsAskedFor(c) ==
    answer[c].kind = "result" =>
        /\ message[c].kind = "GetResult" /\ message[c].exec = answer[c].of
        /\ answer[c].value \in E!MayBeTold(answer[c].of)
        /\ task[answer[c].of] = "finished"

ResultInv == \A c \in Clients : IsAskedFor(c)

RuntimeTypes ==
    /\ inner \in {"free", "held", "poisoned"}
    /\ entitiesPoisoned \in BOOLEAN
    /\ receiver \in {"unclaimed", "loop", "gone"}
    /\ shutdownRequested \in BOOLEAN
    /\ mailbox \in Seq(Clients) /\ Len(mailbox) <= MailboxCap
    /\ serving \in Clients \cup {None}
    /\ client \in [Clients -> {"idle", "sending", "waiting", "panicked", "gone"}]
    /\ message \in [Clients -> Messages \cup {NoMessage}]
    /\ answer \in [Clients -> E!Replies \cup {Pending, Dropped}]

RuntimeInv ==
    /\ RuntimeTypes
    /\ LoopInv
    /\ OwedInv
    /\ AnswerInv
    /\ ResultInv
    /\ PanicHasCause

-----------------------------------------------------------------------------
(* The replies. *)

\* Replies can be told from what a oneshot is before and without a reply.
LEMMA ReplyKinds ==
    /\ \A r \in E!Replies :
          /\ r # Pending /\ r # Dropped
          /\ r.kind = "result" => r.of \in E!Ids
    /\ Pending # Dropped
    /\ Pending.kind # "result" /\ Dropped.kind # "result"
    /\ \A kind \in {"ok", "error"} :
          [kind |-> kind] \in E!Replies /\ [kind |-> kind].kind # "result"
<1>1. \A r \in E!Replies : r.kind \in {"ok", "error", "result"}
  BY DEF E!Replies
<1>2. \A r \in E!Replies : r.kind = "result" => r.of \in E!Ids
  BY DEF E!Replies
<1>3. Pending.kind = "pending" /\ Dropped.kind = "dropped"
  BY DEF Pending, Dropped
<1>4. \A kind \in {"ok", "error"} : [kind |-> kind] \in E!Replies /\ [kind |-> kind].kind # "result"
  BY DEF E!Replies
<1>5. \A r \in E!Replies : r # Pending /\ r # Dropped
  BY <1>1, <1>3
<1>6. Pending # Dropped /\ Pending.kind # "result" /\ Dropped.kind # "result"
  BY <1>3
<1> QED BY <1>2, <1>4, <1>5, <1>6

\* What a client was told stays true while its oneshot and message do.
LEMMA ToldStays ==
    ASSUME RuntimeInv, FuturesGoOn, NEW c \in Clients,
           answer'[c] = answer[c], message'[c] = message[c]
    PROVE  IsAskedFor(c)'
<1>1. answer[c].kind = "result" => answer[c].of \in E!Ids
  BY ReplyKinds DEF RuntimeInv, RuntimeTypes
<1> QED BY <1>1 DEF RuntimeInv, ResultInv, IsAskedFor, FuturesGoOn, E!MayBeTold

LEMMA InitRuntimeInv == Init => RuntimeInv
<1> SUFFICES ASSUME Init PROVE RuntimeInv
  OBVIOUS
<1>1. /\ mailbox = <<>> /\ serving = None /\ receiver = "unclaimed"
      /\ inner = "free" /\ entitiesPoisoned = FALSE /\ shutdownRequested = FALSE
      /\ client = [c \in Clients |-> "idle"] /\ message = [c \in Clients |-> NoMessage]
      /\ answer = [c \in Clients |-> Pending]
  BY DEF Init
<1>2. pc[Loop] = "idle"
  BY DEF Init, E!Init
<1>3. RuntimeTypes
  <2>1. mailbox \in Seq(Clients) /\ Len(mailbox) = 0 /\ 0 <= MailboxCap
    BY <1>1, RuntimeAssumption
  <2>2. /\ client \in [Clients -> {"idle", "sending", "waiting", "panicked", "gone"}]
        /\ message \in [Clients -> Messages \cup {NoMessage}]
        /\ answer \in [Clients -> E!Replies \cup {Pending, Dropped}]
    BY <1>1
  <2> QED BY <1>1, <2>1, <2>2 DEF RuntimeTypes
<1>4. OwedInv /\ AnswerInv
  BY <1>1, EmptyIn, ReplyKinds, RuntimeAssumption DEF OwedInv, AnswerInv
<1>5. LoopInv /\ PanicHasCause
  BY <1>1, <1>2 DEF LoopInv, PanicHasCause
<1>6. ResultInv
  BY <1>1, ReplyKinds DEF ResultInv, IsAskedFor
<1> QED BY <1>3, <1>4, <1>5, <1>6 DEF RuntimeInv

-----------------------------------------------------------------------------
(* What the handler does in the entity. *)

EntityTypes ==
    /\ pc \in [Threads \cup {Loop} -> {"idle", "blocking", "send", "await", "dead"}]
    /\ reply \in [Threads \cup {Loop} -> E!Replies]

LEMMA EntityTypesHold == E!IInv => EntityTypes
BY DEF E!IInv, E!TypeOK, EntityTypes

\* Only GetResult returns a result, of the execution it was asked about.
LEMMA HandleReply ==
    ASSUME EntityTypes, NEW m \in Messages \cup {NoMessage}, Handle(m),
           pc'[Loop] = "idle", reply'[Loop].kind = "result"
    PROVE  m.kind = "GetResult" /\ m.exec = reply'[Loop].of
<1>1. ~E!Confirms(Loop) /\ ~E!Refuses(Loop)
  BY ReplyKinds DEF EntityTypes, E!Confirms, E!Refuses
<1>2. ~E!ListOperations(Loop)
  BY <1>1 DEF EntityTypes, E!ListOperations
<1>3. ~E!MutexPoisoned(Loop)
  BY <1>1 DEF E!MutexPoisoned
<1>4. ASSUME NEW op
      PROVE  ~E!ExecuteRefused(Loop, op) /\ ~E!ExecuteFails(Loop, op) /\ ~E!ExecutePanics(Loop, op)
  BY <1>1 DEF EntityTypes, E!ExecuteRefused, E!ExecuteFails, E!ExecutePanics
<1>5. ASSUME NEW op, NEW withTimeout, NEW keepsControl
      PROVE  ~E!ExecuteStarts(Loop, op, withTimeout, keepsControl)
  BY <1>1 DEF EntityTypes, E!ExecuteStarts
<1>6. ASSUME NEW i
      PROVE  /\ ~E!ExecutionNotFound(Loop, i) /\ ~E!RemoveRefused(Loop, i)
             /\ ~E!Remove(Loop, i) /\ ~E!ControlRefused(Loop, i)
  BY <1>1 DEF E!ExecutionNotFound, E!RemoveRefused, E!Remove, E!ControlRefused
<1>7. ASSUME NEW i, NEW kind
      PROVE  ~E!GetControl(Loop, i, kind)
  BY DEF EntityTypes, E!GetControl
<1>8. m.kind = "GetResult" /\ E!GetResult(Loop, m.exec)
  BY <1>2, <1>3, <1>4, <1>5, <1>6, <1>7 DEF Handle
<1>9. reply'[Loop].of = m.exec
  BY <1>1, <1>8 DEF EntityTypes, E!GetResult
<1> QED BY <1>8, <1>9

LEMMA ContinueReply ==
    ASSUME EntityTypes, pc'[Loop] = "idle",
           \/ E!StoreSyncResult(Loop) \/ E!SendFails(Loop)
           \/ E!SendEvent(Loop) \/ E!ReceiveStatus(Loop)
    PROVE  reply'[Loop].kind # "result"
<1>1. E!Confirms(Loop) \/ E!Refuses(Loop) => reply'[Loop].kind # "result"
  BY ReplyKinds DEF EntityTypes, E!Confirms, E!Refuses
<1>2. CASE E!SendEvent(Loop)
  BY <1>1, <1>2 DEF EntityTypes, E!SendEvent
<1>3. CASE E!StoreSyncResult(Loop) \/ E!SendFails(Loop) \/ E!ReceiveStatus(Loop)
  BY <1>1, <1>3 DEF E!StoreSyncResult, E!SendFails, E!ReceiveStatus
<1> QED BY <1>2, <1>3

\* Threads leave the loop where it is; a panic below its block_on ends it.
LEMMA ThreadsLeaveLoop ==
    ASSUME EntityTypes, NEW t \in Threads, E!CallerStep(t)
    PROVE  pc'[Loop] = pc[Loop]
<1>1. t # Loop
  BY RuntimeAssumption
<1>2. \/ pc' = pc
      \/ \E p : pc' = [pc EXCEPT ![t] = p]
  BY DEF E!CallerStep, E!MutexPoisoned, E!ListOperations, E!StoreSyncResult, E!SendFails, E!SendEvent,
         E!ReceiveStatus, E!CallerIsDropped, E!ExecuteRefused, E!ExecuteFails, E!ExecutePanics,
         E!ExecuteStarts, E!ExecutionNotFound, E!GetResult, E!RemoveRefused, E!Remove,
         E!ControlRefused, E!GetControl, E!Returns
<1> QED BY <1>1, <1>2 DEF EntityTypes

LEMMA FuturesEndLoop ==
    ASSUME EntityTypes, NEW i \in E!Ids, E!FutureStep(i)
    PROVE  pc'[Loop] = pc[Loop] \/ pc'[Loop] = "dead"
<1>1. pc' = pc \/ E!OpPanics(i)
  BY DEF E!FutureStep, E!OpTakeEvent, E!OpDropsControl, E!OpCompletes, E!TimeoutFires, E!callerVars
<1> QED BY <1>1 DEF EntityTypes, E!OpPanics

-----------------------------------------------------------------------------
(* Steps that leave the loop and the clients alone. *)

LEMMA OthersKeepInv ==
    ASSUME RuntimeInv, FuturesGoOn, pc'[Loop] = pc[Loop],
           UNCHANGED <<receiver, mailbox, serving, client, message, answer>>,
           inner' \in {"free", "held", "poisoned"}, inner = "poisoned" => inner' = "poisoned",
           entitiesPoisoned' \in BOOLEAN, shutdownRequested' \in BOOLEAN
    PROVE  RuntimeInv'
<1>1. RuntimeTypes'
  BY DEF RuntimeInv, RuntimeTypes
<1>2. LoopInv' /\ PanicHasCause'
  BY DEF RuntimeInv, LoopInv, PanicHasCause
<1>3. OwedInv' /\ AnswerInv'
  BY DEF RuntimeInv, OwedInv, AnswerInv
<1>4. ResultInv'
  BY ToldStays DEF ResultInv
<1> QED BY <1>1, <1>2, <1>3, <1>4 DEF RuntimeInv

LEMMA RunKeepsInv ==
    ASSUME RuntimeInv, FuturesGoOn, Run
    PROVE  RuntimeInv'
<1>1. pc' = pc /\ UNCHANGED <<mailbox, serving, client, message, answer, entitiesPoisoned, shutdownRequested>>
  BY DEF Run, clientVars, entityVars
<1>2. CASE receiver = "unclaimed"
  <2>1. receiver' = "loop" /\ inner' = inner
    BY <1>2 DEF Run
  <2>2. RuntimeTypes' /\ LoopInv'
    BY <1>1, <1>2, <2>1 DEF RuntimeInv, RuntimeTypes, LoopInv
  <2>3. OwedInv' /\ AnswerInv' /\ PanicHasCause'
    BY <1>1, <1>2, <2>1 DEF RuntimeInv, OwedInv, AnswerInv, PanicHasCause
  <2>4. ResultInv'
    BY <1>1, ToldStays DEF ResultInv
  <2> QED BY <2>2, <2>3, <2>4 DEF RuntimeInv
<1>3. CASE receiver # "unclaimed"
  <2>1. inner' = "poisoned" /\ receiver' = receiver
    BY <1>3 DEF Run, Panics
  <2>2. entitiesPoisoned \in BOOLEAN /\ shutdownRequested \in BOOLEAN
    BY DEF RuntimeInv, RuntimeTypes
  <2> QED BY <1>1, <2>1, <2>2, OthersKeepInv
<1> QED BY <1>2, <1>3

LEMMA InnerKeepsInv ==
    ASSUME RuntimeInv, FuturesGoOn, Shutdown \/ GetEntityWaits \/ GetEntityProceeds \/ GetEntityPanics
    PROVE  RuntimeInv'
<1>1. pc' = pc /\ UNCHANGED <<receiver, mailbox, serving, client, message, answer, entitiesPoisoned>>
  BY DEF Shutdown, GetEntityWaits, GetEntityProceeds, GetEntityPanics, loopVars, clientVars, entityVars
<1>2. /\ inner # "poisoned" /\ inner' \in {"free", "held", "poisoned"}
      /\ shutdownRequested' \in BOOLEAN /\ entitiesPoisoned \in BOOLEAN
  BY DEF Shutdown, GetEntityWaits, GetEntityProceeds, GetEntityPanics, Panics, RuntimeInv, RuntimeTypes
<1> QED BY <1>1, <1>2, OthersKeepInv

-----------------------------------------------------------------------------
(* The steps of a client. *)

\* A step of client c moves no result, and no other client.
LEMMA ClientKeepsInv ==
    ASSUME RuntimeInv, FuturesGoOn, NEW c \in Clients, NEW state, NEW m, NEW a,
           pc' = pc, UNCHANGED <<inner, entitiesPoisoned, shutdownRequested, receiver, serving>>,
           client' = [client EXCEPT ![c] = state],
           message' = [message EXCEPT ![c] = m],
           answer' = [answer EXCEPT ![c] = a],
           state \in {"idle", "sending", "waiting", "panicked", "gone"},
           m \in Messages \cup {NoMessage},
           a = Pending \/ (a = answer[c] /\ m = message[c]),
           \/ mailbox' = mailbox /\ (c = serving \/ In(mailbox, c) => state \in {"waiting", "gone"})
           \/ /\ mailbox' = Append(mailbox, c) /\ Len(mailbox) < MailboxCap
              /\ receiver # "gone" /\ state = "waiting" /\ a = Pending
              /\ c # serving /\ ~In(mailbox, c),
           state \in {"idle", "sending"} => a = Pending,
           state = "waiting" => mailbox' = Append(mailbox, c),
           state = "panicked" => receiver = "gone" \/ inner = "poisoned"
    PROVE  RuntimeInv'
<1>1. /\ mailbox \in Seq(Clients) /\ Len(mailbox) <= MailboxCap /\ Len(mailbox) \in Nat /\ MailboxCap \in Nat
      /\ client \in [Clients -> {"idle", "sending", "waiting", "panicked", "gone"}]
      /\ message \in [Clients -> Messages \cup {NoMessage}]
      /\ answer \in [Clients -> E!Replies \cup {Pending, Dropped}]
  BY RuntimeAssumption DEF RuntimeInv, RuntimeTypes
<1>2. /\ client'[c] = state /\ message'[c] = m /\ answer'[c] = a
      /\ \A d \in Clients : d # c =>
            client'[d] = client[d] /\ message'[d] = message[d] /\ answer'[d] = answer[d]
  BY <1>1
<1>3. \/ mailbox' = mailbox
      \/ /\ mailbox' \in Seq(Clients) /\ Len(mailbox') <= MailboxCap
         /\ Once(mailbox')
         /\ receiver # "gone" /\ state = "waiting" /\ a = Pending
         /\ c # serving
         /\ \A d : In(mailbox', d) <=> In(mailbox, d) \/ d = c
  <2>1. CASE mailbox' = Append(mailbox, c) /\ ~In(mailbox, c) /\ Len(mailbox) < MailboxCap
              /\ receiver # "gone" /\ state = "waiting" /\ a = Pending /\ c # serving
    <3>1. /\ mailbox' \in Seq(Clients) /\ Len(mailbox') = Len(mailbox) + 1
          /\ Once(mailbox')
          /\ \A d : In(mailbox', d) <=> In(mailbox, d) \/ d = c
      BY <1>1, <2>1, AppendIn DEF RuntimeInv, OwedInv
    <3>2. Len(mailbox') <= MailboxCap
      BY <1>1, <2>1, <3>1
    <3> QED BY <2>1, <3>1, <3>2
  <2> QED BY <2>1
<1>4. RuntimeTypes'
  <2>1. mailbox' \in Seq(Clients) /\ Len(mailbox') <= MailboxCap
    BY <1>1, <1>3
  <2>2. a \in E!Replies \cup {Pending, Dropped}
    BY <1>1
  <2>3. /\ client' \in [Clients -> {"idle", "sending", "waiting", "panicked", "gone"}]
        /\ message' \in [Clients -> Messages \cup {NoMessage}]
        /\ answer' \in [Clients -> E!Replies \cup {Pending, Dropped}]
    BY <1>1, <2>2
  <2> QED BY <2>1, <2>3 DEF RuntimeInv, RuntimeTypes
<1>5. LoopInv' /\ PanicHasCause'
  BY <1>2 DEF RuntimeInv, LoopInv, PanicHasCause
<1>6. OwedInv'
  BY <1>2, <1>3 DEF RuntimeInv, OwedInv
<1>7. AnswerInv'
  BY <1>2, <1>3, ReplyKinds DEF RuntimeInv, AnswerInv, OwedInv
<1>8. ResultInv'
  <2> SUFFICES ASSUME NEW d \in Clients PROVE IsAskedFor(d)'
    BY DEF ResultInv
  <2>1. CASE d # c \/ (a = answer[c] /\ m = message[c])
    BY <1>2, <2>1, ToldStays
  <2>2. CASE d = c /\ a = Pending
    BY <1>2, <2>2, ReplyKinds DEF IsAskedFor
  <2> QED BY <2>1, <2>2
<1> QED BY <1>4, <1>5, <1>6, <1>7, <1>8 DEF RuntimeInv

\* A function updated with the value it has is what it was.
LEMMA SameUpdate ==
    ASSUME NEW S, NEW T, NEW f \in [S -> T], NEW c \in S
    PROVE  f = [f EXCEPT ![c] = f[c]]
OBVIOUS

LEMMA ClientActionKeepsInv ==
    ASSUME RuntimeInv, FuturesGoOn, NEW c \in Clients,
           \/ \E m \in Messages : Send(c, m)
           \/ Deliver(c) \/ DeliverFails(c) \/ TakeAnswer(c) \/ GiveUp(c)
    PROVE  RuntimeInv'
<1>1. /\ client = [client EXCEPT ![c] = client[c]]
      /\ message = [message EXCEPT ![c] = message[c]]
      /\ answer = [answer EXCEPT ![c] = answer[c]]
      /\ message[c] \in Messages \cup {NoMessage}
  BY SameUpdate DEF RuntimeInv, RuntimeTypes
<1>2. /\ client[c] \in {"idle", "sending"} => answer[c] = Pending /\ c # serving /\ ~In(mailbox, c)
      /\ answer[c] # Pending => c # serving /\ ~In(mailbox, c)
      /\ answer[c] = Dropped => receiver = "gone"
  BY DEF RuntimeInv, AnswerInv, OwedInv
<1>3. ASSUME NEW m \in Messages, Send(c, m) PROVE RuntimeInv'
  <2>1. /\ client[c] = "idle" /\ pc' = pc /\ UNCHANGED <<inner, entitiesPoisoned, shutdownRequested, receiver, serving, mailbox, answer>>
    BY <1>3 DEF Send, loopVars, entityVars
  <2>2. \/ inner = "poisoned" /\ client' = [client EXCEPT ![c] = "panicked"] /\ message' = message
        \/ client' = [client EXCEPT ![c] = "sending"] /\ message' = [message EXCEPT ![c] = m]
    BY <1>3 DEF Send
  <2>3. CASE inner = "poisoned" /\ client' = [client EXCEPT ![c] = "panicked"] /\ message' = message
    BY <1>1, <1>2, <2>1, <2>3, ClientKeepsInv
  <2>4. CASE client' = [client EXCEPT ![c] = "sending"] /\ message' = [message EXCEPT ![c] = m]
    BY <1>1, <1>2, <2>1, <2>4, ClientKeepsInv
  <2> QED BY <2>2, <2>3, <2>4
<1>4. CASE Deliver(c)
  <2>1. /\ client[c] = "sending" /\ receiver # "gone" /\ Len(mailbox) < MailboxCap
        /\ mailbox' = Append(mailbox, c) /\ client' = [client EXCEPT ![c] = "waiting"]
        /\ pc' = pc /\ UNCHANGED <<inner, entitiesPoisoned, shutdownRequested, receiver, serving, message, answer>>
    BY <1>4 DEF Deliver, entityVars
  <2> QED BY <1>1, <1>2, <2>1, ClientKeepsInv
<1>5. CASE DeliverFails(c)
  <2>1. /\ client[c] = "sending" /\ receiver = "gone"
        /\ client' = [client EXCEPT ![c] = "panicked"] /\ message' = [message EXCEPT ![c] = NoMessage]
        /\ pc' = pc /\ UNCHANGED <<inner, entitiesPoisoned, shutdownRequested, receiver, serving, mailbox, answer>>
    BY <1>5 DEF DeliverFails, loopVars, entityVars
  <2> QED BY <1>1, <1>2, <2>1, ClientKeepsInv
<1>6. CASE TakeAnswer(c)
  <2>1. PICK state \in {"panicked", "idle"} :
            /\ client' = [client EXCEPT ![c] = state] /\ (state = "panicked" => answer[c] = Dropped)
    BY <1>6 DEF TakeAnswer
  <2>2. /\ answer[c] # Pending
        /\ message' = [message EXCEPT ![c] = NoMessage] /\ answer' = [answer EXCEPT ![c] = Pending]
        /\ pc' = pc /\ UNCHANGED <<inner, entitiesPoisoned, shutdownRequested, receiver, serving, mailbox>>
    BY <1>6 DEF TakeAnswer, loopVars, entityVars
  <2> QED BY <1>2, <2>1, <2>2, ClientKeepsInv
<1>7. CASE GiveUp(c)
  <2>1. /\ client' = [client EXCEPT ![c] = "gone"]
        /\ pc' = pc /\ UNCHANGED <<inner, entitiesPoisoned, shutdownRequested, receiver, serving, mailbox, message, answer>>
    BY <1>7 DEF GiveUp, loopVars, entityVars
  <2> QED BY <1>1, <2>1, ClientKeepsInv
<1> QED BY <1>3, <1>4, <1>5, <1>6, <1>7

-----------------------------------------------------------------------------
(* The steps of the loop. *)

\* However run() ends, who is owed a reply learns of it.
LEMMA DropKeepsInv ==
    ASSUME RuntimeInv, FuturesGoOn, LoopIsDropped, pc'[Loop] \in {"idle", "dead"},
           UNCHANGED <<inner, shutdownRequested, client, message>>, entitiesPoisoned' \in BOOLEAN
    PROVE  RuntimeInv'
<1>1. receiver' = "gone" /\ mailbox' = <<>> /\ serving' = None
  BY DEF LoopIsDropped
<1>2. \A c \in Clients :
          answer'[c] = IF c = serving \/ In(mailbox, c) THEN Dropped ELSE answer[c]
  BY DEF LoopIsDropped, Owed, In
<1>3. RuntimeTypes'
  <2>1. answer' \in [Clients -> E!Replies \cup {Pending, Dropped}]
    BY DEF LoopIsDropped, RuntimeInv, RuntimeTypes
  <2>2. mailbox' \in Seq(Clients) /\ Len(mailbox') <= MailboxCap
    BY <1>1, RuntimeAssumption
  <2> QED BY <1>1, <2>1, <2>2 DEF RuntimeInv, RuntimeTypes
<1>4. LoopInv' /\ PanicHasCause'
  BY <1>1 DEF LoopInv, PanicHasCause
<1>5. OwedInv'
  BY <1>1, EmptyIn, RuntimeAssumption DEF OwedInv
<1>6. AnswerInv'
  BY <1>1, <1>2, ReplyKinds DEF RuntimeInv, OwedInv, AnswerInv
<1>7. ResultInv'
  <2> SUFFICES ASSUME NEW c \in Clients PROVE IsAskedFor(c)'
    BY DEF ResultInv
  <2>1. CASE c = serving \/ In(mailbox, c)
    BY <1>2, <2>1, ReplyKinds DEF IsAskedFor
  <2>2. CASE ~(c = serving \/ In(mailbox, c))
    BY <1>2, <2>2, ToldStays
  <2> QED BY <2>1, <2>2
<1> QED BY <1>3, <1>4, <1>5, <1>6, <1>7 DEF RuntimeInv

\* The client whose request the loop has in hand, once out of the mailbox.
InHand(c) ==
    /\ receiver = "loop"
    /\ \/ serving = c /\ mailbox' = mailbox
       \/ Received(c) /\ mailbox' = Tail(mailbox)

LEMMA InHandIsOwed ==
    ASSUME RuntimeInv, NEW c \in Clients, InHand(c)
    PROVE  /\ mailbox' \in Seq(Clients) /\ Len(mailbox') <= MailboxCap /\ Once(mailbox')
           /\ ~In(mailbox', c)
           /\ \A d : d # c => (In(mailbox', d) <=> In(mailbox, d))
           /\ serving \in {c, None}
           /\ client[c] \in {"waiting", "gone"} /\ answer[c] = Pending
           /\ receiver = "loop"
<1>1. mailbox \in Seq(Clients) /\ Len(mailbox) <= MailboxCap /\ Len(mailbox) \in Nat /\ MailboxCap \in Nat
  BY RuntimeAssumption DEF RuntimeInv, RuntimeTypes
<1>2. CASE serving = c /\ mailbox' = mailbox
  BY <1>1, <1>2 DEF RuntimeInv, OwedInv, InHand
<1>3. CASE Received(c) /\ mailbox' = Tail(mailbox)
  <2>1. serving = None /\ mailbox # <<>> /\ c = Head(mailbox) /\ receiver = "loop"
    BY <1>3 DEF Received, Idle
  <2>2. /\ In(mailbox, c) /\ mailbox' \in Seq(Clients) /\ Len(mailbox') <= Len(mailbox)
        /\ Len(mailbox') \in Nat
        /\ \A d : In(mailbox', d) <=> In(mailbox, d) /\ d # c
        /\ Once(mailbox')
    BY <1>1, <1>3, <2>1, TailIn DEF RuntimeInv, OwedInv
  <2>3. Len(mailbox') <= MailboxCap
    BY <1>1, <2>2
  <2> QED BY <2>1, <2>2, <2>3 DEF RuntimeInv, OwedInv
<1> QED BY <1>2, <1>3 DEF InHand

LEMMA AnswerKeepsInv ==
    ASSUME RuntimeInv, FuturesGoOn, NEW c \in Clients, NEW r \in E!Replies, InHand(c),
           serving' = None, receiver' = receiver, pc'[Loop] = "idle",
           answer' = [answer EXCEPT ![c] = r],
           r.kind = "result" => message[c].kind = "GetResult" /\ message[c].exec = r.of,
           \A i \in E!Ids : r.kind = "result" /\ r.of = i =>
               r.value \in E!MayBeTold(i)' /\ task'[i] = "finished",
           UNCHANGED <<inner, entitiesPoisoned, shutdownRequested, client, message>>
    PROVE  RuntimeInv'
<1>1. /\ answer \in [Clients -> E!Replies \cup {Pending, Dropped}]
      /\ answer'[c] = r /\ \A d \in Clients : d # c => answer'[d] = answer[d]
  BY DEF RuntimeInv, RuntimeTypes
<1>2. None \notin Clients
  BY RuntimeAssumption
<1>3. RuntimeTypes'
  <2>1. answer' \in [Clients -> E!Replies \cup {Pending, Dropped}]
    BY <1>1
  <2> QED BY <2>1, InHandIsOwed DEF RuntimeInv, RuntimeTypes
<1>4. LoopInv' /\ PanicHasCause'
  BY InHandIsOwed DEF RuntimeInv, LoopInv, PanicHasCause
<1>5. ~In(mailbox', None)
  <2>1. \A d : In(mailbox', d) => d \in Clients
    BY InHandIsOwed DEF In
  <2> QED BY <1>2, <2>1
<1>6. OwedInv'
  BY <1>1, <1>2, <1>5, InHandIsOwed DEF RuntimeInv, OwedInv
<1>7. AnswerInv'
  BY <1>1, <1>2, InHandIsOwed, ReplyKinds DEF RuntimeInv, AnswerInv
<1>8. ResultInv'
  <2> SUFFICES ASSUME NEW d \in Clients PROVE IsAskedFor(d)'
    BY DEF ResultInv
  <2>1. CASE d = c
    <3>1. answer'[d].kind = "result" => \E i \in E!Ids : answer'[d].of = i
      BY <1>1, <2>1, ReplyKinds
    <3> QED BY <1>1, <2>1, <3>1 DEF IsAskedFor, E!MayBeTold
  <2>2. CASE d # c
    BY <1>1, <2>2, ToldStays
  <2> QED BY <2>1, <2>2
<1> QED BY <1>3, <1>4, <1>6, <1>7, <1>8 DEF RuntimeInv

LEMMA GoesKeepsInv ==
    ASSUME RuntimeInv, E!IInv', FuturesGoOn, NEW c \in Clients, InHand(c), Goes(c),
           pc'[Loop] = "idle" /\ reply'[Loop].kind = "result" =>
               message[c].kind = "GetResult" /\ message[c].exec = reply'[Loop].of,
           UNCHANGED <<inner, entitiesPoisoned, shutdownRequested, client, message>>
    PROVE  RuntimeInv'
<1>1. /\ reply'[Loop] \in E!Replies
      /\ \A i \in E!Ids : reply'[Loop].kind = "result" /\ reply'[Loop].of = i =>
            reply'[Loop].value \in E!MayBeTold(i)' /\ task'[i] = "finished"
  BY DEF E!IInv, E!TypeOK, E!TruthfulResult, E!ToldResultIsOver
<1>2. CASE /\ pc'[Loop] = "idle" /\ serving' = None /\ receiver' = receiver
           /\ answer' = [answer EXCEPT ![c] = reply'[Loop]]
  BY <1>1, <1>2, AnswerKeepsInv
<1>3. CASE /\ pc'[Loop] \in {"send", "await", "blocking"} /\ serving' = c
           /\ UNCHANGED <<receiver, answer>>
  <2>1. c # None
    BY RuntimeAssumption
  <2>2. RuntimeTypes'
    BY <1>3, InHandIsOwed DEF RuntimeInv, RuntimeTypes
  <2>3. LoopInv' /\ PanicHasCause'
    BY <1>3, <2>1, InHandIsOwed DEF RuntimeInv, LoopInv, PanicHasCause
  <2>4. OwedInv'
    BY <1>3, InHandIsOwed DEF RuntimeInv, OwedInv
  <2>5. AnswerInv'
    BY <1>3, <2>1, InHandIsOwed, RuntimeAssumption DEF RuntimeInv, AnswerInv
  <2>6. ResultInv'
    BY <1>3, ToldStays DEF ResultInv
  <2> QED BY <2>2, <2>3, <2>4, <2>5, <2>6 DEF RuntimeInv
<1> QED BY <1>2, <1>3 DEF Goes

LEMMA LoopActionKeepsInv ==
    ASSUME RuntimeInv, E!IInv, E!IInv', FuturesGoOn, NEW c \in Clients,
           LoopReceives(c) \/ LoopAnswersOther(c) \/ LoopPanics(c)
    PROVE  RuntimeInv'
<1>1. EntityTypes /\ message[c] \in Messages \cup {NoMessage}
  BY EntityTypesHold DEF RuntimeInv, RuntimeTypes
<1>2. CASE LoopReceives(c)
  <2>1. /\ Handle(message[c]) /\ Goes(c) /\ InHand(c)
        /\ UNCHANGED <<inner, entitiesPoisoned, shutdownRequested, client, message>>
    BY <1>2 DEF LoopReceives, InHand, Received, Idle, clientVars
  <2>2. pc'[Loop] = "idle" /\ reply'[Loop].kind = "result" =>
            message[c].kind = "GetResult" /\ message[c].exec = reply'[Loop].of
    BY <1>1, <2>1, HandleReply
  <2> QED BY <2>1, <2>2, GoesKeepsInv
<1>3. CASE LoopAnswersOther(c)
  <2>1. PICK kind \in {"ok", "error"} : answer' = [answer EXCEPT ![c] = [kind |-> kind]]
    BY <1>3 DEF LoopAnswersOther
  <2>2. /\ InHand(c) /\ serving' = None /\ receiver' = receiver /\ pc' = pc
        /\ UNCHANGED <<inner, entitiesPoisoned, shutdownRequested, client, message>>
    BY <1>3 DEF LoopAnswersOther, InHand, Received, Idle, clientVars, entityVars
  <2>3. serving = None /\ receiver = "loop"
    BY <1>3 DEF LoopAnswersOther, Received, Idle
  <2>4. pc'[Loop] = "idle"
    BY <1>1, <2>2, <2>3 DEF RuntimeInv, LoopInv, EntityTypes
  <2>5. [kind |-> kind] \in E!Replies /\ [kind |-> kind].kind # "result"
    BY ReplyKinds
  <2> QED BY <2>1, <2>2, <2>4, <2>5, AnswerKeepsInv
<1>4. CASE LoopPanics(c)
  <2>1. /\ LoopIsDropped /\ serving = None /\ receiver = "loop"
        /\ UNCHANGED <<inner, shutdownRequested, client, message>>
    BY <1>4 DEF LoopPanics, Received, Idle, clientVars
  <2>2. entitiesPoisoned' \in BOOLEAN
    BY <1>4 DEF LoopPanics, RuntimeInv, RuntimeTypes
  <2>3. pc'[Loop] = "dead" \/ pc' = pc
    BY <1>4 DEF LoopPanics, entityVars
  <2>4. pc[Loop] = "idle"
    BY <1>1, <2>1 DEF RuntimeInv, LoopInv, EntityTypes
  <2> QED BY <2>1, <2>2, <2>3, <2>4, DropKeepsInv
<1> QED BY <1>2, <1>3, <1>4

LEMMA LoopContinuesKeepsInv ==
    ASSUME RuntimeInv, E!IInv, E!IInv', FuturesGoOn, LoopContinues
    PROVE  RuntimeInv'
<1>1. serving # None /\ serving \in Clients
  BY DEF LoopContinues, RuntimeInv, RuntimeTypes
<1>2. PICK c \in Clients : c = serving
  BY <1>1
<1>3. /\ Goes(c) /\ InHand(c)
      /\ UNCHANGED <<inner, entitiesPoisoned, shutdownRequested, client, message>>
  BY <1>1, <1>2 DEF LoopContinues, InHand, RuntimeInv, LoopInv, clientVars
<1>4. ~(pc'[Loop] = "idle" /\ reply'[Loop].kind = "result")
  BY EntityTypesHold, ContinueReply DEF LoopContinues
<1> QED BY <1>3, <1>4, GoesKeepsInv

LEMMA LoopEndsKeepsInv ==
    ASSUME RuntimeInv, E!IInv, FuturesGoOn, LoopEnds
    PROVE  RuntimeInv'
<1>1. EntityTypes
  BY EntityTypesHold
<1>2. LoopIsDropped /\ UNCHANGED <<inner, entitiesPoisoned, shutdownRequested, client, message>>
  BY DEF LoopEnds, clientVars
<1>3. pc'[Loop] \in {"idle", "dead"}
  BY <1>1 DEF LoopEnds, EntityTypes, E!CallerIsDropped, entityVars
<1> QED BY <1>2, <1>3, DropKeepsInv DEF RuntimeInv, RuntimeTypes

LEMMA ExecutionKeepsInv ==
    ASSUME RuntimeInv, E!IInv, FuturesGoOn, NEW i \in E!Ids, Execution(i)
    PROVE  RuntimeInv'
<1>1. UNCHANGED <<inner, shutdownRequested, client, message>>
  BY DEF Execution, LoopUnwinds, clientVars
<1>2. /\ entitiesPoisoned \in BOOLEAN /\ shutdownRequested \in BOOLEAN
      /\ inner \in {"free", "held", "poisoned"}
  BY DEF RuntimeInv, RuntimeTypes
<1>3. pc'[Loop] = pc[Loop] \/ pc'[Loop] = "dead"
  BY EntityTypesHold, FuturesEndLoop DEF Execution
<1>4. EntityTypes /\ Loop \in Threads \cup {Loop}
  BY EntityTypesHold
<1>5. CASE pc'[Loop] = pc[Loop]
  <2>1. UNCHANGED <<receiver, mailbox, serving, answer, entitiesPoisoned>>
    BY <1>5 DEF Execution, LoopUnwinds, loopVars
  <2> QED BY <1>1, <1>2, <1>5, <2>1, OthersKeepInv
<1>6. CASE pc'[Loop] # pc[Loop]
  <2>1. LoopIsDropped /\ entitiesPoisoned' = TRUE
    BY <1>6 DEF Execution, LoopUnwinds
  <2> QED BY <1>1, <1>3, <1>6, <2>1, DropKeepsInv
<1> QED BY <1>5, <1>6

LEMMA NextRuntimeInv == RuntimeInv /\ E!IInv /\ E!IInv' /\ [Next]_vars => RuntimeInv'
<1> SUFFICES ASSUME RuntimeInv, E!IInv, E!IInv', [Next]_vars PROVE RuntimeInv'
  OBVIOUS
<1>1. FuturesGoOn
  BY StepGoesOn DEF RuntimeInv, RuntimeTypes, MessageType
<1>2. ASSUME NEW c \in Clients, ClientStep(c) PROVE RuntimeInv'
  BY <1>1, <1>2, ClientActionKeepsInv, LoopActionKeepsInv DEF ClientStep
<1>3. ASSUME NEW t \in Threads, DirectCall(t) PROVE RuntimeInv'
  <2>1. pc'[Loop] = pc[Loop]
    BY <1>3, EntityTypesHold, ThreadsLeaveLoop DEF DirectCall
  <2>2. UNCHANGED <<inner, entitiesPoisoned, shutdownRequested, receiver, mailbox, serving, client, message, answer>>
    BY <1>3 DEF DirectCall, runtimeVars, loopVars, clientVars
  <2> QED BY <1>1, <2>1, <2>2, OthersKeepInv DEF RuntimeInv, RuntimeTypes
<1>4. CASE UNCHANGED vars
  <2>1. UNCHANGED <<pc, inner, entitiesPoisoned, shutdownRequested, receiver, mailbox, serving, client, message, answer>>
    BY <1>4 DEF vars, runtimeVars, loopVars, clientVars, entityVars
  <2> QED BY <1>1, <2>1, OthersKeepInv DEF RuntimeInv, RuntimeTypes
<1> QED BY <1>1, <1>2, <1>3, <1>4, ExecutionKeepsInv, LoopContinuesKeepsInv, LoopEndsKeepsInv,
           RunKeepsInv, InnerKeepsInv DEF Next

\* Who waits is owed a reply, what is told is what was asked for, and the loop
\* knows whom it serves: inductive together, and over the entity's invariant.
THEOREM RuntimeInvariance == Spec => []RuntimeInv
BY InitRuntimeInv, NextRuntimeInv, EntityInvariance, PTL DEF Spec

-----------------------------------------------------------------------------
(* What follows for the runtime. *)

\* Every variable of the runtime and its entity has the values it may have.
THEOREM RuntimeTypeCorrect == Spec => []TypeOK
<1>1. RuntimeInv /\ E!IInv => TypeOK
  BY DEF RuntimeInv, RuntimeTypes, E!IInv, TypeOK
<1> QED BY <1>1, RuntimeInvariance, EntityInvariance, PTL

\* The loop serves a client exactly while its handler waits in the entity.
THEOREM LoopStaysConsistent == Spec => []LoopIsConsistent
<1>1. RuntimeInv => LoopIsConsistent
  BY DEF RuntimeInv, LoopInv, LoopIsConsistent
<1> QED BY <1>1, RuntimeInvariance, PTL

\* Whoever waits is owed a reply, in the mailbox or in hand, and once: no end
\* of the loop leaves a client behind.
THEOREM NobodyWaitsInVain == Spec => []WaitingIsOwed
<1>1. RuntimeInv => WaitingIsOwed
  <2> SUFFICES ASSUME RuntimeInv PROVE WaitingIsOwed
    OBVIOUS
  <2>1. Once(mailbox) /\ \A k \in DOMAIN mailbox : mailbox[k] # serving
    BY DEF RuntimeInv, OwedInv, In
  <2>2. ASSUME NEW c \in Clients, client[c] = "waiting", answer[c] = Pending
        PROVE  c \in Owed /\ receiver # "gone"
    <3>1. c = serving \/ In(mailbox, c)
      BY <2>2 DEF RuntimeInv, AnswerInv
    <3>2. c # None
      BY RuntimeAssumption
    <3> QED BY <3>1, <3>2, EmptyIn DEF RuntimeInv, OwedInv, LoopInv, Owed, In
  <2> QED BY <2>1, <2>2 DEF WaitingIsOwed, Once
<1> QED BY <1>1, RuntimeInvariance, PTL

\* The result a client is told is that of the execution it asked about.
THEOREM RepliesAreNotMixedUp == Spec => []ResultWasAskedFor
<1>1. RuntimeInv => ResultWasAskedFor
  BY DEF RuntimeInv, ResultInv, IsAskedFor, ResultWasAskedFor
<1> QED BY <1>1, RuntimeInvariance, PTL

\* A client panics only over a runtime that has ended or has panicked.
THEOREM ClientPanicsHaveCause == Spec => []PanicHasCause
<1>1. RuntimeInv => PanicHasCause
  BY DEF RuntimeInv
<1> QED BY <1>1, RuntimeInvariance, PTL

=============================================================================
