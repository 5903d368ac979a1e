------------------------------ MODULE DiagRuntime ------------------------------
(***************************************************************************)
(* Runtime and RuntimeImpl (score/mw/diag/example/lib_runtime.rs) around   *)
(* one entity: the mailbox of requests, the oneshot that brings each reply *)
(* to its client, the single main loop that handles one request after the  *)
(* other, shutdown(), and the `inner` and `entities` mutexes.              *)
(*                                                                         *)
(* The main loop is the caller Loop of Entity: a request is received and   *)
(* handled in one step up to the first `.await` or block_on of handle(),   *)
(* and every later step of Entity's caller is a step of the loop.          *)
(***************************************************************************)
EXTENDS Naturals, Sequences

CONSTANTS
    Clients,        \* futures of Runtime::send
    Asked,          \* bound of the model: kinds of messages clients send
    Loop,           \* the main loop, as a caller of the entity
    Threads,        \* other callers: whoever got the entity from the runtime
    MailboxCap,     \* capacity of the mailbox
    Ops, SyncOps, ExclusiveOps, CustomCapabilities, Statuses, QueueCap, MaxExecs,
    Workers, BudgetLasts, None

VARIABLES
    nextId, entry, opOf, timed, recorded, task, outcome, rxOpen, queue,
    poisoned, pc, cur, want, slot, reply,
    inner,              \* the `inner` mutex: "free", "held" or "poisoned"
    entitiesPoisoned,   \* TRUE once the loop panicked holding `entities`
    receiver,           \* where sovd_messages is: "unclaimed", "loop" or "gone"
    shutdownRequested,  \* TRUE once request_shutdown was used
    mailbox,            \* clients whose message is in sovd_messages
    serving,            \* the client whose message is being handled
    client,             \* Clients -> state of its send() future
    message,            \* Clients -> the message it sends
    answer              \* Clients -> its oneshot

E == INSTANCE Entity WITH Callers <- Threads \cup {Loop}

ASSUME RuntimeAssumption ==
    /\ MailboxCap \in Nat \ {0}
    /\ None \notin Clients
    /\ Loop \notin Threads
    /\ E!EntityAssumption
    /\ CustomCapabilities
          \cap {"Execute", "GetResult", "Remove", "ListOperations", "Other", "none"} = {}

Messages ==
    [kind : {"Execute"}, op : Ops]
        \cup [kind : E!Requests \cup {"GetResult", "Remove"}, exec : E!Ids]
        \cup [kind : {"ListOperations", "Other"}]
NoMessage == [kind |-> "none"]

Pending == [kind |-> "pending"]
Dropped == [kind |-> "dropped"]

entityVars == <<nextId, entry, opOf, timed, recorded, task, outcome, rxOpen, queue, slot,
                poisoned, pc, cur, want, reply>>
loopVars == <<entitiesPoisoned, receiver, mailbox, serving>>
clientVars == <<client, message>>
runtimeVars == <<inner, shutdownRequested, loopVars, clientVars, answer>>
vars == <<entityVars, runtimeVars>>

Init ==
    /\ E!Init
    /\ inner = "free"
    /\ entitiesPoisoned = FALSE
    /\ receiver = "unclaimed"
    /\ shutdownRequested = FALSE
    /\ mailbox = <<>>
    /\ serving = None
    /\ client = [c \in Clients |-> "idle"]
    /\ message = [c \in Clients |-> NoMessage]
    /\ answer = [c \in Clients |-> Pending]

-----------------------------------------------------------------------------
(* The methods of Runtime, under the `inner` mutex. *)

\* An `expect` fails under the lock, which is poisoned from then on.
Panics == inner' = "poisoned"

\* run() hands both receivers to the future, once.
Run ==
    /\ inner = "free"
    /\ IF receiver = "unclaimed"
       THEN receiver' = "loop" /\ UNCHANGED inner
       ELSE Panics /\ UNCHANGED receiver
    /\ UNCHANGED <<entityVars, entitiesPoisoned, mailbox, serving, shutdownRequested, clientVars, answer>>

Shutdown ==
    /\ inner = "free"
    /\ IF shutdownRequested
       THEN Panics /\ UNCHANGED shutdownRequested
       ELSE shutdownRequested' = TRUE /\ UNCHANGED inner
    /\ UNCHANGED <<entityVars, loopVars, clientVars, answer>>

\* select_entity holds `entities` over the block_on of a synchronous execution.
EntitiesHeld == pc[Loop] = "blocking"

\* get_or_create_entity waits for `entities` and keeps `inner` meanwhile.
GetEntityWaits ==
    /\ inner = "free" /\ EntitiesHeld
    /\ inner' = "held"
    /\ UNCHANGED <<entityVars, shutdownRequested, loopVars, clientVars, answer>>

GetEntityProceeds ==
    /\ inner = "held" /\ ~EntitiesHeld
    /\ IF entitiesPoisoned THEN Panics ELSE inner' = "free"
    /\ UNCHANGED <<entityVars, shutdownRequested, loopVars, clientVars, answer>>

GetEntityPanics ==
    /\ inner = "free" /\ entitiesPoisoned
    /\ Panics
    /\ UNCHANGED <<entityVars, shutdownRequested, loopVars, clientVars, answer>>

-----------------------------------------------------------------------------
(* The future of Runtime::send. *)

Send(c, m) ==
    /\ client[c] = "idle" /\ inner # "held"
    /\ IF inner = "poisoned"
       THEN client' = [client EXCEPT ![c] = "panicked"] /\ UNCHANGED message
       ELSE /\ client' = [client EXCEPT ![c] = "sending"]
            /\ message' = [message EXCEPT ![c] = m]
    /\ UNCHANGED <<entityVars, inner, shutdownRequested, loopVars, answer>>

\* Fault: the mailbox is unbounded.
DeliverUnbounded(c) ==
    /\ client[c] = "sending" /\ receiver # "gone"
    /\ mailbox' = Append(mailbox, c)
    /\ client' = [client EXCEPT ![c] = "waiting"]
    /\ UNCHANGED <<entityVars, inner, shutdownRequested, entitiesPoisoned, receiver, serving, message, answer>>

Deliver(c) ==
    /\ client[c] = "sending" /\ receiver # "gone"
    /\ Len(mailbox) < MailboxCap
    /\ mailbox' = Append(mailbox, c)
    /\ client' = [client EXCEPT ![c] = "waiting"]
    /\ UNCHANGED <<entityVars, inner, shutdownRequested, entitiesPoisoned, receiver, serving, message, answer>>

\* "sending SOVD message failed, channel is gone"
DeliverFails(c) ==
    /\ client[c] = "sending" /\ receiver = "gone"
    /\ client' = [client EXCEPT ![c] = "panicked"]
    /\ message' = [message EXCEPT ![c] = NoMessage]
    /\ UNCHANGED <<entityVars, inner, shutdownRequested, loopVars, answer>>

\* "receiving SOVD reply failed, channel is gone", if the oneshot was dropped.
TakeAnswer(c) ==
    /\ client[c] = "waiting" /\ answer[c] # Pending
    /\ client' = [client EXCEPT ![c] = IF answer[c] = Dropped THEN "panicked" ELSE "idle"]
    /\ message' = [message EXCEPT ![c] = NoMessage]
    /\ answer' = [answer EXCEPT ![c] = Pending]
    /\ UNCHANGED <<entityVars, inner, shutdownRequested, loopVars>>

\* The future is dropped by its owner; its message is handled all the same.
GiveUp(c) ==
    /\ client[c] \in {"sending", "waiting"}
    /\ client' = [client EXCEPT ![c] = "gone"]
    /\ UNCHANGED <<entityVars, inner, shutdownRequested, loopVars, message, answer>>

-----------------------------------------------------------------------------
(* The main loop. *)

\* The oneshots the loop still has to use.
Owed == {c \in Clients : c = serving \/ \E k \in DOMAIN mailbox : mailbox[k] = c}

\* Fault: the receiver is closed and the messages in it are kept.
LoopLeaks ==
    /\ receiver' = "gone"
    /\ serving' = None
    /\ answer' = IF serving = None THEN answer ELSE [answer EXCEPT ![serving] = Dropped]
    /\ UNCHANGED mailbox

\* The future of run() is over, and with it the receiver, the messages in it
\* and the message in hand.
LoopIsDropped ==
    /\ receiver' = "gone"
    /\ mailbox' = <<>>
    /\ serving' = None
    /\ answer' = [c \in Clients |-> IF c \in Owed THEN Dropped ELSE answer[c]]

\* Fault: the reply goes to the next client that waits.
GoesToNext(c) ==
    \/ /\ pc'[Loop] = "idle"
       /\ serving' = None
       /\ answer' = [answer EXCEPT ![IF mailbox' = <<>> THEN c ELSE Head(mailbox')] = reply'[Loop]]
       /\ UNCHANGED receiver
    \/ /\ pc'[Loop] \in {"send", "await", "blocking"}
       /\ serving' = c
       /\ UNCHANGED <<receiver, answer>>

\* Fault: an error in the handler drops the oneshot instead of using it.
GoesSilently(c) ==
    \/ /\ pc'[Loop] = "idle"
       /\ serving' = None
       /\ answer' = [answer EXCEPT ![c] = IF reply'[Loop].kind = "error" THEN Dropped ELSE reply'[Loop]]
       /\ UNCHANGED receiver
    \/ /\ pc'[Loop] \in {"send", "await", "blocking"}
       /\ serving' = c
       /\ UNCHANGED <<receiver, answer>>

\* What the loop does after a step of its handler for client c.
Goes(c) ==
    \/ /\ pc'[Loop] = "idle"
       /\ serving' = None
       /\ answer' = [answer EXCEPT ![c] = reply'[Loop]]
       /\ UNCHANGED receiver
    \/ /\ pc'[Loop] \in {"send", "await", "blocking"}
       /\ serving' = c
       /\ UNCHANGED <<receiver, answer>>

\* handle() for the requests about operations.
Handle(m) ==
    \/ /\ m.kind = "ListOperations"
       /\ E!ListOperations(Loop)
    \/ /\ m.kind \notin {"ListOperations", "Other"}
       /\ E!MutexPoisoned(Loop)
    \/ /\ m.kind = "Execute"
       /\ \/ E!ExecuteRefused(Loop, m.op)
          \/ E!ExecuteFails(Loop, m.op)
          \/ E!ExecutePanics(Loop, m.op)
          \/ \E withTimeout, keepsControl \in BOOLEAN :
                E!ExecuteStarts(Loop, m.op, withTimeout, keepsControl)
    \/ /\ m.kind = "GetResult"
       /\ E!ExecutionNotFound(Loop, m.exec) \/ E!GetResult(Loop, m.exec)
    \/ /\ m.kind = "Remove"
       /\ \/ E!ExecutionNotFound(Loop, m.exec)
          \/ E!RemoveRefused(Loop, m.exec)
          \/ E!Remove(Loop, m.exec)
    \/ /\ m.kind \in E!Requests
       /\ \/ E!ExecutionNotFound(Loop, m.exec)
          \/ E!ControlRefused(Loop, m.exec)
          \/ E!GetControl(Loop, m.exec, m.kind)

Idle == receiver = "loop" /\ serving = None
Received(c) == Idle /\ mailbox # <<>> /\ c = Head(mailbox)

LoopReceives(c) ==
    /\ Received(c)
    /\ mailbox' = Tail(mailbox)
    /\ Handle(message[c])
    /\ Goes(c)
    /\ UNCHANGED <<inner, entitiesPoisoned, shutdownRequested, clientVars>>

\* handle() for the requests that leave the executions alone: metadata, data
\* resources, unknown entities and operations.
LoopAnswersOther(c) ==
    /\ Received(c) /\ message[c].kind = "Other"
    /\ mailbox' = Tail(mailbox)
    /\ \E kind \in {"ok", "error"} : answer' = [answer EXCEPT ![c] = [kind |-> kind]]
    /\ UNCHANGED <<entityVars, inner, entitiesPoisoned, receiver, serving, shutdownRequested, clientVars>>

\* The handler panics: execute() of the operation, a read() of a data resource,
\* or the poisoned mutex under list_operations.  Of these only the listing of
\* all entities ("*") panics without holding `entities`.
LoopPanics(c) ==
    /\ Received(c)
    /\ \/ Handle(message[c]) /\ pc'[Loop] = "dead"
       \/ message[c].kind = "Other" /\ UNCHANGED entityVars
    /\ LoopIsDropped
    /\ \/ entitiesPoisoned' = TRUE
       \/ message[c].kind = "ListOperations" /\ UNCHANGED entitiesPoisoned
    /\ UNCHANGED <<inner, shutdownRequested, clientVars>>

\* The handler goes on after an `.await` or a block_on.
LoopContinues ==
    /\ serving # None
    /\ \/ E!StoreSyncResult(Loop)
       \/ E!SendFails(Loop)
       \/ E!SendEvent(Loop)
       \/ E!ReceiveStatus(Loop)
    /\ UNCHANGED <<inner, entitiesPoisoned, mailbox, shutdownRequested, clientVars>>
    /\ Goes(serving)

\* Fault: the loop looks for the shutdown between two requests only.
LoopEndsIdle ==
    /\ receiver = "loop" /\ shutdownRequested
    /\ pc[Loop] = "idle"
    /\ LoopIsDropped
    /\ UNCHANGED <<entityVars, inner, entitiesPoisoned, shutdownRequested, clientVars>>

\* Fault: the handler is a task of its own and outlives the loop.
LoopEndsDetached ==
    /\ receiver = "loop" /\ shutdownRequested
    /\ LoopIsDropped
    /\ UNCHANGED <<entityVars, inner, entitiesPoisoned, shutdownRequested, clientVars>>

\* Fault: the shutdown interrupts a synchronous execution.
LoopEndsBlocked ==
    /\ receiver = "loop" /\ shutdownRequested
    /\ pc' = [pc EXCEPT ![Loop] = "dead"]
    /\ LoopIsDropped
    /\ UNCHANGED <<nextId, entry, opOf, timed, recorded, task, outcome, rxOpen, queue, slot, poisoned,
                   cur, want, reply, inner, entitiesPoisoned, shutdownRequested, clientVars>>

\* The shutdown branch wins the select!; while the loop sits in block_on the
\* future of run() is not polled.
LoopEnds ==
    /\ receiver = "loop" /\ shutdownRequested
    /\ pc[Loop] # "blocking"
    /\ IF pc[Loop] = "idle" THEN UNCHANGED entityVars ELSE E!CallerIsDropped(Loop)
    /\ LoopIsDropped
    /\ UNCHANGED <<inner, entitiesPoisoned, shutdownRequested, clientVars>>

\* A step of an execution concerns the loop if it panics below the block_on of
\* the loop.
LoopUnwinds ==
    /\ IF pc'[Loop] = pc[Loop]
       THEN UNCHANGED <<loopVars, answer>>
       ELSE LoopIsDropped /\ entitiesPoisoned' = TRUE
    /\ UNCHANGED <<inner, shutdownRequested, clientVars>>

Execution(i) == E!FutureStep(i) /\ LoopUnwinds

\* A call of the entity's methods that bypasses the runtime.
DirectCall(t) == E!CallerStep(t) /\ UNCHANGED runtimeVars

-----------------------------------------------------------------------------

ClientStep(c) ==
    \/ \E m \in {n \in Messages : n.kind \in Asked} : Send(c, m)
    \/ Deliver(c)
    \/ DeliverFails(c)
    \/ TakeAnswer(c)
    \/ GiveUp(c)
    \/ LoopReceives(c)
    \/ LoopAnswersOther(c)
    \/ LoopPanics(c)

Next ==
    \/ \E c \in Clients : ClientStep(c)
    \/ \E i \in E!Ids : Execution(i)
    \/ \E t \in Threads : DirectCall(t)
    \/ LoopContinues
    \/ LoopEnds
    \/ Run
    \/ Shutdown
    \/ GetEntityWaits
    \/ GetEntityProceeds
    \/ GetEntityPanics

Spec == Init /\ [][Next]_vars

(***************************************************************************)
(* Fairness.  Clients and the loop are tokio tasks, polled when woken, and *)
(* timers fire, unless a caller starves them from block_on.  A full        *)
(* mailbox or channel hands its permits out in order, and select! polls    *)
(* the shutdown branch in every poll of run() that the loop leaves         *)
(* unfinished (strong fairness of what waits).                             *)
(***************************************************************************)
Fairness ==
    /\ \A c \in Clients :
        /\ SF_vars(~E!Starving /\ Deliver(c))
        /\ WF_vars(~E!Starving /\ (DeliverFails(c) \/ TakeAnswer(c)))
        /\ WF_vars(~E!Starving /\ (LoopReceives(c) \/ LoopAnswersOther(c) \/ LoopPanics(c)))
    /\ WF_vars(EntitiesHeld /\ LoopContinues)
    /\ SF_vars(~E!Starving /\ LoopContinues)
    /\ SF_vars(~E!Starving /\ LoopEnds)
    /\ \A i \in E!Ids : WF_vars(~E!Starving /\ E!TimeoutFires(i) /\ LoopUnwinds)

FairSpec == Spec /\ Fairness

\* Operations cooperate: one that holds its control serves it, as in Entity,
\* and a synchronous one comes to an end by itself.  The runtime does not count
\* on it; the operations of the repository's example do so.
Cooperation ==
    \A i \in E!Ids :
        /\ WF_vars(~E!Starving /\ E!OpProgress(i) /\ LoopUnwinds)
        /\ WF_vars(\E o \in E!OpResults :
                      opOf[i] \in SyncOps /\ E!OpCompletes(i, o) /\ LoopUnwinds)

-----------------------------------------------------------------------------
(***************************************************************************)
(* Properties                                                              *)
(***************************************************************************)

\* Every variable has the values the code can give it.
TypeOK ==
    /\ E!TypeOK
    /\ inner \in {"free", "held", "poisoned"}
    /\ entitiesPoisoned \in BOOLEAN
    /\ receiver \in {"unclaimed", "loop", "gone"}
    /\ shutdownRequested \in BOOLEAN
    /\ mailbox \in Seq(Clients) /\ Len(mailbox) <= MailboxCap
    /\ serving \in Clients \cup {None}
    /\ client \in [Clients -> {"idle", "sending", "waiting", "panicked", "gone"}]
    /\ message \in [Clients -> Messages \cup {NoMessage}]
    /\ answer \in [Clients -> E!Replies \cup {Pending, Dropped}]

\* The loop is busy with a client exactly when its handler waits in the entity,
\* and never after run() is over.
LoopIsConsistent ==
    /\ serving # None <=> pc[Loop] \in {"blocking", "send", "await"}
    /\ serving # None => receiver = "loop"
    /\ receiver = "loop" => pc[Loop] # "dead"

\* A client that waits for its reply is owed one: its message is in the mailbox
\* or in hand, once.  No way of ending the loop (shutdown, a panic of user code
\* in a handler or below block_on) leaves a client waiting for ever.
WaitingIsOwed ==
    /\ \A c \in Clients : client[c] = "waiting" /\ answer[c] = Pending =>
            c \in Owed /\ receiver # "gone"
    /\ \A j, k \in DOMAIN mailbox : mailbox[j] = mailbox[k] => j = k
    /\ \A k \in DOMAIN mailbox : mailbox[k] # serving

\* A client that is told the result of an execution asked for that result: the
\* loop, which gives up clients and requests in between, mixes no replies up.
ResultWasAskedFor ==
    \A c \in Clients : answer[c].kind = "result" =>
        /\ message[c].kind = "GetResult"
        /\ message[c].exec = answer[c].of
        /\ answer[c].value \in E!MayBeTold(answer[c].of)

\* A client only panics when the runtime is over or its mutex is poisoned.
PanicHasCause ==
    \A c \in Clients : client[c] = "panicked" => receiver = "gone" \/ inner = "poisoned"

\* The loop calls the entity the way Entity's callers do.
CallsEntity == E!Spec

\* shutdown() ends the loop although it may wait for room in a channel or for a
\* status that never comes, as the operation does not cooperate.  Only a
\* synchronous execution that never ends can hold it up: one without a timeout,
\* and, where block_on leaves no worker for the timers, any.
ShutdownEndsLoop ==
    (shutdownRequested /\ receiver = "loop")
        ~> (receiver = "gone" \/ [](EntitiesHeld /\ ~timed[cur[Loop]]) \/ []E!Starving)

\* The loop waits for execution i: for room in its channel, for its status, or
\* for its end.
WaitsFor(i) == serving # None /\ pc[Loop] # "idle" /\ cur[Loop] = i /\ task[i] = "running"

\* Once the loop was started, every request comes to an end: a reply, or the
\* panic of the client when the runtime is over.  The single loop gives way to
\* one execution only, whoever asked for it: one without a timeout that goes on
\* and neither takes nor answers what is asked of it (`Cooperation` denied), or
\* that is in block_on; any block_on that never returns, without a worker left.
RequestsEnd ==
    \A c \in Clients :
        (client[c] \in {"sending", "waiting"} /\ receiver # "unclaimed")
            ~> \/ client[c] \notin {"sending", "waiting"}
               \/ \E i \in E!Ids : [](WaitsFor(i) /\ ~timed[i])
               \/ []E!Starving

=============================================================================
