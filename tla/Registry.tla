-------------------------------- MODULE Registry --------------------------------
(***************************************************************************)
(* What entities a runtime has, which data resources and operations are    *)
(* registered on them, and the requests that read the registry             *)
(* (score/mw/diag/example/lib_runtime.rs): listings, metadata, and the     *)
(* reading of a data resource.                                             *)
(*                                                                         *)
(* Threads get entities from the runtime and register on them while the    *)
(* main loop serves requests.  `entities` is one mutex, every entity has   *)
(* one for its data resources and one for its operations; a panic below a  *)
(* lock poisons it.  Requests about executions, and the mailbox that       *)
(* brings requests to the loop, are in Entity and DiagRuntime.             *)
(***************************************************************************)
EXTENDS Naturals, Sequences, DataResources

CONSTANTS
    Threads,        \* threads of the user that sets entities up
    Entities,       \* entity identifiers
    Names,          \* identifiers of data resources and operations
    Resources,      \* data resources there are to register
    ServiceResults, \* what a UDS service may return
    MaxLog          \* bound of the model: registrations

ASSUME RegistryAssumption == MaxLog \in Nat

\* What a UDS service returns, and an adapter is made of, as their types have
\* it; and no service puts into the text of an error of its own what the adapter
\* writes for a response code.
ASSUME ServiceAssumption ==
    /\ \A s \in ServiceResults : s.is \in {"Ok", "Err"}
    /\ \A s \in ServiceResults : s.is = "Err" =>
        LET code == s.error.code IN
        /\ code.of \in {"UDS", "SOVD"}
        /\ code.of = "UDS" => code = Uds(code.nrc)
        /\ code.of = "SOVD" =>
            /\ code = Sovd(code.error)
            /\ \A r \in ServiceResults :
                r.is = "Err" /\ r.error.code.of = "UDS" => r.error.code.nrc # code.error.message_text
    /\ \A r \in Resources : r.as = "adapter" => r.wdbi \in BOOLEAN
    /\ None # FromByteVector("data")

Tables == {"resources", "operations"}

\* DataResourceHolder and OperationHolder.  A registration is known by its
\* number, which stands for the metadata and the instance that came with it.
Holder(id, no, instance) == [id |-> id, no |-> no, instance |-> instance]

Requests ==
    [ask : {"ListDataResources", "ListOperations"}, entity : Entities]
        \cup [ask : {"ListAllOperations"}]
        \cup [ask : {"ReadDataResource"}, entity : Entities, id : Names, encoding : Encodings]
        \cup [ask : {"GetOperationMetadata"}, entity : Entities, id : Names]

VARIABLES
    entities,           \* the keys of `entities`, in order
    entitiesPoisoned,   \* TRUE once the loop panicked holding `entities`
    registered,         \* Entities -> Tables -> the holders, in order
    poisoned,           \* Entities -> the tables whose mutex is poisoned
    log,                \* every registration ever made
    thread,             \* Threads -> "alive" or "dead"
    loop,               \* where the main loop is: "idle", "listing" or "dead"
    todo,               \* the entities it has yet to list
    listed,             \* the operations it has listed so far
    askedAt,            \* how long log was when it began
    reply               \* what was just replied by the loop, or by a write

registryVars == <<entities, registered, log>>
lockVars == <<entitiesPoisoned, poisoned>>
loopVars == <<loop, todo, listed, askedAt>>
vars == <<registryVars, lockVars, thread, loopVars, reply>>

NoReply == [ask |-> "nothing"]

Init ==
    /\ entities = <<>>
    /\ entitiesPoisoned = FALSE
    /\ registered = [e \in Entities |-> [t \in Tables |-> <<>>]]
    /\ poisoned = [e \in Entities |-> {}]
    /\ log = <<>>
    /\ thread = [t \in Threads |-> "alive"]
    /\ loop = "idle"
    /\ todo = <<>>
    /\ listed = <<>>
    /\ askedAt = 0
    /\ reply = NoReply

-----------------------------------------------------------------------------
(* Setting up *)

Known(e) == \E k \in DOMAIN entities : entities[k] = e

Dies(t) == thread' = [thread EXCEPT ![t] = "dead"]

\* Whoever has an entity may hand it on.
MayUse(t, e) == thread[t] = "alive" /\ Known(e)

\* Fault: every call makes an entity.
CreateEntity(t, e) ==
    /\ thread[t] = "alive" /\ Len(entities) < MaxLog
    /\ entities' = Append(entities, e)
    /\ reply' = NoReply
    /\ UNCHANGED <<registered, log, lockVars, thread, loopVars>>

\* A second call for the same identifier finds the first one's entity.
GetOrCreateEntity(t, e) ==
    /\ thread[t] = "alive"
    /\ IF entitiesPoisoned
       THEN Dies(t) /\ UNCHANGED entities
       ELSE /\ entities' = IF Known(e) THEN entities ELSE Append(entities, e)
            /\ UNCHANGED thread
    /\ UNCHANGED <<registered, log, lockVars, loopVars>>
    /\ reply' = NoReply

Has(holders, id) == \E k \in DOMAIN holders : holders[k].id = id
Lookup(holders, id) == holders[CHOOSE k \in DOMAIN holders : holders[k].id = id]

\* IndexMap::insert: a known key keeps its place and gets the new value.
Insert(holders, h) ==
    IF Has(holders, h.id)
    THEN [k \in DOMAIN holders |-> IF holders[k].id = h.id THEN h ELSE holders[k]]
    ELSE Append(holders, h)

\* Fault: the guard is gone when the duplicate is found.
RegisterUnguarded(t, e, table, id, instance) ==
    /\ MayUse(t, e)
    /\ table \notin poisoned[e] /\ Len(log) < MaxLog
    /\ log' = Append(log, [entity |-> e, table |-> table, id |-> id])
    /\ registered' = [registered EXCEPT ![e][table] = Insert(@, Holder(id, Len(log) + 1, instance))]
    /\ IF Has(registered[e][table], id) THEN Dies(t) ELSE UNCHANGED thread
    /\ UNCHANGED <<entities, lockVars, loopVars>>
    /\ reply' = NoReply

\* The insert replaces an earlier registration before the panic about it, and
\* the panic is under the lock: the mutex is poisoned from then on.
Register(t, e, table, id, instance) ==
    /\ MayUse(t, e)
    /\ IF table \in poisoned[e]
       THEN Dies(t) /\ UNCHANGED <<log, registered, poisoned>>
       ELSE /\ Len(log) < MaxLog
            /\ log' = Append(log, [entity |-> e, table |-> table, id |-> id])
            /\ registered' = [registered EXCEPT ![e][table] =
                                 Insert(@, Holder(id, Len(log) + 1, instance))]
            /\ IF Has(registered[e][table], id)
               THEN Dies(t) /\ poisoned' = [poisoned EXCEPT ![e] = @ \cup {table}]
               ELSE UNCHANGED <<thread, poisoned>>
    /\ UNCHANGED <<entities, entitiesPoisoned, loopVars>>
    /\ reply' = NoReply

RegisterDataResource(t, e, id, resource) == Register(t, e, "resources", id, resource)
RegisterOperation(t, e, id) == Register(t, e, "operations", id, None)

\* What the UDS service behind a resource may return, if it gets called.
Services(resource, encoding) ==
    IF resource.as = "adapter" /\ resource.rdbi /\ encoding = "Binary" THEN ServiceResults ELSE {None}

\* The entity's own methods, called without the runtime: a resource that panics
\* in read(), and a listing behind a poisoned mutex, end the calling thread.
DirectReadPanics(t, e, id, encoding) ==
    /\ MayUse(t, e)
    /\ "resources" \notin poisoned[e] /\ Has(registered[e]["resources"], id)
    /\ \E service \in Services(Lookup(registered[e]["resources"], id).instance, encoding) :
          Read(Lookup(registered[e]["resources"], id).instance, encoding, service) = Panicked
    /\ Dies(t)
    /\ poisoned' = [poisoned EXCEPT ![e] = @ \cup {"resources"}]
    /\ UNCHANGED <<registryVars, entitiesPoisoned, loopVars>>
    /\ reply' = NoReply

DirectListPanics(t, e) ==
    /\ MayUse(t, e)
    /\ poisoned[e] # {}
    /\ Dies(t)
    /\ UNCHANGED <<registryVars, lockVars, loopVars>>
    /\ reply' = NoReply

\* A write goes to a resource that was not registered yet: the runtime has no
\* request for it.  Bound of the model: it happens before there are entities,
\* on which it does not depend.
DirectWrite(t, resource, userData, service) ==
    /\ thread[t] = "alive" /\ entities = <<>>
    /\ reply' = [ask |-> "write", resource |-> resource, userData |-> userData,
                 service |-> service, handle |-> Write(resource, userData, service)]
    /\ UNCHANGED <<registryVars, lockVars, thread, loopVars>>

-----------------------------------------------------------------------------
(* The main loop *)

Refusal(code, message) == Err(FromError(FromCode(code, message)))

\* The loop answers m, received when since registrations had been made, with
\* result, out of the registrations with numbers nos.
Answers(m, since, result, nos) ==
    /\ reply' = [ask |-> m.ask, request |-> m, since |-> since, result |-> result, from |-> nos]
    /\ UNCHANGED <<registryVars, lockVars, thread>>

\* What the loop received is handled without a pause.
AnswersAtOnce(m, result, nos) == Answers(m, Len(log), result, nos) /\ UNCHANGED loopVars

\* Fault: the loop survives the panic of a handler.
LoopSurvives(tables, holdsEntities) ==
    /\ poisoned' = tables
    /\ entitiesPoisoned' = (entitiesPoisoned \/ holdsEntities)
    /\ UNCHANGED <<registryVars, thread, loopVars>>
    /\ reply' = NoReply

\* A panic in the handler ends the loop, below `entities` or not.
LoopDies(tables, holdsEntities) ==
    /\ loop' = "dead"
    /\ poisoned' = tables
    /\ entitiesPoisoned' = (entitiesPoisoned \/ holdsEntities)
    /\ UNCHANGED <<registryVars, thread, todo, listed, askedAt>>
    /\ reply' = NoReply

\* select_entity finds the entity, or it does not: it is not there or the mutex
\* is poisoned.
Selects(m) == loop = "idle" /\ ~entitiesPoisoned /\ Known(m.entity)

EntityUnavailable(m) ==
    /\ loop = "idle" /\ m.ask # "ListAllOperations" /\ ~Selects(m)
    /\ AnswersAtOnce(m, IF entitiesPoisoned THEN Err(MutexPoisoned)
                        ELSE Refusal("ErrorResponse", "no entity"), <<>>)

Numbers(holders) == [k \in DOMAIN holders |-> holders[k].no]

\* list_data_resources and list_operations expect a sound mutex.
List(m, table) ==
    /\ Selects(m)
    /\ IF table \in poisoned[m.entity]
       THEN LoopDies(poisoned, TRUE)
       ELSE AnswersAtOnce(m, Ok("list"), Numbers(registered[m.entity][table]))

ListDataResources(m) == m.ask = "ListDataResources" /\ List(m, "resources")
ListOperations(m) == m.ask = "ListOperations" /\ List(m, "operations")

\* The entities are cloned under the lock, and listed after it was released.
ListAllOperations(m) ==
    /\ loop = "idle" /\ m.ask = "ListAllOperations"
    /\ IF entitiesPoisoned
       THEN LoopDies(poisoned, TRUE)
       ELSE /\ loop' = "listing"
            /\ todo' = entities
            /\ askedAt' = Len(log)
            /\ reply' = NoReply
            /\ UNCHANGED <<registryVars, lockVars, thread, listed>>

\* Fault: the operations of one entity replace those of the one before.
ListNextReplaces ==
    /\ loop = "listing" /\ todo # <<>>
    /\ "operations" \notin poisoned[Head(todo)]
    /\ listed' = Numbers(registered[Head(todo)]["operations"])
    /\ todo' = Tail(todo)
    /\ reply' = NoReply
    /\ UNCHANGED <<registryVars, lockVars, thread, loop, askedAt>>

ListNext ==
    /\ loop = "listing" /\ todo # <<>>
    /\ IF "operations" \in poisoned[Head(todo)]
       THEN LoopDies(poisoned, FALSE)
       ELSE /\ listed' = listed \o Numbers(registered[Head(todo)]["operations"])
            /\ todo' = Tail(todo)
            /\ reply' = NoReply
            /\ UNCHANGED <<registryVars, lockVars, thread, loop, askedAt>>

ListEnds ==
    /\ loop = "listing" /\ todo = <<>>
    /\ Answers([ask |-> "ListAllOperations"], askedAt, Ok("list"), listed)
    /\ loop' = "idle"
    /\ listed' = <<>>
    /\ askedAt' = 0
    /\ UNCHANGED todo

GetOperationMetadata(m) ==
    /\ m.ask = "GetOperationMetadata" /\ Selects(m)
    /\ LET operations == registered[m.entity]["operations"] IN
       CASE "operations" \in poisoned[m.entity] -> AnswersAtOnce(m, Err(MutexPoisoned), <<>>)
         [] "operations" \notin poisoned[m.entity] /\ Has(operations, m.id) ->
                AnswersAtOnce(m, Ok("info"), <<Lookup(operations, m.id).no>>)
         [] OTHER -> AnswersAtOnce(m, Refusal("ErrorResponse", "no operation"), <<>>)

\* read_data_resource when there is nothing to read.
ReadNothing(m) ==
    /\ m.ask = "ReadDataResource" /\ Selects(m)
    /\ \/ "resources" \in poisoned[m.entity] /\ AnswersAtOnce(m, Err(MutexPoisoned), <<>>)
       \/ /\ "resources" \notin poisoned[m.entity]
          /\ ~Has(registered[m.entity]["resources"], m.id)
          /\ AnswersAtOnce(m, Refusal("ErrorResponse", "no resource"), <<>>)

\* The resource is read under the lock of the entity's data resources; a panic
\* in there poisons that and `entities`.  A future is dropped, not awaited.
ReadDataResource(m) ==
    /\ m.ask = "ReadDataResource" /\ Selects(m)
    /\ "resources" \notin poisoned[m.entity]
    /\ Has(registered[m.entity]["resources"], m.id)
    /\ LET holder == Lookup(registered[m.entity]["resources"], m.id) IN
       \E service \in Services(holder.instance, m.encoding) :
          LET handle == Read(holder.instance, m.encoding, service) IN
          \/ handle.is = "Ready" /\ AnswersAtOnce(m, handle.result, <<holder.no>>)
          \/ /\ handle.is = "Pending"
             /\ AnswersAtOnce(m, Refusal("PreconditionNotFulfilled", "async"), <<holder.no>>)
          \/ /\ handle.is = "Panicked"
             /\ LoopDies([poisoned EXCEPT ![m.entity] = @ \cup {"resources"}], TRUE)

-----------------------------------------------------------------------------

ThreadStep(t) ==
    \/ \E e \in Entities :
        \/ GetOrCreateEntity(t, e)
        \/ DirectListPanics(t, e)
        \/ \E id \in Names :
            \/ RegisterOperation(t, e, id)
            \/ \E resource \in Resources : RegisterDataResource(t, e, id, resource)
            \/ \E encoding \in Encodings : DirectReadPanics(t, e, id, encoding)
    \/ \E resource \in Resources, service \in ServiceResults,
          userData \in {None, FromByteVector("data"), FromString("data"), FromJson("data")} :
            DirectWrite(t, resource, userData, service)

Handles(m) ==
    \/ EntityUnavailable(m)
    \/ ListDataResources(m)
    \/ ListOperations(m)
    \/ ListAllOperations(m)
    \/ GetOperationMetadata(m)
    \/ ReadNothing(m)
    \/ ReadDataResource(m)

Next ==
    \/ \E t \in Threads : ThreadStep(t)
    \/ \E m \in Requests : Handles(m)
    \/ ListNext
    \/ ListEnds

Spec == Init /\ [][Next]_vars

-----------------------------------------------------------------------------
(***************************************************************************)
(* Properties                                                              *)
(***************************************************************************)

Holders == [id : Names, no : 1..MaxLog, instance : Resources \cup {None}]

\* Every variable has the values the code can give it.
TypeOK ==
    /\ entities \in Seq(Entities)
    /\ \A j, k \in DOMAIN entities : entities[j] = entities[k] => j = k
    /\ entitiesPoisoned \in BOOLEAN
    /\ registered \in [Entities -> [Tables -> Seq(Holders)]]
    /\ poisoned \in [Entities -> SUBSET Tables]
    /\ log \in Seq([entity : Entities, table : Tables, id : Names]) /\ Len(log) <= MaxLog
    /\ thread \in [Threads -> {"alive", "dead"}]
    /\ loop \in {"idle", "listing", "dead"}
    /\ todo \in Seq(Entities)
    /\ listed \in Seq(1..MaxLog)
    /\ askedAt \in 0..MaxLog

\* The first registration under its identifier.
Original(n) == \A k \in 1..(n - 1) : log[k] # log[n]

\* What clients are told of an identifier, its metadata and its data, comes
\* from the first registration of it for ever, although a second one replaces
\* it in the table: the panic under the lock puts the replacement out of reach.
OriginalIsServed ==
    reply.ask \in {m.ask : m \in Requests} =>
        \A k \in DOMAIN reply.from : Original(reply.from[k])

\* What a listing may name: the registrations in the table it was asked for.
Matches(n, m) ==
    IF m.ask = "ListAllOperations" THEN log[n].table = "operations"
    ELSE /\ log[n].entity = m.entity
         /\ log[n].table = IF m.ask = "ListDataResources" THEN "resources" ELSE "operations"

\* A listing names what was registered when it was asked for, may name what was
\* registered since, names nothing twice, and keeps the order of registration
\* within an entity; although entities are listed one by one and get created
\* and registered on meanwhile.
ListIsBracketed ==
    (/\ reply.ask \in {"ListDataResources", "ListOperations", "ListAllOperations"}
     /\ reply.result.is = "Ok") =>
        LET names == {reply.from[k] : k \in DOMAIN reply.from} IN
        /\ {n \in 1..reply.since : Matches(n, reply.request)} \subseteq names
        /\ \A n \in names : n \in DOMAIN log /\ Matches(n, reply.request)
        /\ \A j, k \in DOMAIN reply.from :
              j < k /\ log[reply.from[j]].entity = log[reply.from[k]].entity
                => reply.from[j] < reply.from[k]

\* A loop that is over, and an error of the runtime's own that blames a mutex,
\* go back to a panic on a table of an entity; `entities` is poisoned by the end
\* of the loop only, so no client ever reads of that in a reply.
PoisonHasOrigin ==
    /\ loop = "dead" => \E e \in Entities : poisoned[e] # {}
    /\ entitiesPoisoned => loop = "dead"
    /\ (reply.ask \in {"ReadDataResource", "GetOperationMetadata"}
            /\ reply.from = <<>> /\ reply.result = Err(MutexPoisoned))
        => poisoned[reply.request.entity] # {}

\* What a reader of the error of a write makes of it.
ServiceCodes == {s.error.code : s \in {r \in ServiceResults : r.is = "Err"}}
ReadBack(error) ==
    IF error.sovd_error = ErrorCode.ErrorResponse /\ Uds(error.message_text) \in ServiceCodes
    THEN Uds(error.message_text) ELSE Sovd(error)

\* The error of a failed write tells which code the service failed with,
\* response code or SOVD error; a precondition of the write that was missing is
\* never taken for a response code.
WriteTellsCode ==
    reply.ask = "write" =>
        LET result == reply.handle.result
            served == reply.resource.as = "adapter" /\ reply.resource.wdbi
                        /\ reply.userData = FromByteVector("data")
        IN IF ~served
           THEN result.is = "Err" /\ ReadBack(result.error.error) = Sovd(result.error.error)
           ELSE /\ result.is = reply.service.is
                /\ result.is = "Err" => ReadBack(result.error.error) = reply.service.error.code

\* "For simple synchronous operations, use from_closure" (api/README.md:101):
\* a resource that does, asked in the encoding it knows, is read.
ClosureReadsAreServed ==
    (/\ reply.ask = "ReadDataResource" /\ reply.request.encoding = "UTF8"
     /\ reply.from # <<>>
     /\ \E k \in DOMAIN registered[reply.request.entity]["resources"] :
           LET holder == registered[reply.request.entity]["resources"][k] IN
           holder.no = reply.from[1] /\ holder.instance.as = "closure")
        => reply.result.is = "Ok"

=============================================================================
