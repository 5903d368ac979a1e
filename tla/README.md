# Verification of inc_diagnostics

TLA+ models of the diagnostics framework of this repository
(`score/mw/diag`), the TLC runs that check them on small instances, and
theorems about them whose proofs TLAPS checks. `PROJECT.json` lists the runs,
the mutants that show each property can fail, the source lines of every
definition, the hazards the properties are for, and the theorems.

## The system

A diagnostics client (SOVD) asks a *runtime* to execute *operations* of
*entities* and to read their *data resources*. Most of the state is in the Rust
part.

| component | source | state | operations | interacts with |
|---|---|---|---|---|
| Runtime | `example/lib_runtime.rs` 170-432 | `inner` mutex; mailbox of 10 requests, each with a one-shot for its reply; the two receivers `run()` takes once; the shutdown one-shot; `entities` mutex and table | `run`, `send`, `shutdown`, `get_or_create_entity`, `handle` | clients (messages), entities (calls) |
| Entity | `example/lib_runtime.rs` 434-702 | `operations` mutex; per operation the table of executions (`Running` with the sender of the control channel and a join handle, or `Completed`); a global counter of identifiers | `execute_operation`, `get_execution_control`, `get_execution_result`, `remove_execution`, `list_operations` | operations (calls, futures, control channel), tokio (tasks, timers) |
| Registry of an entity | `example/lib_runtime.rs` 170-206, 252-323, 434-535 | the tables of data resources and operations, a mutex each | registration (a duplicate replaces, then panics), listings, metadata, reads | threads that set up, main loop |
| Operations | `api/operation.rs`, `example/example.rs` | the user's; the example's: status, signals | `execute`, the control events, the status reporter | the entity |
| Integration tests | `example/example.rs` | a script each | requests, yields, sleeps, shutdown, join | everything, in one current-thread executor |
| SimpleOperationAdapter | `api/simple_operation.rs` | `data` mutex with the operation and `active_exec_id`; per future the status, the last capability, the errors | `execute`, the control loop | a SimpleOperation (callbacks), the entity (stream, reporter) |
| RoutineControlAdapter, DataResourceAdapter | `api/uds_adapters.rs` | none of their own | translate to UDS services | UDS services |
| Data resources | `api/data_resource.rs` | the user's | `read`, `write`; ready or pending handles | the entity |
| Response codes | `uds/negative_response_code.*`, `api/common.rs` | none | conversions | everybody who reports errors |
| C++ services and futures | `uds/*.h`, `future.h` | promise and future of `score::concurrency` | interfaces, `WrapAsFuture` | user code |
| C++ DTC | `dtc/*.h` | none | value types and interfaces | user code |

What is hard here:

- **One loop for everybody.** `run()` handles one request after the other and
  awaits inside the handler: room in the control channel of an execution, and
  the status an operation reports. Shutdown and panics end it at any `.await`.
- **Locks across calls of user code.** `operation.execute()` runs under the
  `operations` mutex, the `block_on` of a synchronous execution under the
  `entities` mutex, and `get_or_create_entity` waits for that with `inner`
  locked. A panic poisons the mutex it holds.
- **An execution is in two places**: an entry in the table and a future in a
  task (or in `block_on`), which ends by itself, by a panic or by a timeout. The
  table learns of it at the next lookup, or when the blocked caller comes back.
- **Control races the end.** A sender is cloned under the lock and used after
  it; the receiver may be dropped meanwhile, with the status requests in it.
- **Registrations race listings and reads**, entity by entity, under three kinds
  of mutex; a panic below one leaves it poisoned and a half-made registration
  behind it.
- **The order of wake-ups.** The tests run the runtime, the operations and
  themselves on one thread and count on who is polled after whom.
- **The adapter's `select!`** between the operation's future and the control
  loop: whoever is first drops the other.

What makes each component correct: executions are exclusive where they must be,
never lost while under way, and end with one result that is the one told
(Entity); every request gets its own reply or fails, and shutdown ends the loop
(Runtime); one future at a time, no reporter lost, reports that add up, errors
kept (adapter); codes are read as what they were made from (response codes);
clients are served the first registration of an identifier, and listings name
what was there (registry); the tests pass in every order (example).

## The modules

| module | models |
|---|---|
| `ExecutionLifecycle` | abstract: an execution begins once, ends once with a verdict, is forgotten after its end |
| `Entity` | the executions of an entity: table, futures, timeouts, control channels, poisoned mutex |
| `EntityProofs` | theorems about `Entity` |
| `DiagRuntime` | mailbox, main loop, shutdown, `inner` and `entities` around an entity: `E == INSTANCE Entity`, the loop is one of its callers |
| `DiagRuntimeProofs` | `DiagRuntime` uses the entity only as `Entity` says; theorems about it and, through that, about its entity |
| `SimpleOperationAdapter`, `SimpleOperationAdapterProofs` | `execute()` and its future over any `SimpleOperation`, and theorems about it |
| `DiagCommon` | SOVD errors and names, errors, payloads, results of the Rust API |
| `DataResources` | read and write handles, the `DataResourceAdapter`, the resources users write |
| `UdsRoutine` | `RoutineControlAdapter` over a UDS routine |
| `Registry`, `RegistryProofs` | several entities, registration, listings, metadata, reading; theorems about them |
| `DiagExample` | the operations and tests of the example over `DiagRuntime`, in tokio's current-thread executor; `A == INSTANCE SimpleOperationAdapter` |
| `DiagExampleProofs` | the stack is a `DiagRuntime`, uses the adapter as its specification says, and outcomes have causes |
| `DiagExampleTestProofs` | the tests pass |
| `NegativeResponseCode`, `NegativeResponseCodeProofs` | the table of response codes in both languages, and theorems for every integer |
| `SequenceFacts` | lemmas about sequences the proofs share |
| `MC*` | small instances for TLC |

### Entity

A *caller* is a thread of control that calls the methods: the main loop, or a
thread that has the entity from `get_or_create_entity`. What a method does under
the mutex is one action; an `.await` or a stretch without the mutex ends it.

| state | code |
|---|---|
| `nextId` | `EXECUTION_ID_COUNTER` |
| `entry`, `recorded` | `operation.executions`: absent, `Running`, `Completed(result)` |
| `task`, `outcome` | `exec_future_with_timeout`, spawned or blocked on |
| `rxOpen`, `queue` | the mpsc channel behind `ExecutionControl`, owned by the operation |
| `slot` | the one-shot of a caller's status request |
| `poisoned` | the `operations` mutex |
| `pc`, `cur`, `want`, `reply` | where a caller is in `handle()`, and what it was told |

Four details are easy to get wrong and decide properties. `try_resolve` only
looks at executions with a join handle, so the entry of a synchronous execution
belongs to its blocked caller. When it has found the task finished it takes the
result with `now_or_never()`, and a join handle polled by a task that has used up
tokio's cooperative budget is not ready, finished or not: the placeholder
"execution result unavailable" then stays for good. `BudgetLasts` says whether
that is excluded, and `MayBeTold(i)` is what may be recorded of execution `i`: its
outcome, or without a lasting budget also the placeholder. The receiver of the control channel lives inside
the operation's future: when it ends, panics or loses against the timer, the
channel closes and the status requests in it fail. And in the timeout branch
`select!` has dropped that future already, so the `Stop` it sends reaches nobody:
`TimeoutFires` only ends the execution.

`CustomCapabilities` are the texts of custom capabilities, next to `Stop` and
`ReportStatus`. `Workers` is the number of threads that poll tasks and timers, and
callers in `block_on` occupy them: in a current-thread runtime, with 1, nothing but
the future a caller blocks on is polled meanwhile.

An operation is anything that implements `Operation` and keeps its control
inside the future it returns, or drops it, as all of the repository do. It may
never take an event, may answer or drop a status request, end, or panic.

### DiagRuntime

A request is received and handled in one step up to the first `.await` or
`block_on` of `handle()`; the rest are steps of the loop as a caller of the
entity (`LoopContinues`). `Goes` is what follows: the reply goes to the client,
or the loop stays with it. `LoopIsDropped` is the end of `run()`, by the shutdown
branch (`LoopEnds`) or an unwinding panic (`LoopPanics`, `LoopUnwinds`): the
receiver, the messages in it and the one in hand are dropped, and with them the
senders of their replies. `EntitiesHeld` says that the loop is in `block_on`
inside `select_entity`. Metadata, data resources and unknown names are the
request `Other`. `Threads` call the entity past the runtime.

### SimpleOperationAdapter

`future[i]` is the i-th call of `execute()`. The stream of events is a bounded
queue its environment fills, with or without a status reporter, and closes; the
environment also drops the future, as the timeout does. Start and stop may
succeed, fail or panic, which stands for any SimpleOperation, so also for the
`RoutineControlAdapter`.

### NegativeResponseCode

Codes are made by either language, or come from elsewhere, and are read by
`ToNegativeResponseCode` and `MessageFor`. The message of a code is modelled by
the code. The Rust enum and the C++ one differ: Rust has a second "no response
from subnet component" at 0x23, which the C++ tests call a gap, and no 0xFF;
`EnumeratorsAreRead` states the first.

### DiagCommon, DataResources, UdsRoutine

These parts keep no state: they are operators, and what a UDS service returns is
an argument. An error is modelled with its code, the name it is sent under, its
payload, and a word for its text, because `DataResourceAdapter::write` squeezes
an SOVD error and a response code into that text and `WriteTellsCode` asks
whether they can still be told apart. A read handle holds its result or a future
(`Pending`); `from_closure` makes the latter, which decides what the runtime
answers. A resource that asserts the encoding it knows panics (`Panicked`).
`Registry` uses `DataResources`, `DiagExample` uses both.

### Registry

| state | code |
|---|---|
| `entities`, `entitiesPoisoned` | the mutex `entities` and its keys |
| `registered[e]["resources"]`, `["operations"]` | the two tables of an entity, keys in order |
| `poisoned[e]` | which of their mutexes are poisoned |
| `loop`, `todo`, `listed` | the main loop, and `ListAllOperations` half way: entities are cloned under one lock and listed one by one after it |
| `thread` | the threads that set up |
| `log`, `askedAt`, `reply` | history: all registrations, how many when the listing was asked for, what was just replied |

A registration stands for its metadata and instance by its number in `log`. A
second one under the same identifier replaces the holder and then panics with
the lock held, so the mutex is poisoned; `list_*` expects a sound mutex and takes
the loop down, the queries return an error. Direct calls of threads are
`Direct*`; those that cannot panic change nothing and are left out. The mailbox
is in `DiagRuntime`: here a request arrives whenever the loop is idle.

### DiagExample

The variables of `DiagRuntime` and, around them, the executor: `current` is the
task that is polled, `runQueue` those that were woken, `branches` what a
`select!` has left to poll. A task goes on until it has to wait; woken tasks
queue up in any order; the test's future is polled when no task is queued, and
timers are looked after then (`Park`). The tests are scripts of requests with
the replies they assert; next to them a client without a script asks for
anything about executions. Every step of operation, adapter or test that touches
the runtime is the conjunction of an action of `DiagRuntime` and what the example
adds. A failed assertion sets `root` to "panicked". `futureOf`, `resultOf`,
`eventsOf`, `statusOf` and `streamOf` are the routine's executions as
`SimpleOperationAdapter` has them.

`MyAsyncOperation` asserts the text of a custom capability. The client without a
script sends the known text (`HandleCustomCapability`) and another one
(`HandleOtherCapability`), on which the spawned future panics (`AsyncPanics`);
`misled` are the executions a confirmed one was for. The adapter around the
routine takes either for an unsupported capability.

Assumed of the executor, beyond what tokio documents: it polls fewer than 61 tasks
between two looks at the test, and no task uses up its cooperative budget in one
poll (`BudgetLasts`). There is one client, it waits for each reply before it asks
again, and there are as many tasks as executions and the loop, so the example stays
below either.

## Runs

| run | shows | instance |
|---|---|---|
| `entity_safety` | table, futures and channels stay consistent; `Entity` implements `ExecutionLifecycle` | 2 callers (symmetric), 2 executions, an exclusive asynchronous and a synchronous operation, channel of 1 |
| `entity_liveness` | while a worker is left, control requests return and timed executions end; without one they do unless a `block_on` never returns | 2 callers that execute synchronously, one that executes asynchronously and controls (`WaitsSpec`), 2 workers, 2 executions, no capabilities; 58,494 states |
| `adapter` | one future, no reporter lost, reports add up, errors kept; reporters are served, a closed stream ends the execution | 2 requesters, 2 calls of `execute()`, 1 unsupported kind, stream of 2 |
| `runtime_safety` | replies neither lost nor mixed up, no client waits for ever for a loop that is over | 2 clients (symmetric), every message, mailbox of 1, 1 execution, a budget that may run out; 1,502,123 states |
| `runtime_liveness` | in a current-thread runtime shutdown ends the loop and every request ends, unless an execution holds the loop up for ever; loop and a direct caller use the entity as `Entity` says | a client that executes, one that reports and may give up, a direct caller that executes synchronously (`SharedSpec`), 1 worker, 1 execution; 47,064 states |
| `code_safety` | codes are read as what they were made from | -300..600 |
| `registry` | clients are served first registrations, listings are bracketed, panics stay confined, failed writes tell their code | 2 threads, 2 entities, 2 identifiers (all symmetric), every kind of data resource, 3 registrations; 379,541 states |
| `examples` | the seven tests pass and finish, outcomes have causes, a confirmed stop ends the execution, the adapter is used as `SimpleOperationAdapter` says, operations keep what the runtime relies on | the capacities of the code (10), 2 executions, 4 requests of the client without a test; 189,701 states |

`IInv`, `RegistryTypeOK`, `ListingInv`, `AdapterInv`, `RuntimeInv`, `ExampleInv`,
`Base` and `Stage` of the proofs need no runs of their own: they are proved.

Four more runs show where the code disagrees with what it says of itself; each
has a finding in `PROJECT.json`:

| run | what is said | what the code does |
|---|---|---|
| `adapter_refusal` | "operation is already executing" | `active_exec_id` is never cleared: one execution per registration, or none if its start fails |
| `adapter_yield` | "Control ended normally; yield to let the operation future provide the result." | the `select!` takes the control loop's empty reply for the result and drops the operation's future; the test of it expects that |
| `code_domain` | "nullopt if code does not belong to the NRC error domain" | nullopt for the domain's own codes 0xF0-0xFE |
| `registry_closure` | "For simple synchronous operations, use `from_closure`" | `read_data_resource` refuses every resource that does |

### Bounds

Channels and the mailbox have one place where the code has ten: full, empty and
a waiting sender all happen, and no property counts places. Two callers and two
executions give every pairwise race on one entry, and an exclusive operation its
second execution; a third execution of it needs the entry to be removed, as the
second does. One execution in the runtime runs, because the loop handles one
request at a time and what executions do to each other is checked in `Entity`,
whose steps the runtime's are. `MaxExecs` stops new executions; `execute` can
then still fail or panic, so nothing blocks at the bound. At the bound the
example's loop does not take an `Execute` any more (guard of `LoopExecutes`), and
its client asks for none. Three registrations
give a duplicate next to another entry, two entities half way through a listing,
and a table that grows while it is listed; `DirectWrite` is bounded to the time
before there are entities, on which it does not depend. Four requests let the
client without a test execute, signal, ask and stop in any order, and two
executions meet the adapter's refusal. In `runtime_liveness` clients send
what the loop can wait for.
Deadlock is not checked: clients may stop asking, and everything may have ended.

`Workers` is how many threads poll tasks and timers, and a caller in `block_on`
occupies one. The tests of the repository have 1 (tokio's current-thread
runtime). More workers allow every step that fewer allow, so the safety runs have
more of them than callers; in the same way `BudgetLasts` FALSE allows all that
TRUE does, and `runtime_safety` has it. What must happen is another matter:
`runtime_liveness` and `examples` have the repository's 1, where any `block_on`
starves everybody else, and `entity_liveness` has 2, where a timed execution ends
under one caller in `block_on` and starves under two, and so does a third caller
with a request in hand. To keep these runs small, `WaitsSpec` and `SharedSpec` give
each caller and client one part, and `WaitsSpec` leaves out steps that only
answer or take entries out of the table, none of which somebody waits for.

### Fairness

- Whoever sits in `block_on` goes on when the future is over (`WF` of
  `StoreSyncResult`): it polls that future itself.
- Everything else of the entity is fair only while nobody is starved: `Starving`
  is callers in `block_on` on every worker, or one of them with its budget spent,
  below which no timer and no channel is ever ready. Each such condition is
  `WF(~Starving /\ A)`, or `SF` where the action itself may come and go. Weak
  fairness is enough for the others: a step enabled again each time `Starving`
  ends stays enabled until it is taken or `Starving` begins anew, and new
  executions, which begin it, are finitely many.
- A caller or client that can go on does (`WF`): tokio polls woken tasks.
- A sender waiting for room goes if room comes again and again (`SF`): tokio's
  mpsc hands permits out in order of arrival.
- Timers fire (`WF` of `TimeoutFires`), but not while they are starved: a timeout
  does not end a `block_on` that waits in a current-thread runtime.
- `select!` polls the shutdown branch whenever it polls the loop (`SF` of
  `LoopEnds`).
- The executor keeps polling, and timers fire: `WF` of `ExampleNext`, all
  `DiagExample` assumes, since every one of its steps is the executor's.
  `OperationsCooperate` shows there that the example's operations keep
  `Cooperation`, without which `RequestsEnd` lets an execution hold up the loop.
- An operation that holds its control takes the next event, drops the control or
  ends (`OpProgress`): the user's part, assumed only for `ControlReturns`.
  `TimedExecutionEnds` needs only the timer. The runtime's properties assume
  nothing of operations: `ShutdownEndsLoop` and `RequestsEnd` name the execution
  that may hold up the loop, which has no timeout.

All four end in "or it is starved for ever" (`[]Starving`): a `block_on` that
never returns, timeout or not, while no worker is left. Without that exemption
both liveness runs fail.

## Proofs

For every value of the constants within their assumptions
(`EntityAssumption`, `RuntimeAssumption`, `AdapterAssumption`,
`RegistryAssumption`, `ServiceAssumption`, `ExampleAssumption`,
`CodeAssumption`). Two of them say more than what kind of thing a constant is.
`ServiceAssumption`: a UDS service returns a value or an error with a code, as
its type has it, and no text of an error of its own spells a response code the
way the adapter does, which is the one way `ReadBack` could be fooled.
`ExampleAssumption`: one client, the test, on one thread, and the three
operations `setup_runtime` registers, with the test, the loop and the executions
told apart as tasks of the executor, and a cooperative budget that lasts (see
DiagExample); executions, capacities and requests of the client without a test are
any number.

- **`EntityProofs`**: `Invariance` shows the inductive invariant `IInv`; the four
  safety invariants and `TypeOK` follow. None is inductive alone:
  `NoParallelExclusive` speaks of futures and the code's check of the table, so
  `IInv` has that the *table* lists an exclusive operation once and that futures
  under way are listed (`RunningIsListed`); that in turn needs the caller blocked
  on a synchronous execution to be the only one to complete its entry
  (`CallersAreBusy`), since no lookup resolves an execution without a join
  handle. `WaiterHasAnswerer` needs that an open channel belongs to a future
  under way (`ControlIsOwned`). `ResultsAreFinal` and `Refinement` (every step is
  a step of `ExecutionLifecycle` or stutters) follow from the same invariant.
- **`DiagRuntimeProofs`**: `CallsAreEntityCalls`, by cases over the runtime's
  actions: the runtime implements `Entity` with the loop and the threads as
  callers, so that whatever holds of every entity holds of the runtime's.
  With that, `EntityInvariance` is `IInv` for the runtime's entity, and
  `RuntimeInvariance` an invariant over it. Its parts:
  the loop serves a client exactly while it is at work in the entity (`LoopInv`);
  a request is in the mailbox or in hand, once, unanswered (`OwedInv`); nobody
  else waits, and only the end of the loop drops a oneshot (`AnswerInv`); and a
  result went to who asked for that execution, after its end (`ResultInv`), which
  stays true because futures never change what they ended with nor whose they are (`StepGoesOn`,
  from the entity's invariant). `NobodyWaitsInVain`, `RepliesAreNotMixedUp`,
  `LoopStaysConsistent`, `ClientPanicsHaveCause` and `RuntimeTypeCorrect` follow.
- **`SimpleOperationAdapterProofs`**: `NeverTwoFutures` holds because a pending
  future's identifier is the stored one (`PendingIsActive`); `ReportsAddUp`
  because the status and the last capability of a loop change together, except
  in a stop that fails, and then the error is kept (`LoopIsConsistent`);
  `ErrorsStay`, an action property, because a reported error is one of the only
  execution there is (`ErrorsHaveOrigin`); `NoReporterIsLost` because a future
  that goes drops the reporters in its stream.
- **`RegistryProofs`**: a table behind a *sound* mutex is the log of the first
  registrations in it, complete and in order (`SoundTablesAreLogs`), since
  whoever registers twice panics under the lock. Everything told comes from such
  a table: `FirstRegistrationIsServed`. `ListingsAreBracketed` needs more
  (`ListingInv`): half way through, an operation registered before the question
  is listed or its entity is still to come, and what is listed is of entities
  that are done.
  `PanicsAreConfined`: only a loop that panicked under a guard sets the poison of
  `entities` and is over, and every such panic, in a duplicate's listing or in
  `read()`, was under the guard of a table as well. `FailedWritesTell` is a
  statement about the functions of `DataResources`: the four ways a write is
  refused are told apart, and what the service returned is read back code by code.
- **`DiagExampleProofs`**: `ExampleIsRuntime`, by cases over the steps of test,
  loop and executions, has the stack implement `DiagRuntime`, so its theorems
  hold there (`ExampleTypeCorrect` uses `RuntimeTypeCorrect`). `OutcomesHaveCause`
  needs `ExampleInv`: a queued `Stop` is one that a client was confirmed
  (`CauseInv`; the `Stop` of the timeout never is in a channel), and so is a queued
  capability of the other text, which alone makes a future panic; the routine is
  signalled only by a stop, a status request is queued once and the loop waits
  for it (`ReporterInv`), and one execution of the routine there is
  (`RoutineInv`), as `active_exec_id` is never cleared. The many actions are
  first reduced to the seven things they do to executions (`Effect`), for which
  the invariant is shown. `AdapterImplemented` takes the same seven: each is a
  step of `SimpleOperationAdapter` on the executions of the routine, or a
  stutter. With `StreamTail` and `StreamAppend` the runtime's channel is the
  adapter's stream, and by `ReporterInv` the loop's oneshot is its reporter.
- **`DiagExampleTestProofs`**: `TestsAlwaysPass`. That a reply is the one a test
  asserts depends on what each request meets, and in the tests that yield or
  sleep, on who is polled before the test goes on. The second is `Base`: no
  wake-up is lost (`WakeInv`: who can go on is polled or queued), so the test,
  polled when nobody is queued, finds every spawned execution without an event, a
  signal or a first poll left (`SettledInv`); an execution under way can be
  stopped, and its `Stop` is in the channel until it becomes a signal
  (`StopInv`); what the loop has in hand is the step the script is at
  (`AsksInv`, `HandInv`). So one `yield` is enough for a stopped operation to
  end. The first is `Stage`: for each test and each step of its script, how far
  the request got (in the mailbox, at the channel, at the operation, answered)
  and what is known of the one execution then: idle with a status, with one event
  to take, signalled, or over with an outcome. The stages hold a step later for
  every action, once per kind of request (`Executing`, `AskingStatus`,
  `AskingCapability`, `AskingLate`, `Stopping`, `Yielding`, `Resulting`), and the
  tests string them together. Two of them are where the test is subtle. In the
  query test the second status request signals the operation, which ends on that
  before the test is polled again, so the third meets an execution that is over
  (`AskingLate`: it "may have already finished", and it always has). In the
  timeout test the two timers may fire at once, and the result is there in time
  because the woken execution is polled before the loop (`Due`). `Stage` starts again from
  any test and ends where nothing more is asserted (`Free`), which the client
  without a test always is.
- **`NegativeResponseCodeProofs`**: the three properties of the codes, for every
  integer, from the two lemmas that `ToNegativeResponseCode` and `MessageFor` are
  the identity on the table and nullopt elsewhere.

Every safety invariant and every action property of the runs is proved, and so
are the refinements. Only model-checked: liveness under fairness, which is
outside this prover (it has neither `ENABLED` nor the rules for `WF`):
`ControlReturns`, `TimedExecutionEnds`, `ReportersAreServed`, `ClosedStreamEnds`,
`ShutdownEndsLoop`, `RequestsEnd`, `TestsFinish`, `StopEndsExecution` and
`OperationsCooperate`. `TestsPass` is one of the former, so a test that fails is
excluded for any capacity, one that hangs only on the instance of the run.

## Not modelled

- The reply to the start of an operation, which the runtime drops.
- Attributes, proximity, modes, categories, groups and translation identifiers:
  carried along, read by nothing.
- Dropping the `Runtime` object or aborting the task of `run()`: to clients the
  same as shutdown.
- tokio's batches of tasks, and its cooperative budget but for what it does to
  `try_resolve` and to a caller below `block_on`; elsewhere it makes a task yield
  earlier, which other tasks' steps in between stand for.
- The C++ service interfaces and DTC types: pure virtual classes and values
  without state in this repository. `future.h` rests on `score::concurrency`,
  which is not in it.
- The demo program, build and CI scripts.

## Plan

Done: `ExecutionLifecycle`, `Entity`, `SimpleOperationAdapter`, `DiagRuntime`,
`NegativeResponseCode`, `DiagCommon`, `DataResources`, `UdsRoutine`, `Registry`,
`DiagExample`, and the proofs of all safety invariants, of the action properties
and of the refinements.

Left:

1. `WrapAsFuture` and the C++ adapters from a synchronous to a future-returning
   service, over an external model of promise and future.
2. The registry and several entities behind the mailbox of `DiagRuntime`.
