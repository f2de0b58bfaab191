# A TLA+ model of Halifax

Halifax is a C# framework for command/query separation and event sourcing. A client sends a
command; the framework validates it, loads the aggregate the command addresses from its
stored events, lets the command's consumer apply new events to it, stores those events and
publishes them to the event consumers that update read models and drive state machines
(process managers). This directory holds TLA+ modules translated from the code under
`src/src/`, the TLC configurations that check them, and proofs for TLAPS.

Contents: [inventory](#inventory) · [command pipeline](#the-model-of-the-command-pipeline) ·
[stored aggregates](#the-model-of-stored-aggregates) · [event bus](#the-model-of-the-event-bus) ·
[state machines](#the-model-of-state-machines) · [runs](#runs) · [findings](#findings) ·
[proofs](#proofs) · [limits](#what-is-not-covered) · [plan](#plan)

## Inventory

Paths are below `src/src/Halifax/` unless they start with `Halifax.`.

| component | state it keeps | operations | interacts with |
|---|---|---|---|
| Command bus, dispatcher (`Internals/Commands/InProcessCommandBus.cs`, `Internals/Dispatchers/Impl/CommandMessageDispatcher.cs`, `Internals/Reflection/DefaultReflection.cs`) | none between calls | `Send`: modules, validator, consumer, unit of work, modules | consumer, unit of work |
| Aggregate root (`Domain/AggregateRoot.cs`) | id, version, recorded events, current command, domain state | `Apply`, `Record`, `GetChanges`, `LoadFromHistory`, `TakeSnapshot`, `Clear` | event objects it shares with the storage |
| Aggregate repository (`Domain/Internal/AggregateRootRepository.cs`) | none | `Get` (from events, or from a read model) | container, storage |
| Unit of work (`Internals/UnitOfWork.cs`) | none between calls | `Accept` | storage, event bus |
| In-memory event storage (`Configuration/Impl/EventStorage/Impl/InMemoryEventStorage.cs`) | list of persisted events, a lock | `Save`, `GetHistory`, `GetHistorySinceSnapshot`, `GetCreationEvents` | |
| In-process event bus, dispatcher (`Configuration/Impl/Eventing/Impl/InProcessEventBus.cs`, `Internals/Dispatchers/Impl/EventMessageDispatcher.cs`) | `IsRunning`, which nothing reads | `Publish`: modules, handlers, modules | handlers, which may send commands again |
| Asynchronous event bus (`.../AsyncEventBus.cs`) | tasks of the task scheduler | `Publish` | itself: its task calls the overridden method |
| In-memory read models (`Configuration/Impl/Repository/InMemoryReadModelRepository.cs`) | a static bag shared by all instances | `Get`, `Insert`, `Update`, `Delete`, `All`, finalizer | handlers, queries, state machines |
| State machines (`StateMachine/StateMachine.cs`, `StateMachine/Impl/StateMachineExecuter.cs`) | current state, pending events and commands, correlations, stored data | `Execute`, `AddEvent`, `AddCommand`, `TransitionTo`, `MarkAsCompleted`, `Dispose` | read models; publishes and sends, nested in a publish |
| Container (`Configuration/Impl/Containers/Impl/CastleWindsorContainer.cs`) | registrations, instances | `Resolve`, `Register` | Castle Windsor, external |
| Worker threads (`Internals/Threading/Threading.cs`) | stop flag, thread, pool array | `Start`, `Stop`, loop | |
| Transacted session (`Internals/TransactedSession.cs`) | none | `Commit`, `Dispose` | storage, bus; no caller |
| NHibernate storage, read models, session modules (`Halifax.NHibernate.EventStorage/`) | rows; a thread-static session | as the in-memory ones; open and close sessions around a publish | database, external |
| Validation (`Commands/CommandInputValidator.cs`, `Commands/PropertyValidator.cs`) | a static list of rules | `WithRules`, `Evaluate` | command dispatcher |
| Identifiers (`Domain/CombGuid.cs`) | none | `NewGuid` | repository, unit of work |
| Context, configuration (`HalifaxContext.cs`, `Configuration/Impl/Configuration.cs`) | a static singleton | creation, finalizer, options | container |

Serialization, event convertors, the SignalR hub, the testing fixtures and several files that
no project compiles are listed in `PROJECT.json` with the reason they are left out. The program
is its C# code; the `.js` files of the repository are copies of jQuery, jQuery UI, Modernizr and
SignalR that came with packages, and are no part of it.

What is hard about this code:

- **Concurrency without checks.** Any number of threads may call `Send`. The history of an
  aggregate is read, decided upon and appended to without a version check: the call that was
  to compare versions is commented out (`AggregateRoot.cs:257-264`).
- **Sharing by reference.** The in-memory storage keeps the event object the aggregate
  recorded, not a copy, and `LoadFromHistory` writes to the objects it replays. One thread's
  load changes events that another thread has yet to publish.
- **Lifestyle.** The repository asks the container for the aggregate. Registered the
  framework's way (`Register`, no lifestyle) that is one instance for every id and thread;
  only `RegisterFactory` makes it transient. `Clear` has no caller, so a shared instance saves
  and publishes its old events again with each command.
- **Partial failure.** A handler or module may throw after the events are stored. The
  transaction scope around both steps does not enlist the in-memory storage. The creation
  event is stored during the load, whatever the consumer decides later.
- **Re-entrance.** A handler or a state machine may send commands and publish events while a
  publish is in progress, on the same call stack, and an exception goes through all of it unless
  a handler catches it.
- **Live objects.** The in-memory read model repository stores and returns the object itself. An
  aggregate that is a read model is therefore shared by the threads that command it, together
  with the list of the events it recorded, which is copied without the lock that guards it.
- **State outside of the objects.** The bag of the repository is static, and a finalizer sets it
  to null; the session of the NHibernate modules is thread-static, and is opened and disposed by
  nested calls of `Publish` alike.

What makes each component correct, as far as it is worth checking:

- pipeline: a stream starts with its creation; an event is stored once, in its own stream,
  before a handler sees it; an acknowledged command is heard and durable; a refused one
  leaves no event; a decision is taken on all of the stream;
- stored aggregates: the same for what is filed and heard while threads share an aggregate; the
  events of a command are filed in order and without gaps; an acknowledged command leaves its
  aggregate in the repository;
- event bus: the events of a call reach every handler, in order; what was published is handled
  in the end; a session is not disposed under the handler that holds it;
- state machines: one process per correlated value, each event handled on top of all that its
  process handled before, outgoing messages sent once and after the save.

## The model of the command pipeline

| module | what it is |
|---|---|
| `CommandPipeline` | one aggregate type, its storage, and the threads that send it commands |
| `EventLog` | the abstract specification: one log of events per aggregate and their delivery |
| `PipelineRefinement` | the mapping under which the pipeline is an event log |
| `MCCommandPipeline` | instances and symmetries for TLC |
| `CommandPipelineProofs`, `CreationProofs`, `PipelineDeliveryProofs`, `PipelineRefinementProofs` | theorems and their proofs |

**State.** `events` is the heap of event objects; `store`, the recorded events of `roots`,
`changes` and `published` hold indices of it, as the C# objects hold references. A `store`
entry also has the copies of source, version and name that `PersistableDomainEvent` makes at
`Save`, which later stamping does not change. `roots` are the aggregate instances: one named
`"shared"` for a singleton, one per thread for a transient (a thread has at most one alive).
`applied`, in a root, stands for the domain state: the sequence of events whose `Apply`
methods ran. `commands` are the command objects, with the outcome the caller of `Send` saw.
`pc`, `cmd`, `target`, `history`, `unread`, `changes` and `next` are the program counter and
locals of each thread inside `Send`. `published` (what handlers were given) and `known` (what
was acknowledged when the command was sent) only serve the properties.

**Actions**, in the order a thread takes them:

| action | code |
|---|---|
| `Send`, `ValidatorRefuses` | `InProcessCommandBus.Send`, its start modules, the validator |
| `Get` | `AggregateRootRepository.Get` and `FetchFromEventStorage` up to the test for an empty history: resolve the instance, read the history |
| `NoteAggregateCreated` | save an `AggregateCreatedEvent` when there was no history |
| `LoadEvent`, `VersionCommand` | `LoadFromHistory`: one turn of the loop; the version given to the command |
| `AssignId` | `aggregate_root.Id = id` |
| `Apply`, `ConsumerThrows`, `ReturnNothing` | what the consumer does with the aggregate |
| `Accept`, `Save` | `UnitOfWork.Accept`: copy the changes, save them one at a time |
| `Publish`, `HandlerThrows`, `ModuleThrows`, `Complete` | publish them one at a time; the ways out of `Send` |

Each action is the code between two points where another thread can be observed: the storage
is entered under its lock, so reading a history or adding an entry is one step, and the loop
turns, the assignment of the identifier and each publish are steps of their own.

Two decisions need a word. `GetHistorySinceSnapshot` compares the stored `Type.FullName` with
`Type.Name`; the model keeps names as (namespace, kind) pairs so that this comparison fails for
the reason it fails in the code, and snapshots are stored and never loaded. The version that
`VersionCommand` assigns goes to the command the *instance* executed last
(`AggregateRoot.cs:132-137`), because `CurrentCommand` is only set after the load; with a
transient instance that is no command at all.

Operators named in a comment as a *fault* (`ResolveUsed`, `InReverse`, `CompleteEarly`, ...) are
not part of the specification. Each stands for a plausible error in the definition after it;
substituting it must break the property it is paired with in `PROJECT.json`.

**Abstractions.** Identifiers are model values; a new one is any that no command has named.
Payloads, times, principals and names of aggregate types are left out. A handler does not send
commands again, and `Publish` of one event to all its handlers is one step: `EventBus` and
`ProcessManager` take these apart. A consumer applies events, then returns the aggregate, returns
null or throws; `Apply` and the copy of the recorded events are one step each, and
`StoredAggregate` takes them apart. The unsynchronised `Version++` stays out: nothing but
`LoadFromHistory`, which overwrites it, reads the version of a recorded event.

## The model of stored aggregates

| module | what it is |
|---|---|
| `ReadModelRepository` | `InMemoryReadModelRepository`: its static bag, constructor, finalizer and operations |
| `StoredAggregate` | commands on aggregates that are their own read models, over that repository, for either lifestyle |
| `MCStoredAggregate` | instances for TLC |
| `StoredAggregateProofs` | theorems |

When an aggregate type implements `IReadModel`, `AggregateRootRepository.Get` asks the read
model repository for it instead of replaying its events, and `UnitOfWork.Accept` updates it
there before it saves and publishes its events.

**Lifestyle.** An aggregate that the repository does not hold is what the container resolves
(`AggregateRootRepository.cs:55`), and line 76 writes the new identifier into it. With
`Lifestyle` `"transient"` that is an object of its own. The configuration registers aggregates
without a lifestyle (`Configuration.cs:154`, `CastleWindsorContainer.cs:93-99`), which is
`"singleton"`: the first load of every aggregate renames the one object there is, which other
threads may be commanding and the repository may hold under its former identifier, and which keeps
the events it recorded (`Reused` in `FindNothing`). The properties about identifiers,
`CreationFirst` and `FiledUnderOwn`, are claimed for `"transient"` only, and `stored_renamed`
shows the second violated with the default; the others are proved for both.

**State.** `models` is the heap of aggregate objects, each with its identifier and the list of
the events it recorded; 0 in that list is a slot that `List.Add` has counted and not written yet.
`storage` is the static field: `Null` or a bag of references to `models`, which may hold one
object twice. `constructed` says whether the container has built its repository; `abandoned`
that the instance of an earlier container (the previous configuration, a test before this one)
is still to be finalized. `events`, `store`, `commands`, `pc`, `cmd`, `changes` and `next` are
as in the pipeline; `model` is the object a thread commands, `stamp` the source it gave to the event
it is about to record, and `count` the length its copy of the list was made for.

**Actions.**

| action | code |
|---|---|
| `ConstructRepository`, `Drop` | the constructor, once for the container; the finalizer, at any time |
| `Send`, `Find`, `FindNothing`, `NoteAggregateCreated` | `FetchFromRepository`: the stored object, or the container's, which is renamed and whose creation is noted |
| `Apply` | `Apply` and `PrepareEvent`: the event gets the identifier that the aggregate has now |
| `Lock`, `Record` | the two steps of `List.Add` under the lock, which is static and so common to all aggregates |
| `ValidatorRefuses`, `ConsumerThrows`, `ReturnNothing`, `Accept` | the ways out of the consumer |
| `FindOld`, `Take`, `Insert` | the three steps of `Update`: find the old model, remove *some* element, add the new one |
| `NullReference` | any of them after the finalizer |
| `CountChanges`, `CopyChanges`, `CopyThrows` | `new List<Event>(root.GetChanges())`: the length is read and the elements copied without the lock; a list that grew does not fit |
| `Save`, `SaveThrows`, `Publish`, `HandlerThrows`, `ModuleThrows`, `Complete` | the rest of `Accept`; `SaveThrows` is the null element of a copy taken inside a `Record` |

`GetChanges` returns a read-only view of the list and takes the lock only while it makes that
view; that is why the copy is two steps in which others may record. The list never shrinks
(nothing calls `Clear`), so a command saves and publishes again what earlier commands recorded.

## The model of the event bus

| module | what it is |
|---|---|
| `EventBus` | `InProcessEventBus.Publish`, handler by handler, with the NHibernate session module |
| `AsyncEventBus` | `AsyncEventBus.Publish` and the tasks it starts |
| `MCEventBus` | instances for TLC |
| `EventBusProofs` | theorems |

**State.** `calls` are the calls of `Publish`, running or over: the thread, the call from whose
handler it was made (0 for the application), the number of events, the event `k` and the handler
`h` it is at, and the sessions that handler holds. `top` is the innermost call of each thread, so
that `parent` links form its call stack. `heard` and `missing` are histories. `session` is the
thread-static field `_currentsession`, `open` the sessions not disposed.

**Actions.** `Publish` starts a call (inside a handler if the thread is in one). Per event:
`StartModules` opens a session; `EnterHandler` and `LeaveHandler` are one handler;
`GetCurrentSession` gives it a session of its own; `CompleteModules` disposes the session in the
field and goes on to the next event or returns. `ResolveFails` is the exception that
`EventMessageDispatcher` swallows; `StartModuleThrows`, `HandlerThrows` and
`CompleteModuleThrows` end the call with an exception in the handler that made it, which may throw
in its turn or go on (a handler may catch). `Start` and `Stop` write the flag that nothing reads.
In `AsyncEventBus`, `PublishAsync` starts a task, `RunTask` gives it a worker and
`PublishInTask` is its body, which calls the overridden method and so queues the next task.

**Abstractions.** All handlers resolved for an event are alike; events are numbered. A session
that `CreateSession` replaces is never disposed by the code and stays `open` in the model.

## The model of state machines

| module | what it is |
|---|---|
| `ProcessManager` | `StateMachineExecuter` and `StateMachine` |
| `ProcessHistory` | the abstract specification: what each process handled, and what it told others |
| `MCProcessManager` | instances for TLC |
| `ProcessManagerProofs`, `ProcessHistoryProofs` | theorems |

**State.** `rows` is the stored data of processes: an identifier, the correlated key and, for
everything the machine keeps in it, the sequence of the events handled. `machines` are the
instances the container handed out, with their data, queues and flags; `calls` and `top` are the
calls of `Execute`, nested as those of the event bus, with the copy of the queue each is working
through. `handled`, `queued` and `emitted` are histories.

**Actions**, in the order of `Execute`: `Deliver` (the container resolves the machine),
`Retrieve` (the correlation is matched against the stored data), `Handle` (the machine changes its
data, queues messages, may complete), `Save` (`Delete`, `Insert` or `Update`), `CopyEvents`,
`PublishEvent`, `EventPublished`, `CopyCommands`, `SendCommand`, `CommandSent`, `Dispose`. Between
`PublishEvent` and `EventPublished`, or `SendCommand` and `CommandSent`, another `Deliver` on
the same thread may run to its end. `Throw` is an exception at any point: it ends the innermost
call of the thread and disposes nothing. The call below, which was publishing or sending, throws
in its turn, or goes on when the handler or consumer in between caught the exception.

**One user of a machine.** `AddEvent`, `AddCommand` and `Dispose` change lists and fields of the
machine in several steps without a lock (`StateMachine.cs:149-164, 189-213`). `Handle` and
`Dispose` are single steps, which is faithful as long as one thread uses a machine, and the
module assumes it (`OneUser`): a machine is built for each event (`"transient"`), or the events
of the one machine (`"singleton"`) arrive on one thread, nested in one another or one after
the other. Threads that share the one machine of the default registration may lose messages in the
unlocked lists, and are not modelled; `process_singleton` shows that this machine fails already
without them.

**Mapping.** `ProcessHistory` keeps the events that arrived, the events each key's process handled
in order, which of them completed it, and what was emitted. Its `process` is what the repository
holds for a key; its `completing` are the handled events whose machine is completed.

**Abstractions.** States and transitions are part of the data. The data is kept by a repository
that does what `IReadModelRepository` says, each operation atomic, by identifier and on copies:
what the in-memory implementation does instead is the matter of `stored_lost`. Events of one key
arrive on one thread in the instance that checks `OnePerKey` and the refinement; the code does
nothing to keep two threads from starting a process twice.

## Runs

Deadlock is not checked but in `event_bus_async`: a behaviour of the others ends when the calls
that their bound allows have returned.

| run | instance | shows |
|---|---|---|
| `pipeline_shared` | transient; 2 threads both addressing 2 aggregates; 3 commands of at most 1 event | nine invariants hold for every interleaving |
| `pipeline_partitioned` | transient; 2 threads, an aggregate each; 2 commands of at most 2 events; `SnapshotLevel` 0, so a second event is preceded by a snapshot | refinement of `EventLog`, the source a handler reads, and the state a command decides on, with snapshots |
| `pipeline_singleton` | one shared instance; 2 threads, an aggregate each; 3 commands of at most 1 event | what survives the default container |
| `stored` | transient; 2 threads both commanding 2 stored aggregates; 3 commands of at most 0, 2 and 1 events | what holds while threads share an aggregate and its list, with the finalizer at any time |
| `event_bus` | 2 threads, 2 handlers; a call of 1 or 2 events, then one of 0 or 1, beside it or nested in it; 1 session per handler | order, completeness, sessions and, under fairness, that every call ends |
| `process` | transient machine; 2 threads, a key each and events without a key; 3 events; an event queues nothing, or an event and a command; exceptions that are caught or not | one process per key, all messages out, refinement of `ProcessHistory` |
| `pipeline_stamp`, `pipeline_behind`, `event_bus_async`, `stored_renamed`, `stored_lost`, `process_singleton` | smallest instances | the findings below: the property is violated |

Properties (defined and commented at the end of `CommandPipeline.tla`):

- `CreationFirst`: no event is filed under an identifier before that aggregate's creation;
- `SavedBeforePublished`: a handler never sees an event the storage does not hold;
- `AckedDelivered`, `AckedFiledOnce`, `AckedVisible`: the events of a command whose `Send`
  returned were delivered for it, are filed exactly once and in the stream of the aggregate it
  addressed, and are part of the state every later command on that aggregate decides on;
- `RefusedLeavesNoTrace`: a command whose consumer threw or returned null has no event stored,
  but for the creation of its aggregate;
- `DeliveredOnce`: no event is delivered twice;
- `StateIsItsHistory`: a command's aggregate has applied exactly the stream it read, in order,
  and after that only events of its own;
- `HandlerSeesSource`: a handler reads the right `EventSourceId`;
- `NotBehind`: nothing was stored on the aggregate between a command's read and its acceptance
  (only in the violation run: no instance in which that can be tried satisfies it);
- `ImplementsEventLog`: every step of the pipeline creates a stream once, adds an event once to
  an open stream, delivers an event once and not out of its stream's order, or changes neither
  the log nor the deliveries.

Of `StoredAggregate.tla`, besides `CreationFirst`, `SavedBeforePublished` and `AckedDelivered`:

- `FiledInOrder`: the events of a command are filed in the order it raised them and without
  gaps, although threads save each other's events and fail between any two;
- `FiledUnderOwn`: what a command raised is filed under the aggregate the command is for;
- `AckedStored`: when all calls have returned, the repository holds a model of each aggregate a
  command was acknowledged for, unless the finalizer dropped it all. It does not hold
  (`stored_lost`). `KeptIfAlone` is what does: as long as all commands are for one aggregate, every
  element `TryTake` can remove is that aggregate's, and updates of two threads that run into each
  other leave one.

Of `EventBus.tla`:

- `BatchInOrder`, `ReturnedIsHandled`: every handler is given every event of a call, in order and
  none past a failure, and all of them when `Publish` returns, however calls nest and fail;
- `HeldSessionOpen`, `SessionsNotShared`: the session `GetCurrentSession` gave a handler is its own
  and stays open while the handler runs, whatever it or others publish;
- `EventuallyHandled`: every call comes to where all its events were handled, or throws.

Of `ProcessManager.tla`:

- `OnePerKey`: at most one process of a key is stored, however its events nest;
- `AllEmitted`: when `Execute` returns, all that was queued for its event went out;
- `ImplementsHistory`: the refinement of `ProcessHistory`;
- `HasData`: a machine that handles an event has its data (only in the violation run).

With a shared instance the recorded events of all commands pile up, so `AckedFiledOnce`,
`RefusedLeavesNoTrace` and `DeliveredOnce` do not hold there and are not claimed; the singleton
run checks the ones that do. With several threads on one aggregate the refinement does not hold
either: two first commands may both create the stream. That leaves a second creation event,
which loading skips, and is why `pipeline_partitioned` gives each aggregate one thread.

**Fairness.** `FairSpec` of the bus has `WF_vars(Progress(t))` for each thread: a thread inside
`Publish` gets to run and goes on with what it does, starting the next handler, returning from
it, or completing the event. That is the scheduler of the operating system, and handlers that
end; nothing is said of `Throw` or of `Publish`, which never have to happen. A handler that stays
in its place forever is not a failure of the bus, and the assumption excludes it. The asynchronous
bus gets more than its scheduler owes it: every queued task is given a worker (strong fairness,
task by task) and every worker runs its body. Still no event is handled. Other runs check no
liveness and assume no fairness.

**Bounds.** Two threads and two identifiers give every pairwise race, both on one aggregate and
across two. Two commands are the least with which one can load what another stored; the third
lets a thread come back while the other is still inside `Send`, and lets a used instance be used
again. One event per command is enough for the order of streams between commands; the two of
`pipeline_partitioned` give a command that fails between two saves or two publishes, and the
snapshot. `SnapshotLevel` is 100 in the code; 0 makes it reachable and 5 keeps it out of the way.
In `stored` the first command creates a stored aggregate, so that the two others can share it: one
raises two events, the least that has an order, while the other records into the same list, or
makes the second aggregate under the same lock and in the same repository.
In `event_bus` two events make a batch with an order, two handlers a first that is done when the
second throws, and the second call nests or runs beside the first. In `process` three events let
a process start, go on and complete, or be joined by an event that nests in a publish while the
other thread runs. Where symmetry is used, all exchanged values are used alike: threads and
identifiers separately when every thread addresses every aggregate, and only together in
`pipeline_singleton` and `process`. The run with liveness uses none.

## Findings

Six places where the code does not do what its own text says (run, property):

1. `pipeline_stamp`, `HandlerSeesSource` — `LoadFromHistory` stamps stored events with the id of
   the instance being loaded, which is assigned only after the load. A handler that is given such
   an event meanwhile reads an empty `EventSourceId`.
2. `pipeline_behind`, `NotBehind` — `Apply` announces a check that the command is not behind the
   events of its aggregate; the check's body is commented out and two commands that read the same
   history are both accepted.
3. `event_bus_async`, `EventuallyHandled` — the task that `AsyncEventBus.Publish` starts calls the
   overridden `Publish`, which starts the next task: no event reaches a handler and the tasks never
   end.
4. `stored_renamed`, `FiledUnderOwn` — `Get` is said to instantiate a new instance; with the
   default lifestyle it writes the identifier of a new aggregate into the object that another thread
   is commanding, whose next event is stamped with and filed under the wrong aggregate.
5. `stored_lost`, `AckedStored` — `Update` of the in-memory repository takes out whichever element
   the bag gives it. One thread and two aggregates suffice: updating one loses the other and
   keeps the one twice.
6. `process_singleton`, `HasData` — a machine registered as the configuration does it is one
   instance, and `Dispose` after the first event leaves it without data, queues and correlations
   for the second.

Also seen while modelling, and not made runs of their own: with the default lifestyle
`LoadFromHistory` does not reconstitute an aggregate but applies the history on top of what the
shared instance already is (`StateIsItsHistory` fails with `ResolveUsed`, its fault in
`pipeline_partitioned`, which is that lifestyle); a version is never given to a command when
instances are transient; snapshots are taken and never used; two first commands on one identifier
both store a creation event.

## Proofs

All theorems are about the specification of their module with arbitrary constants; what they
assume is the module's named `ASSUME` (the constants have their types) and what the table says.

| module | theorem | states | argument |
|---|---|---|---|
| `CommandPipelineProofs` | `TypeCorrect` | `TypeOK` | `TypeInv` adds that every reference is in the heap (`RefsInHeap`), without which nothing is known of the event a thread saves or stamps, and that a thread inside `Send` has a command and a target and that its position is within its changes (`InsideSend`) |
| | `SavedFirst` | `SavedBeforePublished` | `SavedInv`: a thread that saves has saved the changes before `next`, one that publishes has saved them all; other threads preserve it because the storage only grows (`Grows`) |
| `CreationProofs` | `StreamsBeginWithCreation` | `CreationFirst` | `CreationInv`, below |
| `PipelineDeliveryProofs` | `AckedHeard`, `DecidedOnAcked` | `AckedDelivered`, `AckedVisible` | `HeardInv` and `VisibleInv`, below, for both lifestyles |
| | `AckedIsFiledOnce`, `RefusedFilesNothing`, `DeliveredAtMostOnce`, `StateFollowsHistory` | `AckedFiledOnce`, `RefusedLeavesNoTrace`, `DeliveredOnce`, `StateIsItsHistory` | assumes `Transient`: the container builds an instance per command, without which they are false. `FiledInv`, `DeliveredInv` and `ReplayedInv`, below |
| `PipelineRefinementProofs` | `HandlersSeeTheSource`, `EventLogImplemented` | `HandlerSeesSource`, `ImplementsEventLog` | assumes `Partitioned`: `Transient`, and an aggregate is addressed by one thread; `pipeline_stamp` shows the first false without the second part. `SourceInv`, `OpeningInv`, `OrderInv` and `CountInv`, below |
| `StoredAggregateProofs` | `TypeCorrect`, `OrderFiled`, `SavedFirst`, `AckedHeard` | `TypeOK`, `FiledInOrder`, `SavedBeforePublished`, `AckedDelivered` | for both lifestyles. `Inv`, below |
| | `CreationsFirst`, `FiledAtHome` | `CreationFirst`, `FiledUnderOwn` | assume `Lifestyle = "transient"`; `stored_renamed` shows the second false without. `Inv`, and `Named`: events, entries and threads have the identifier their command names |
| | `AckedKept` | `KeptIfAlone` | for both lifestyles. `Stocked`: once a command has put its aggregate into the repository, the bag is empty only while some thread is between `Take` and `Insert`; no command gets past `Get` before the constructor has run, and after it only the finalizer clears the bag. `Homes`: an object has the identifier of some command |
| `EventBusProofs` | `TypeCorrect`, `BatchesInOrder`, `ReturnedHandled`, `SessionsStayOpen`, `SessionsAreOwn` | `TypeOK`, `BatchInOrder`, `ReturnedIsHandled`, `HeldSessionOpen`, `SessionsNotShared` | `Chain`: the running calls of a thread are a stack, all but the innermost waiting in a handler; `Order`: what the position of a call says of `heard`; `Held`: a session held is open, is held once, and is in the field of its thread only while its call is the innermost or the one nested in it has yet to open its own |
| `ProcessManagerProofs` | `TypeCorrect` | `TypeOK` | `References` and `Numbered`: identifiers of data are given once, and a machine that found its data has one, or was disposed |
| | `MessagesGoOut` | `AllEmitted` | under `OneUser`: a machine for each event on any threads, or one machine and one thread. `AllKept`: a message queued by a running call is still in the queue of its machine or in the copy being worked through; `AllGone`: the copy up to `next` is out. Nested events add to the queues of a shared machine and dispose them, so both are stated call by call |
| `ProcessHistoryProofs` | `OneProcess`, `HistoryImplemented` | `OnePerKey`, `ImplementsHistory` | assumes `Partitioned`: a transient machine, and the events of a key on one thread. `Own`: a call has its machine for itself; `AllFresh`: what a call found, or did not find, of its key is what is stored until it saves; `AllTold`: what was emitted is what calls past their save have sent |

*`CreationFirst` in the pipeline.* `Save` files an event under the source it carries *at that
moment*, and other threads re-stamp event objects. With a shared instance any event may be
re-stamped, but only with an identifier the instance had, and it is given one only after that
aggregate's creation was saved (`SharedStamps`). With an instance per command an event has not been
saved yet, so no load of another thread reaches it (`Isolated`); this in turn needs that no two
threads execute one command (`OwnCommand`) and that a reference does not occur twice among the
changes, or the thread would save it under a source that a load has emptied in between
(`Ascending`). `Loaded` follows the creation from the history a thread read to the identifier its
instance is given.

*What a caller of `Send` may rely on.* `HeardInv` follows the events of a running command from the
recorded events of the instance (`Raised(cmd[t])` is among them while the consumer runs) to the
copy the unit of work streams, and says that those before `next` were given to the handlers for
this command. A shared instance only ever adds to its recorded events, so that no other thread can
lose them: `AckedDelivered` holds for both lifestyles. So does `AckedVisible`, for two different
reasons (`VisibleInv`): the shared instance has applied every event there is; an instance per
command has applied, or has still to apply, every event that was acknowledged when the command was
sent, because acknowledged events are filed (from `SavedInv`) in the stream `Get` reads
(`FiledAtSource`).

*With an instance per command.* `FiledInv` says that the instance has the identifier the command
addressed and stamps it on all its events (`Addressed`), that its changes are events of its command,
each once (`OwnChanges`), and of the storage that an entry is in the stream its event's command
addressed (`FiledAtSource`) and that no event is filed twice (`FiledOnce`). A load of another thread
may stamp an event again, but only a filed one, of which the storage has its own copy of the source;
that is again `Isolated`. `DeliveredInv` ties a delivery to the turn of the loop that made it, so that
equal events have equal turns. `ReplayedInv` is about the loop of `LoadFromHistory`: what is unread
comes after all that was read, and the event at position i of the history is the k-th applied, k being
the number of domain events up to i. Its step is counting: reading the least unread position raises
the number of those seen by one and leaves the ranks of the others alone.

*The refinement of `EventLog`.* The abstract log is the storage, the abstract deliveries the events
published. `NoteAggregateCreated` maps to `CreateStream`, `Save` to `AddEvent`, `Publish` and
`HandlerThrows` to `Deliver`, and every other step changes neither: `LoadEvent` writes to events,
but not to what the log tells of them. The guards of the abstract actions are what has to be shown.
The stream is not open when a creation is noted, as the thread found no history and nobody else
adds to its stream (`OpeningInv`). It is open, and does not hold the event, when an event is saved
(`Isolated`). An event was not delivered before (`DeliveredInv`), is filed (`SavedInv`), and nothing
behind it in its stream was delivered: a stream holds its events in the order they were raised
(`StreamAscends`), what is still to be saved comes after the stream (`Later`), and what is still to be
published after all that was published of the aggregate (`Unheard`), including what an earlier
command published before one of its handlers threw. `CountInv` is there for the bounds: `EventRefs`
is a finite set, and a command that raises at most `MaxApplies` events has at most one snapshot for
each and one creation, which the proof counts by an injection into pairs (`Slots`, `Bounded`).

*Stored aggregates.* Threads save and publish events that other threads raised, from copies of a
list that others were growing. The properties do not follow from what the thread itself does, but
from what every list is at every moment (`Recorded`): ascending but for an unwritten last slot, and
*together*, that is, with an event it has all that the event's command raised before. Appending
a slot, writing it and copying the list keep this, and so does every event raised elsewhere
(`RecordedKept`), since numbers of new events are greater than all there are. `Line` says what holds of
a thread at each place: its aggregate's creation is noted (if instances are transient), the list has
all events of its command, a copy still being saved is filed before `next`. `Grown` is what a step of one thread may do to
the others, and `LineKept` that a thread's line survives it. The lock enters in `Locked`: only
the one thread inside `Record` has an unwritten slot, so that the next slot comes after written ones.
A null element ends the thread that copied it before it publishes anything, which is why
`AckedDelivered` survives the copy without the lock.

*The refinement of state machines.* A nested event can only arrive while the calls below it wait
in `publishing` or `sending`, past their save; whoever is between `Retrieve` and `Save` is the
innermost call of its thread, and the only one of its key. So the data it found is the data in the
repository when it saves, and its step maps to `Continue` or `Complete` of `ProcessHistory`. The
message it emits next is not among those emitted, because its number and its kind determine its
place in the copy.

Only model-checked: `EventuallyHandled`, as liveness under fairness is out of the prover's reach.
Every invariant and both refinements that a passing run checks are proved, under the hypotheses of
the table; each hypothesis is what the instance of that run satisfies, and a violation run or the
text above shows what fails without it. In the other direction, no run has the default lifestyle
with stored aggregates but `stored_renamed`: what holds of it there is proved.

## What is not covered

- *Worker threads, transacted session:* compiled, and nothing in the repository constructs them,
  so that there is no code to say with which calls, and in which order, they would be used. Their
  defects (a thread that joins itself; a commit in `Dispose`) show in a reading and are listed as
  hazards.
- *NHibernate storage and read models:* the order and the isolation of what they return are the
  database's. `GetHistory` without an order and the snapshot query over all aggregates are listed as
  hazards. Their session module for the event bus is modelled.
- *`Delete` and `All` of the in-memory repository:* only state machines delete, and these are
  modelled over the interface.
- *Two threads that use one state machine:* the queues and fields they share are changed without a
  lock (`OneUser`, above).
- *Two threads with events of one key* in the refinement of state machines: the code has no check
  that would make it hold.
- *Registration and dispatch by reflection*, and the error paths for missing or duplicate consumers,
  which end `Send` before any state changes.
- *Validation, identifiers, serialization, event convertors, context and configuration:* pure
  functions, or code that runs once at start; in the models a command is refused or not and an
  identifier is new. The validation rules are a static list, which is listed as a hazard.
- *SignalR hub, fixtures, files that no project compiles, packaged scripts.*

## Plan

1. *(done)* `CommandPipeline`, `EventLog`, `PipelineRefinement`, with type correctness,
   `SavedBeforePublished` and `CreationFirst` proved.
2. *(done)* `EventBus`, `AsyncEventBus`, with liveness; sessions across nested publishes.
3. *(done)* `ReadModelRepository`, `StoredAggregate`: the read model branch of the repository and
   the unit of work, `Apply` and the copy of the changes in their steps.
4. *(done)* `ProcessManager`, `ProcessHistory`.
5. *(done)* Proofs of the safety properties of the three, and of the refinement of `ProcessHistory`.
6. *(done)* Proofs of the other invariants of the pipeline, of the refinement of `EventLog` and of
   `KeptIfAlone`.
7. *(done)* Both lifestyles of stored aggregates; exceptions that a handler catches.
8. `ProcessManager` over the in-memory repository, whose `Delete` removes some element and whose
   data is the live object.
