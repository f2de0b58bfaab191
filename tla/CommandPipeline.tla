--------------------------- MODULE CommandPipeline ---------------------------
(***************************************************************************)
(* One event-sourced aggregate type of Halifax and the threads that send   *)
(* it commands: InProcessCommandBus.Send, the command dispatcher, the      *)
(* consumer that loads the aggregate from AggregateRootRepository and      *)
(* applies events to it, and UnitOfWork.Accept, which saves the recorded   *)
(* events to InMemoryEventStorage and publishes them on InProcessEventBus. *)
(*                                                                         *)
(* Events are objects of a heap, `events', and every other part of the     *)
(* state refers to them by their index there: the storage keeps the very   *)
(* object the aggregate recorded, so a later LoadFromHistory that stamps   *)
(* the object changes what every holder of the reference reads.            *)
(***************************************************************************)
EXTENDS Integers, Sequences, FiniteSets

CONSTANTS
  Ids,            \* aggregate identifiers (Guids other than Guid.Empty)
  NoId,           \* Guid.Empty
  Threads,        \* threads that call InProcessCommandBus.Send
  Targets,        \* Targets[t]: the aggregates thread t sends commands to
  Lifestyle,      \* of the aggregate in the container, see Instance
  SnapshotLevel,  \* AggregateRoot.SnapshotLevel
  MaxCommands,    \* bound: commands sent in a behaviour
  MaxApplies      \* bound: events one command raises

ASSUME PipelineAssumption ==
  /\ NoId \notin Ids
  /\ Targets \in [Threads -> SUBSET Ids]
  /\ Lifestyle \in {"singleton", "transient"}
  /\ SnapshotLevel \in Nat
  /\ MaxCommands \in Nat
  /\ MaxApplies \in Nat

VARIABLES
  events,     \* the event objects, [kind, src, ver, cmd]
  store,      \* InMemoryEventStorage.persisted_events, [src, ver, name, ev]
  roots,      \* the aggregate instances the container has handed out
  commands,   \* the command objects sent, [id, version, outcome]
  published,  \* what the handlers were given, [ev, src, cmd, turn]: as its turn-th
              \* event, command cmd handed ev to Dispatch when it read EventSourceId src
  pc,         \* where each thread is inside Send
  cmd,        \* the command a thread is executing, an index of commands
  target,     \* local id of AggregateRootRepository.Get
  history,    \* local history of FetchFromEventStorage, positions of store
  unread,     \* the part of history LoadFromHistory has still to apply
  changes,    \* local events of InvokeEventSourcingForAggregate
  next,       \* position in changes of the event to save or publish next
  known       \* history variable: the events acknowledged on the requested
              \* aggregate when the command was sent

locals == <<cmd, target, history, unread, changes, next, known>>
vars   == <<events, store, roots, commands, published, pc, locals>>

-----------------------------------------------------------------------------
(* Data.                                                                   *)

\* AggregateCreatedEvent, AggregateSnapshotCreatedEvent, an event of the domain
Kinds == {"created", "snapshot", "domain"}

\* Type.FullName, which Save files an event under, carries the namespace that
\* Type.Name, which GetHistorySinceSnapshot looks for, does not.
FullName(kind)  == <<"Halifax.Internals.Events", kind>>
ShortName(kind) == <<"", kind>>

Places == {"idle", "sent", "note", "load", "assign", "execute", "save", "publish"}

\* The instance that container.Resolve<TAggregateRoot>() gives a thread. Windsor
\* registers a component without a lifestyle as a singleton: every id and every
\* thread shares it. A container that registers it as transient builds one per Get.
Instances   == IF Lifestyle = "singleton" THEN {"shared"} ELSE Threads
Instance(t) == IF Lifestyle = "singleton" THEN "shared" ELSE t

\* A constructed AggregateRoot. `applied' stands for the domain state: the events
\* whose Apply methods the instance has run, in order.
NewRoot == [id |-> NoId, version |-> 0, recorded |-> <<>>, applied |-> <<>>,
            command |-> 0]

root(t) == roots[Instance(t)]

Elements(s) == {s[i] : i \in DOMAIN s}

GoTo(t, place) == pc' = [pc EXCEPT ![t] = place]

\* The call of Send returns or throws: the thread keeps nothing of it.
Return(t, outcome) ==
  /\ commands' = [commands EXCEPT ![cmd[t]].outcome = outcome]
  /\ GoTo(t, "idle")
  /\ history' = [history EXCEPT ![t] = {}]
  /\ unread'  = [unread EXCEPT ![t] = {}]
  /\ changes' = [changes EXCEPT ![t] = <<>>]
  /\ next'    = [next EXCEPT ![t] = 1]
  /\ known'   = [known EXCEPT ![t] = {}]
  /\ cmd'     = [cmd EXCEPT ![t] = 0]
  /\ target'  = [target EXCEPT ![t] = NoId]

-----------------------------------------------------------------------------
(* InMemoryEventStorage.                                                   *)

Positions(id) == {i \in DOMAIN store : store[i].src = id}

\* Faults: the history of every aggregate; a history without its latest event.
GetHistoryOfAll(id)     == DOMAIN store
GetHistoryButLatest(id) == {i \in Positions(id) : \E j \in Positions(id) : i < j}

GetHistory(id) == Positions(id)

GetHistorySinceSnapshot(id) ==
  {i \in Positions(id) : store[i].name = ShortName("snapshot")}

\* Fault: filed under the name the snapshot query looks for.
EntryByShortName(e, ev) ==
  [src |-> ev.src, ver |-> ev.ver, name |-> ShortName(ev.kind), ev |-> e]

\* The entry that Save adds: its own copy of the stamps, the event by reference.
Entry(e, ev) ==
  [src |-> ev.src, ver |-> ev.ver, name |-> FullName(ev.kind), ev |-> e]

-----------------------------------------------------------------------------
(* Sending a command and loading its aggregate.                            *)

\* Domain events of the acknowledged commands on aggregate id.
Acknowledged(id) ==
  {e \in DOMAIN events :
     /\ events[e].kind = "domain"
     /\ commands[events[e].cmd].id = id
     /\ commands[events[e].cmd].outcome = "done"}

Send(t, id) ==
  /\ pc[t] = "idle"
  /\ Len(commands) < MaxCommands
  /\ commands' = Append(commands, [id |-> id, version |-> 0, outcome |-> "pending"])
  /\ cmd'   = [cmd EXCEPT ![t] = Len(commands) + 1]
  /\ known' = [known EXCEPT ![t] = Acknowledged(id)]
  /\ GoTo(t, "sent")
  /\ UNCHANGED <<events, store, roots, published, target, history, unread, changes, next>>

\* A bus module, told of the start of Send, or the validator throws before the consumer runs.
ValidatorRefuses(t) ==
  /\ pc[t] = "sent"
  /\ Return(t, "refused")
  /\ UNCHANGED <<events, store, roots, published>>

\* CombGuid.NewGuid: an identifier no command has named.
NewGuids(t) == Targets[t] \ {commands[n].id : n \in DOMAIN commands}

\* Faults: an instance used before is used again; the shared one is cleared for each Get.
ResolveUsed(t)    == UNCHANGED roots
ResolveCleared(t) == roots' = [roots EXCEPT ![Instance(t)] = NewRoot]

\* container.Resolve<TAggregateRoot>()
Resolve(t) == IF Lifestyle = "singleton" THEN UNCHANGED roots
              ELSE roots' = [roots EXCEPT ![t] = NewRoot]

\* The consumer calls repository.Get: resolve the instance, read the history. A new
\* identifier becomes the one the command is about. (A thread with no identifier left in
\* Ids takes no step here: a bound of the model.)
Get(t) ==
  /\ pc[t] = "sent"
  /\ \E id \in IF commands[cmd[t]].id = NoId THEN NewGuids(t) ELSE {commands[cmd[t]].id} :
       LET since == GetHistorySinceSnapshot(id)
           read  == IF since = {} THEN GetHistory(id) ELSE since
       IN  /\ target'   = [target EXCEPT ![t] = id]
           /\ commands' = [commands EXCEPT ![cmd[t]].id = id]
           /\ history'  = [history EXCEPT ![t] = read]
           /\ unread'   = [unread EXCEPT ![t] = read]
           /\ GoTo(t, IF read = {} THEN "note" ELSE "load")
  /\ Resolve(t)
  /\ UNCHANGED <<events, store, published, cmd, changes, next, known>>

\* NoteAggregateCreatedForFirstTime, saved at once and outside the unit of work.
NoteAggregateCreated(t) ==
  LET created == [kind |-> "created", src |-> target[t], ver |-> 0, cmd |-> cmd[t]]
  IN  /\ pc[t] = "note"
      /\ events' = Append(events, created)
      /\ store'  = Append(store, Entry(Len(events) + 1, created))
      /\ GoTo(t, "assign")
      /\ UNCHANGED <<roots, commands, published, locals>>

\* Fault: the history is replayed from its end.
InReverse(t, i) == \A j \in unread[t] : j <= i

\* The loop takes the events in the order of the storage.
InOrder(t, i) == \A j \in unread[t] : i <= j

\* One turn of the loop of LoadFromHistory: stamp the stored event object with the
\* id and version the instance has now, and run its Apply method.
LoadEvent(t) ==
  /\ pc[t] = "load"
  /\ \E i \in unread[t] :
       LET e == store[i].ev
       IN  /\ InOrder(t, i)
           /\ unread' = [unread EXCEPT ![t] = @ \ {i}]
           /\ IF events[e].kind = "domain"
                THEN /\ events' = [events EXCEPT ![e].src = root(t).id,
                                                 ![e].ver = root(t).version]
                     /\ roots'  = [roots EXCEPT ![Instance(t)].applied = Append(@, e)]
                ELSE UNCHANGED <<events, roots>>
  /\ UNCHANGED <<store, commands, published, pc, cmd, target, history, changes, next, known>>

\* The end of LoadFromHistory: the version goes to the command the instance executed
\* last, if it has executed one.
VersionCommand(t) ==
  /\ pc[t] = "load"
  /\ unread[t] = {}
  /\ \E i \in history[t] :
       LET highest == events[store[i].ev].ver
       IN  /\ \A j \in history[t] : events[store[j].ev].ver <= highest
           /\ commands' = IF root(t).command = 0 THEN commands
                          ELSE [commands EXCEPT ![root(t).command].version = highest + 1]
  /\ GoTo(t, "assign")
  /\ UNCHANGED <<events, store, roots, published, locals>>

\* Fault: the instance keeps the identifier it had.
AssignIdForgotten(t) ==
  /\ pc[t] = "assign"
  /\ GoTo(t, "execute")
  /\ UNCHANGED <<events, store, roots, commands, published, locals>>

AssignId(t) ==
  /\ pc[t] = "assign"
  /\ roots' = [roots EXCEPT ![Instance(t)].id = target[t]]
  /\ GoTo(t, "execute")
  /\ UNCHANGED <<events, store, commands, published, locals>>

-----------------------------------------------------------------------------
(* Executing the command.                                                  *)

RaisedBy(n) == {e \in DOMAIN events : events[e].cmd = n /\ events[e].kind = "domain"}

\* AggregateRoot.Apply: run the Apply method, count the version, stamp the event,
\* take a snapshot when more than SnapshotLevel events are recorded, record it.
Apply(t) ==
  LET version  == root(t).version + 1
      Stamped(kind) == [kind |-> kind, src |-> root(t).id, ver |-> version, cmd |-> cmd[t]]
      raised   == IF Len(root(t).recorded) > SnapshotLevel
                    THEN <<Stamped("snapshot"), Stamped("domain")>>
                    ELSE <<Stamped("domain")>>
      refs     == [i \in 1..Len(raised) |-> Len(events) + i]
  IN  /\ pc[t] = "execute"
      /\ Cardinality(RaisedBy(cmd[t])) < MaxApplies
      /\ events' = events \o raised
      /\ roots' = [roots EXCEPT
                     ![Instance(t)].version  = version,
                     ![Instance(t)].recorded = @ \o refs,
                     ![Instance(t)].applied  = Append(@, Len(events) + Len(raised))]
      /\ UNCHANGED <<store, commands, published, pc, locals>>

\* The consumer throws, before or after it applied events; nothing undoes Apply.
ConsumerThrows(t) ==
  /\ pc[t] = "execute"
  /\ Return(t, "refused")
  /\ UNCHANGED <<events, store, roots, published>>

\* The consumer returns null: the dispatcher has nothing to accept.
ReturnNothing(t) ==
  /\ pc[t] = "execute"
  /\ Return(t, "nothing")
  /\ UNCHANGED <<events, store, roots, published>>

\* Fault: the events go to the handlers first.
AcceptWithoutSaving(t) ==
  /\ pc[t] = "execute"
  /\ roots' = [roots EXCEPT ![Instance(t)].command = cmd[t]]
  /\ changes' = [changes EXCEPT ![t] = root(t).recorded]
  /\ next' = [next EXCEPT ![t] = 1]
  /\ GoTo(t, "publish")
  /\ UNCHANGED <<events, store, commands, published, cmd, target, history, unread, known>>

\* The consumer returns the aggregate; UnitOfWork.Accept copies its changes.
Accept(t) ==
  /\ pc[t] = "execute"
  /\ roots' = [roots EXCEPT ![Instance(t)].command = cmd[t]]
  /\ changes' = [changes EXCEPT ![t] = root(t).recorded]
  /\ next' = [next EXCEPT ![t] = 1]
  /\ GoTo(t, IF root(t).recorded = <<>> THEN "publish" ELSE "save")
  /\ UNCHANGED <<events, store, commands, published, cmd, target, history, unread, known>>

\* StreamEventsToStorage, one Save at a time.
Save(t) ==
  LET e == changes[t][next[t]]
  IN  /\ pc[t] = "save"
      /\ store' = Append(store, Entry(e, events[e]))
      /\ IF next[t] < Len(changes[t])
           THEN /\ next' = [next EXCEPT ![t] = @ + 1]
                /\ UNCHANGED pc
           ELSE /\ next' = [next EXCEPT ![t] = 1]
                /\ GoTo(t, "publish")
      /\ UNCHANGED <<events, roots, commands, published, cmd, target, history, unread,
                     changes, known>>

Deliver(t) ==
  LET e == changes[t][next[t]]
  IN  /\ pc[t] = "publish"
      /\ next[t] <= Len(changes[t])
      /\ published' = published \cup
           {[ev |-> e, src |-> events[e].src, cmd |-> cmd[t], turn |-> next[t]]}

\* StreamEventsToHandlers, one Publish at a time.
Publish(t) ==
  /\ Deliver(t)
  /\ next' = [next EXCEPT ![t] = @ + 1]
  /\ UNCHANGED <<events, store, roots, commands, pc, cmd, target, history, unread,
                 changes, known>>

\* A handler throws: Send throws, the events after this one are not published, and
\* the storage, which takes no part in the TransactionScope, keeps what it has.
HandlerThrows(t) ==
  /\ Deliver(t)
  /\ Return(t, "failed")
  /\ UNCHANGED <<events, store, roots>>

\* A bus module throws when it is told of the start or the end of a Publish, or of the end
\* of Send.
ModuleThrows(t) ==
  /\ pc[t] = "publish"
  /\ Return(t, "failed")
  /\ UNCHANGED <<events, store, roots, published>>

\* Fault: Send returns before the last Publish.
CompleteEarly(t) ==
  /\ pc[t] = "publish"
  /\ Return(t, "done")
  /\ UNCHANGED <<events, store, roots, published>>

\* Every event is published: Send returns.
Complete(t) ==
  /\ pc[t] = "publish"
  /\ next[t] > Len(changes[t])
  /\ Return(t, "done")
  /\ UNCHANGED <<events, store, roots, published>>

-----------------------------------------------------------------------------
Init ==
  /\ events = <<>>
  /\ store = <<>>
  /\ roots = [r \in Instances |-> NewRoot]
  /\ commands = <<>>
  /\ published = {}
  /\ pc = [t \in Threads |-> "idle"]
  /\ cmd = [t \in Threads |-> 0]
  /\ target = [t \in Threads |-> NoId]
  /\ history = [t \in Threads |-> {}]
  /\ unread = [t \in Threads |-> {}]
  /\ changes = [t \in Threads |-> <<>>]
  /\ next = [t \in Threads |-> 1]
  /\ known = [t \in Threads |-> {}]

Load(t)    == Get(t) \/ NoteAggregateCreated(t) \/ LoadEvent(t) \/ VersionCommand(t) \/ AssignId(t)
Execute(t) == Apply(t) \/ ConsumerThrows(t) \/ ReturnNothing(t) \/ Accept(t)
Stream(t)  == Save(t) \/ Publish(t) \/ HandlerThrows(t) \/ ModuleThrows(t) \/ Complete(t)

Next ==
  \E t \in Threads :
    \/ \E id \in Targets[t] \cup {NoId} : Send(t, id)
    \/ ValidatorRefuses(t)
    \/ Load(t)
    \/ Execute(t)
    \/ Stream(t)

Spec == Init /\ [][Next]_vars

-----------------------------------------------------------------------------
(* Properties.                                                             *)

AnyId == Ids \cup {NoId}
Ref   == Nat \ {0}

Event    == [kind : Kinds, src : AnyId, ver : Nat, cmd : Nat]
Filed    == [src : AnyId, ver : Nat, name : {FullName(k) : k \in Kinds}, ev : Ref]
Root     == [id : AnyId, version : Nat, recorded : Seq(Ref), applied : Seq(Ref),
             command : Nat]
Command  == [id : AnyId, version : Nat,
             outcome : {"pending", "refused", "nothing", "failed", "done"}]
Delivery == [ev : Ref, src : AnyId, cmd : Nat, turn : Nat]

\* Every variable has its type.
TypeOK ==
  /\ events \in Seq(Event)
  /\ store \in Seq(Filed)
  /\ roots \in [Instances -> Root]
  /\ commands \in Seq(Command)
  /\ published \in SUBSET Delivery
  /\ pc \in [Threads -> Places]
  /\ cmd \in [Threads -> Nat]
  /\ target \in [Threads -> AnyId]
  /\ history \in [Threads -> SUBSET DOMAIN store]
  /\ unread \in [Threads -> SUBSET DOMAIN store]
  /\ changes \in [Threads -> Seq(Ref)]
  /\ next \in [Threads -> Ref]
  /\ known \in [Threads -> SUBSET Ref]

Created(id) == \E j \in DOMAIN store : store[j].src = id /\ events[store[j].ev].kind = "created"

\* Whatever the lifestyle and the interleaving, a stream begins with the creation
\* event of its aggregate: no event is filed under an identifier before
\* NoteAggregateCreatedForFirstTime has saved that aggregate's creation, although
\* events are stamped, re-stamped and saved by several threads.
CreationFirst ==
  \A i \in DOMAIN store :
    \E j \in 1..i : store[j].src = store[i].src /\ events[store[j].ev].kind = "created"

\* A handler never sees an event the storage does not hold: UnitOfWork streams all
\* events to storage before it streams the first to a handler.
SavedBeforePublished ==
  \A p \in published : \E j \in DOMAIN store : store[j].ev = p.ev

\* A command that returned to its caller was heard: every domain event it raised has
\* been delivered to the handlers on behalf of that command.
AckedDelivered ==
  \A e \in DOMAIN events :
    (events[e].kind = "domain" /\ commands[events[e].cmd].outcome = "done") =>
      \E p \in published : p.ev = e /\ p.cmd = events[e].cmd

\* Read your writes: the state a command decides on reflects every event that had been
\* acknowledged on its aggregate when the command was sent.
AckedVisible ==
  \A t \in Threads : pc[t] = "execute" => known[t] \subseteq Elements(root(t).applied)

\* A command that returned is durable exactly once: each of its events is filed once, in
\* the stream of the aggregate the command addressed.
AckedFiledOnce ==
  \A e \in DOMAIN events :
    (events[e].kind = "domain" /\ commands[events[e].cmd].outcome = "done") =>
      \E i \in DOMAIN store :
        /\ store[i].ev = e
        /\ store[i].src = commands[events[e].cmd].id
        /\ \A j \in DOMAIN store : store[j].ev = e => j = i

\* A command its consumer refused (by an exception, or by returning no aggregate) leaves
\* no event of its own in the storage, however many it had applied before.
RefusedLeavesNoTrace ==
  \A i \in DOMAIN store :
    events[store[i].ev].kind # "created" =>
      commands[events[store[i].ev].cmd].outcome \notin {"refused", "nothing"}

\* No event is given to the handlers twice, by the thread that raised it or another.
DeliveredOnce ==
  \A p, q \in published : p.ev = q.ev => p = q

\* What LoadFromHistory promises (reconstitute an object from the events previously
\* recorded, in order): a command's aggregate has applied the domain events of the stream it
\* read, each exactly once and in the stored order, and after them nothing but its own.
StateIsItsHistory ==
  \A t \in Threads : pc[t] = "execute" =>
    LET read    == {i \in history[t] : events[store[i].ev].kind = "domain"}
        rank(i) == Cardinality({j \in read : j <= i})
        applied == root(t).applied
    IN  /\ Cardinality(read) <= Len(applied)
        /\ \A i \in read : applied[rank(i)] = store[i].ev
        /\ \A k \in DOMAIN applied : k > Cardinality(read) => events[applied[k]].cmd = cmd[t]

\* The EventSourceId a handler reads is the identifier of the aggregate that generated
\* the event (Event.cs, on EventSourceId).
HandlerSeesSource ==
  \A p \in published : p.src = commands[events[p.ev].cmd].id

\* A command is not "behind" the events of its aggregate when its own are accepted: its
\* decision was taken on the whole stream as it stood then (AggregateRoot.Apply, on
\* IsConflictingCommandForEvent).
NotBehind ==
  \A t \in Threads :
    (pc[t] = "save" /\ next[t] = 1) =>
      \A i \in Positions(target[t]) :
        events[store[i].ev].kind = "domain" => i \in history[t]
=============================================================================
