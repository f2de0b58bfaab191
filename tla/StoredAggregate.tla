---------------------------- MODULE StoredAggregate ----------------------------
(***************************************************************************)
(* Commands on aggregates that are their own read models: the repository   *)
(* of aggregates finds them in the read model repository and not in the    *)
(* event storage, and the unit of work updates them there before it saves  *)
(* and publishes their events.  An aggregate that was found is the stored  *)
(* object itself, so threads that command one aggregate share it, with the *)
(* list of the events it recorded.  One that was not found is what the     *)
(* container resolves: an object of its own, or the one object of all      *)
(* aggregates, which is given the identifier of the new one.               *)
(***************************************************************************)
EXTENDS ReadModelRepository

CONSTANTS
  Ids,          \* aggregate identifiers
  Threads,      \* threads that call InProcessCommandBus.Send
  Lifestyle,    \* of aggregates in the container
  Raises        \* bound: Raises[n], how many events the n-th command raises at most

ASSUME StoredAssumption ==
  /\ Raises \in Seq(Nat)
  /\ Lifestyle \in {"singleton", "transient"}

VARIABLES
  models,     \* the aggregates, [id, recorded]; 0 in recorded is a slot not yet written
  events,     \* the event objects, [kind, src, cmd]
  store,      \* InMemoryEventStorage.persisted_events, [src, ev]
  commands,   \* the commands sent, [id, outcome]
  published,  \* <<n, e>>: handlers were given event e for command n
  pc,         \* where each thread is inside Send
  cmd,        \* the command a thread executes, an index of commands, or 0
  model,      \* the aggregate it commands, an index of models, or 0
  stamp,      \* the source it gave to the event it is about to record
  count,      \* the length CountChanges read
  changes,    \* local events of InvokeEventSourcingForAggregate
  next        \* position in changes of the event to save or publish next

locals == <<cmd, model, stamp, count, changes, next>>
vars   == <<memory, models, events, store, commands, published, pc, locals>>

-----------------------------------------------------------------------------
Places == {"idle", "sent", "note", "execute", "lock", "record", "update", "take", "insert",
           "count", "copy", "save", "publish"}

Elements(s) == {s[i] : i \in DOMAIN s}

aggregate(t) == models[model[t]]

requested(t) == commands[cmd[t]].id

RaisedBy(n) == {e \in DOMAIN events : events[e].cmd = n /\ events[e].kind = "domain"}

GoTo(t, place) == pc' = [pc EXCEPT ![t] = place]

\* A step inside Send that only moves on.
Step(t, from, to) ==
  /\ pc[t] = from
  /\ GoTo(t, to)

\* Send returns or throws.
Return(t, outcome) ==
  /\ commands' = [commands EXCEPT ![cmd[t]].outcome = outcome]
  /\ GoTo(t, "idle")
  /\ cmd'     = [cmd EXCEPT ![t] = 0]
  /\ model'   = [model EXCEPT ![t] = 0]
  /\ stamp'   = [stamp EXCEPT ![t] = Null]
  /\ count'   = [count EXCEPT ![t] = 0]
  /\ changes' = [changes EXCEPT ![t] = <<>>]
  /\ next'    = [next EXCEPT ![t] = 1]

\* The stored models that FirstOrDefault may find: a bag has no order.
Matching(id) == {m \in DOMAIN models : Stored(m) /\ models[m].id = id}

-----------------------------------------------------------------------------
(* AggregateRootRepository.FetchFromRepository.                            *)

\* A command names an aggregate, or the repository makes up an identifier for it.
Send(t, id) ==
  /\ Step(t, "idle", "sent")
  /\ Len(commands) < Len(Raises)
  /\ commands' = Append(commands, [id |-> id, outcome |-> "pending"])
  /\ cmd' = [cmd EXCEPT ![t] = Len(commands) + 1]
  /\ UNCHANGED <<memory, models, events, store, published, model, stamp, count, changes, next>>

ConstructRepository(t) ==
  /\ pc[t] = "sent"
  /\ Construct
  /\ UNCHANGED <<models, events, store, commands, published, pc, locals>>

\* Fault: the identifier of the stored objects is not looked at.
FindAny(t) ==
  /\ Step(t, "sent", "execute")
  /\ constructed
  /\ \E m \in DOMAIN models : Stored(m) /\ model' = [model EXCEPT ![t] = m]
  /\ UNCHANGED <<memory, models, events, store, commands, published, cmd, stamp,
                 count, changes, next>>

\* Get returns the stored object.
Find(t) ==
  /\ Step(t, "sent", "execute")
  /\ constructed
  /\ \E m \in Matching(requested(t)) : model' = [model EXCEPT ![t] = m]
  /\ UNCHANGED <<memory, models, events, store, commands, published, cmd, stamp,
                 count, changes, next>>

\* container.Resolve: a singleton is made once, for all aggregates.
Reused == Lifestyle = "singleton" /\ models # <<>>

\* Get returns null: the instance the container resolved is given the identifier, whatever
\* it was before.
FindNothing(t) ==
  /\ Step(t, "sent", "note")
  /\ constructed
  /\ ~Dropped
  /\ Matching(requested(t)) = {}
  /\ models' = IF Reused THEN [models EXCEPT ![Len(models)].id = requested(t)]
               ELSE Append(models, [id |-> requested(t), recorded |-> <<>>])
  /\ model' = [model EXCEPT ![t] = Len(models')]
  /\ UNCHANGED <<memory, events, store, commands, published, cmd, stamp, count, changes, next>>

\* Fault: the creation of the aggregate is not noted.
NoteNothing(t) ==
  /\ Step(t, "note", "execute")
  /\ UNCHANGED <<memory, models, events, store, commands, published, locals>>

NoteAggregateCreated(t) ==
  LET created == [kind |-> "created", src |-> requested(t), cmd |-> cmd[t]]
  IN  /\ Step(t, "note", "execute")
      /\ events' = Append(events, created)
      /\ store' = Append(store, [src |-> created.src, ev |-> Len(events) + 1])
      /\ UNCHANGED <<memory, models, commands, published, locals>>

-----------------------------------------------------------------------------
(* The consumer.                                                           *)

\* Apply runs the method of the event and stamps it with the identifier the aggregate has.
Apply(t) ==
  /\ Step(t, "execute", "lock")
  /\ Cardinality(RaisedBy(cmd[t])) < Raises[cmd[t]]
  /\ stamp' = [stamp EXCEPT ![t] = aggregate(t).id]
  /\ UNCHANGED <<memory, models, events, store, commands, published, cmd, model, count,
                 changes, next>>

\* Fault: the list grows without the lock.
AddUnlocked(t) ==
  /\ Step(t, "lock", "record")
  /\ models' = [models EXCEPT ![model[t]].recorded = Append(@, 0)]
  /\ UNCHANGED <<memory, events, store, commands, published, locals>>

\* Record takes the lock, which all aggregates share, and List.Add counts the new element
\* before it writes it.
Lock(t) ==
  /\ \A u \in Threads : pc[u] # "record"
  /\ AddUnlocked(t)

\* The new element is written and the lock released.
Record(t) ==
  LET e == Len(events) + 1
  IN  /\ Step(t, "record", "execute")
      /\ events' = Append(events, [kind |-> "domain", src |-> stamp[t], cmd |-> cmd[t]])
      /\ models' = [models EXCEPT ![model[t]].recorded[Len(aggregate(t).recorded)] = e]
      /\ stamp' = [stamp EXCEPT ![t] = Null]
      /\ UNCHANGED <<memory, store, commands, published, cmd, model, count, changes, next>>

\* A bus module or the validator throws before the consumer runs.
ValidatorRefuses(t) ==
  /\ pc[t] = "sent"
  /\ Return(t, "refused")
  /\ UNCHANGED <<memory, models, events, store, published>>

\* The consumer throws; the aggregate keeps what it recorded.
ConsumerThrows(t) ==
  /\ pc[t] = "execute"
  /\ Return(t, "refused")
  /\ UNCHANGED <<memory, models, events, store, published>>

ReturnNothing(t) ==
  /\ pc[t] = "execute"
  /\ Return(t, "nothing")
  /\ UNCHANGED <<memory, models, events, store, published>>

\* The consumer returns the aggregate to UnitOfWork.Accept.
Accept(t) ==
  /\ Step(t, "execute", "update")
  /\ UNCHANGED <<memory, models, events, store, commands, published, locals>>

-----------------------------------------------------------------------------
(* UnitOfWork.InvokeDomainModelPersistanceForAggregate: the repository's   *)
(* Update, which is not atomic.                                            *)

\* The old model is only looked for.
FindOld(t) ==
  /\ Step(t, "update", IF Matching(aggregate(t).id) = {} THEN "insert" ELSE "take")
  /\ ~Dropped
  /\ UNCHANGED <<memory, models, events, store, commands, published, locals>>

Take(t) ==
  /\ Step(t, "take", "insert")
  /\ TryTake
  /\ UNCHANGED <<models, events, store, commands, published, locals>>

\* Fault: what was taken out is not put back.
InsertOnlyNew(t) ==
  /\ Step(t, "insert", "count")
  /\ IF storage = EmptyBag THEN UNCHANGED memory ELSE Add(model[t])
  /\ UNCHANGED <<models, events, store, commands, published, locals>>

Insert(t) ==
  /\ Step(t, "insert", "count")
  /\ Add(model[t])
  /\ UNCHANGED <<models, events, store, commands, published, locals>>

\* The finalizer dropped the bag: Get throws, inside the consumer, or Update does.
NullReference(t) ==
  /\ constructed
  /\ Dropped
  /\ \/ pc[t] = "sent" /\ Return(t, "refused")
     \/ pc[t] \in {"update", "take", "insert"} /\ Return(t, "failed")
  /\ UNCHANGED <<memory, models, events, store, published>>

-----------------------------------------------------------------------------
(* UnitOfWork.InvokeEventSourcingForAggregate.                             *)

\* new List<Event>(root.GetChanges()) reads the length of the list the aggregate goes
\* on to use, then copies it, both without the lock.
CountChanges(t) ==
  /\ Step(t, "count", "copy")
  /\ count' = [count EXCEPT ![t] = Len(aggregate(t).recorded)]
  /\ UNCHANGED <<memory, models, events, store, commands, published, cmd, model, stamp,
                 changes, next>>

\* Fault: the copy is handed to the handlers first.
CopyThenPublish(t) ==
  /\ Step(t, "copy", "publish")
  /\ Len(aggregate(t).recorded) = count[t]
  /\ changes' = [changes EXCEPT ![t] = aggregate(t).recorded]
  /\ UNCHANGED <<memory, models, events, store, commands, published, cmd, model, stamp, count,
                 next>>

CopyChanges(t) ==
  /\ Step(t, "copy", IF count[t] = 0 THEN "publish" ELSE "save")
  /\ Len(aggregate(t).recorded) = count[t]
  /\ changes' = [changes EXCEPT ![t] = aggregate(t).recorded]
  /\ UNCHANGED <<memory, models, events, store, commands, published, cmd, model, stamp, count,
                 next>>

\* The list has grown: it does not fit into the copy.
CopyThrows(t) ==
  /\ pc[t] = "copy"
  /\ Len(aggregate(t).recorded) > count[t]
  /\ Return(t, "failed")
  /\ UNCHANGED <<memory, models, events, store, published>>

\* Fault: the last of the changes is saved first.
SaveBackwards(t) ==
  LET e == changes[t][Len(changes[t]) + 1 - next[t]]
  IN  /\ Step(t, "save", IF next[t] < Len(changes[t]) THEN "save" ELSE "publish")
      /\ e # 0
      /\ store' = Append(store, [src |-> events[e].src, ev |-> e])
      /\ next' = [next EXCEPT ![t] = IF @ < Len(changes[t]) THEN @ + 1 ELSE 1]
      /\ UNCHANGED <<memory, models, events, commands, published, cmd, model, stamp, count,
                     changes>>

\* StreamEventsToStorage, one Save at a time.
Save(t) ==
  LET e == changes[t][next[t]]
  IN  /\ Step(t, "save", IF next[t] < Len(changes[t]) THEN "save" ELSE "publish")
      /\ e # 0
      /\ store' = Append(store, [src |-> events[e].src, ev |-> e])
      /\ next' = [next EXCEPT ![t] = IF @ < Len(changes[t]) THEN @ + 1 ELSE 1]
      /\ UNCHANGED <<memory, models, events, commands, published, cmd, model, stamp, count,
                     changes>>

\* The copy was taken between the two steps of List.Add: its last element is null.
SaveThrows(t) ==
  /\ pc[t] = "save"
  /\ changes[t][next[t]] = 0
  /\ Return(t, "failed")
  /\ UNCHANGED <<memory, models, events, store, published>>

\* The handlers of an event are called.
Deliver(t) ==
  /\ pc[t] = "publish"
  /\ next[t] <= Len(changes[t])
  /\ published' = published \cup {<<cmd[t], changes[t][next[t]]>>}

Publish(t) ==
  /\ Deliver(t)
  /\ next' = [next EXCEPT ![t] = @ + 1]
  /\ UNCHANGED <<memory, models, events, store, commands, pc, cmd, model, stamp, count,
                 changes>>

HandlerThrows(t) ==
  /\ Deliver(t)
  /\ Return(t, "failed")
  /\ UNCHANGED <<memory, models, events, store>>

\* A bus module throws at the start or the end of a Publish, or of Send.
ModuleThrows(t) ==
  /\ pc[t] = "publish"
  /\ Return(t, "failed")
  /\ UNCHANGED <<memory, models, events, store, published>>

\* Fault: Send returns before the last Publish.
CompleteEarly(t) ==
  /\ pc[t] = "publish"
  /\ Return(t, "done")
  /\ UNCHANGED <<memory, models, events, store, published>>

Complete(t) ==
  /\ pc[t] = "publish"
  /\ next[t] > Len(changes[t])
  /\ Return(t, "done")
  /\ UNCHANGED <<memory, models, events, store, published>>

-----------------------------------------------------------------------------
Init ==
  /\ RepositoryInit
  /\ models = <<>>
  /\ events = <<>>
  /\ store = <<>>
  /\ commands = <<>>
  /\ published = {}
  /\ pc = [t \in Threads |-> "idle"]
  /\ cmd = [t \in Threads |-> 0]
  /\ model = [t \in Threads |-> 0]
  /\ stamp = [t \in Threads |-> Null]
  /\ count = [t \in Threads |-> 0]
  /\ changes = [t \in Threads |-> <<>>]
  /\ next = [t \in Threads |-> 1]

Load(t)     == ConstructRepository(t) \/ Find(t) \/ FindNothing(t) \/ NoteAggregateCreated(t)
Execute(t)  == Apply(t) \/ Lock(t) \/ Record(t) \/ ValidatorRefuses(t)
               \/ ConsumerThrows(t) \/ ReturnNothing(t) \/ Accept(t)
Update(t)   == FindOld(t) \/ Take(t) \/ Insert(t) \/ NullReference(t)
Copy(t)     == CountChanges(t) \/ CopyChanges(t) \/ CopyThrows(t)
Stream(t)   == Save(t) \/ SaveThrows(t) \/ Publish(t) \/ HandlerThrows(t)
               \/ ModuleThrows(t) \/ Complete(t)

Drop == Finalize /\ UNCHANGED <<models, events, store, commands, published, pc, locals>>

Next ==
  \/ \E t \in Threads :
       \/ \E id \in Ids : Send(t, id)
       \/ Load(t) \/ Execute(t) \/ Update(t) \/ Copy(t) \/ Stream(t)
  \/ Drop

Spec == Init /\ [][Next]_vars

-----------------------------------------------------------------------------
(* Properties.                                                             *)

Outcomes == {"pending", "done", "refused", "nothing", "failed"}

\* The list of an aggregate has an unwritten slot only while a thread is inside Record.
SlotsWritten ==
  \A m \in DOMAIN models :
    \A i \in DOMAIN models[m].recorded :
      models[m].recorded[i] = 0 =>
        /\ i = Len(models[m].recorded)
        /\ \E t \in Threads : pc[t] = "record" /\ model[t] = m

\* Every variable has its type; references are to objects of the heaps.
TypeOK ==
  /\ Dropped \/ (IsABag(storage) /\ BagToSet(storage) \subseteq DOMAIN models)
  /\ constructed \in BOOLEAN
  /\ abandoned \in BOOLEAN
  /\ models \in Seq([id : Ids, recorded : Seq({0} \cup DOMAIN events)])
  /\ events \in Seq([kind : {"created", "domain"}, src : Ids, cmd : DOMAIN commands])
  /\ store \in Seq([src : Ids, ev : DOMAIN events])
  /\ commands \in Seq([id : Ids, outcome : Outcomes])
  /\ published \in SUBSET ((DOMAIN commands) \X (DOMAIN events))
  /\ pc \in [Threads -> Places]
  /\ cmd \in [Threads -> {0} \cup DOMAIN commands]
  /\ model \in [Threads -> {0} \cup DOMAIN models]
  /\ stamp \in [Threads -> Ids \cup {Null}]
  /\ count \in [Threads -> Nat]
  /\ changes \in [Threads -> Seq({0} \cup DOMAIN events)]
  /\ next \in [Threads -> Nat \ {0}]
  /\ SlotsWritten

Filed(e) == \E i \in DOMAIN store : store[i].ev = e

\* Nothing is filed under an identifier before the creation of that aggregate, although
\* the creation is noted by the load and an aggregate that was found is taken for created.
CreationFirst ==
  \A i \in DOMAIN store :
    \E j \in 1..i : store[j].src = store[i].src /\ events[store[j].ev].kind = "created"

\* What a command raised is filed under the aggregate that the command is for: the event
\* keeps the identifier that its aggregate had when it was applied.
FiledUnderOwn ==
  \A i \in DOMAIN store : store[i].src = commands[events[store[i].ev].cmd].id

\* The events of a command are filed in the order it raised them, although threads that
\* share the aggregate save its events side by side and fail between any two of them.
FiledInOrder ==
  \A d, e \in DOMAIN events, j \in DOMAIN store :
    /\ events[d].kind = "domain" /\ events[e].kind = "domain"
    /\ events[d].cmd = events[e].cmd
    /\ d < e
    /\ store[j].ev = e
    => \E i \in 1..j : store[i].ev = d

\* No handler is given an event that the storage does not hold.
SavedBeforePublished == \A p \in published : Filed(p[2])

\* When Send returns, the handlers were given every event of the command, whatever other
\* threads recorded on the aggregate while its list was copied.
AckedDelivered ==
  \A n \in DOMAIN commands :
    commands[n].outcome = "done" => \A e \in RaisedBy(n) : <<n, e>> \in published

\* Once every call of Send has returned, the repository holds a model of each aggregate
\* that a command was acknowledged for (as long as no finalizer dropped the storage).
AckedStored ==
  (\A t \in Threads : pc[t] = "idle") /\ ~Dropped =>
    \A n \in DOMAIN commands :
      commands[n].outcome = "done" => Matching(commands[n].id) # {}

\* As long as all commands are for one aggregate, the updates of threads, each of which takes
\* some element out before it puts one in, leave a model of it.
KeptIfAlone ==
  (\A m, n \in DOMAIN commands : commands[m].id = commands[n].id) => AckedStored
=============================================================================
