---------------------- MODULE PipelineRefinementProofs ----------------------
(***************************************************************************)
(* Where every command has an instance of its aggregate and every          *)
(* aggregate one thread that sends it commands: the proofs that a handler  *)
(* sees the source of an event and that the pipeline implements EventLog,  *)
(* for any threads, aggregates and bounds.                                 *)
(***************************************************************************)
EXTENDS PipelineDeliveryProofs, PipelineRefinement

\* The circumstances: the container registers the aggregates as transient, and no two
\* threads send commands to one aggregate.
Partitioned ==
  /\ Transient
  /\ \A t, u \in Threads : t # u => Targets[t] \cap Targets[u] = {}

\* What is known of an instance per command.
CommandFacts == FiledFacts /\ DeliveredInv /\ ReplayedInv

\* A thread works on one of its aggregates, and its events carry that aggregate's identifier
\* until the last of them is published.
OwnAggregate(t) ==
  /\ pc[t] = "sent" => commands[cmd[t]].id \in Targets[t] \cup {NoId}
  /\ pc[t] \notin {"idle", "sent"} => target[t] \in Targets[t]
  /\ pc[t] \in {"save", "publish"} =>
       \A k \in DOMAIN changes[t] : events[changes[t][k]].src = target[t]

SourceInv == HandlerSeesSource /\ \A t \in Threads : OwnAggregate(t)

\* A thread that notes the creation of an aggregate found no entry of its stream.
Unopened(t) == pc[t] = "note" => Positions(target[t]) = {}

OpeningInv == \A t \in Threads : Unopened(t)

\* A stream holds its events in the order in which they were raised; what is still to be
\* saved comes after all of it, and what is still to be published after all that was.
StreamAscends ==
  \A i, j \in DOMAIN store : (i < j /\ store[i].src = store[j].src) => store[i].ev < store[j].ev

Later(t) ==
  /\ pc[t] = "execute" =>
       \A i \in Positions(target[t]) : \A k \in DOMAIN root(t).recorded :
         store[i].ev < root(t).recorded[k]
  /\ pc[t] = "save" =>
       \A i \in Positions(target[t]) : \A k \in DOMAIN changes[t] :
         next[t] <= k => store[i].ev < changes[t][k]

Unheard(t) ==
  \A p \in published : commands[p.cmd].id = target[t] =>
    /\ pc[t] = "execute" => \A k \in DOMAIN root(t).recorded : p.ev < root(t).recorded[k]
    /\ pc[t] = "save" => \A k \in DOMAIN changes[t] : p.ev < changes[t][k]
    /\ pc[t] = "publish" => \A k \in DOMAIN changes[t] : next[t] <= k => p.ev < changes[t][k]

OrderInv == StreamAscends /\ \A t \in Threads : Later(t) /\ Unheard(t)

\* A command creates at most one aggregate, raises at most MaxApplies events of the domain,
\* and each snapshot is followed by one of those.
CountInv ==
  /\ DOMAIN commands \subseteq 1..MaxCommands
  /\ \A d, e \in DOMAIN events :
       (events[d].kind = "created" /\ events[e].kind = "created" /\ events[d].cmd = events[e].cmd)
         => d = e
  /\ \A n \in Nat : Cardinality(RaisedBy(n)) <= MaxApplies
  /\ \A e \in DOMAIN events : events[e].kind = "snapshot" =>
       /\ e + 1 \in DOMAIN events
       /\ events[e + 1].kind = "domain" /\ events[e + 1].cmd = events[e].cmd

-----------------------------------------------------------------------------
(* Threads are out of each other's reach.                                   *)

\* What a thread can do.
LEMMA StepAt ==
  ASSUME TypeInv, NEW t \in Threads, Step(t)
  PROVE  \/ \E id \in Targets[t] \cup {NoId} : Send(t, id)
         \/ Get(t) \/ NoteAggregateCreated(t) \/ LoadEvent(t) \/ VersionCommand(t) \/ AssignId(t)
         \/ Apply(t) \/ Accept(t) \/ Save(t) \/ Publish(t)
         \/ /\ pc[t] # "idle" /\ pc'[t] = "idle" /\ UNCHANGED <<events, store, roots>>
            /\ Deliver(t) \/ published' = published
<1>1. ASSUME NEW outcome, Return(t, outcome), pc[t] # "idle", roots' = roots
      PROVE  pc'[t] = "idle"
  BY <1>1, ReturnEffect
<1>2. QED
  BY <1>1 DEF Step, Load, Execute, Stream, ValidatorRefuses, ConsumerThrows, ReturnNothing,
     HandlerThrows, Deliver, ModuleThrows, Complete

LEMMA Apart ==
  ASSUME Partitioned, SourceInv, NEW t \in Threads, NEW u \in Threads, t # u,
         pc[t] \notin {"idle", "sent"}, pc[u] \notin {"idle", "sent"}
  PROVE  target[t] # target[u]
BY DEF Partitioned, SourceInv, OwnAggregate

\* No step of another thread stamps an event of an aggregate that a thread works on.
LEMMA OutOfReach ==
  ASSUME Partitioned, CommandFacts, SourceInv, NEW t \in Threads, Step(t),
         NEW u \in Threads, u # t, pc[u] \notin {"idle", "sent"},
         NEW e \in DOMAIN events, commands[events[e].cmd].id = target[u]
  PROVE  events'[e] = events[e]
<1>1. TypeInv
  BY DEF CommandFacts, FiledFacts
<1>2. CASE LoadEvent(t)
  <2>1. PICK i \in unread[t] :
          /\ pc[t] = "load" /\ i \in DOMAIN store
          /\ \A d \in DOMAIN events : d # store[i].ev => events'[d] = events[d]
    BY <1>1, <1>2, LoadEventEffect
  <2>2. i \in history[t]
    BY <2>1 DEF CommandFacts, ReplayedInv, Replayed, Partitioned
  <2>3. store[i].src = target[t]
    BY <2>1, <2>2 DEF CommandFacts, FiledFacts, CreationInv, Loaded
  <2>4. commands[events[store[i].ev].cmd].id = target[t]
    BY <2>1, <2>3 DEF CommandFacts, FiledFacts, FiledInv, FiledAtSource, Partitioned
  <2>5. e # store[i].ev
    BY <2>1, <2>4, Apart
  <2>6. QED
    BY <2>1, <2>5
<1>3. CASE NoteAggregateCreated(t)
  BY <1>1, <1>3, NoteEffect
<1>4. CASE Apply(t)
  BY <1>1, <1>4, ApplyRaises
<1>5. CASE UNCHANGED events
  BY <1>5
<1>6. QED
  BY <1>1, <1>2, <1>3, <1>4, <1>5, StepAt DEF Send, Get, VersionCommand, AssignId, Accept, Save,
     Publish

\* What is published was raised by its command, which keeps to its aggregate.
LEMMA PublishedKept ==
  ASSUME Partitioned, CommandFacts, NEW t \in Threads, Step(t), NEW p \in published
  PROVE  /\ p.ev \in DOMAIN events /\ p.cmd = events[p.ev].cmd /\ p.cmd \in DOMAIN commands
         /\ events'[p.ev].cmd = p.cmd
         /\ commands'[p.cmd].id = commands[p.cmd].id
<1>1. TypeInv /\ EventsOwned /\ Delivered(t) /\ Grows
  BY StepGrows DEF CommandFacts, FiledFacts, HeardInv, DeliveredInv, Next, Step
<1>2. p.ev \in DOMAIN events /\ p.cmd = events[p.ev].cmd
  BY DEF CommandFacts, DeliveredInv, Partitioned
<1>3. p.cmd \in DOMAIN commands /\ events'[p.ev].cmd = p.cmd
  BY <1>1, <1>2 DEF EventsOwned, Grows
<1>4. p.cmd # cmd[t] \/ pc[t] # "sent"
  BY <1>1 DEF Delivered, Partitioned
<1>5. QED
  BY <1>1, <1>2, <1>3, <1>4, IdsOfCommandsKept

\* An entry that a step adds belongs to the aggregate that the thread works on.
LEMMA EntryOfTarget ==
  ASSUME Partitioned, CommandFacts, NEW t \in Threads, Step(t),
         NEW i \in DOMAIN store', i \notin DOMAIN store
  PROVE  pc[t] \in {"note", "save"} /\ store'[i].src = target[t]
<1>1. TypeInv /\ Addressed(t) /\ Transient
  BY DEF CommandFacts, FiledFacts, FiledInv, Partitioned
<1>2. pc[t] = "save" => next[t] <= next[t]
  BY <1>1, Typed DEF Ref
<1>3. QED
  BY <1>1, <1>2, NewEntry DEF Addressed

-----------------------------------------------------------------------------
(* A handler sees the source of an event.                                   *)

LEMMA OwnAggregateByOthers ==
  ASSUME Partitioned, CommandFacts, CommandFacts', SourceInv, NEW t \in Threads, Step(t),
         NEW u \in Threads, u # t
  PROVE  OwnAggregate(u)'
<1>1. /\ TypeInv /\ TypeInv' /\ OwnCommand /\ OwnAggregate(u) /\ Addressed(u) /\ OwnChanges(u)
      /\ Grows
  BY StepGrows DEF CommandFacts, FiledFacts, CreationInv, FiledInv, SourceInv, Next, Step
<1>2. /\ pc'[u] = pc[u] /\ cmd'[u] = cmd[u] /\ changes'[u] = changes[u] /\ target'[u] = target[u]
  BY <1>1, StepFrame DEF Others
<1>3. pc[u] = "sent" => commands'[cmd[u]].id = commands[cmd[u]].id
  BY <1>1, RaisedByOthers DEF SameCommand
<1>4. ASSUME pc[u] \in {"save", "publish"}, NEW k \in DOMAIN changes[u]
      PROVE  events'[changes[u][k]].src = target[u]
  <2>1. changes[u][k] \in DOMAIN events
    BY <1>1, Referenced
  <2>2. commands[events[changes[u][k]].cmd].id = target[u]
    BY <1>1, <1>4 DEF Addressed, OwnChanges, Partitioned
  <2>3. events'[changes[u][k]] = events[changes[u][k]]
    BY <1>4, <2>1, <2>2, OutOfReach
  <2>4. QED
    BY <1>1, <1>4, <2>3 DEF OwnAggregate
<1>5. QED
  BY <1>1, <1>2, <1>3, <1>4 DEF OwnAggregate

LEMMA OwnAggregateOwn ==
  ASSUME Partitioned, CommandFacts, SourceInv, NEW t \in Threads, Step(t)
  PROVE  OwnAggregate(t)'
<1>1. TypeInv /\ OwnAggregate(t) /\ Addressed(t)
  BY DEF CommandFacts, FiledFacts, FiledInv, SourceInv
<1>2. ASSUME NEW id \in Targets[t] \cup {NoId}, Send(t, id)
      PROVE  OwnAggregate(t)'
  BY <1>1, <1>2, SendEffect DEF OwnAggregate
<1>3. CASE Get(t)
  BY <1>1, <1>3, GetEffect DEF OwnAggregate
<1>4. CASE NoteAggregateCreated(t)
  BY <1>1, <1>4, NoteEffect DEF OwnAggregate, locals
<1>5. CASE LoadEvent(t)
  BY <1>1, <1>5, LoadEventEffect DEF OwnAggregate
<1>6. CASE VersionCommand(t)
  BY <1>1, <1>6, VersionCommandEffect DEF OwnAggregate, locals
<1>7. CASE AssignId(t)
  BY <1>1, <1>7, AssignIdEffect DEF OwnAggregate, locals
<1>8. CASE Apply(t)
  BY <1>1, <1>8, ApplyRaises DEF OwnAggregate, locals
<1>9. CASE Accept(t)
  BY <1>1, <1>9, AcceptEffect DEF OwnAggregate, Addressed, Partitioned
<1>10. CASE Save(t)
  BY <1>1, <1>10, SaveEffect DEF OwnAggregate
<1>11. CASE Publish(t)
  BY <1>1, <1>11, PublishEffect, DeliverEffect DEF OwnAggregate, Publish
<1>12. CASE pc'[t] = "idle"
  BY <1>12 DEF OwnAggregate
<1>13. QED
  BY <1>1, <1>2, <1>3, <1>4, <1>5, <1>6, <1>7, <1>8, <1>9, <1>10, <1>11, <1>12, StepAt

LEMMA HandlerSeesSourceStep ==
  ASSUME Partitioned, CommandFacts, SourceInv, NEW t \in Threads, Step(t)
  PROVE  HandlerSeesSource'
<1>1. /\ TypeInv /\ OwnAggregate(t) /\ Addressed(t) /\ OwnChanges(t) /\ HandlerSeesSource
      /\ DeliveredInv /\ FiledFacts /\ Transient
  BY DEF CommandFacts, FiledFacts, FiledInv, SourceInv, Partitioned
<1>2. \A p \in published : p.src = commands'[events'[p.ev].cmd].id
  BY <1>1, PublishedKept DEF HandlerSeesSource
<1>3. CASE published' = published
  BY <1>2, <1>3 DEF HandlerSeesSource
<1>4. CASE published' # published
  <2>1. Deliver(t) /\ UNCHANGED events
    BY <1>1, <1>4, StepDelivers
  <2>2. PICK p \in published' :
          /\ published' = published \cup {p}
          /\ p.ev = changes[t][next[t]] /\ p.src = events[changes[t][next[t]]].src
    BY <1>1, <2>1, DeliverEffect
  <2>3. pc[t] = "publish" /\ next[t] \in DOMAIN changes[t]
    BY <1>1, <2>1, DeliverEffect
  <2>4. events[p.ev].cmd = cmd[t]
    BY <1>1, <2>1, <2>2, Undelivered
  <2>5. p.src = target[t] /\ commands[cmd[t]].id = target[t] /\ cmd[t] \in DOMAIN commands
    BY <1>1, <2>2, <2>3, Referenced DEF OwnAggregate, Addressed
  <2>6. commands'[cmd[t]].id = target[t]
    BY <1>1, <2>3, <2>5, IdsOfCommandsKept
  <2>7. QED
    BY <1>2, <2>1, <2>2, <2>4, <2>5, <2>6 DEF HandlerSeesSource
<1>5. QED
  BY <1>3, <1>4

LEMMA SourceInit == Init => SourceInv
BY DEF Init, SourceInv, HandlerSeesSource, OwnAggregate

LEMMA SourceStep ==
  ASSUME Partitioned, CommandFacts, CommandFacts', SourceInv, [Next]_vars
  PROVE  SourceInv'
<1>1. ASSUME NEW t \in Threads, Step(t)
      PROVE  SourceInv'
  <2>1. ASSUME NEW u \in Threads
        PROVE  OwnAggregate(u)'
    <3>1. CASE u = t
      BY <1>1, <3>1, OwnAggregateOwn
    <3>2. CASE u # t
      BY <1>1, <3>2, OwnAggregateByOthers
    <3>3. QED
      BY <3>1, <3>2
  <2>2. QED
    BY <1>1, <2>1, HandlerSeesSourceStep DEF SourceInv
<1>2. CASE UNCHANGED vars
  BY <1>2 DEF vars, locals, SourceInv, HandlerSeesSource, OwnAggregate
<1>3. QED
  BY <1>1, <1>2, NextStep

LEMMA CommandFactsInit == Init => CommandFacts
BY FiledFactsInit, DeliveredInit, ReplayedInit DEF CommandFacts

LEMMA CommandFactsStep == CommandFacts /\ [Next]_vars => CommandFacts'
<1> SUFFICES ASSUME CommandFacts, [Next]_vars
             PROVE  CommandFacts'
  OBVIOUS
<1>1. FiledFacts /\ TypeInv /\ FiledFacts' /\ TypeInv'
  BY FiledFactsStep DEF CommandFacts, FiledFacts
<1>2. QED
  BY <1>1, DeliveredStep, ReplayedStep DEF CommandFacts

\* With an instance per command and one thread for each aggregate, the EventSourceId that a
\* handler reads is that of the aggregate the event's command was about: nobody stamps an
\* event between Apply and Publish (Event.cs, AggregateRoot.LoadFromHistory).
THEOREM HandlersSeeTheSource ==
  ASSUME Partitioned
  PROVE  Spec => []HandlerSeesSource
<1>1. Init => CommandFacts /\ SourceInv
  BY CommandFactsInit, SourceInit
<1>2. CommandFacts /\ SourceInv /\ [Next]_vars => (CommandFacts /\ SourceInv)'
  BY CommandFactsStep, SourceStep
<1>3. SourceInv => HandlerSeesSource
  BY DEF SourceInv
<1>4. QED
  BY <1>1, <1>2, <1>3, PTL DEF Spec

-----------------------------------------------------------------------------
(* A stream is opened by the thread that works on its aggregate.            *)

\* The stream of the aggregate that a thread works on is its own: only its steps add to it.
LEMMA OwnStream ==
  ASSUME Partitioned, CommandFacts, SourceInv, NEW t \in Threads, Step(t),
         NEW u \in Threads, u # t, pc[u] \notin {"idle", "sent"}
  PROVE  /\ target'[u] = target[u]
         /\ Positions(target[u])' = Positions(target[u])
         /\ \A i \in Positions(target[u]) : /\ store'[i] = store[i]
                                            /\ store[i].ev \in DOMAIN events
                                            /\ events'[store[i].ev].kind = events[store[i].ev].kind
<1>1. TypeInv /\ TypeInv' /\ Grows
  BY StepGrows, TypeStep DEF CommandFacts, FiledFacts, Next, Step
<1>2. target'[u] = target[u]
  BY <1>1, StepFrame DEF Others
<1>3. \A i \in DOMAIN store' : i \notin DOMAIN store => store'[i].src # target[u]
  <2> SUFFICES ASSUME NEW i \in DOMAIN store', i \notin DOMAIN store
               PROVE  store'[i].src # target[u]
    OBVIOUS
  <2>1. pc[t] \in {"note", "save"} /\ store'[i].src = target[t]
    BY EntryOfTarget
  <2>2. QED
    BY <2>1, Apart
<1>4. Positions(target[u])' = Positions(target[u])
  BY <1>1, <1>2, <1>3 DEF Positions, Grows
<1>5. QED
  BY <1>1, <1>2, <1>4, Referenced DEF Positions, Grows

LEMMA UnopenedOwn ==
  ASSUME Partitioned, CommandFacts, NEW t \in Threads, Step(t)
  PROVE  Unopened(t)'
<1>1. TypeInv
  BY DEF CommandFacts, FiledFacts
<1>2. ASSUME NEW id \in Targets[t] \cup {NoId}, Send(t, id)
      PROVE  Unopened(t)'
  BY <1>1, <1>2, SendEffect DEF Unopened
<1>3. CASE Get(t)
  BY <1>1, <1>3, GetEffect DEF Unopened, Positions
<1>4. CASE NoteAggregateCreated(t)
  BY <1>1, <1>4, NoteEffect DEF Unopened
<1>5. CASE LoadEvent(t)
  BY <1>1, <1>5, LoadEventEffect DEF Unopened
<1>6. CASE VersionCommand(t) \/ AssignId(t)
  BY <1>1, <1>6, VersionCommandEffect, AssignIdEffect DEF Unopened
<1>7. CASE Apply(t)
  BY <1>1, <1>7, ApplyRaises DEF Unopened
<1>8. CASE Accept(t)
  BY <1>1, <1>8, AcceptEffect DEF Unopened
<1>9. CASE Save(t)
  BY <1>1, <1>9, SaveEffect DEF Unopened
<1>10. CASE Publish(t)
  BY <1>1, <1>10, PublishEffect, DeliverEffect DEF Unopened, Publish
<1>11. CASE pc'[t] = "idle"
  BY <1>11 DEF Unopened
<1>12. QED
  BY <1>1, <1>2, <1>3, <1>4, <1>5, <1>6, <1>7, <1>8, <1>9, <1>10, <1>11, StepAt

LEMMA UnopenedByOthers ==
  ASSUME Partitioned, CommandFacts, SourceInv, NEW t \in Threads, Step(t),
         NEW u \in Threads, u # t, Unopened(u)
  PROVE  Unopened(u)'
<1>1. TypeInv /\ TypeInv'
  BY TypeStep DEF CommandFacts, FiledFacts, Next, Step
<1>2. pc'[u] = pc[u]
  BY <1>1, StepFrame DEF Others
<1>3. CASE pc[u] # "note"
  BY <1>2, <1>3 DEF Unopened
<1>4. CASE pc[u] = "note"
  BY <1>2, <1>4, OwnStream DEF Unopened
<1>5. QED
  BY <1>3, <1>4

LEMMA OpeningInit == Init => OpeningInv
BY DEF Init, OpeningInv, Unopened

LEMMA OpeningStep ==
  ASSUME Partitioned, CommandFacts, SourceInv, OpeningInv, [Next]_vars
  PROVE  OpeningInv'
<1>1. ASSUME NEW t \in Threads, Step(t), NEW u \in Threads
      PROVE  Unopened(u)'
  <2>1. Unopened(u)
    BY DEF OpeningInv
  <2>2. CASE u = t
    BY <1>1, <2>2, UnopenedOwn
  <2>3. CASE u # t
    BY <1>1, <2>1, <2>3, UnopenedByOthers
  <2>4. QED
    BY <2>2, <2>3
<1>2. CASE UNCHANGED vars
  BY <1>2 DEF vars, locals, OpeningInv, Unopened, Positions
<1>3. QED
  BY <1>1, <1>2, NextStep DEF OpeningInv

-----------------------------------------------------------------------------
(* A stream holds its events, and its handlers get them, in one order.      *)

LEMMA LaterByOthers ==
  ASSUME Partitioned, CommandFacts, SourceInv, NEW t \in Threads, Step(t),
         NEW u \in Threads, u # t, Later(u), Unheard(u)
  PROVE  (Later(u) /\ Unheard(u))'
<1>1. TypeInv /\ TypeInv' /\ FiledFacts /\ Addressed(t) /\ Transient
  BY TypeStep DEF CommandFacts, FiledFacts, FiledInv, Next, Step, Partitioned
<1>2. /\ pc'[u] = pc[u] /\ changes'[u] = changes[u] /\ next'[u] = next[u]
      /\ target'[u] = target[u] /\ root(u)' = root(u)
  BY <1>1, StepFrame DEF Others, root, Instance, Transient
<1>3. CASE pc[u] \notin {"execute", "save", "publish"}
  BY <1>2, <1>3 DEF Later, Unheard
<1>4. CASE pc[u] \in {"execute", "save", "publish"}
  <2>1. Later(u)'
    BY <1>2, <1>4, OwnStream DEF Later
  <2>2. \A p \in published : commands'[p.cmd].id = commands[p.cmd].id
    BY PublishedKept
  <2>3. \A p \in published' : p \in published \/ commands'[p.cmd].id # target[u]
    <3> SUFFICES ASSUME NEW p \in published', p \notin published
                 PROVE  commands'[p.cmd].id # target[u]
      OBVIOUS
    <3>1. Deliver(t)
      BY <1>1, StepDelivers
    <3>2. p.cmd = cmd[t] /\ pc[t] = "publish"
      BY <1>1, <3>1, DeliverEffect
    <3>3. commands[cmd[t]].id = target[t] /\ cmd[t] \in DOMAIN commands
      BY <1>1, <3>2, Referenced DEF Addressed
    <3>4. commands'[cmd[t]].id = target[t]
      BY <1>1, <3>2, <3>3, IdsOfCommandsKept
    <3>5. QED
      BY <1>4, <3>2, <3>4, Apart
  <2>4. Unheard(u)'
    BY <1>2, <2>2, <2>3 DEF Unheard
  <2>5. QED
    BY <2>1, <2>4
<1>5. QED
  BY <1>3, <1>4

LEMMA ApplyLater ==
  ASSUME Partitioned, CommandFacts, NEW t \in Threads, Apply(t), Later(t), Unheard(t)
  PROVE  (Later(t) /\ Unheard(t))'
<1>1. TypeInv /\ Step(t)
  BY DEF CommandFacts, FiledFacts, Step, Execute
<1>2. PICK m \in {1, 2} :
        /\ pc[t] = "execute"
        /\ DOMAIN root(t)'.recorded = 1..(Len(root(t).recorded) + m)
        /\ \A k \in DOMAIN root(t).recorded : root(t)'.recorded[k] = root(t).recorded[k]
        /\ \A k \in 1..m : root(t)'.recorded[Len(root(t).recorded) + k] = Len(events) + k
        /\ UNCHANGED <<store, commands, published, pc, locals>>
  BY <1>1, ApplyRaises
<1>3. DOMAIN root(t).recorded = 1..Len(root(t).recorded) /\ Len(root(t).recorded) \in Nat
  BY <1>1, RootTyped
<1>4. \A k \in DOMAIN root(t)'.recorded :
        \/ k \in DOMAIN root(t).recorded /\ root(t)'.recorded[k] = root(t).recorded[k]
        \/ \E l \in 1..m : root(t)'.recorded[k] = Len(events) + l
  <2> SUFFICES ASSUME NEW k \in DOMAIN root(t)'.recorded, k \notin DOMAIN root(t).recorded
               PROVE  \E l \in 1..m : root(t)'.recorded[k] = Len(events) + l
    BY <1>2
  <2>1. k \in 1..(Len(root(t).recorded) + m) /\ k \notin 1..Len(root(t).recorded)
    BY <1>2, <1>3
  <2>2. k - Len(root(t).recorded) \in 1..m
    BY <1>3, <2>1
  <2>3. k = Len(root(t).recorded) + (k - Len(root(t).recorded))
    BY <1>3, <2>1
  <2>4. QED
    BY <1>2, <2>2, <2>3
<1>5. \A e \in DOMAIN events : \A l \in 1..m : e < Len(events) + l
  BY <1>1, Typed
<1>6. ASSUME NEW k \in DOMAIN root(t)'.recorded, NEW i \in Positions(target[t])
      PROVE  store[i].ev < root(t)'.recorded[k]
  <2>1. store[i].ev \in DOMAIN events
    BY <1>1, Referenced DEF Positions
  <2>2. QED
    BY <1>2, <1>4, <1>5, <2>1 DEF Later
<1>7. ASSUME NEW k \in DOMAIN root(t)'.recorded, NEW p \in published,
             commands[p.cmd].id = target[t]
      PROVE  p.ev < root(t)'.recorded[k]
  <2>1. p.ev \in DOMAIN events
    BY <1>1, PublishedKept
  <2>2. QED
    BY <1>2, <1>4, <1>5, <1>7, <2>1 DEF Unheard
<1>8. Positions(target[t])' = Positions(target[t])
  BY <1>2 DEF Positions, locals
<1>9. QED
  BY <1>2, <1>6, <1>7, <1>8 DEF Later, Unheard, locals

LEMMA SaveLater ==
  ASSUME Partitioned, CommandFacts, NEW t \in Threads, Save(t), Later(t), Unheard(t)
  PROVE  (Later(t) /\ Unheard(t))'
<1>1. TypeInv /\ OwnChanges(t)
  BY DEF CommandFacts, FiledFacts, FiledInv
<1>2. /\ pc[t] = "save" /\ next[t] \in DOMAIN changes[t]
      /\ DOMAIN store' = 1..(Len(store) + 1)
      /\ \A j \in DOMAIN store : store'[j] = store[j]
      /\ store'[Len(store) + 1].ev = changes[t][next[t]]
      /\ \/ pc'[t] = "save" /\ next'[t] = next[t] + 1
         \/ pc'[t] = "publish" /\ next'[t] = 1
      /\ UNCHANGED <<commands, published, target, changes>>
  BY <1>1, SaveEffect
<1>3. Ascending(changes[t])
  BY <1>1, <1>2 DEF OwnChanges, Partitioned
<1>4. \A i \in DOMAIN store' : i \in DOMAIN store \/ i = Len(store) + 1
  BY <1>1, <1>2, Typed
<1>5. \A k \in DOMAIN changes[t] : next[t] + 1 <= k => next[t] <= k /\ next[t] < k
  BY <1>1, Typed DEF Ref
<1>6. ASSUME NEW i \in Positions(target[t])', NEW k \in DOMAIN changes[t], next[t] + 1 <= k
      PROVE  store'[i].ev < changes[t][k]
  <2>1. CASE i \in DOMAIN store
    <3>1. i \in Positions(target[t]) /\ store'[i].ev = store[i].ev
      BY <1>2, <2>1 DEF Positions
    <3>2. QED
      BY <1>2, <1>5, <1>6, <3>1 DEF Later
  <2>2. CASE i = Len(store) + 1
    BY <1>2, <1>3, <1>5, <1>6, <2>2 DEF Ascending
  <2>3. QED
    BY <1>4, <2>1, <2>2 DEF Positions
<1>7. QED
  BY <1>2, <1>6 DEF Later, Unheard

LEMMA PublishLater ==
  ASSUME Partitioned, CommandFacts, NEW t \in Threads, Publish(t), Later(t), Unheard(t)
  PROVE  (Later(t) /\ Unheard(t))'
<1>1. TypeInv /\ OwnChanges(t) /\ Deliver(t)
  BY DEF CommandFacts, FiledFacts, FiledInv, Publish
<1>2. PICK p \in published' :
        /\ pc[t] = "publish" /\ next[t] \in DOMAIN changes[t]
        /\ published' = published \cup {p} /\ p.ev = changes[t][next[t]]
  BY <1>1, DeliverEffect
<1>3. /\ next'[t] = next[t] + 1
      /\ UNCHANGED <<commands, pc, target, changes>>
  BY <1>1, PublishEffect
<1>4. Ascending(changes[t])
  BY <1>1, <1>2 DEF OwnChanges, Partitioned
<1>5. \A k \in DOMAIN changes[t] : next[t] + 1 <= k => next[t] <= k /\ next[t] < k
  BY <1>1, Typed DEF Ref
<1>6. ASSUME NEW q \in published', commands[q.cmd].id = target[t],
             NEW k \in DOMAIN changes[t], next[t] + 1 <= k
      PROVE  q.ev < changes[t][k]
  <2>1. CASE q \in published
    BY <1>2, <1>5, <1>6, <2>1 DEF Unheard
  <2>2. CASE q = p
    BY <1>2, <1>4, <1>5, <1>6, <2>2 DEF Ascending
  <2>3. QED
    BY <1>2, <2>1, <2>2
<1>7. QED
  BY <1>2, <1>3, <1>6 DEF Later, Unheard

LEMMA LaterOwn ==
  ASSUME Partitioned, CommandFacts, NEW t \in Threads, Step(t), Later(t), Unheard(t)
  PROVE  (Later(t) /\ Unheard(t))'
<1>1. TypeInv /\ CreationInv /\ Transient
  BY DEF CommandFacts, FiledFacts, Partitioned
<1>2. CASE pc'[t] \notin {"execute", "save", "publish"}
  BY <1>2 DEF Later, Unheard
<1>3. ASSUME NEW id \in Targets[t] \cup {NoId}, Send(t, id)
      PROVE  pc'[t] = "sent"
  BY <1>1, <1>3, SendEffect
<1>4. ASSUME Get(t) \/ NoteAggregateCreated(t) \/ LoadEvent(t) \/ VersionCommand(t)
      PROVE  pc'[t] \notin {"execute", "save", "publish"}
  BY <1>1, <1>4, GetEffect, NoteEffect, LoadEventEffect, VersionCommandEffect
<1>5. CASE AssignId(t)
  <2>1. root(t)'.recorded = <<>>
    BY <1>1, <1>5, AssignIdEffect, Unsaved, RootTyped DEF root, Instance
  <2>2. QED
    BY <1>1, <1>5, <2>1, AssignIdEffect DEF Later, Unheard
<1>6. CASE Apply(t)
  BY <1>6, ApplyLater
<1>7. CASE Accept(t)
  <2>1. /\ pc[t] = "execute" /\ pc'[t] \in {"save", "publish"}
        /\ changes'[t] = root(t).recorded
        /\ UNCHANGED <<store, commands, published, target>>
    BY <1>1, <1>7, AcceptEffect
  <2>2. QED
    BY <2>1 DEF Later, Unheard, Positions
<1>8. CASE Save(t)
  BY <1>8, SaveLater
<1>9. CASE Publish(t)
  BY <1>9, PublishLater
<1>10. QED
  BY <1>1, <1>2, <1>3, <1>4, <1>5, <1>6, <1>7, <1>8, <1>9, StepAt

LEMMA StreamAscendsStep ==
  ASSUME Partitioned, CommandFacts, OrderInv, NEW t \in Threads, Step(t)
  PROVE  StreamAscends'
<1>1. TypeInv /\ Grows /\ StreamAscends /\ Later(t)
  BY StepGrows DEF CommandFacts, FiledFacts, OrderInv, Next, Step
<1> SUFFICES ASSUME NEW i \in DOMAIN store', NEW j \in DOMAIN store', i < j,
                    store'[i].src = store'[j].src
             PROVE  store'[i].ev < store'[j].ev
  BY DEF StreamAscends
<1>2. CASE j \in DOMAIN store
  <2>1. i \in DOMAIN store
    <3>1. store' \in Seq(Filed)
      BY <1>1, TypeStep DEF TypeInv, TypeOK, Next, Step
    <3>2. i \in Nat \ {0} /\ j \in 1..Len(store)
      BY <1>1, <1>2, <3>1, Typed
    <3>3. QED
      BY <1>1, <3>2, Typed
  <2>2. QED
    BY <1>1, <1>2, <2>1 DEF StreamAscends, Grows
<1>3. CASE j \notin DOMAIN store
  <2>1. j = Len(store) + 1 /\ store'[j].src = target[t]
    BY <1>1, <1>3, NewEntry, EntryOfTarget
  <2>2. i \in DOMAIN store
    <3>1. i \notin DOMAIN store => i = Len(store) + 1
      BY <1>1, NewEntry
    <3>2. QED
      BY <1>1, <2>1, <3>1, Typed
  <2>3. store'[i] = store[i] /\ i \in Positions(target[t]) /\ store[i].ev \in DOMAIN events
    BY <1>1, <2>1, <2>2, Referenced DEF Grows, Positions
  <2>4. CASE pc[t] = "note"
    <3>1. store'[j].ev = Len(events) + 1
      BY <1>1, <1>3, <2>4, NewEntry
    <3>2. QED
      BY <1>1, <2>3, <3>1, Typed
  <2>5. CASE pc[t] = "save"
    <3>1. next[t] \in DOMAIN changes[t] /\ store'[j].ev = changes[t][next[t]]
      BY <1>1, <1>3, <2>5, NewEntry
    <3>2. next[t] <= next[t]
      BY <1>1, Typed DEF Ref
    <3>3. QED
      BY <1>1, <2>3, <2>5, <3>1, <3>2 DEF Later
  <2>6. QED
    BY <1>3, <2>4, <2>5, EntryOfTarget
<1>4. QED
  BY <1>2, <1>3

LEMMA OrderInit == Init => OrderInv
BY DEF Init, OrderInv, StreamAscends, Later, Unheard

LEMMA OrderStep ==
  ASSUME Partitioned, CommandFacts, SourceInv, OrderInv, [Next]_vars
  PROVE  OrderInv'
<1>1. ASSUME NEW t \in Threads, Step(t)
      PROVE  OrderInv'
  <2>1. ASSUME NEW u \in Threads
        PROVE  (Later(u) /\ Unheard(u))'
    <3>1. Later(u) /\ Unheard(u)
      BY DEF OrderInv
    <3>2. CASE u = t
      BY <1>1, <3>1, <3>2, LaterOwn
    <3>3. CASE u # t
      BY <1>1, <3>1, <3>3, LaterByOthers
    <3>4. QED
      BY <3>2, <3>3
  <2>2. QED
    BY <1>1, <2>1, StreamAscendsStep DEF OrderInv
<1>2. CASE UNCHANGED vars
  <2>1. \A u \in Threads : root(u)' = root(u) /\ Positions(target[u])' = Positions(target[u])
    BY <1>2 DEF vars, locals, root, Instance, Positions
  <2>2. QED
    BY <1>2, <2>1 DEF vars, locals, OrderInv, StreamAscends, Later, Unheard
<1>3. QED
  BY <1>1, <1>2, NextStep

-----------------------------------------------------------------------------
(* The bounds of the model bound the events.                                *)

LEMMA RaisedFinite ==
  ASSUME TypeInv, NEW n
  PROVE  /\ IsFiniteSet(RaisedBy(n)) /\ RaisedBy(n) \subseteq DOMAIN events
         /\ RaisedBy(n) \subseteq Nat
<1>1. RaisedBy(n) \subseteq DOMAIN events
  BY DEF RaisedBy
<1>2. IsFiniteSet(DOMAIN events) /\ DOMAIN events \subseteq Nat
  BY Typed, FS_Interval
<1>3. QED
  BY <1>1, <1>2, FS_Subset

LEMMA CountInit == Init => CountInv
<1> SUFFICES ASSUME Init
             PROVE  CountInv
  OBVIOUS
<1>1. events = <<>> /\ commands = <<>>
  BY DEF Init
<1>2. \A n : RaisedBy(n) = {}
  BY <1>1 DEF RaisedBy
<1>3. \A n \in Nat : Cardinality(RaisedBy(n)) <= MaxApplies
  BY <1>2, FS_EmptySet, PipelineAssumption DEF PipelineAssumption
<1>4. QED
  BY <1>1, <1>3 DEF CountInv

\* A step that raises nothing keeps the count.
LEMMA CountKept ==
  ASSUME TypeInv, Grows, CountInv, DOMAIN events' = DOMAIN events,
         DOMAIN commands' \subseteq 1..MaxCommands
  PROVE  CountInv'
<1>1. \A n : RaisedBy(n)' = RaisedBy(n)
  BY DEF RaisedBy, Grows
<1>2. \A e \in DOMAIN events : events'[e].kind = events[e].kind /\ events'[e].cmd = events[e].cmd
  BY DEF Grows
<1>3. QED
  BY <1>1, <1>2 DEF CountInv

LEMMA NoteCount ==
  ASSUME Partitioned, CommandFacts, CountInv, NEW t \in Threads, NoteAggregateCreated(t)
  PROVE  CountInv'
<1>1. TypeInv /\ Addressed(t)
  BY DEF CommandFacts, FiledFacts, FiledInv
<1>2. /\ pc[t] = "note"
      /\ DOMAIN events' = 1..(Len(events) + 1)
      /\ \A e \in DOMAIN events : events'[e] = events[e]
      /\ events'[Len(events) + 1].kind = "created"
      /\ events'[Len(events) + 1].cmd = cmd[t]
      /\ UNCHANGED commands
  BY <1>1, NoteEffect
<1>3. \A e \in DOMAIN events' : e \in DOMAIN events \/ e = Len(events) + 1
  BY <1>1, <1>2, Typed
<1>4. \A e \in DOMAIN events : e \in DOMAIN events' /\ events[e].cmd # cmd[t]
  BY <1>1, <1>2, Typed DEF Addressed, Partitioned
<1>5. \A n : RaisedBy(n)' = RaisedBy(n)
  BY <1>2, <1>3, <1>4 DEF RaisedBy
<1>6. QED
  BY <1>2, <1>3, <1>4, <1>5 DEF CountInv

LEMMA ApplyCount ==
  ASSUME CommandFacts, CountInv, NEW t \in Threads, Apply(t)
  PROVE  CountInv'
<1>1. TypeInv
  BY DEF CommandFacts, FiledFacts
<1>2. PICK m \in {1, 2} :
        /\ DOMAIN events' = 1..(Len(events) + m)
        /\ \A e \in DOMAIN events : events'[e] = events[e]
        /\ \A e \in DOMAIN events' : e \notin DOMAIN events =>
             /\ events'[e].cmd = cmd[t]
             /\ events'[e].kind = IF e = Len(events) + m THEN "domain" ELSE "snapshot"
        /\ Cardinality(RaisedBy(cmd[t])) < MaxApplies
        /\ UNCHANGED commands
  BY <1>1, ApplyRaises
<1> DEFINE raised == Len(events) + m
<1>3. /\ raised \in DOMAIN events' /\ raised \notin DOMAIN events
      /\ \A e \in DOMAIN events : e \in DOMAIN events'
      /\ cmd[t] \in Nat
  BY <1>1, <1>2, Typed
<1>4. \A n : RaisedBy(n)' = IF n = cmd[t] THEN RaisedBy(n) \cup {raised} ELSE RaisedBy(n)
  <2> SUFFICES ASSUME NEW n
               PROVE  RaisedBy(n)' = IF n = cmd[t] THEN RaisedBy(n) \cup {raised} ELSE RaisedBy(n)
    OBVIOUS
  <2>1. \A e \in DOMAIN events' : e \notin DOMAIN events =>
          (events'[e].kind = "domain" <=> e = raised) /\ events'[e].cmd = cmd[t]
    BY <1>2
  <2> HIDE DEF raised
  <2>2. QED
    BY <1>2, <1>3, <2>1 DEF RaisedBy
<1>5. Cardinality(RaisedBy(cmd[t]) \cup {raised}) <= MaxApplies
  <2>1. IsFiniteSet(RaisedBy(cmd[t]))
    BY <1>1, RaisedFinite
  <2>2. Cardinality(RaisedBy(cmd[t])) \in Nat
    BY <2>1, FS_CardinalityType
  <2>3. \/ Cardinality(RaisedBy(cmd[t]) \cup {raised}) = Cardinality(RaisedBy(cmd[t])) + 1
        \/ Cardinality(RaisedBy(cmd[t]) \cup {raised}) = Cardinality(RaisedBy(cmd[t]))
    BY <2>1, FS_AddElement
  <2>4. MaxApplies \in Nat
    BY PipelineAssumption DEF PipelineAssumption
  <2>5. QED
    BY <1>2, <2>2, <2>3, <2>4
<1>6. ASSUME NEW n \in Nat
      PROVE  Cardinality(RaisedBy(n)') <= MaxApplies
  <2> HIDE DEF raised
  <2>1. Cardinality(RaisedBy(n)) <= MaxApplies
    BY DEF CountInv
  <2>2. CASE n = cmd[t]
    BY <1>4, <1>5, <2>2
  <2>3. CASE n # cmd[t]
    BY <1>4, <2>1, <2>3
  <2>4. QED
    BY <2>2, <2>3
<1>7. ASSUME NEW e \in DOMAIN events', events'[e].kind = "snapshot"
      PROVE  /\ e + 1 \in DOMAIN events'
             /\ events'[e + 1].kind = "domain" /\ events'[e + 1].cmd = events'[e].cmd
  <2>1. CASE e \in DOMAIN events
    <3>1. /\ e + 1 \in DOMAIN events
          /\ events[e + 1].kind = "domain" /\ events[e + 1].cmd = events[e].cmd
      BY <1>2, <1>7, <2>1 DEF CountInv
    <3>2. QED
      BY <1>2, <1>3, <2>1, <3>1
  <2>2. CASE e \notin DOMAIN events
    <3>1. e # Len(events) + m
      BY <1>2, <1>7, <2>2
    <3>2. e \in 1..(Len(events) + m) /\ e \notin 1..Len(events) /\ Len(events) \in Nat
      BY <1>1, <1>2, <2>2, Typed
    <3>3. e + 1 = Len(events) + m
      BY <1>2, <3>1, <3>2
    <3>4. e + 1 \in DOMAIN events' /\ e + 1 \notin DOMAIN events
      BY <1>3, <3>3
    <3>5. QED
      BY <1>2, <2>2, <3>3, <3>4
  <2>3. QED
    BY <2>1, <2>2
<1>8. \A d, e \in DOMAIN events' :
        (/\ events'[d].kind = "created" /\ events'[e].kind = "created"
         /\ events'[d].cmd = events'[e].cmd) => d = e
  <2>1. \A e \in DOMAIN events' : events'[e].kind = "created" => e \in DOMAIN events
    BY <1>2
  <2>2. QED
    BY <1>2, <2>1 DEF CountInv
<1>9. QED
  BY <1>2, <1>6, <1>7, <1>8 DEF CountInv

LEMMA CountStep ==
  ASSUME Partitioned, CommandFacts, CountInv, [Next]_vars
  PROVE  CountInv'
<1>1. TypeInv /\ Grows
  BY StepGrows DEF CommandFacts, FiledFacts
<1>2. DOMAIN commands \subseteq 1..MaxCommands
  BY DEF CountInv
<1>3. ASSUME NEW t \in Threads, NEW outcome, Return(t, outcome), events' = events
      PROVE  CountInv'
  <2>1. DOMAIN commands' = DOMAIN commands
    BY <1>3 DEF Return
  <2>2. QED
    BY <1>1, <1>2, <1>3, <2>1, CountKept
<1>4. ASSUME NEW t \in Threads, NEW id \in Targets[t] \cup {NoId}, Send(t, id)
      PROVE  CountInv'
  <2>1. DOMAIN commands' = 1..(Len(commands) + 1) /\ events' = events
    BY <1>1, <1>4, SendEffect
  <2>2. Len(commands) < MaxCommands /\ MaxCommands \in Nat /\ Len(commands) \in Nat
    BY <1>1, <1>4, Typed, PipelineAssumption DEF Send, PipelineAssumption
  <2>3. DOMAIN commands' \subseteq 1..MaxCommands
    BY <2>1, <2>2
  <2>4. QED
    BY <1>1, <2>1, <2>3, CountKept
<1>5. ASSUME NEW t \in Threads, Get(t) \/ LoadEvent(t) \/ VersionCommand(t)
      PROVE  CountInv'
  <2>1. DOMAIN commands' = DOMAIN commands /\ DOMAIN events' = DOMAIN events
    BY <1>1, <1>5, GetEffect, LoadEventEffect, VersionCommandEffect
  <2>2. QED
    BY <1>1, <1>2, <2>1, CountKept
<1>6. CASE UNCHANGED <<events, commands>>
  BY <1>1, <1>2, <1>6, CountKept
<1>7. QED
  BY <1>3, <1>4, <1>5, <1>6, NoteCount, ApplyCount
     DEF Next, ValidatorRefuses, Load, AssignId, Execute, ConsumerThrows, ReturnNothing, Accept,
         Stream, Save, Publish, HandlerThrows, ModuleThrows, Complete, vars

\* The place of an event of the domain among those of its command.
Nth(e) == Cardinality({d \in RaisedBy(events[e].cmd) : d <= e})

LEMMA NthBounded ==
  ASSUME TypeInv, CountInv, NEW e \in DOMAIN events, events[e].kind = "domain"
  PROVE  Nth(e) \in 1..MaxApplies
<1> DEFINE n == events[e].cmd
           S == {d \in RaisedBy(n) : d <= e}
<1>1. events[e] \in Event
  BY Typed
<1>2. n \in Nat
  BY <1>1 DEF Event
<1>3. IsFiniteSet(RaisedBy(n)) /\ S \subseteq RaisedBy(n)
  BY RaisedFinite
<1>4. IsFiniteSet(S) /\ Cardinality(S) <= Cardinality(RaisedBy(n))
  BY <1>3, FS_Subset
<1>5. e \in S
  BY Typed DEF RaisedBy
<1>6. Cardinality(S) \in Nat /\ Cardinality(S) # 0 /\ Cardinality(RaisedBy(n)) \in Nat
  BY <1>3, <1>4, <1>5, FS_CardinalityType, FS_EmptySet
<1>7. Cardinality(RaisedBy(n)) <= MaxApplies /\ MaxApplies \in Nat
  BY <1>2, PipelineAssumption DEF CountInv, PipelineAssumption
<1>8. Nth(e) = Cardinality(S)
  BY DEF Nth
<1> HIDE DEF S, n
<1>9. QED
  BY <1>4, <1>6, <1>7, <1>8

LEMMA NthDistinct ==
  ASSUME TypeInv, NEW d \in DOMAIN events, NEW e \in DOMAIN events,
         events[d].kind = "domain", events[e].kind = "domain",
         events[d].cmd = events[e].cmd, Nth(d) = Nth(e)
  PROVE  d = e
<1>1. d \in Nat /\ e \in Nat
  BY Typed
<1>2. ASSUME NEW c \in DOMAIN events, NEW f \in DOMAIN events, c < f,
             events[c].kind = "domain", events[f].kind = "domain",
             events[c].cmd = events[f].cmd, Nth(c) = Nth(f)
      PROVE  FALSE
  <2> DEFINE n == events[f].cmd
             S == {i \in RaisedBy(n) : i <= c}
             T == {i \in RaisedBy(n) : i <= f}
  <2>1. IsFiniteSet(RaisedBy(n)) /\ RaisedBy(n) \subseteq Nat
    BY RaisedFinite
  <2>2. IsFiniteSet(T)
    BY <2>1, FS_Subset
  <2>3. c \in Nat /\ f \in Nat
    BY Typed
  <2>4. S \subseteq T /\ f \in T /\ f \notin S
    BY <1>2, <2>1, <2>3 DEF RaisedBy
  <2>5. Cardinality(S) = Cardinality(T)
    BY <1>2 DEF Nth
  <2> HIDE DEF S, T
  <2>6. S = T
    BY <2>2, <2>4, <2>5, FS_Subset
  <2>7. QED
    BY <2>4, <2>6
<1>3. QED
  BY <1>1, <1>2

\* Each event of a command has a number of its own.
Slot(e) ==
  IF events[e].kind = "created" THEN 2 * MaxApplies + 1
  ELSE IF events[e].kind = "domain" THEN 2 * Nth(e)
  ELSE 2 * Nth(e + 1) - 1

LEMMA Slots ==
  ASSUME TypeInv, EventsOwned, CountInv
  PROVE  /\ \A e \in DOMAIN events : /\ events[e].cmd \in 1..MaxCommands
                                     /\ Slot(e) \in 1..(2 * MaxApplies + 1)
         /\ \A d, e \in DOMAIN events :
              (events[d].cmd = events[e].cmd /\ Slot(d) = Slot(e)) => d = e
<1>1. MaxApplies \in Nat
  BY PipelineAssumption DEF PipelineAssumption
<1>2. ASSUME NEW e \in DOMAIN events
      PROVE  events[e].kind \in {"created", "snapshot", "domain"}
  <2>1. events[e] \in Event
    BY Typed
  <2>2. QED
    BY <2>1 DEF Event, Kinds
<1>3. ASSUME NEW e \in DOMAIN events, events[e].kind = "domain"
      PROVE  Slot(e) = 2 * Nth(e) /\ Nth(e) \in 1..MaxApplies
  BY <1>3, NthBounded DEF Slot
<1>4. ASSUME NEW e \in DOMAIN events, events[e].kind = "snapshot"
      PROVE  /\ Slot(e) = 2 * Nth(e + 1) - 1 /\ Nth(e + 1) \in 1..MaxApplies
             /\ e + 1 \in DOMAIN events /\ events[e + 1].kind = "domain"
             /\ events[e + 1].cmd = events[e].cmd
  <2>1. /\ e + 1 \in DOMAIN events /\ events[e + 1].kind = "domain"
        /\ events[e + 1].cmd = events[e].cmd
    BY <1>4 DEF CountInv
  <2>2. QED
    BY <1>4, <2>1, NthBounded DEF Slot
<1>5. ASSUME NEW e \in DOMAIN events, events[e].kind = "created"
      PROVE  Slot(e) = 2 * MaxApplies + 1
  BY <1>5 DEF Slot
<1>6. \A e \in DOMAIN events : /\ events[e].cmd \in 1..MaxCommands
                               /\ Slot(e) \in 1..(2 * MaxApplies + 1)
  <2> SUFFICES ASSUME NEW e \in DOMAIN events
               PROVE  events[e].cmd \in 1..MaxCommands /\ Slot(e) \in 1..(2 * MaxApplies + 1)
    OBVIOUS
  <2>1. events[e].cmd \in 1..MaxCommands
    BY DEF EventsOwned, CountInv
  <2>2. CASE events[e].kind = "domain"
    BY <1>1, <1>3, <2>1, <2>2
  <2>3. CASE events[e].kind = "snapshot"
    BY <1>1, <1>4, <2>1, <2>3
  <2>4. CASE events[e].kind = "created"
    BY <1>1, <1>5, <2>1, <2>4
  <2>5. QED
    BY <1>2, <2>2, <2>3, <2>4
<1>7. ASSUME NEW d \in DOMAIN events, NEW e \in DOMAIN events,
             events[d].cmd = events[e].cmd, Slot(d) = Slot(e)
      PROVE  d = e
  <2>1. CASE events[d].kind = "domain"
    <3>1. events[e].kind # "created"
      BY <1>1, <1>3, <1>5, <1>7, <2>1
    <3>2. events[e].kind # "snapshot"
      BY <1>3, <1>4, <1>7, <2>1
    <3>3. events[e].kind = "domain"
      BY <1>2, <3>1, <3>2
    <3>4. Nth(d) = Nth(e)
      BY <1>3, <1>7, <2>1, <3>3
    <3>5. QED
      BY <1>7, <2>1, <3>3, <3>4, NthDistinct
  <2>2. CASE events[d].kind = "snapshot"
    <3>1. events[e].kind # "created"
      BY <1>1, <1>4, <1>5, <1>7, <2>2
    <3>2. events[e].kind # "domain"
      BY <1>3, <1>4, <1>7, <2>2
    <3>3. events[e].kind = "snapshot"
      BY <1>2, <3>1, <3>2
    <3>4. Nth(d + 1) = Nth(e + 1)
      BY <1>4, <1>7, <2>2, <3>3
    <3>5. d + 1 = e + 1
      BY <1>4, <1>7, <2>2, <3>3, <3>4, NthDistinct
    <3>6. QED
      BY <3>5, Typed
  <2>3. CASE events[d].kind = "created"
    <3>1. events[e].kind # "domain" /\ events[e].kind # "snapshot"
      BY <1>1, <1>3, <1>4, <1>5, <1>7, <2>3
    <3>2. events[e].kind = "created"
      BY <1>2, <3>1
    <3>3. QED
      BY <1>7, <2>3, <3>2 DEF CountInv
  <2>4. QED
    BY <1>2, <2>1, <2>2, <2>3
<1>8. QED
  BY <1>6, <1>7

\* So the events of a bounded behaviour are among EventRefs.
LEMMA Bounded ==
  ASSUME TypeInv, EventsOwned, CountInv
  PROVE  DOMAIN events \subseteq EventRefs
<1> DEFINE T == (1..MaxCommands) \X (1..(2 * MaxApplies + 1))
           f == [e \in DOMAIN events |-> <<events[e].cmd, Slot(e)>>]
<1>1. f \in [DOMAIN events -> T]
  BY Slots
<1>2. IsInjective(f)
  BY Slots DEF IsInjective
<1>3. f \in Injection(DOMAIN events, T)
  BY <1>1, <1>2 DEF Injection
<1>4. MaxCommands \in Nat /\ 2 * MaxApplies + 1 \in Nat
  BY PipelineAssumption DEF PipelineAssumption
<1>5. ASSUME NEW n \in Nat
      PROVE  IsFiniteSet(1..n) /\ Cardinality(1..n) = n
  <2>1. /\ IsFiniteSet(1..n)
        /\ Cardinality(1..n) = IF 1 > n THEN 0 ELSE n - 1 + 1
    BY FS_Interval
  <2>2. QED
    BY <2>1
<1>6. IsFiniteSet(T) /\ Cardinality(T) = MaxCommands * (2 * MaxApplies + 1)
  <2>1. IsFiniteSet(1..MaxCommands) /\ Cardinality(1..MaxCommands) = MaxCommands
    BY <1>4, <1>5
  <2>2. /\ IsFiniteSet(1..(2 * MaxApplies + 1))
        /\ Cardinality(1..(2 * MaxApplies + 1)) = 2 * MaxApplies + 1
    BY <1>4, <1>5
  <2>3. QED
    BY <2>1, <2>2, FS_Product
<1> HIDE DEF f, T
<1>7. Cardinality(DOMAIN events) <= MaxCommands * (2 * MaxApplies + 1)
  BY <1>3, <1>6, FS_Injection
<1>8. Cardinality(DOMAIN events) = Len(events) /\ Len(events) \in Nat
      /\ DOMAIN events = 1..Len(events)
  <2>1. Len(events) \in Nat /\ DOMAIN events = 1..Len(events)
    BY Typed
  <2>2. QED
    BY <1>5, <2>1
<1> DEFINE bound == MaxCommands * (2 * MaxApplies + 1)
<1>9. bound \in Nat /\ Len(events) <= bound
  BY <1>4, <1>7, <1>8
<1>10. EventRefs = 1..bound
  BY DEF EventRefs
<1> HIDE DEF bound
<1>11. QED
  BY <1>8, <1>9, <1>10

-----------------------------------------------------------------------------
(* The pipeline implements the event log.                                   *)

\* What ImplementsEventLog substitutes for the variables of EventLog.
LogOfStore  == [i \in DOMAIN store |-> LogEntry(store[i])]
HeardEvents == {p.ev : p \in published}

LEMMA Substituted ==
  /\ LogOfStore = [i \in DOMAIN store |-> LogEntry(store[i])]
  /\ HeardEvents = {p.ev : p \in published}
  /\ LogOfStore' = [i \in DOMAIN store |-> LogEntry(store[i])]'
  /\ HeardEvents' = {p.ev : p \in published}'
BY DEF LogOfStore, HeardEvents

\* The log reads the same while the storage stays as it is: stamping an event changes nothing
\* that the log tells.
LEMMA LogKept ==
  ASSUME TypeInv, Grows, store' = store
  PROVE  LogOfStore' = LogOfStore
<1>1. \A i \in DOMAIN store : events'[store[i].ev].kind = events[store[i].ev].kind
  BY Referenced DEF Grows
<1>2. QED
  BY <1>1 DEF LogOfStore, LogEntry

LEMMA AppendIs ==
  ASSUME NEW n \in Nat, NEW s, DOMAIN s = 1..n, s = [i \in 1..n |-> s[i]], NEW x
  PROVE  Append(s, x) = [i \in 1..(n + 1) |-> IF i \in 1..n THEN s[i] ELSE x]
<1>1. PICK S : S = {s[i] : i \in 1..n} \cup {x}
  OBVIOUS
<1>2. s \in Seq(S) /\ Len(s) = n /\ x \in S
  BY <1>1
<1>3. QED
  BY <1>2

\* The log grows by the entry that the storage grows by.
LEMMA LogGrows ==
  ASSUME TypeInv, Grows, DOMAIN store' = 1..(Len(store) + 1), NEW x,
         x = [id    |-> store'[Len(store) + 1].src,
              event |-> IF events'[store'[Len(store) + 1].ev].kind = "created" THEN 0
                        ELSE store'[Len(store) + 1].ev]
  PROVE  LogOfStore' = Append(LogOfStore, x)
<1>1. Len(store) \in Nat /\ DOMAIN store = 1..Len(store)
  BY Typed
<1>2. LogOfStore = [i \in 1..Len(store) |-> LogOfStore[i]] /\ DOMAIN LogOfStore = 1..Len(store)
  BY <1>1 DEF LogOfStore
<1>3. \A i \in 1..Len(store) : LogOfStore'[i] = LogOfStore[i]
  <2>1. \A i \in DOMAIN store : /\ i \in DOMAIN store' /\ store'[i] = store[i]
                                /\ events'[store[i].ev].kind = events[store[i].ev].kind
    BY Referenced DEF Grows
  <2>2. QED
    BY <1>1, <2>1 DEF LogOfStore, LogEntry
<1>4. LogOfStore'[Len(store) + 1] = x
  <2>1. Len(store) + 1 \in DOMAIN store'
    BY <1>1
  <2>2. QED
    BY <2>1 DEF LogOfStore, LogEntry
<1>5. LogOfStore' = [i \in 1..(Len(store) + 1) |-> LogOfStore'[i]]
  BY DEF LogOfStore
<1>6. Append(LogOfStore, x)
        = [i \in 1..(Len(store) + 1) |-> IF i \in 1..Len(store) THEN LogOfStore[i] ELSE x]
  BY <1>1, <1>2, AppendIs
<1>7. \A i \in 1..(Len(store) + 1) : i \in 1..Len(store) \/ i = Len(store) + 1
  BY <1>1
<1>8. Len(store) + 1 \notin 1..Len(store)
  BY <1>1
<1> HIDE DEF LogOfStore
<1>9. QED
  BY <1>3, <1>4, <1>5, <1>6, <1>7, <1>8

\* Noting the creation of an aggregate opens its stream.
LEMMA NoteOpens ==
  ASSUME Partitioned, CommandFacts, OpeningInv, NEW t \in Threads, NoteAggregateCreated(t)
  PROVE  /\ target[t] \in Ids
         /\ Log!CreateStream(target[t])
<1>1. /\ TypeInv /\ Grows /\ Addressed(t) /\ Unopened(t)
  BY StepGrows DEF CommandFacts, FiledFacts, FiledInv, OpeningInv, Next, Load
<1>2. /\ pc[t] = "note"
      /\ DOMAIN store' = 1..(Len(store) + 1)
      /\ store'[Len(store) + 1].ev = Len(events) + 1
      /\ store'[Len(store) + 1].src = target[t]
      /\ events'[Len(events) + 1].kind = "created"
      /\ published' = published
  BY <1>1, NoteEffect
<1>3. target[t] \in Ids
  BY <1>2 DEF Partitioned, Addressed, FiledInv, FiledFacts, CommandFacts
<1>4. LogOfStore' = Append(LogOfStore, [id |-> target[t], event |-> 0])
  BY <1>1, <1>2, LogGrows
<1>5. \A i \in DOMAIN store : store[i].src # target[t]
  BY <1>1, <1>2 DEF Unopened, Positions
<1>6. \A i \in DOMAIN LogOfStore : LogOfStore[i] # [id |-> target[t], event |-> 0]
  BY <1>5 DEF LogOfStore, LogEntry
<1>7. HeardEvents' = HeardEvents
  BY <1>2 DEF HeardEvents
<1>8. QED
  BY <1>3, <1>4, <1>6, <1>7, Substituted DEF Log!CreateStream, Log!Open

\* Save adds an event that the log does not hold to a stream that is open.
LEMMA SaveAdds ==
  ASSUME Partitioned, CommandFacts, SourceInv, CountInv, NEW t \in Threads, Save(t)
  PROVE  \E id \in Ids, e \in EventRefs : Log!AddEvent(id, e)
<1>1. /\ TypeInv /\ Grows /\ Addressed(t) /\ OwnChanges(t) /\ EventsOwned /\ CreationInv
      /\ Transient
  BY StepGrows DEF CommandFacts, FiledFacts, FiledInv, HeardInv, Next, Stream, Partitioned
<1>2. PICK e : e = changes[t][next[t]]
  OBVIOUS
<1>3. /\ pc[t] = "save" /\ next[t] \in DOMAIN changes[t]
      /\ DOMAIN store' = 1..(Len(store) + 1)
      /\ store'[Len(store) + 1].ev = e
      /\ store'[Len(store) + 1].src = events[e].src
      /\ UNCHANGED <<events, published>>
  BY <1>1, <1>2, SaveEffect
<1>4. next[t] <= next[t]
  BY <1>1, Typed DEF Ref
<1>5. /\ e \in DOMAIN events /\ events[e].kind # "created" /\ events[e].src = target[t]
      /\ target[t] \in Ids
  BY <1>1, <1>2, <1>3, <1>4, Referenced DEF OwnChanges, Addressed
<1>6. Created(target[t]) /\ ~ IsFiled(e)
  BY <1>1, <1>2, <1>3, <1>4, <1>5 DEF CreationInv, Isolated, Private, Transient
<1>7. e \in EventRefs /\ e # 0
  <2>1. e \in 1..Len(events)
    BY <1>1, <1>5, Typed
  <2>2. QED
    BY <1>1, <1>5, <2>1, Bounded
<1>8. LogOfStore' = Append(LogOfStore, [id |-> target[t], event |-> e])
  BY <1>1, <1>3, <1>5, LogGrows
<1>9. \E i \in DOMAIN LogOfStore : LogOfStore[i] = [id |-> target[t], event |-> 0]
  BY <1>6 DEF Created, LogOfStore, LogEntry
<1>10. \A i \in DOMAIN LogOfStore : LogOfStore[i].event # e
  BY <1>6, <1>7 DEF IsFiled, LogOfStore, LogEntry
<1>11. HeardEvents' = HeardEvents
  BY <1>3 DEF HeardEvents
<1>12. Log!AddEvent(target[t], e)
  BY <1>8, <1>9, <1>10, <1>11, Substituted DEF Log!AddEvent, Log!Open, Log!Holds
<1>13. QED
  BY <1>5, <1>7, <1>12

\* What a handler is given is filed, was given to no handler, and precedes in its stream
\* whatever a handler was given.
LEMMA DeliverHears ==
  ASSUME Partitioned, CommandFacts, SourceInv, OrderInv, CountInv,
         NEW t \in Threads, Deliver(t), UNCHANGED <<events, store>>
  PROVE  \E e \in EventRefs : Log!Deliver(e)
<1>1. /\ TypeInv /\ FiledFacts /\ DeliveredInv /\ Transient /\ Addressed(t) /\ OwnChanges(t)
      /\ EventsOwned /\ Saved(t) /\ StreamAscends /\ Unheard(t) /\ FiledAtSource
  BY DEF CommandFacts, FiledFacts, FiledInv, HeardInv, SavedInv, OrderInv, Partitioned
<1>2. PICK e : e = changes[t][next[t]]
  OBVIOUS
<1>3. /\ pc[t] = "publish" /\ next[t] \in DOMAIN changes[t]
      /\ \E p \in published' : published' = published \cup {p} /\ p.ev = e
  BY <1>1, <1>2, DeliverEffect
<1>4. /\ e \in DOMAIN events /\ events[e].cmd = cmd[t] /\ events[e].kind # "created"
      /\ \A q \in published : q.ev # e
  BY <1>1, <1>2, <1>3, Undelivered DEF OwnChanges
<1>5. PICK i \in DOMAIN store : store[i].ev = e
  BY <1>1, <1>2, <1>3 DEF Saved, IsFiled
<1>6. store[i].src = target[t]
  BY <1>1, <1>3, <1>4, <1>5 DEF FiledAtSource, Addressed
<1>7. e \in EventRefs
  BY <1>1, <1>4, Bounded
<1>8. next[t] <= next[t]
  BY <1>1, Typed DEF Ref
<1>9. ASSUME NEW j \in DOMAIN store, j > i, store[j].src = store[i].src,
             NEW p \in published
      PROVE  p.ev # store[j].ev
  <2> SUFFICES ASSUME p.ev = store[j].ev
               PROVE  FALSE
    OBVIOUS
  <2>1. commands[p.cmd].id = target[t]
    BY <1>1, <1>6, <1>9 DEF FiledAtSource, DeliveredInv
  <2>2. p.ev < e
    BY <1>1, <1>2, <1>3, <1>8, <2>1 DEF Unheard
  <2>3. e < store[j].ev
    <3>1. i < j
      BY <1>1, <1>9, Typed
    <3>2. QED
      BY <1>1, <1>5, <1>9, <3>1 DEF StreamAscends
  <2>4. e \in Nat /\ store[j].ev \in Nat
    BY <1>1, <1>4, Referenced, Typed
  <2>5. QED
    BY <2>2, <2>3, <2>4
<1>10. 0 \notin HeardEvents
  <2>1. 0 \notin DOMAIN events
    BY <1>1, Typed
  <2>2. QED
    BY <1>1, <2>1 DEF HeardEvents, DeliveredInv
<1>11. i \in DOMAIN LogOfStore /\ LogOfStore[i].event = e
  BY <1>4, <1>5 DEF LogOfStore, LogEntry
<1>12. \A j \in DOMAIN LogOfStore :
         (j > i /\ LogOfStore[j].id = LogOfStore[i].id) => LogOfStore[j].event \notin HeardEvents
  <2> SUFFICES ASSUME NEW j \in DOMAIN store, j > i, store[j].src = store[i].src
               PROVE  LogOfStore[j].event \notin HeardEvents
    BY DEF LogOfStore, LogEntry
  <2>1. LogOfStore[j].event \in {0, store[j].ev}
    BY DEF LogOfStore, LogEntry
  <2>2. store[j].ev \notin HeardEvents
    BY <1>9 DEF HeardEvents
  <2>3. QED
    BY <1>10, <2>1, <2>2
<1>13. e \notin HeardEvents /\ HeardEvents' = HeardEvents \cup {e}
  BY <1>3, <1>4 DEF HeardEvents
<1>14. LogOfStore' = LogOfStore
  BY DEF LogOfStore, LogEntry
<1>15. Log!Deliver(e)
  BY <1>11, <1>12, <1>13, <1>14, Substituted DEF Log!Deliver
<1>16. QED
  BY <1>7, <1>15

\* Every step is one of EventLog, or changes nothing that it sees.
LEMMA LogStep ==
  ASSUME Partitioned, CommandFacts, SourceInv, OpeningInv, OrderInv, CountInv, [Next]_vars
  PROVE  \/ UNCHANGED <<LogOfStore, HeardEvents>>
         \/ Log!LogNext
<1>1. TypeInv /\ Grows
  BY StepGrows DEF CommandFacts, FiledFacts
<1>2. CASE UNCHANGED <<store, published>>
  BY <1>1, <1>2, LogKept DEF HeardEvents
<1>3. ASSUME NEW t \in Threads, NoteAggregateCreated(t)
      PROVE  Log!LogNext
  BY <1>3, NoteOpens DEF Log!LogNext
<1>4. ASSUME NEW t \in Threads, Save(t)
      PROVE  Log!LogNext
  BY <1>4, SaveAdds DEF Log!LogNext
<1>5. ASSUME NEW t \in Threads, Publish(t) \/ HandlerThrows(t)
      PROVE  Log!LogNext
  <2>1. Deliver(t) /\ UNCHANGED <<events, store>>
    BY <1>5 DEF Publish, HandlerThrows
  <2>2. QED
    BY <2>1, DeliverHears DEF Log!LogNext
<1>6. CASE UNCHANGED vars
  BY <1>2, <1>6 DEF vars
<1>7. ASSUME NEW t \in Threads, Step(t)
      PROVE  \/ UNCHANGED <<store, published>>
             \/ NoteAggregateCreated(t) \/ Save(t) \/ Publish(t) \/ HandlerThrows(t)
  BY <1>7 DEF Step, Send, ValidatorRefuses, Load, Get, LoadEvent, VersionCommand, AssignId,
     Execute, Apply, ConsumerThrows, ReturnNothing, Accept, Stream, ModuleThrows, Complete
<1>8. QED
  BY <1>2, <1>3, <1>4, <1>5, <1>6, <1>7, NextStep

LEMMA LogStart ==
  ASSUME Init
  PROVE  Log!LogInit
<1>1. store = <<>> /\ published = {}
  BY DEF Init
<1>2. LogOfStore = <<>> /\ HeardEvents = {}
  BY <1>1 DEF LogOfStore, HeardEvents
<1>3. QED
  BY <1>2, Substituted DEF Log!LogInit

\* With an instance per command and one thread for each aggregate, the pipeline implements
\* EventLog: the stream of an aggregate is opened once, an event is stored once, in a stream
\* that is open, and the handlers get each event at most once and the events of an aggregate
\* in the order they are stored, although commands are refused and handlers throw.
THEOREM EventLogImplemented ==
  ASSUME Partitioned
  PROVE  Spec => ImplementsEventLog
<1> DEFINE Inv == CommandFacts /\ SourceInv /\ OpeningInv /\ OrderInv /\ CountInv
<1>1. Init => Inv /\ Log!LogInit
  BY CommandFactsInit, SourceInit, OpeningInit, OrderInit, CountInit, LogStart
<1>2. Inv /\ [Next]_vars => Inv'
  BY CommandFactsStep, SourceStep, OpeningStep, OrderStep, CountStep
<1>3. Inv /\ [Next]_vars =>
        [Log!LogNext]_<<[i \in DOMAIN store |-> LogEntry(store[i])], {p.ev : p \in published}>>
  BY LogStep, Substituted
<1>4. QED
  BY <1>1, <1>2, <1>3, PTL DEF Spec, ImplementsEventLog, Log!LogSpec, Log!logVars
=============================================================================
