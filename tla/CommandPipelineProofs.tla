------------------------ MODULE CommandPipelineProofs ------------------------
(***************************************************************************)
(* Proofs about CommandPipeline, for every set of aggregates and threads,  *)
(* both lifestyles and every bound.                                        *)
(***************************************************************************)
EXTENDS CommandPipeline, TLAPS

\* No reference to an event dangles.
RefsInHeap ==
  /\ \A i \in DOMAIN store : store[i].ev \in DOMAIN events
  /\ \A r \in Instances : \A k \in DOMAIN roots[r].recorded :
       roots[r].recorded[k] \in DOMAIN events
  /\ \A t \in Threads : \A k \in DOMAIN changes[t] : changes[t][k] \in DOMAIN events

\* A thread inside Send has a command and, once it has called Get, an aggregate; a
\* thread that saves has an event left to save.
InsideSend ==
  \A t \in Threads :
    /\ pc[t] # "idle" => cmd[t] \in DOMAIN commands
    /\ pc[t] \in {"note", "load", "assign", "execute"} => target[t] \in Ids
    /\ pc[t] = "save" => next[t] \in DOMAIN changes[t]

TypeInv == TypeOK /\ RefsInHeap /\ InsideSend

LEMMA InstanceType ==
  ASSUME NEW t \in Threads
  PROVE  Instance(t) \in Instances
BY DEF Instance, Instances

LEMMA TypeInit == Init => TypeInv
BY PipelineAssumption DEF Init, TypeInv, TypeOK, RefsInHeap, InsideSend, NewRoot, Root, AnyId,
   Ref, Places

USE PipelineAssumption DEF AnyId, Ref

LEMMA SendType ==
  ASSUME TypeInv, NEW t \in Threads, NEW id \in Targets[t] \cup {NoId}, Send(t, id)
  PROVE  TypeInv'
<1>1. id \in AnyId
  OBVIOUS
<1>2. Acknowledged(id) \subseteq Ref
  BY DEF TypeInv, TypeOK, Acknowledged
<1>3. TypeOK'
  BY <1>1, <1>2 DEF Send, GoTo, TypeInv, TypeOK, Command, Places
<1>4. RefsInHeap'
  BY DEF Send, TypeInv, RefsInHeap
<1>5. InsideSend'
  BY DEF Send, GoTo, TypeInv, TypeOK, InsideSend
<1>6. QED
  BY <1>3, <1>4, <1>5 DEF TypeInv

\* Updating one element of a sequence.
LEMMA UpdateSeq ==
  ASSUME NEW S, NEW s \in Seq(S), NEW n \in DOMAIN s, NEW x \in S
  PROVE  /\ [s EXCEPT ![n] = x] \in Seq(S)
         /\ DOMAIN [s EXCEPT ![n] = x] = DOMAIN s
OBVIOUS

LEMMA CommandUpdate ==
  ASSUME NEW c \in Command
  PROVE  /\ \A id \in AnyId : [c EXCEPT !.id = id] \in Command
         /\ \A v \in Nat : [c EXCEPT !.version = v] \in Command
         /\ \A o \in {"refused", "nothing", "failed", "done"} :
              [c EXCEPT !.outcome = o] \in Command
BY DEF Command

LEMMA ReturnType ==
  ASSUME TypeInv, NEW t \in Threads, NEW outcome, Return(t, outcome), pc[t] # "idle",
         outcome \in {"refused", "nothing", "failed", "done"},
         UNCHANGED <<events, store, roots>>, published' \in SUBSET Delivery
  PROVE  TypeInv'
<1>1. commands' \in Seq(Command) /\ DOMAIN commands' = DOMAIN commands
  <2>1. /\ cmd[t] \in DOMAIN commands
        /\ commands \in Seq(Command)
        /\ commands[cmd[t]] \in Command
    BY DEF TypeInv, TypeOK, InsideSend
  <2>2. [commands[cmd[t]] EXCEPT !.outcome = outcome] \in Command
    BY <2>1, CommandUpdate
  <2>3. commands' = [commands EXCEPT ![cmd[t]] = [commands[cmd[t]] EXCEPT !.outcome = outcome]]
    BY DEF Return
  <2>4. QED
    BY <2>1, <2>2, <2>3, UpdateSeq
<1>2. TypeOK'
  BY <1>1 DEF Return, GoTo, TypeInv, TypeOK, Places
<1>3. RefsInHeap'
  BY DEF Return, TypeInv, TypeOK, RefsInHeap
<1>4. InsideSend'
  BY <1>1 DEF Return, GoTo, TypeInv, TypeOK, InsideSend
<1>5. QED
  BY <1>2, <1>3, <1>4 DEF TypeInv

LEMMA GetType ==
  ASSUME TypeInv, NEW t \in Threads, Get(t)
  PROVE  TypeInv'
<1>1. PICK id \in IF commands[cmd[t]].id = NoId THEN NewGuids(t) ELSE {commands[cmd[t]].id} :
        LET since == GetHistorySinceSnapshot(id)
            read  == IF since = {} THEN GetHistory(id) ELSE since
        IN  /\ target'   = [target EXCEPT ![t] = id]
            /\ commands' = [commands EXCEPT ![cmd[t]].id = id]
            /\ history'  = [history EXCEPT ![t] = read]
            /\ unread'   = [unread EXCEPT ![t] = read]
            /\ GoTo(t, IF read = {} THEN "note" ELSE "load")
  BY DEF Get
<1>2. pc[t] = "sent"
  BY DEF Get
<1>3. cmd[t] \in DOMAIN commands /\ commands \in Seq(Command)
  BY <1>2 DEF TypeInv, TypeOK, InsideSend
<1>4. commands[cmd[t]] \in Command
  BY <1>3
<1>5. id \in Ids
  <2>1. commands[cmd[t]].id \in AnyId
    BY <1>4 DEF Command
  <2>2. NewGuids(t) \subseteq Ids
    BY DEF NewGuids
  <2>3. CASE commands[cmd[t]].id = NoId
    BY <1>1, <2>2, <2>3
  <2>4. CASE commands[cmd[t]].id # NoId
    BY <1>1, <2>1, <2>4
  <2>5. QED
    BY <2>3, <2>4
<1>6. commands' \in Seq(Command) /\ DOMAIN commands' = DOMAIN commands
  <2>1. [commands[cmd[t]] EXCEPT !.id = id] \in Command
    BY <1>4, <1>5, CommandUpdate
  <2>2. commands' = [commands EXCEPT ![cmd[t]] = [commands[cmd[t]] EXCEPT !.id = id]]
    BY <1>1
  <2>3. QED
    BY <1>3, <2>1, <2>2, UpdateSeq
<1>7. roots' \in [Instances -> Root] /\ \A r \in Instances : roots'[r] \in {roots[r], NewRoot}
  <2>1. roots \in [Instances -> Root] /\ NewRoot \in Root
    BY DEF TypeInv, TypeOK, Root, NewRoot
  <2>2. roots' = roots \/ roots' = [roots EXCEPT ![t] = NewRoot]
    BY DEF Get, Resolve
  <2>3. QED
    BY <2>1, <2>2
<1>8. PICK read \in SUBSET DOMAIN store :
        /\ history' = [history EXCEPT ![t] = read]
        /\ unread'  = [unread EXCEPT ![t] = read]
        /\ pc'      = [pc EXCEPT ![t] = IF read = {} THEN "note" ELSE "load"]
  BY <1>1 DEF GoTo, GetHistorySinceSnapshot, GetHistory, Positions
<1>9. TypeOK'
  BY <1>1, <1>5, <1>6, <1>7, <1>8 DEF Get, TypeInv, TypeOK, Places
<1>10. RefsInHeap'
  BY <1>7 DEF Get, TypeInv, RefsInHeap, NewRoot
<1>11. InsideSend'
  BY <1>1, <1>5, <1>6, <1>8 DEF Get, TypeInv, TypeOK, InsideSend
<1>12. QED
  BY <1>9, <1>10, <1>11 DEF TypeInv

LEMMA EntryType ==
  ASSUME NEW e \in Ref, NEW ev \in Event
  PROVE  Entry(e, ev) \in Filed
BY DEF Entry, Event, Filed

LEMMA RootUpdate ==
  ASSUME NEW r \in Root
  PROVE  /\ \A s \in Seq(Ref) : /\ [r EXCEPT !.applied = s] \in Root
                                /\ [r EXCEPT !.applied = s].recorded = r.recorded
         /\ \A id \in AnyId : /\ [r EXCEPT !.id = id] \in Root
                              /\ [r EXCEPT !.id = id].recorded = r.recorded
         /\ \A n \in Nat : /\ [r EXCEPT !.command = n] \in Root
                           /\ [r EXCEPT !.command = n].recorded = r.recorded
BY DEF Root

LEMMA NoteAggregateCreatedType ==
  ASSUME TypeInv, NEW t \in Threads, NoteAggregateCreated(t)
  PROVE  TypeInv'
<1> DEFINE created == [kind |-> "created", src |-> target[t], ver |-> 0, cmd |-> cmd[t]]
<1>1. created \in Event
  BY DEF TypeInv, TypeOK, Event, Kinds
<1>2. Entry(Len(events) + 1, created) \in Filed
  <2>1. Len(events) + 1 \in Ref
    BY DEF TypeInv, TypeOK
  <2>2. QED
    BY <1>1, <2>1, EntryType
<1>3. /\ events' = Append(events, created)
      /\ store' = Append(store, Entry(Len(events) + 1, created))
  BY DEF NoteAggregateCreated
<1>4. Entry(Len(events) + 1, created).ev = Len(events) + 1
  BY DEF Entry
<1> HIDE DEF created
<1>5. /\ events' \in Seq(Event)
      /\ store' \in Seq(Filed)
      /\ DOMAIN events' = 1..(Len(events) + 1)
      /\ DOMAIN store' = 1..(Len(store) + 1)
  BY <1>1, <1>2, <1>3 DEF TypeInv, TypeOK
<1>6. TypeOK'
  BY <1>5 DEF NoteAggregateCreated, GoTo, locals, TypeInv, TypeOK, Places
<1>7. RefsInHeap'
  <2>1. \A i \in DOMAIN store' : store'[i].ev \in DOMAIN events'
    BY <1>3, <1>4, <1>5 DEF TypeInv, TypeOK, RefsInHeap
  <2>2. QED
    BY <1>5, <2>1 DEF NoteAggregateCreated, locals, TypeInv, TypeOK, RefsInHeap
<1>8. InsideSend'
  BY DEF NoteAggregateCreated, GoTo, locals, TypeInv, TypeOK, InsideSend
<1>9. QED
  BY <1>6, <1>7, <1>8 DEF TypeInv

LEMMA LoadEventType ==
  ASSUME TypeInv, NEW t \in Threads, LoadEvent(t)
  PROVE  TypeInv'
<1>1. PICK i \in unread[t] :
        LET e == store[i].ev
        IN  /\ InOrder(t, i)
            /\ unread' = [unread EXCEPT ![t] = @ \ {i}]
            /\ IF events[e].kind = "domain"
                 THEN /\ events' = [events EXCEPT ![e].src = root(t).id,
                                                  ![e].ver = root(t).version]
                      /\ roots'  = [roots EXCEPT ![Instance(t)].applied = Append(@, e)]
                 ELSE UNCHANGED <<events, roots>>
  BY DEF LoadEvent
<1> DEFINE e == store[i].ev
<1>2. e \in DOMAIN events /\ e \in Ref
  BY DEF TypeInv, TypeOK, RefsInHeap
<1>3. root(t) \in Root
  BY InstanceType DEF root, TypeInv, TypeOK
<1>4. /\ events' \in Seq(Event)
      /\ DOMAIN events' = DOMAIN events
      /\ roots' \in [Instances -> Root]
      /\ \A r \in Instances : roots'[r].recorded = roots[r].recorded
  <2>1. CASE events[e].kind = "domain"
    <3> DEFINE stamped == [events[e] EXCEPT !.src = root(t).id, !.ver = root(t).version]
               loaded  == [root(t) EXCEPT !.applied = Append(@, e)]
    <3>1. /\ events' = [events EXCEPT ![e] = stamped]
          /\ roots' = [roots EXCEPT ![Instance(t)] = loaded]
      BY <1>1, <2>1 DEF root
    <3>2. events[e] \in Event /\ events \in Seq(Event)
      BY <1>2 DEF TypeInv, TypeOK
    <3>3. stamped \in Event
      BY <1>3, <3>2 DEF Event, Root
    <3>4. loaded \in Root /\ loaded.recorded = root(t).recorded
      <4>1. Append(root(t).applied, e) \in Seq(Ref)
        BY <1>2, <1>3 DEF Root
      <4>2. QED
        BY <1>3, <4>1, RootUpdate
    <3> HIDE DEF stamped, loaded, e
    <3>5. events' \in Seq(Event) /\ DOMAIN events' = DOMAIN events
      BY <1>2, <3>1, <3>2, <3>3, UpdateSeq
    <3>6. /\ roots' \in [Instances -> Root]
          /\ \A r \in Instances : roots'[r].recorded = roots[r].recorded
      BY <3>1, <3>4, InstanceType DEF TypeInv, TypeOK, root
    <3>7. QED
      BY <3>5, <3>6
  <2>2. CASE events[e].kind # "domain"
    BY <1>1, <2>2 DEF TypeInv, TypeOK
  <2>3. QED
    BY <2>1, <2>2
<1>5. unread' \in [Threads -> SUBSET DOMAIN store]
  BY <1>1 DEF TypeInv, TypeOK
<1>6. TypeOK'
  BY <1>4, <1>5 DEF LoadEvent, TypeInv, TypeOK
<1>7. RefsInHeap'
  BY <1>4 DEF LoadEvent, TypeInv, RefsInHeap
<1>8. InsideSend'
  BY DEF LoadEvent, TypeInv, TypeOK, InsideSend
<1>9. QED
  BY <1>6, <1>7, <1>8 DEF TypeInv

LEMMA VersionCommandType ==
  ASSUME TypeInv, NEW t \in Threads, VersionCommand(t)
  PROVE  TypeInv'
<1>1. commands' \in Seq(Command) /\ DOMAIN commands' = DOMAIN commands
  <2>1. PICK i \in history[t] :
          commands' = IF root(t).command = 0 THEN commands
                      ELSE [commands EXCEPT ![root(t).command].version =
                              events[store[i].ev].ver + 1]
    BY DEF VersionCommand
  <2>2. events[store[i].ev].ver + 1 \in Nat
    <3>1. i \in DOMAIN store
      BY DEF TypeInv, TypeOK
    <3>2. store[i].ev \in DOMAIN events
      BY <3>1 DEF TypeInv, RefsInHeap
    <3>3. events[store[i].ev] \in Event
      BY <3>2 DEF TypeInv, TypeOK
    <3>4. QED
      BY <3>3 DEF Event
  <2>3. commands \in Seq(Command)
    BY DEF TypeInv, TypeOK
  <2> DEFINE n == root(t).command
             v == events[store[i].ev].ver + 1
             c == [commands[n] EXCEPT !.version = v]
  <2>4. CASE n # 0 /\ n \in DOMAIN commands
    <3>1. commands' = [commands EXCEPT ![n] = c]
      BY <2>1, <2>4
    <3>2. commands[n] \in Command
      BY <2>3, <2>4
    <3>3. c \in Command
      BY <2>2, <3>2, CommandUpdate
    <3> HIDE DEF n, c
    <3>4. QED
      BY <2>3, <2>4, <3>1, <3>3, UpdateSeq
  <2>5. CASE ~ (n # 0 /\ n \in DOMAIN commands)
    <3>1. commands' = commands
      BY <2>1, <2>3, <2>5
    <3>2. QED
      BY <2>3, <3>1
  <2>6. QED
    BY <2>4, <2>5
<1>2. TypeOK'
  BY <1>1 DEF VersionCommand, GoTo, locals, TypeInv, TypeOK, Places
<1>3. RefsInHeap'
  BY DEF VersionCommand, locals, TypeInv, RefsInHeap
<1>4. InsideSend'
  BY <1>1 DEF VersionCommand, GoTo, locals, TypeInv, TypeOK, InsideSend
<1>5. QED
  BY <1>2, <1>3, <1>4 DEF TypeInv

LEMMA AssignIdType ==
  ASSUME TypeInv, NEW t \in Threads, AssignId(t)
  PROVE  TypeInv'
<1>1. root(t) \in Root
  BY InstanceType DEF root, TypeInv, TypeOK
<1>2. target[t] \in AnyId
  BY DEF TypeInv, TypeOK
<1>3. roots' = [roots EXCEPT ![Instance(t)] = [root(t) EXCEPT !.id = target[t]]]
  BY DEF AssignId, root
<1>4. /\ [root(t) EXCEPT !.id = target[t]] \in Root
      /\ [root(t) EXCEPT !.id = target[t]].recorded = root(t).recorded
  BY <1>1, <1>2, RootUpdate
<1>5. /\ roots' \in [Instances -> Root]
      /\ \A r \in Instances : roots'[r].recorded = roots[r].recorded
  BY <1>3, <1>4, InstanceType DEF TypeInv, TypeOK, root
<1>6. TypeOK'
  BY <1>5 DEF AssignId, GoTo, locals, TypeInv, TypeOK, Places
<1>7. RefsInHeap'
  BY <1>5 DEF AssignId, locals, TypeInv, RefsInHeap
<1>8. InsideSend'
  BY DEF AssignId, GoTo, locals, TypeInv, TypeOK, InsideSend
<1>9. QED
  BY <1>6, <1>7, <1>8 DEF TypeInv

LEMMA AcceptType ==
  ASSUME TypeInv, NEW t \in Threads, Accept(t)
  PROVE  TypeInv'
<1>1. root(t) \in Root
  BY InstanceType DEF root, TypeInv, TypeOK
<1>2. cmd[t] \in Nat
  BY DEF TypeInv, TypeOK
<1>3. roots' = [roots EXCEPT ![Instance(t)] = [root(t) EXCEPT !.command = cmd[t]]]
  BY DEF Accept, root
<1>4. /\ [root(t) EXCEPT !.command = cmd[t]] \in Root
      /\ [root(t) EXCEPT !.command = cmd[t]].recorded = root(t).recorded
  BY <1>1, <1>2, RootUpdate
<1>5. /\ roots' \in [Instances -> Root]
      /\ \A r \in Instances : roots'[r].recorded = roots[r].recorded
  BY <1>3, <1>4, InstanceType DEF TypeInv, TypeOK, root
<1>6. /\ root(t).recorded \in Seq(Ref)
      /\ \A k \in DOMAIN root(t).recorded : root(t).recorded[k] \in DOMAIN events
  BY <1>1, InstanceType DEF Root, root, TypeInv, RefsInHeap
<1>7. /\ changes' = [changes EXCEPT ![t] = root(t).recorded]
      /\ next' = [next EXCEPT ![t] = 1]
      /\ pc' = [pc EXCEPT ![t] = IF root(t).recorded = <<>> THEN "publish" ELSE "save"]
  BY DEF Accept, GoTo
<1>8. TypeOK'
  BY <1>5, <1>6, <1>7 DEF Accept, TypeInv, TypeOK, Places
<1>9. RefsInHeap'
  BY <1>5, <1>6, <1>7 DEF Accept, TypeInv, TypeOK, RefsInHeap
<1>10. InsideSend'
  BY <1>6, <1>7 DEF Accept, TypeInv, TypeOK, InsideSend
<1>11. QED
  BY <1>8, <1>9, <1>10 DEF TypeInv

LEMMA SaveType ==
  ASSUME TypeInv, NEW t \in Threads, Save(t)
  PROVE  TypeInv'
<1> DEFINE e == changes[t][next[t]]
           entry == Entry(e, events[e])
<1>1. /\ next[t] \in DOMAIN changes[t]
      /\ changes[t] \in Seq(Ref)
  BY DEF Save, TypeInv, TypeOK, InsideSend
<1>2. e \in Ref /\ e \in DOMAIN events
  BY <1>1 DEF TypeInv, RefsInHeap
<1>3. events[e] \in Event
  BY <1>2 DEF TypeInv, TypeOK
<1>4. entry \in Filed /\ entry.ev = e
  BY <1>2, <1>3, EntryType DEF Entry
<1>5. store' = Append(store, entry)
  BY DEF Save
<1> HIDE DEF entry, e
<1>6. store' \in Seq(Filed) /\ DOMAIN store' = 1..(Len(store) + 1)
  BY <1>4, <1>5 DEF TypeInv, TypeOK
<1>7. TypeOK'
  <2>1. \/ next' = [next EXCEPT ![t] = next[t] + 1] /\ pc' = pc
        \/ next' = [next EXCEPT ![t] = 1] /\ pc' = [pc EXCEPT ![t] = "publish"]
    BY DEF Save, GoTo
  <2>2. pc' \in [Threads -> Places] /\ next' \in [Threads -> Ref]
    <3>1. next[t] + 1 \in Ref /\ 1 \in Ref
      BY DEF TypeInv, TypeOK
    <3>2. next' \in [Threads -> Ref]
      BY <2>1, <3>1 DEF TypeInv, TypeOK
    <3>3. pc' \in [Threads -> Places]
      BY <2>1 DEF TypeInv, TypeOK, Places
    <3>4. QED
      BY <3>2, <3>3
  <2>3. UNCHANGED <<events, roots, commands, published, cmd, target, history, unread,
                    changes, known>>
    BY DEF Save
  <2>4. QED
    BY <1>6, <2>2, <2>3 DEF TypeInv, TypeOK
<1>8. RefsInHeap'
  <2>1. \A i \in DOMAIN store' : store'[i].ev \in DOMAIN events
    BY <1>2, <1>4, <1>5, <1>6 DEF TypeInv, TypeOK, RefsInHeap
  <2>2. QED
    BY <2>1 DEF Save, TypeInv, RefsInHeap
<1>9. InsideSend'
  BY <1>1 DEF Save, GoTo, TypeInv, TypeOK, InsideSend
<1>10. QED
  BY <1>7, <1>8, <1>9 DEF TypeInv

LEMMA DeliverType ==
  ASSUME TypeInv, NEW t \in Threads, Deliver(t)
  PROVE  published' \in SUBSET Delivery
<1> DEFINE e == changes[t][next[t]]
<1>1. /\ changes[t] \in Seq(Ref)
      /\ next[t] \in Ref
      /\ next[t] <= Len(changes[t])
      /\ cmd[t] \in Nat
  BY DEF Deliver, TypeInv, TypeOK
<1>2. e \in Ref /\ e \in DOMAIN events
  <2>1. next[t] \in DOMAIN changes[t]
    BY <1>1
  <2>2. QED
    BY <1>1, <2>1 DEF TypeInv, RefsInHeap
<1>3. events[e].src \in AnyId
  <2>1. events[e] \in Event
    BY <1>2 DEF TypeInv, TypeOK
  <2>2. QED
    BY <2>1 DEF Event
<1>4. [ev |-> e, src |-> events[e].src, cmd |-> cmd[t], turn |-> next[t]] \in Delivery
  BY <1>1, <1>2, <1>3 DEF Delivery
<1>5. QED
  BY <1>4 DEF Deliver, TypeInv, TypeOK

LEMMA PublishType ==
  ASSUME TypeInv, NEW t \in Threads, Publish(t)
  PROVE  TypeInv'
<1>1. published' \in SUBSET Delivery
  BY DeliverType DEF Publish
<1>2. TypeOK'
  BY <1>1 DEF Publish, TypeInv, TypeOK
<1>3. RefsInHeap'
  BY DEF Publish, TypeInv, RefsInHeap
<1>4. InsideSend'
  BY DEF Publish, Deliver, TypeInv, TypeOK, InsideSend
<1>5. QED
  BY <1>2, <1>3, <1>4 DEF TypeInv

LEMMA ApplyType ==
  ASSUME TypeInv, NEW t \in Threads, Apply(t)
  PROVE  TypeInv'
<1> DEFINE version == root(t).version + 1
           Stamped(kind) == [kind |-> kind, src |-> root(t).id, ver |-> version, cmd |-> cmd[t]]
           raised == IF Len(root(t).recorded) > SnapshotLevel
                       THEN <<Stamped("snapshot"), Stamped("domain")>>
                       ELSE <<Stamped("domain")>>
           refs == [i \in 1..Len(raised) |-> Len(events) + i]
           applied == [root(t) EXCEPT !.version  = version,
                                      !.recorded = root(t).recorded \o refs,
                                      !.applied  = Append(root(t).applied,
                                                          Len(events) + Len(raised))]
<1>1. root(t) \in Root /\ events \in Seq(Event) /\ cmd[t] \in Nat
  BY InstanceType DEF root, TypeInv, TypeOK
<1>2. events' = events \o raised /\ roots' = [roots EXCEPT ![Instance(t)] = applied]
  BY DEF Apply, root
<1>3. version \in Nat
  BY <1>1 DEF Root
<1>4. Stamped("snapshot") \in Event /\ Stamped("domain") \in Event
  BY <1>1, <1>3 DEF Root, Event, Kinds
<1> HIDE DEF Stamped, version
<1>5. raised \in Seq(Event) /\ Len(raised) \in {1, 2}
  BY <1>4
<1> HIDE DEF raised
<1>6. /\ events' \in Seq(Event)
      /\ Len(events') = Len(events) + Len(raised)
      /\ DOMAIN events \subseteq DOMAIN events'
  BY <1>1, <1>2, <1>5
<1>7. /\ refs \in Seq(Ref)
      /\ \A k \in DOMAIN refs : refs[k] \in DOMAIN events'
  <2>1. \A i \in 1..Len(raised) : Len(events) + i \in 1..Len(events')
    BY <1>1, <1>5, <1>6
  <2>2. DOMAIN events' = 1..Len(events')
    BY <1>6
  <2>3. Len(raised) \in Nat
    BY <1>5
  <2>4. refs \in [1..Len(raised) -> Ref]
    BY <1>1, <1>6, <2>1
  <2>5. QED
    BY <2>1, <2>2, <2>3, <2>4
<1> HIDE DEF refs
<1>8. /\ root(t).recorded \o refs \in Seq(Ref)
      /\ \A k \in DOMAIN (root(t).recorded \o refs) :
           (root(t).recorded \o refs)[k] \in DOMAIN events'
  <2>1. root(t).recorded \in Seq(Ref)
    BY <1>1 DEF Root
  <2>2. \A k \in DOMAIN root(t).recorded : root(t).recorded[k] \in DOMAIN events'
    BY <1>6, InstanceType DEF root, TypeInv, RefsInHeap
  <2>3. QED
    BY <1>7, <2>1, <2>2
<1>9. Append(root(t).applied, Len(events) + Len(raised)) \in Seq(Ref)
  <2>1. root(t).applied \in Seq(Ref)
    BY <1>1 DEF Root
  <2>2. Len(events) \in Nat
    BY <1>1
  <2>3. \A n \in Nat : n + 1 \in Ref /\ n + 2 \in Ref
    OBVIOUS
  <2>4. Len(events) + Len(raised) \in Ref
    BY <1>5, <2>2, <2>3
  <2>5. QED
    BY <2>1, <2>4
<1>10. applied \in Root /\ applied.recorded = root(t).recorded \o refs
  BY <1>1, <1>3, <1>8, <1>9 DEF Root
<1> HIDE DEF applied
<1>11. roots' \in [Instances -> Root]
  BY <1>2, <1>10, InstanceType DEF TypeInv, TypeOK
<1>12. TypeOK'
  BY <1>6, <1>11 DEF Apply, locals, TypeInv, TypeOK
<1>13. RefsInHeap'
  <2>1. \A r \in Instances : \A k \in DOMAIN roots'[r].recorded :
          roots'[r].recorded[k] \in DOMAIN events'
    <3> SUFFICES ASSUME NEW r \in Instances, NEW k \in DOMAIN roots'[r].recorded
                 PROVE  roots'[r].recorded[k] \in DOMAIN events'
      OBVIOUS
    <3>1. CASE r = Instance(t)
      BY <1>2, <1>8, <1>10, <3>1 DEF TypeInv, TypeOK
    <3>2. CASE r # Instance(t)
      BY <1>2, <1>6, <3>2 DEF TypeInv, TypeOK, RefsInHeap
    <3>3. QED
      BY <3>1, <3>2
  <2>2. UNCHANGED <<store, changes>>
    BY DEF Apply, locals
  <2>3. QED
    BY <1>6, <2>1, <2>2 DEF TypeInv, RefsInHeap
<1>14. InsideSend'
  BY DEF Apply, locals, TypeInv, TypeOK, InsideSend
<1>15. QED
  BY <1>12, <1>13, <1>14 DEF TypeInv

LEMMA TypeStep == TypeInv /\ [Next]_vars => TypeInv'
<1> SUFFICES ASSUME TypeInv, [Next]_vars
             PROVE  TypeInv'
  OBVIOUS
<1>1. ASSUME NEW t \in Threads, NEW id \in Targets[t] \cup {NoId}, Send(t, id)
      PROVE  TypeInv'
  BY <1>1, SendType
<1>2. ASSUME NEW t \in Threads, ValidatorRefuses(t) \/ ConsumerThrows(t) \/ ReturnNothing(t) \/ ModuleThrows(t)
      PROVE  TypeInv'
  <2>1. published' \in SUBSET Delivery /\ UNCHANGED <<events, store, roots>> /\ pc[t] # "idle"
    BY <1>2 DEF ValidatorRefuses, ConsumerThrows, ReturnNothing, ModuleThrows, TypeInv, TypeOK
  <2>2. QED
    BY <1>2, <2>1, ReturnType DEF ValidatorRefuses, ConsumerThrows, ReturnNothing, ModuleThrows
<1>3. ASSUME NEW t \in Threads, Load(t)
      PROVE  TypeInv'
  BY <1>3, GetType, NoteAggregateCreatedType, LoadEventType, VersionCommandType, AssignIdType
     DEF Load
<1>4. ASSUME NEW t \in Threads, Apply(t) \/ Accept(t)
      PROVE  TypeInv'
  BY <1>4, ApplyType, AcceptType
<1>5. ASSUME NEW t \in Threads, Save(t) \/ Publish(t)
      PROVE  TypeInv'
  BY <1>5, SaveType, PublishType
<1>6. ASSUME NEW t \in Threads, HandlerThrows(t)
      PROVE  TypeInv'
  BY <1>6, DeliverType, ReturnType DEF HandlerThrows, Deliver
<1>7. ASSUME NEW t \in Threads, Complete(t)
      PROVE  TypeInv'
  BY <1>7, ReturnType DEF Complete, TypeInv, TypeOK
<1>8. CASE UNCHANGED vars
  BY <1>8 DEF vars, locals, TypeInv, TypeOK, RefsInHeap, InsideSend, Deliver
<1>9. QED
  BY <1>1, <1>2, <1>3, <1>4, <1>5, <1>6, <1>7, <1>8 DEF Next, Execute, Stream

\* Every variable has its type and no reference to an event object dangles, whatever
\* the threads of Send do.
THEOREM TypeCorrect == Spec => []TypeOK
<1>1. TypeInv => TypeOK
  BY DEF TypeInv
<1>2. QED
  BY TypeInit, TypeStep, <1>1, PTL DEF Spec

-----------------------------------------------------------------------------
(* What a step does to the storage and to the heap.                        *)

IsFiled(e) == \E j \in DOMAIN store : store[j].ev = e

\* The storage only grows at its end, and an event keeps its kind and its command.
Grows ==
  /\ \A j \in DOMAIN store : j \in DOMAIN store' /\ store'[j] = store[j]
  /\ \A e \in DOMAIN events :
       /\ e \in DOMAIN events'
       /\ events'[e].kind = events[e].kind
       /\ events'[e].cmd = events[e].cmd

LEMMA StepGrows == ASSUME TypeInv, [Next]_vars PROVE Grows
<1>1. store \in Seq(Filed) /\ events \in Seq(Event)
  BY DEF TypeInv, TypeOK
<1>2. CASE UNCHANGED <<store, events>>
  BY <1>2 DEF Grows
<1>3. ASSUME NEW t \in Threads, NoteAggregateCreated(t)
      PROVE  Grows
  <2>1. PICK x, y : store' = Append(store, x) /\ events' = Append(events, y)
    BY <1>3 DEF NoteAggregateCreated
  <2>2. QED
    BY <1>1, <2>1 DEF Grows
<1>4. ASSUME NEW t \in Threads, LoadEvent(t)
      PROVE  Grows
  <2>1. store' = store
    BY <1>4 DEF LoadEvent
  <2>2. PICK e, src, ver :
          events' = events \/ events' = [events EXCEPT ![e].src = src, ![e].ver = ver]
    BY <1>4 DEF LoadEvent
  <2>3. ASSUME NEW d \in DOMAIN events
        PROVE  /\ d \in DOMAIN events'
               /\ events'[d].kind = events[d].kind
               /\ events'[d].cmd = events[d].cmd
    <3>1. DOMAIN events' = DOMAIN events
      BY <2>2
    <3>2. events[d] \in Event
      BY <1>1
    <3>3. \/ events'[d] = events[d]
          \/ events'[d] = [events[d] EXCEPT !.src = src, !.ver = ver]
      BY <2>2
    <3>4. QED
      BY <3>1, <3>2, <3>3 DEF Event
  <2>4. QED
    BY <2>1, <2>3 DEF Grows
<1>5. ASSUME NEW t \in Threads, Apply(t)
      PROVE  Grows
  <2>1. PICK x, y : \/ events' = events \o <<x, y>>
                    \/ events' = events \o <<y>>
    <3>1. PICK raised, x, y : /\ events' = events \o raised
                              /\ raised = <<x, y>> \/ raised = <<y>>
      BY <1>5 DEF Apply
    <3>2. QED
      BY <3>1
  <2>2. store' = store
    BY <1>5 DEF Apply
  <2>3. QED
    BY <1>1, <2>1, <2>2 DEF Grows
<1>6. ASSUME NEW t \in Threads, Save(t)
      PROVE  Grows
  <2>1. PICK x : store' = Append(store, x) /\ events' = events
    BY <1>6 DEF Save
  <2>2. QED
    BY <1>1, <2>1 DEF Grows
<1>7. QED
  BY <1>2, <1>3, <1>4, <1>5, <1>6 DEF Next, Send, ValidatorRefuses, Load, Get,
     VersionCommand, AssignId, Execute, ConsumerThrows, ReturnNothing, Accept, Stream,
     Publish, HandlerThrows, ModuleThrows, Complete, vars

LEMMA FiledKept ==
  ASSUME Grows
  PROVE  \A e : IsFiled(e) => \E j \in DOMAIN store' : store'[j].ev = e
BY DEF Grows, IsFiled

LEMMA CreatedKept ==
  ASSUME TypeInv, Grows
  PROVE  \A id : Created(id) =>
           \E j \in DOMAIN store' : store'[j].src = id /\ events'[store'[j].ev].kind = "created"
<1>1. \A j \in DOMAIN store : store[j].ev \in DOMAIN events
  BY DEF TypeInv, RefsInHeap
<1>2. QED
  BY <1>1 DEF Grows, Created

\* The events a thread has passed to Save are filed, all of them before it publishes.
Saved(t) ==
  /\ pc[t] = "save" => \A k \in 1..(next[t] - 1) : IsFiled(changes[t][k])
  /\ pc[t] = "publish" => \A k \in DOMAIN changes[t] : IsFiled(changes[t][k])

SavedInv == SavedBeforePublished /\ \A t \in Threads : Saved(t)

LEMMA SavedByOthers ==
  ASSUME Grows, NEW u \in Threads, Saved(u),
         pc'[u] = pc[u], changes'[u] = changes[u], next'[u] = next[u]
  PROVE  Saved(u)'
BY FiledKept DEF Saved, IsFiled

LEMMA SavedStep ==
  ASSUME TypeInv, SavedInv, [Next]_vars
  PROVE  SavedInv'
<1>1. Grows
  BY StepGrows
<1>2. \A e : IsFiled(e) => \E j \in DOMAIN store' : store'[j].ev = e
  BY <1>1, FiledKept
<1>3. /\ pc \in [Threads -> Places]
      /\ changes \in [Threads -> Seq(Ref)]
      /\ next \in [Threads -> Ref]
  BY DEF TypeInv, TypeOK
<1>4. ASSUME published' = published
      PROVE  SavedBeforePublished'
  BY <1>2, <1>4 DEF SavedInv, SavedBeforePublished, IsFiled
<1>5. CASE UNCHANGED <<published, pc, changes, next>>
  BY <1>1, <1>4, <1>5, SavedByOthers DEF SavedInv
<1>6. ASSUME NEW t \in Threads, NEW place \in Places \ {"save", "publish"},
             pc' = [pc EXCEPT ![t] = place], UNCHANGED <<published, changes, next>>
      PROVE  SavedInv'
  <2>1. Saved(t)'
    BY <1>3, <1>6 DEF Saved
  <2>2. \A u \in Threads : u # t => Saved(u)'
    BY <1>1, <1>3, <1>6, SavedByOthers DEF SavedInv
  <2>3. QED
    BY <1>4, <1>6, <2>1, <2>2 DEF SavedInv
<1>7. ASSUME NEW t \in Threads, NEW outcome, Return(t, outcome),
             \A p \in published' \ published : IsFiled(p.ev)
      PROVE  SavedInv'
  <2>1. \A p \in published' : IsFiled(p.ev)
    BY <1>7 DEF SavedInv, SavedBeforePublished, IsFiled
  <2>2. SavedBeforePublished'
    BY <1>2, <2>1 DEF SavedBeforePublished
  <2>3. /\ pc' = [pc EXCEPT ![t] = "idle"]
        /\ changes' = [changes EXCEPT ![t] = <<>>]
        /\ next' = [next EXCEPT ![t] = 1]
    BY <1>7 DEF Return, GoTo
  <2>4. Saved(t)'
    BY <1>3, <2>3 DEF Saved
  <2>5. \A u \in Threads : u # t => Saved(u)'
    BY <1>1, <1>3, <2>3, SavedByOthers DEF SavedInv
  <2>6. QED
    BY <2>2, <2>4, <2>5 DEF SavedInv
<1>8. ASSUME NEW t \in Threads, Get(t)
      PROVE  SavedInv'
  <2>1. PICK place \in {"note", "load"} : pc' = [pc EXCEPT ![t] = place]
    BY <1>8 DEF Get, GoTo
  <2>2. UNCHANGED <<published, changes, next>>
    BY <1>8 DEF Get
  <2>3. place \in Places \ {"save", "publish"}
    BY DEF Places
  <2>4. QED
    BY <1>6, <2>1, <2>2, <2>3
<1>9. ASSUME NEW t \in Threads, Accept(t)
      PROVE  SavedInv'
  <2>1. /\ changes' = [changes EXCEPT ![t] = root(t).recorded]
        /\ next' = [next EXCEPT ![t] = 1]
        /\ pc' = [pc EXCEPT ![t] = IF root(t).recorded = <<>> THEN "publish" ELSE "save"]
        /\ published' = published
    BY <1>9 DEF Accept, GoTo
  <2>2. Saved(t)'
    <3>1. pc'[t] = "publish" => DOMAIN changes'[t] = {}
      BY <1>3, <2>1
    <3>2. 1..(next'[t] - 1) = {}
      BY <1>3, <2>1
    <3>3. QED
      BY <3>1, <3>2 DEF Saved
  <2>3. \A u \in Threads : u # t => Saved(u)'
    BY <1>1, <1>3, <2>1, SavedByOthers DEF SavedInv
  <2>4. QED
    BY <1>4, <2>1, <2>2, <2>3 DEF SavedInv
<1>10. ASSUME NEW t \in Threads, Save(t)
       PROVE  SavedInv'
  <2> DEFINE e == changes[t][next[t]]
  <2>1. UNCHANGED <<published, changes>> /\ pc[t] = "save"
    BY <1>10 DEF Save
  <2>2. /\ next[t] \in DOMAIN changes[t]
        /\ \A k \in 1..(next[t] - 1) : IsFiled(changes[t][k])
    BY <2>1 DEF TypeInv, InsideSend, SavedInv, Saved
  <2>3. \E j \in DOMAIN store' : store'[j].ev = e
    <3>1. store' = Append(store, Entry(e, events[e])) /\ store \in Seq(Filed)
      BY <1>10 DEF Save, TypeInv, TypeOK
    <3>2. Entry(e, events[e]).ev = e
      BY DEF Entry
    <3> HIDE DEF e
    <3>3. /\ Len(store) + 1 \in DOMAIN store'
          /\ store'[Len(store) + 1] = Entry(e, events[e])
      BY <3>1
    <3>4. QED
      BY <3>2, <3>3
  <2>4. \A k \in 1..next[t] : \E j \in DOMAIN store' : store'[j].ev = changes[t][k]
    <3>1. next[t] \in Nat
      BY <1>3
    <3>2. \A k \in 1..next[t] : k = next[t] \/ k \in 1..(next[t] - 1)
      BY <3>1
    <3>3. QED
      BY <1>2, <2>2, <2>3, <3>2
  <2>5. \/ /\ next' = [next EXCEPT ![t] = next[t] + 1]
           /\ pc' = pc
        \/ /\ next' = [next EXCEPT ![t] = 1]
           /\ pc' = [pc EXCEPT ![t] = "publish"]
           /\ next[t] = Len(changes[t])
    BY <1>3, <1>10, <2>2 DEF Save, GoTo
  <2> HIDE DEF e
  <2>6. Saved(t)'
    <3>1. CASE next' = [next EXCEPT ![t] = next[t] + 1] /\ pc' = pc
      <4>1. next'[t] - 1 = next[t] /\ pc'[t] = "save"
        BY <1>3, <2>1, <3>1
      <4>2. QED
        BY <2>1, <2>4, <4>1 DEF Saved, IsFiled
    <3>2. CASE pc' = [pc EXCEPT ![t] = "publish"] /\ next[t] = Len(changes[t])
      <4>1. pc'[t] = "publish" /\ DOMAIN changes[t] = 1..next[t]
        BY <1>3, <3>2
      <4>2. QED
        BY <2>1, <2>4, <4>1 DEF Saved, IsFiled
    <3>3. QED
      BY <2>5, <3>1, <3>2
  <2>7. \A u \in Threads : u # t => Saved(u)'
    BY <1>1, <1>3, <2>1, <2>5, SavedByOthers DEF SavedInv
  <2>8. QED
    BY <1>4, <2>1, <2>6, <2>7 DEF SavedInv
<1>11. ASSUME NEW t \in Threads, Deliver(t)
       PROVE  \A p \in published' \ published : IsFiled(p.ev)
  <2>1. next[t] \in DOMAIN changes[t] /\ pc[t] = "publish"
    BY <1>3, <1>11 DEF Deliver
  <2>2. IsFiled(changes[t][next[t]])
    BY <2>1 DEF SavedInv, Saved
  <2>3. QED
    BY <1>11, <2>2 DEF Deliver
<1>12. ASSUME NEW t \in Threads, Publish(t)
       PROVE  SavedInv'
  <2>1. SavedBeforePublished'
    BY <1>2, <1>11, <1>12 DEF Publish, SavedInv, SavedBeforePublished, IsFiled
  <2>2. /\ UNCHANGED <<pc, changes>>
        /\ pc[t] = "publish"
        /\ next' = [next EXCEPT ![t] = next[t] + 1]
    BY <1>12 DEF Publish, Deliver
  <2>3. Saved(t)'
    BY <1>2, <1>3, <2>2 DEF SavedInv, Saved, IsFiled
  <2>4. \A u \in Threads : u # t => Saved(u)'
    BY <1>1, <1>3, <2>2, SavedByOthers DEF SavedInv
  <2>5. QED
    BY <2>1, <2>3, <2>4 DEF SavedInv
<1>13. CASE UNCHANGED vars
  BY <1>5, <1>13 DEF vars, locals
<1>14. ASSUME NEW t \in Threads,
              \/ \E id \in Targets[t] \cup {NoId} : Send(t, id)
              \/ NoteAggregateCreated(t)
              \/ VersionCommand(t)
              \/ AssignId(t)
       PROVE  SavedInv'
  BY <1>6, <1>14 DEF Send, NoteAggregateCreated, VersionCommand, AssignId, GoTo, locals, Places
<1>15. ASSUME NEW t \in Threads, LoadEvent(t) \/ Apply(t)
       PROVE  SavedInv'
  BY <1>5, <1>15 DEF LoadEvent, Apply, locals
<1>16. ASSUME NEW t \in Threads,
              \/ ValidatorRefuses(t)
              \/ ConsumerThrows(t)
              \/ ReturnNothing(t) \/ ModuleThrows(t)
              \/ HandlerThrows(t)
              \/ Complete(t)
       PROVE  SavedInv'
  BY <1>7, <1>11, <1>16 DEF ValidatorRefuses, ConsumerThrows, ReturnNothing, HandlerThrows, ModuleThrows, Complete
<1>17. QED
  BY <1>8, <1>9, <1>10, <1>12, <1>13, <1>14, <1>15, <1>16 DEF Next, Load, Execute, Stream

\* For all aggregates, threads, lifestyles and bounds: no handler is given an event that
\* the storage does not hold.
THEOREM SavedFirst == Spec => []SavedBeforePublished
<1>1. Init => SavedInv
  BY DEF Init, SavedInv, Saved, SavedBeforePublished
<1>2. SavedInv => SavedBeforePublished
  BY DEF SavedInv
<1>3. TypeInv /\ SavedInv /\ [Next]_vars => SavedInv'
  BY SavedStep
<1>4. QED
  BY TypeInit, TypeStep, <1>1, <1>2, <1>3, PTL DEF Spec
=============================================================================
