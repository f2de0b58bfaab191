--------------------------- MODULE CreationProofs ---------------------------
(***************************************************************************)
(* A stream begins with the creation of its aggregate.  The reason differs *)
(* with the lifestyle of the aggregates: a shared instance stamps events   *)
(* over and over, but only with identifiers it was given after their       *)
(* creation was saved; an instance of its own keeps a command's events out *)
(* of reach of the loads of other threads until they are saved.            *)
(***************************************************************************)
EXTENDS CommandPipelineProofs

\* Two threads never execute the same command.
OwnCommand ==
  \A t, u \in Threads : (t # u /\ pc[t] # "idle" /\ pc[u] # "idle") => cmd[t] # cmd[u]

\* From its first read of the storage to the end of the consumer, a thread works on an
\* aggregate whose creation is saved, and so does the instance it applies events to.
Loaded(t) ==
  /\ pc[t] = "load" => history[t] # {} /\ \A i \in history[t] : store[i].src = target[t]
  /\ pc[t] \in {"assign", "execute"} => Created(target[t])
  /\ pc[t] = "execute" => Created(root(t).id)

\* The identifiers whose creation is saved.
CreatedIds == {store[j].src : j \in {i \in DOMAIN store : events[store[i].ev].kind = "created"}}

\* With one instance for all, events of any command may be stamped again at any time,
\* but only with an identifier that instance has been given.
SharedStamps ==
  Lifestyle = "singleton" =>
    /\ \A e \in DOMAIN events : events[e].src \in CreatedIds
    /\ \A e \in DOMAIN events : events[e].kind # "created" => roots["shared"].id \in CreatedIds

Ascending(s) == \A k, l \in DOMAIN s : k < l => s[k] < s[l]

\* An event of the command t executes that no other thread can reach.
Private(t, e) == events[e].cmd = cmd[t] /\ ~ IsFiled(e) /\ Created(events[e].src)

\* With an instance per command, an event is out of the reach of every other thread until
\* it is saved.
Isolated(t) ==
  Lifestyle = "transient" =>
    /\ pc[t] \in {"note", "load", "assign"} => root(t).recorded = <<>>
    /\ pc[t] = "execute" =>
         /\ Ascending(root(t).recorded)
         /\ \A k \in DOMAIN root(t).recorded : Private(t, root(t).recorded[k])
    /\ pc[t] = "save" =>
         /\ Ascending(changes[t])
         /\ \A k \in DOMAIN changes[t] : next[t] <= k => Private(t, changes[t][k])

CreationInv ==
  /\ CreationFirst
  /\ OwnCommand
  /\ \A t \in Threads : Loaded(t) /\ Isolated(t)
  /\ SharedStamps

LEMMA CreationInit == Init => CreationInv
BY DEF Init, CreationInv, CreationFirst, OwnCommand, Loaded, Isolated, SharedStamps

-----------------------------------------------------------------------------
LEMMA OwnCommandStep ==
  ASSUME TypeInv, OwnCommand, [Next]_vars
  PROVE  OwnCommand'
<1>1. pc \in [Threads -> Places] /\ cmd \in [Threads -> Nat]
  BY DEF TypeInv, TypeOK
<1>2. ASSUME NEW t \in Threads, NEW id, Send(t, id)
      PROVE  OwnCommand'
  <2>1. /\ pc' = [pc EXCEPT ![t] = "sent"]
        /\ cmd' = [cmd EXCEPT ![t] = Len(commands) + 1]
    BY <1>2 DEF Send, GoTo
  <2>2. \A u \in Threads : pc[u] # "idle" => cmd[u] \in 1..Len(commands)
    BY DEF TypeInv, TypeOK, InsideSend
  <2>3. Len(commands) \in Nat
    BY DEF TypeInv, TypeOK
  <2>4. \A u \in Threads : pc[u] # "idle" => cmd[u] # Len(commands) + 1
    BY <1>1, <2>2, <2>3
  <2>5. QED
    BY <1>1, <2>1, <2>4 DEF OwnCommand
<1>3. ASSUME NEW t \in Threads, NEW outcome, Return(t, outcome)
      PROVE  OwnCommand'
  BY <1>1, <1>3 DEF Return, GoTo, OwnCommand
<1>4. ASSUME cmd' = cmd, \A u \in Threads : pc'[u] = "idle" \/ pc[u] # "idle"
      PROVE  OwnCommand'
  BY <1>4 DEF OwnCommand
<1>5. ASSUME NEW t \in Threads, NEW place, pc' = [pc EXCEPT ![t] = place], cmd' = cmd,
             pc[t] # "idle"
      PROVE  OwnCommand'
  BY <1>1, <1>4, <1>5
<1>6. ASSUME NEW t \in Threads, Get(t)
      PROVE  OwnCommand'
  <2>1. PICK place : pc' = [pc EXCEPT ![t] = place]
    BY <1>6 DEF Get, GoTo
  <2>2. cmd' = cmd /\ pc[t] # "idle"
    BY <1>6 DEF Get
  <2>3. QED
    BY <1>5, <2>1, <2>2
<1>7. ASSUME NEW t \in Threads,
             NoteAggregateCreated(t) \/ VersionCommand(t) \/ AssignId(t) \/ Accept(t)
      PROVE  OwnCommand'
  <2>1. PICK place : pc' = [pc EXCEPT ![t] = place]
    BY <1>7 DEF NoteAggregateCreated, VersionCommand, AssignId, Accept, GoTo
  <2>2. cmd' = cmd /\ pc[t] # "idle"
    BY <1>7 DEF NoteAggregateCreated, VersionCommand, AssignId, Accept, locals
  <2>3. QED
    BY <1>5, <2>1, <2>2
<1>8. ASSUME NEW t \in Threads, LoadEvent(t) \/ Apply(t) \/ Publish(t)
      PROVE  OwnCommand'
  BY <1>4, <1>8 DEF LoadEvent, Apply, Publish, locals
<1>9. ASSUME NEW t \in Threads, Save(t)
      PROVE  OwnCommand'
  <2>1. pc' = pc \/ pc' = [pc EXCEPT ![t] = "publish"]
    BY <1>9 DEF Save, GoTo
  <2>2. cmd' = cmd /\ pc[t] # "idle"
    BY <1>9 DEF Save
  <2>3. QED
    BY <1>4, <1>5, <2>1, <2>2
<1>10. CASE UNCHANGED vars
  BY <1>4, <1>10 DEF vars, locals
<1>11. QED
  BY <1>2, <1>3, <1>6, <1>7, <1>8, <1>9, <1>10 DEF Next, ValidatorRefuses, Load, Execute,
     ConsumerThrows, ReturnNothing, Stream, HandlerThrows, ModuleThrows, Complete

-----------------------------------------------------------------------------
LEMMA CreationFirstStep ==
  ASSUME TypeInv, CreationInv, [Next]_vars
  PROVE  CreationFirst'
<1>1. Grows
  BY StepGrows
<1>2. store \in Seq(Filed) /\ \A j \in DOMAIN store : store[j].ev \in DOMAIN events
  BY DEF TypeInv, TypeOK, RefsInHeap
<1>3. CASE store' = store
  BY <1>1, <1>2, <1>3 DEF CreationInv, CreationFirst, Grows
<1>4. ASSUME NEW x, store' = Append(store, x),
             events'[x.ev].kind = "created" \/ Created(x.src)
      PROVE  CreationFirst'
  <2>1. /\ DOMAIN store = 1..Len(store)
        /\ DOMAIN store' = 1..(Len(store) + 1)
        /\ store'[Len(store) + 1] = x
        /\ Len(store) \in Nat
    BY <1>2, <1>4
  <2>2. ASSUME NEW i \in DOMAIN store
        PROVE  \E j \in 1..i : store'[j].src = store'[i].src /\ events'[store'[j].ev].kind = "created"
    <3>1. PICK j \in 1..i : store[j].src = store[i].src /\ events[store[j].ev].kind = "created"
      BY DEF CreationInv, CreationFirst
    <3>2. j \in DOMAIN store
      BY <2>1
    <3>3. QED
      BY <1>1, <1>2, <3>1, <3>2 DEF Grows
  <2>3. \E j \in 1..(Len(store) + 1) :
          store'[j].src = x.src /\ events'[store'[j].ev].kind = "created"
    <3>1. CASE events'[x.ev].kind = "created"
      BY <2>1, <3>1
    <3>2. CASE Created(x.src)
      BY <1>1, <2>1, <3>2, CreatedKept
    <3>3. QED
      BY <1>4, <3>1, <3>2
  <2>4. \A i \in DOMAIN store' : i \in DOMAIN store \/ i = Len(store) + 1
    BY <2>1
  <2>5. QED
    BY <2>1, <2>2, <2>3, <2>4 DEF CreationFirst
<1>5. ASSUME NEW t \in Threads, NoteAggregateCreated(t)
      PROVE  CreationFirst'
  <2> DEFINE created == [kind |-> "created", src |-> target[t], ver |-> 0, cmd |-> cmd[t]]
             entry   == Entry(Len(events) + 1, created)
  <2>1. store' = Append(store, entry) /\ events' = Append(events, created)
    BY <1>5 DEF NoteAggregateCreated
  <2>2. entry.ev = Len(events) + 1 /\ created.kind = "created"
    BY DEF Entry
  <2> HIDE DEF created, entry
  <2>3. events'[entry.ev].kind = "created"
    BY <2>1, <2>2 DEF TypeInv, TypeOK
  <2>4. QED
    BY <1>4, <2>1, <2>3
<1>6. ASSUME NEW t \in Threads, Save(t)
      PROVE  CreationFirst'
  <2> DEFINE e == changes[t][next[t]]
  <2>1. /\ store' = Append(store, Entry(e, events[e]))
        /\ pc[t] = "save"
    BY <1>6 DEF Save
  <2>2. next[t] \in DOMAIN changes[t] /\ e \in DOMAIN events /\ next[t] <= next[t]
    BY <2>1 DEF TypeInv, TypeOK, RefsInHeap, InsideSend
  <2>3. Created(events[e].src)
    <3>1. CASE Lifestyle = "singleton"
      BY <2>2, <3>1 DEF CreationInv, SharedStamps, CreatedIds, Created
    <3>2. CASE Lifestyle = "transient"
      <4>1. Isolated(t)
        BY DEF CreationInv
      <4>2. \A k \in DOMAIN changes[t] : next[t] <= k => Private(t, changes[t][k])
        BY <2>1, <3>2, <4>1 DEF Isolated
      <4>3. Private(t, e)
        BY <2>2, <4>2
      <4>4. QED
        BY <4>3 DEF Private
    <3>3. QED
      BY <3>1, <3>2, PipelineAssumption DEF PipelineAssumption
  <2>4. Entry(e, events[e]).src = events[e].src
    BY DEF Entry
  <2> HIDE DEF e
  <2>5. QED
    BY <1>4, <2>1, <2>3, <2>4
<1>7. QED
  BY <1>3, <1>5, <1>6 DEF Next, Send, ValidatorRefuses, Load, Get, LoadEvent, VersionCommand,
     AssignId, Execute, Apply, ConsumerThrows, ReturnNothing, Accept, Stream, Publish,
     HandlerThrows, ModuleThrows, Complete, vars
-----------------------------------------------------------------------------
LEMMA LoadedByOthers ==
  ASSUME TypeInv, Grows, NEW u \in Threads, Loaded(u),
         pc'[u] = pc[u], target'[u] = target[u], history'[u] = history[u],
         \/ pc[u] # "execute"
         \/ roots'[Instance(u)].id = roots[Instance(u)].id
         \/ Created(roots'[Instance(u)].id)
  PROVE  Loaded(u)'
<1>1. CASE pc[u] = "load"
  <2>1. history[u] \subseteq DOMAIN store
    BY DEF TypeInv, TypeOK
  <2>2. history[u] # {} /\ \A i \in history[u] : store[i].src = target[u]
    BY <1>1 DEF Loaded
  <2>3. history'[u] # {} /\ \A i \in history'[u] : store'[i].src = target'[u]
    BY <2>1, <2>2 DEF Grows
  <2>4. QED
    BY <1>1, <2>3 DEF Loaded
<1>2. CASE pc[u] \in {"assign", "execute"}
  <2>1. Created(target[u])
    BY <1>2 DEF Loaded
  <2>2. pc[u] = "execute" => Created(roots'[Instance(u)].id)
    BY DEF Loaded, root
  <2>3. Created(target[u])'
    BY <2>1, CreatedKept DEF Created
  <2>4. pc[u] = "execute" => Created(root(u).id)'
    BY <2>2, CreatedKept DEF Created, root, Instance
  <2>5. QED
    BY <1>2, <2>3, <2>4 DEF Loaded
<1>3. CASE pc[u] \notin {"load", "assign", "execute"}
  BY <1>3 DEF Loaded
<1>4. QED
  BY <1>1, <1>2, <1>3

\* Applying events and accepting a command leave every instance its identifier.
LEMMA IdsKept ==
  ASSUME TypeInv, NEW t \in Threads, LoadEvent(t) \/ Apply(t) \/ Accept(t)
  PROVE  \A r \in Instances : roots'[r].id = roots[r].id
<1>1. roots \in [Instances -> Root] /\ \A r \in Instances : roots[r] \in Root
  BY DEF TypeInv, TypeOK
<1>2. CASE LoadEvent(t)
  <2>1. PICK e : \/ roots' = roots
                 \/ roots' = [roots EXCEPT ![Instance(t)].applied = Append(@, e)]
    BY <1>2 DEF LoadEvent
  <2>2. QED
    BY <1>1, <2>1 DEF Root
<1>3. CASE Apply(t)
  <2>1. PICK version, refs, e :
          roots' = [roots EXCEPT ![Instance(t)].version  = version,
                                 ![Instance(t)].recorded = @ \o refs,
                                 ![Instance(t)].applied  = Append(@, e)]
    BY <1>3 DEF Apply
  <2>2. QED
    BY <1>1, <2>1 DEF Root
<1>4. CASE Accept(t)
  <2>1. roots' = [roots EXCEPT ![Instance(t)].command = cmd[t]]
    BY <1>4 DEF Accept
  <2>2. QED
    BY <1>1, <2>1 DEF Root
<1>5. QED
  BY <1>2, <1>3, <1>4

LEMMA LoadedStep ==
  ASSUME TypeInv, CreationInv, [Next]_vars
  PROVE  \A u \in Threads : Loaded(u)'
<1>1. Grows
  BY StepGrows
<1>2. /\ pc \in [Threads -> Places]
      /\ target \in [Threads -> AnyId]
      /\ history \in [Threads -> SUBSET DOMAIN store]
      /\ roots \in [Instances -> Root]
  BY DEF TypeInv, TypeOK
<1>3. \A u \in Threads : Loaded(u)
  BY DEF CreationInv
<1>4. ASSUME NEW t \in Threads,
             \A u \in Threads : u # t => pc'[u] = pc[u] /\ target'[u] = target[u]
                                         /\ history'[u] = history[u],
             \A u \in Threads : u # t => \/ pc[u] # "execute"
                                         \/ roots'[Instance(u)].id = roots[Instance(u)].id
                                         \/ Created(roots'[Instance(u)].id)
      PROVE  \A u \in Threads : u # t => Loaded(u)'
  BY <1>1, <1>3, <1>4, LoadedByOthers
<1>5. CASE UNCHANGED <<pc, target, history>> /\ \A r \in Instances : roots'[r].id = roots[r].id
  <2>1. \A u \in Threads : roots'[Instance(u)].id = roots[Instance(u)].id
    BY <1>5, InstanceType
  <2>2. QED
    BY <1>1, <1>3, <1>5, <2>1, LoadedByOthers
<1>6. ASSUME NEW t \in Threads, NEW place \in {"idle", "sent", "save", "publish"},
             pc' = [pc EXCEPT ![t] = place],
             \A u \in Threads : u # t => target'[u] = target[u] /\ history'[u] = history[u],
             \A r \in Instances : roots'[r].id = roots[r].id
      PROVE  \A u \in Threads : Loaded(u)'
  <2>1. pc'[t] = place /\ \A u \in Threads : u # t => pc'[u] = pc[u]
    BY <1>2, <1>6
  <2>2. \A u \in Threads : u # t => Loaded(u)'
    <3>1. \A u \in Threads : roots'[Instance(u)].id = roots[Instance(u)].id
      BY <1>6, InstanceType
    <3>2. QED
      BY <1>4, <1>6, <2>1, <3>1
  <2>3. Loaded(t)'
    BY <2>1 DEF Loaded
  <2>4. QED
    BY <2>2, <2>3
<1>7. ASSUME NEW t \in Threads, NEW outcome, Return(t, outcome), roots' = roots
      PROVE  \A u \in Threads : Loaded(u)'
  <2>1. /\ pc' = [pc EXCEPT ![t] = "idle"]
        /\ target' = [target EXCEPT ![t] = NoId]
        /\ history' = [history EXCEPT ![t] = {}]
    BY <1>7 DEF Return, GoTo
  <2>2. \A u \in Threads : u # t => target'[u] = target[u] /\ history'[u] = history[u]
    BY <1>2, <2>1
  <2>3. QED
    BY <1>6, <1>7, <2>1, <2>2
<1>8. ASSUME NEW t \in Threads, NEW place, pc' = [pc EXCEPT ![t] = place],
             UNCHANGED <<target, history>>,
             place \in {"assign", "execute"} => Created(target[t])',
             place = "execute" => Created(root(t).id)',
             place # "load",
             \A u \in Threads : u # t => \/ pc[u] # "execute"
                                         \/ roots'[Instance(u)].id = roots[Instance(u)].id
                                         \/ Created(roots'[Instance(u)].id)
      PROVE  \A u \in Threads : Loaded(u)'
  <2>1. pc'[t] = place /\ \A u \in Threads : u # t => pc'[u] = pc[u]
    BY <1>2, <1>8
  <2>2. \A u \in Threads : u # t => Loaded(u)'
    BY <1>4, <1>8, <2>1
  <2>3. Loaded(t)'
    BY <1>8, <2>1 DEF Loaded
  <2>4. QED
    BY <2>2, <2>3
<1>9. ASSUME NEW t \in Threads, NEW id, Send(t, id)
      PROVE  \A u \in Threads : Loaded(u)'
  BY <1>6, <1>9 DEF Send, GoTo
<1>10. ASSUME NEW t \in Threads, Get(t)
       PROVE  \A u \in Threads : Loaded(u)'
  <2>1. PICK id, read :
          /\ read = IF GetHistorySinceSnapshot(id) = {} THEN GetHistory(id)
                                                        ELSE GetHistorySinceSnapshot(id)
          /\ target' = [target EXCEPT ![t] = id]
          /\ history' = [history EXCEPT ![t] = read]
          /\ pc' = [pc EXCEPT ![t] = IF read = {} THEN "note" ELSE "load"]
    BY <1>10 DEF Get, GoTo
  <2>2. /\ roots' = IF Lifestyle = "singleton" THEN roots ELSE [roots EXCEPT ![t] = NewRoot]
        /\ store' = store
    BY <1>10 DEF Get, Resolve
  <2>3. read \subseteq DOMAIN store /\ \A i \in read : store[i].src = id
    BY <2>1 DEF GetHistorySinceSnapshot, GetHistory, Positions
  <2>4. /\ target'[t] = id
        /\ history'[t] = read
        /\ pc'[t] = IF read = {} THEN "note" ELSE "load"
    BY <1>2, <2>1
  <2>5. Loaded(t)'
    BY <2>2, <2>3, <2>4 DEF Loaded
  <2>6. \A u \in Threads : u # t => pc'[u] = pc[u] /\ target'[u] = target[u]
                                    /\ history'[u] = history[u]
    BY <1>2, <2>1
  <2>7. \A u \in Threads : u # t => roots'[Instance(u)].id = roots[Instance(u)].id
    BY <1>2, <2>2 DEF Instance, Instances
  <2>8. \A u \in Threads : u # t => Loaded(u)'
    BY <1>4, <2>6, <2>7
  <2>9. QED
    BY <2>5, <2>8
<1>11. ASSUME NEW t \in Threads, NoteAggregateCreated(t)
       PROVE  \A u \in Threads : Loaded(u)'
  <2> DEFINE created == [kind |-> "created", src |-> target[t], ver |-> 0, cmd |-> cmd[t]]
             entry   == Entry(Len(events) + 1, created)
  <2>1. /\ store' = Append(store, entry)
        /\ events' = Append(events, created)
        /\ pc' = [pc EXCEPT ![t] = "assign"]
        /\ UNCHANGED <<target, history, roots>>
    BY <1>11 DEF NoteAggregateCreated, GoTo, locals
  <2>2. entry.ev = Len(events) + 1 /\ created.kind = "created" /\ entry.src = target[t]
    BY DEF Entry
  <2> HIDE DEF created, entry
  <2>3. /\ Len(store) + 1 \in DOMAIN store'
        /\ store'[Len(store) + 1] = entry
        /\ events'[entry.ev] = created
    BY <2>1, <2>2 DEF TypeInv, TypeOK
  <2>4. Created(target[t])'
    BY <2>1, <2>2, <2>3 DEF Created
  <2>5. QED
    BY <1>8, <2>1, <2>4
<1>12. ASSUME NEW t \in Threads, VersionCommand(t)
       PROVE  \A u \in Threads : Loaded(u)'
  <2>1. /\ pc[t] = "load"
        /\ pc' = [pc EXCEPT ![t] = "assign"]
        /\ UNCHANGED <<store, events, target, history, roots>>
    BY <1>12 DEF VersionCommand, GoTo, locals
  <2>2. PICK i \in history[t] : store[i].src = target[t]
    BY <1>3, <2>1 DEF Loaded
  <2>3. i \in DOMAIN store
    BY <1>2
  <2>4. PICK j \in 1..i : store[j].src = target[t] /\ events[store[j].ev].kind = "created"
    BY <2>2, <2>3 DEF CreationInv, CreationFirst
  <2>5. j \in DOMAIN store
    BY <2>3 DEF TypeInv, TypeOK
  <2>6. Created(target[t])'
    BY <2>1, <2>4, <2>5 DEF Created
  <2>7. QED
    BY <1>8, <2>1, <2>6
<1>13. ASSUME NEW t \in Threads, AssignId(t)
       PROVE  \A u \in Threads : Loaded(u)'
  <2>1. /\ pc[t] = "assign"
        /\ pc' = [pc EXCEPT ![t] = "execute"]
        /\ roots' = [roots EXCEPT ![Instance(t)].id = target[t]]
        /\ UNCHANGED <<store, events, target, history>>
    BY <1>13 DEF AssignId, GoTo, locals
  <2>2. Created(target[t])
    BY <1>3, <2>1 DEF Loaded
  <2>3. \A u \in Threads : roots'[Instance(u)].id \in {roots[Instance(u)].id, target[t]}
    <3>1. \A r \in Instances : roots[r] \in Root
      BY <1>2
    <3>2. \A u \in Threads : Instance(u) \in Instances
      BY InstanceType
    <3>3. QED
      BY <1>2, <2>1, <3>1, <3>2 DEF Root
  <2>4. roots'[Instance(t)].id = target[t]
    <3>1. roots[Instance(t)] \in Root
      BY <1>2, InstanceType
    <3>2. QED
      BY <1>2, <2>1, <3>1, InstanceType DEF Root
  <2>5. Created(target[t])' /\ Created(root(t).id)'
    BY <2>1, <2>2, <2>4 DEF Created, root, Instance
  <2>6. QED
    BY <1>8, <2>1, <2>2, <2>3, <2>5
<1>14. ASSUME NEW t \in Threads, LoadEvent(t) \/ Apply(t)
       PROVE  \A u \in Threads : Loaded(u)'
  BY <1>5, <1>14, IdsKept DEF LoadEvent, Apply, locals
<1>15. ASSUME NEW t \in Threads, Accept(t)
       PROVE  \A u \in Threads : Loaded(u)'
  <2>1. \E place \in {"idle", "sent", "save", "publish"} : pc' = [pc EXCEPT ![t] = place]
    BY <1>15 DEF Accept, GoTo
  <2>2. UNCHANGED <<target, history>>
    BY <1>15 DEF Accept
  <2>3. QED
    BY <1>6, <1>15, <2>1, <2>2, IdsKept
<1>16. ASSUME NEW t \in Threads, Save(t)
       PROVE  \A u \in Threads : Loaded(u)'
  <2>1. /\ pc' = pc \/ pc' = [pc EXCEPT ![t] = "publish"]
        /\ UNCHANGED <<target, history, roots>>
    BY <1>16 DEF Save, GoTo
  <2>2. QED
    BY <1>5, <1>6, <2>1
<1>17. ASSUME NEW t \in Threads, Publish(t)
       PROVE  \A u \in Threads : Loaded(u)'
  BY <1>5, <1>17 DEF Publish
<1>18. CASE UNCHANGED vars
  BY <1>5, <1>18 DEF vars, locals
<1>19. QED
  BY <1>7, <1>9, <1>10, <1>11, <1>12, <1>13, <1>14, <1>15, <1>16, <1>17, <1>18
     DEF Next, ValidatorRefuses, Load, Execute, ConsumerThrows, ReturnNothing, Stream,
         HandlerThrows, ModuleThrows, Complete
-----------------------------------------------------------------------------
LEMMA AppendKeeps ==
  ASSUME NEW S, NEW s \in Seq(S), NEW x \in S
  PROVE  \A i \in 1..Len(s) : Append(s, x)[i] = s[i]
OBVIOUS

LEMMA SharedStampsStep ==
  ASSUME TypeInv, CreationInv, [Next]_vars
  PROVE  SharedStamps'
<1> DEFINE Stamped(ids) == /\ \A e \in DOMAIN events' : events'[e].src \in ids
                           /\ \A e \in DOMAIN events' :
                                events'[e].kind # "created" => roots'["shared"].id \in ids
<1> SUFFICES ASSUME Lifestyle = "singleton"
             PROVE  Stamped(CreatedIds')
  BY DEF SharedStamps
<1>1. Grows
  BY StepGrows
<1>2. /\ events \in Seq(Event)
      /\ store \in Seq(Filed)
      /\ roots \in [Instances -> Root]
      /\ roots["shared"] \in Root
      /\ \A e \in DOMAIN events : events[e] \in Event
  BY DEF TypeInv, TypeOK, Instances
<1>3. CreatedIds \subseteq CreatedIds'
  BY <1>1, CreatedKept DEF CreatedIds, Created
<1>4. /\ \A e \in DOMAIN events : events[e].src \in CreatedIds
      /\ \A e \in DOMAIN events : events[e].kind # "created" => roots["shared"].id \in CreatedIds
  BY DEF CreationInv, SharedStamps
<1>5. \A t \in Threads : Instance(t) = "shared" /\ Loaded(t)
  BY DEF Instance, CreationInv
<1>6. ASSUME events' = events, roots'["shared"].id = roots["shared"].id
      PROVE  Stamped(CreatedIds')
  BY <1>3, <1>4, <1>6
<1>7. ASSUME NEW t \in Threads, NoteAggregateCreated(t)
      PROVE  Stamped(CreatedIds')
  <2> DEFINE created == [kind |-> "created", src |-> target[t], ver |-> 0, cmd |-> cmd[t]]
             entry   == Entry(Len(events) + 1, created)
  <2>1. /\ store' = Append(store, entry)
        /\ events' = Append(events, created)
        /\ UNCHANGED roots
    BY <1>7 DEF NoteAggregateCreated
  <2>2. /\ entry.ev = Len(events) + 1 /\ entry.src = target[t]
        /\ created.kind = "created" /\ created.src = target[t]
        /\ created \in Event
    BY DEF Entry, Event, Kinds, TypeInv, TypeOK
  <2> HIDE DEF created, entry
  <2>3. /\ Len(store) + 1 \in DOMAIN store'
        /\ store'[Len(store) + 1] = entry
        /\ events'[entry.ev] = created
        /\ events'[Len(events) + 1] = created
    BY <1>2, <2>1, <2>2
  <2>4. \A e \in DOMAIN events' : e = Len(events) + 1 \/ (e \in DOMAIN events /\ events'[e] = events[e])
    BY <1>2, <2>1, <2>2
  <2>5. target[t] \in CreatedIds'
    BY <2>2, <2>3 DEF CreatedIds
  <2>6. QED
    BY <1>3, <1>4, <2>1, <2>2, <2>3, <2>4, <2>5
<1>8. ASSUME NEW t \in Threads, LoadEvent(t)
      PROVE  Stamped(CreatedIds')
  <2>1. roots'["shared"].id = roots["shared"].id
    BY <1>8, IdsKept DEF Instances
  <2>2. PICK i \in unread[t] : LET e == store[i].ev IN
          IF events[e].kind = "domain"
            THEN events' = [events EXCEPT ![e].src = roots["shared"].id,
                                          ![e].ver = roots["shared"].version]
            ELSE events' = events
    BY <1>5, <1>8 DEF LoadEvent, root
  <2>3. CASE events' = events
    BY <1>6, <2>1, <2>3
  <2>4. CASE events' # events
    <3> DEFINE e == store[i].ev
    <3>1. /\ events[e].kind = "domain"
          /\ events' = [events EXCEPT ![e].src = roots["shared"].id,
                                      ![e].ver = roots["shared"].version]
      BY <2>2, <2>4
    <3>2. e \in DOMAIN events
      BY DEF TypeInv, TypeOK, RefsInHeap
    <3> HIDE DEF e
    <3>3. roots["shared"].id \in CreatedIds
      BY <1>4, <3>1, <3>2
    <3>4. \A d \in DOMAIN events' : d \in DOMAIN events /\ events'[d].src \in {events[d].src, roots["shared"].id}
      BY <1>2, <3>1 DEF Event
    <3>5. QED
      BY <1>3, <1>4, <2>1, <3>3, <3>4
  <2>5. QED
    BY <2>3, <2>4
<1>9. ASSUME NEW t \in Threads, Apply(t)
      PROVE  Stamped(CreatedIds')
  <2>1. roots'["shared"].id = roots["shared"].id
    BY <1>9, IdsKept DEF Instances
  <2>2. roots["shared"].id \in CreatedIds
    <3>1. pc[t] = "execute"
      BY <1>9 DEF Apply
    <3>2. QED
      BY <1>5, <3>1 DEF Loaded, root, Created, CreatedIds
  <2>3. PICK x, y : /\ events' = events \o <<x, y>> \/ events' = events \o <<y>>
                    /\ x.src = roots["shared"].id /\ y.src = roots["shared"].id
    <3> DEFINE x == [kind |-> "snapshot", src |-> roots["shared"].id,
                     ver |-> roots["shared"].version + 1, cmd |-> cmd[t]]
               y == [kind |-> "domain", src |-> roots["shared"].id,
                     ver |-> roots["shared"].version + 1, cmd |-> cmd[t]]
    <3>1. PICK raised : /\ events' = events \o raised
                        /\ raised = <<x, y>> \/ raised = <<y>>
      BY <1>5, <1>9 DEF Apply, root
    <3>2. x.src = roots["shared"].id /\ y.src = roots["shared"].id
      OBVIOUS
    <3> HIDE DEF x, y
    <3>3. QED
      BY <3>1, <3>2
  <2>4. \A d \in DOMAIN events' :
          \/ d \in DOMAIN events /\ events'[d].src = events[d].src
          \/ events'[d].src = roots["shared"].id
    <3>1. \A d \in DOMAIN events' : d \in DOMAIN events \/ events'[d] \in {x, y}
      BY <1>2, <2>3
    <3>2. \A d \in DOMAIN events : events'[d] = events[d]
      BY <1>2, <2>3
    <3>3. QED
      BY <2>3, <3>1, <3>2
  <2>5. QED
    BY <1>3, <1>4, <2>1, <2>2, <2>4
<1>10. ASSUME NEW t \in Threads, AssignId(t)
      PROVE  Stamped(CreatedIds')
  <2>1. /\ pc[t] = "assign"
        /\ roots' = [roots EXCEPT !["shared"].id = target[t]]
        /\ events' = events
    BY <1>5, <1>10 DEF AssignId
  <2>2. target[t] \in CreatedIds
    BY <1>5, <2>1 DEF Loaded, Created, CreatedIds
  <2>3. roots'["shared"].id = target[t]
    BY <1>2, <2>1 DEF Root, Instances
  <2>4. QED
    BY <1>3, <1>4, <2>1, <2>2, <2>3
<1>11. ASSUME NEW t \in Threads, Accept(t)
      PROVE  Stamped(CreatedIds')
  <2>1. roots'["shared"].id = roots["shared"].id
    BY <1>11, IdsKept DEF Instances
  <2>2. events' = events
    BY <1>11 DEF Accept
  <2>3. QED
    BY <1>6, <2>1, <2>2
<1>12. CASE UNCHANGED <<events, roots>>
  BY <1>6, <1>12
<1>13. QED
  BY <1>7, <1>8, <1>9, <1>10, <1>11, <1>12 DEF Next, Send, ValidatorRefuses, Load, Get, Resolve,
     VersionCommand, Execute, ConsumerThrows, ReturnNothing, Stream, Save, Publish,
     HandlerThrows, ModuleThrows, Complete, vars
-----------------------------------------------------------------------------
LEMMA PrivateKept ==
  ASSUME TypeInv, Grows, NEW u \in Threads, cmd'[u] = cmd[u],
         NEW e \in DOMAIN events, Private(u, e),
         \A j \in DOMAIN store' : store'[j].ev = e => j \in DOMAIN store,
         events'[e].src = events[e].src
  PROVE  Private(u, e)'
<1>1. ~ IsFiled(e)'
  BY DEF Private, IsFiled, Grows
<1>2. Created(events[e].src)'
  BY CreatedKept DEF Private, Created
<1>3. QED
  BY <1>1, <1>2 DEF Private, Grows

\* What isolates a thread is not disturbed by a step of another thread that files and
\* stamps no event of the command it executes.
LEMMA IsolatedByOthers ==
  ASSUME TypeInv, Grows, NEW u \in Threads, Isolated(u),
         pc'[u] = pc[u], cmd'[u] = cmd[u], changes'[u] = changes[u], next'[u] = next[u],
         Lifestyle = "transient" => roots'[u].recorded = roots[u].recorded,
         \A e \in DOMAIN events : (pc[u] # "idle" /\ Private(u, e)) =>
             /\ \A j \in DOMAIN store' : store'[j].ev = e => j \in DOMAIN store
             /\ events'[e].src = events[e].src
  PROVE  Isolated(u)'
<1> SUFFICES ASSUME Lifestyle = "transient"
             PROVE  Isolated(u)'
  BY DEF Isolated
<1>1. root(u) = roots[u] /\ root(u)' = roots'[u]
  BY DEF root, Instance
<1>2. \A e \in DOMAIN events : (pc[u] # "idle" /\ Private(u, e)) => Private(u, e)'
  BY PrivateKept
<1>3. /\ pc[u] \in {"note", "load", "assign"} => roots'[u].recorded = <<>>
      /\ pc[u] = "execute" => Ascending(roots'[u].recorded)
      /\ pc[u] = "save" => Ascending(changes'[u])
  BY <1>1 DEF Isolated
<1>4. pc[u] = "execute" =>
        \A k \in DOMAIN roots'[u].recorded : Private(u, roots[u].recorded[k])'
  <2> SUFFICES ASSUME pc[u] = "execute", NEW k \in DOMAIN roots[u].recorded
               PROVE  Private(u, roots[u].recorded[k])'
    OBVIOUS
  <2>1. roots[u].recorded[k] \in DOMAIN events
    BY DEF TypeInv, RefsInHeap, Instances
  <2>2. Private(u, roots[u].recorded[k])
    BY <1>1 DEF Isolated
  <2> DEFINE e == roots[u].recorded[k]
  <2>3. e' = e
    OBVIOUS
  <2>4. PICK d \in DOMAIN events : d = e
    BY <2>1
  <2>5. Private(u, d)'
    BY <1>2, <2>2, <2>4
  <2>6. QED
    BY <2>3, <2>4, <2>5 DEF Private
<1>5. pc[u] = "save" =>
        \A k \in DOMAIN changes'[u] : next'[u] <= k => Private(u, changes[u][k])'
  <2> SUFFICES ASSUME pc[u] = "save", NEW k \in DOMAIN changes[u], next[u] <= k
               PROVE  Private(u, changes[u][k])'
    OBVIOUS
  <2>1. PICK d \in DOMAIN events : d = changes[u][k]
    BY DEF TypeInv, RefsInHeap
  <2>2. Private(u, d)
    BY <2>1 DEF Isolated
  <2>3. Private(u, d)'
    BY <1>2, <2>2
  <2>4. QED
    BY <2>1, <2>3 DEF Private
<1>6. QED
  BY <1>1, <1>3, <1>4, <1>5 DEF Isolated

\* What Apply does to the heap and to the changes of the instance.
LEMMA ApplyEffect ==
  ASSUME TypeInv, NEW t \in Threads, Apply(t)
  PROVE  \E raised \in Seq(Event), refs \in Seq(Ref) :
           /\ events' = events \o raised
           /\ roots'[Instance(t)].recorded = roots[Instance(t)].recorded \o refs
           /\ Len(refs) = Len(raised)
           /\ \A i \in 1..Len(raised) : /\ refs[i] = Len(events) + i
                                        /\ raised[i].cmd = cmd[t]
                                        /\ raised[i].src = roots[Instance(t)].id
<1> DEFINE version == root(t).version + 1
           snapshot == [kind |-> "snapshot", src |-> root(t).id, ver |-> version, cmd |-> cmd[t]]
           domain == [kind |-> "domain", src |-> root(t).id, ver |-> version, cmd |-> cmd[t]]
           raised == IF Len(root(t).recorded) > SnapshotLevel
                       THEN <<snapshot, domain>> ELSE <<domain>>
           refs == [i \in 1..Len(raised) |-> Len(events) + i]
           applied == [root(t) EXCEPT !.version  = version,
                                      !.recorded = root(t).recorded \o refs,
                                      !.applied  = Append(root(t).applied,
                                                          Len(events) + Len(raised))]
<1>1. /\ root(t) \in Root /\ events \in Seq(Event) /\ cmd[t] \in Nat
      /\ roots \in [Instances -> Root] /\ Instance(t) \in Instances
      /\ root(t) = roots[Instance(t)]
  BY InstanceType DEF root, TypeInv, TypeOK
<1>2. events' = events \o raised /\ roots' = [roots EXCEPT ![Instance(t)] = applied]
  BY DEF Apply, root
<1>3. version \in Nat
  BY <1>1 DEF Root
<1> HIDE DEF version
<1>4. /\ snapshot \in Event /\ snapshot.cmd = cmd[t] /\ snapshot.src = root(t).id
      /\ domain \in Event /\ domain.cmd = cmd[t] /\ domain.src = root(t).id
  BY <1>1, <1>3 DEF Root, Event, Kinds
<1> HIDE DEF snapshot, domain
<1>5. /\ raised \in Seq(Event)
      /\ Len(raised) \in Nat
      /\ \A i \in 1..Len(raised) : raised[i].cmd = cmd[t] /\ raised[i].src = root(t).id
  BY <1>4
<1> HIDE DEF raised
<1>6. /\ refs \in Seq(Ref)
      /\ Len(refs) = Len(raised)
      /\ \A i \in 1..Len(raised) : refs[i] = Len(events) + i
  BY <1>1, <1>5 DEF Ref
<1> HIDE DEF refs
<1>7. applied.recorded = root(t).recorded \o refs
  BY <1>1 DEF Root
<1> HIDE DEF applied
<1>8. roots'[Instance(t)].recorded = root(t).recorded \o refs
  BY <1>1, <1>2, <1>7
<1>9. QED
  BY <1>1, <1>2, <1>5, <1>6, <1>8

\* Apply records events that are new to the heap: no one else has a reference to them.
LEMMA ApplyIsolated ==
  ASSUME TypeInv, Grows, Lifestyle = "transient", NEW t \in Threads, Loaded(t), Isolated(t),
         Apply(t)
  PROVE  Isolated(t)'
<1>1. /\ events \in Seq(Event)
      /\ roots[t] \in Root
      /\ pc[t] = "execute"
      /\ Instance(t) = t
      /\ root(t) = roots[t]
      /\ root(t)' = roots'[t]
  BY DEF TypeInv, TypeOK, Apply, root, Instance, Instances
<1>2. PICK n \in Nat, old \in Seq(Ref) : n = Len(events) /\ old = roots[t].recorded
  BY <1>1 DEF Root
<1>3. DOMAIN events = 1..n /\ Len(old) \in Nat /\ DOMAIN old = 1..Len(old)
  BY <1>1, <1>2
<1>4. /\ \A k \in DOMAIN old : old[k] \in 1..n
      /\ \A k \in DOMAIN old : Private(t, old[k])
      /\ Ascending(old)
  <2>1. \A k \in DOMAIN old : old[k] \in 1..n
    BY <1>2, <1>3 DEF TypeInv, RefsInHeap, Instances
  <2>2. QED
    BY <1>1, <1>2, <2>1 DEF Isolated
<1>5. UNCHANGED <<store, cmd, pc>>
  BY DEF Apply, locals
<1>6. Created(roots[t].id)
  BY <1>1 DEF Loaded
<1>7. PICK raised \in Seq(Event), refs \in Seq(Ref) :
        /\ events' = events \o raised
        /\ roots'[t].recorded = old \o refs
        /\ Len(refs) = Len(raised)
        /\ \A i \in 1..Len(raised) : /\ refs[i] = n + i
                                     /\ raised[i].cmd = cmd[t]
                                     /\ raised[i].src = roots[t].id
  <2>1. PICK raised \in Seq(Event), refs \in Seq(Ref) :
          /\ events' = events \o raised
          /\ roots'[Instance(t)].recorded = roots[Instance(t)].recorded \o refs
          /\ Len(refs) = Len(raised)
          /\ \A i \in 1..Len(raised) : /\ refs[i] = Len(events) + i
                                       /\ raised[i].cmd = cmd[t]
                                       /\ raised[i].src = roots[Instance(t)].id
    BY ApplyEffect
  <2>2. QED
    BY <1>1, <1>2, <2>1
<1>8. \A d \in 1..n : Private(t, d) => Private(t, d)'
  <2>1. \A d \in 1..n : events'[d] = events[d]
    BY <1>1, <1>2, <1>3, <1>7
  <2>2. QED
    BY <1>3, <1>5, <2>1, PrivateKept
<1>9. \A i \in 1..Len(raised) : Private(t, n + i)'
  <2> SUFFICES ASSUME NEW i \in 1..Len(raised)
               PROVE  Private(t, n + i)'
    OBVIOUS
  <2>1. events'[n + i] = raised[i]
    BY <1>1, <1>2, <1>3, <1>7
  <2>2. ~ IsFiled(n + i)'
    BY <1>3, <1>5 DEF IsFiled, TypeInv, RefsInHeap
  <2>3. Created(events[n + i].src)'
    <3>1. events'[n + i].src = roots[t].id
      BY <1>7, <2>1
    <3>2. \E j \in DOMAIN store' :
            store'[j].src = roots[t].id /\ events'[store'[j].ev].kind = "created"
      BY <1>6, CreatedKept
    <3>3. QED
      BY <3>1, <3>2 DEF Created
  <2>4. events'[n + i].cmd = cmd'[t]
    BY <1>5, <1>7, <2>1
  <2>5. QED
    BY <2>2, <2>3, <2>4, <1>5 DEF Private, IsFiled, Created
<1> DEFINE new == old \o refs
<1>10. \A k \in DOMAIN new :
        \/ k \in DOMAIN old /\ new[k] = old[k]
        \/ \E i \in 1..Len(raised) : k = Len(old) + i /\ new[k] = n + i
  <2>1. Len(raised) \in Nat /\ DOMAIN refs = 1..Len(raised)
    BY <1>7
  <2>2. DOMAIN new = 1..(Len(old) + Len(raised))
    <3>1. new \in Seq(Ref) /\ Len(new) = Len(old) + Len(refs)
      OBVIOUS
    <3>2. QED
      BY <1>7, <3>1
  <2>3. \A k \in DOMAIN old : new[k] = old[k]
    BY <1>2, <1>3, <1>7
  <2>4. \A i \in 1..Len(raised) : new[Len(old) + i] = refs[i]
    BY <1>2, <1>3, <1>7, <2>1
  <2> HIDE DEF new
  <2>5. ASSUME NEW k \in DOMAIN new, k \notin DOMAIN old
        PROVE  k - Len(old) \in 1..Len(raised) /\ k = Len(old) + (k - Len(old))
    BY <1>3, <2>1, <2>2, <2>5
  <2>6. QED
    BY <1>7, <2>3, <2>4, <2>5
<1>11. Ascending(new)
  <2> SUFFICES ASSUME NEW k \in DOMAIN new, NEW l \in DOMAIN new, k < l
               PROVE  new[k] < new[l]
    BY DEF Ascending
  <2> HIDE DEF new
  <2>2. CASE l \in DOMAIN old
    BY <1>4, <1>3, <1>10, <2>2 DEF Ascending
  <2>3. CASE k \in DOMAIN old /\ l \notin DOMAIN old
    BY <1>4, <1>3, <1>10, <2>3
  <2>4. CASE k \notin DOMAIN old /\ l \notin DOMAIN old
    BY <1>3, <1>10, <2>4
  <2>5. QED
    BY <1>3, <1>10, <2>2, <2>3, <2>4
<1>12. \A k \in DOMAIN roots'[t].recorded : Private(t, roots[t].recorded[k])'
  <2> SUFFICES ASSUME NEW k \in DOMAIN new
               PROVE  Private(t, roots[t].recorded[k])'
    BY <1>7
  <2>1. PICK d : d = new[k] /\ Private(t, d)'
    BY <1>4, <1>8, <1>9, <1>10
  <2>2. d = roots'[t].recorded[k]
    BY <1>7, <2>1
  <2>3. QED
    BY <2>1, <2>2 DEF Private
<1>13. QED
  BY <1>1, <1>5, <1>7, <1>11, <1>12 DEF Isolated

\* Save files the event at `next', which the events after it in changes are not.
LEMMA SaveIsolated ==
  ASSUME TypeInv, Grows, Lifestyle = "transient", NEW t \in Threads, Isolated(t), Save(t)
  PROVE  Isolated(t)'
<1>1. /\ pc[t] = "save"
      /\ changes' = changes
      /\ cmd' = cmd
      /\ events' = events
      /\ store' = Append(store, Entry(changes[t][next[t]], events[changes[t][next[t]]]))
  BY DEF Save
<1>2. /\ pc'[t] = "publish" \/ (pc'[t] = "save" /\ next'[t] = next[t] + 1)
      /\ next[t] \in DOMAIN changes[t]
      /\ changes[t] \in Seq(Ref)
  BY <1>1 DEF Save, GoTo, TypeInv, TypeOK, InsideSend
<1>3. CASE pc'[t] = "publish"
  BY <1>3 DEF Isolated
<1>4. CASE pc'[t] = "save" /\ next'[t] = next[t] + 1
  <2>1. Ascending(changes[t]) /\ \A k \in DOMAIN changes[t] : next[t] <= k => Private(t, changes[t][k])
    BY <1>1 DEF Isolated
  <2>2. ASSUME NEW k \in DOMAIN changes[t], next[t] + 1 <= k
        PROVE  Private(t, changes[t][k])'
    <3>1. PICK e, d : e = changes[t][k] /\ d = changes[t][next[t]]
      OBVIOUS
    <3>2. d < e /\ d \in Nat /\ e \in Nat /\ e # d
      BY <1>2, <2>1, <2>2, <3>1 DEF Ascending, Ref
    <3>3. Private(t, e) /\ e \in DOMAIN events
      BY <1>2, <2>1, <2>2, <3>1 DEF TypeInv, RefsInHeap
    <3>4. PICK x : store' = Append(store, x) /\ x.ev = d
      BY <1>1, <3>1 DEF Entry
    <3>5. \A j \in DOMAIN store' : store'[j].ev = e => j \in DOMAIN store
      <4>1. store \in Seq(Filed)
        BY DEF TypeInv, TypeOK
      <4>2. DOMAIN store' = 1..(Len(store) + 1) /\ DOMAIN store = 1..Len(store) /\ Len(store) \in Nat
        BY <3>4, <4>1
      <4>3. store'[Len(store) + 1].ev # e
        BY <3>2, <3>4, <4>1
      <4>4. QED
        BY <4>2, <4>3
    <3>6. Private(t, e)'
      BY <1>1, <3>3, <3>5, PrivateKept
    <3>7. changes'[t][k] = e
      BY <1>1, <3>1
    <3>8. QED
      BY <3>6, <3>7 DEF Private
  <2>3. \A k \in DOMAIN changes'[t] : next'[t] <= k => Private(t, changes[t][k])'
    BY <1>1, <1>4, <2>2
  <2>4. QED
    BY <1>1, <1>4, <2>1, <2>3 DEF Isolated
<1>5. QED
  BY <1>2, <1>3, <1>4

LEMMA IsolatedStep ==
  ASSUME TypeInv, CreationInv, [Next]_vars
  PROVE  \A u \in Threads : Isolated(u)'
<1> SUFFICES ASSUME Lifestyle = "transient"
             PROVE  \A u \in Threads : Isolated(u)'
  BY DEF Isolated
<1>1. Grows
  BY StepGrows
<1>2. /\ pc \in [Threads -> Places]
      /\ cmd \in [Threads -> Nat]
      /\ changes \in [Threads -> Seq(Ref)]
      /\ next \in [Threads -> Ref]
      /\ roots \in [Threads -> Root]
      /\ events \in Seq(Event)
      /\ store \in Seq(Filed)
  BY DEF TypeInv, TypeOK, Instances
<1>3. \A u \in Threads : Isolated(u) /\ Loaded(u) /\ Instance(u) = u /\ root(u) = roots[u]
  BY DEF CreationInv, Instance, root
<1>4. \A j \in DOMAIN store : store[j].ev \in DOMAIN events
  BY DEF TypeInv, RefsInHeap
<1>5. ASSUME NEW t \in Threads,
             \A u \in Threads : u # t =>
               /\ pc'[u] = pc[u] /\ cmd'[u] = cmd[u]
               /\ changes'[u] = changes[u] /\ next'[u] = next[u]
               /\ roots'[u].recorded = roots[u].recorded,
             \A u \in Threads : u # t =>
               \A e \in DOMAIN events : (pc[u] # "idle" /\ Private(u, e)) =>
                 /\ \A j \in DOMAIN store' : store'[j].ev = e => j \in DOMAIN store
                 /\ events'[e].src = events[e].src
      PROVE  \A u \in Threads : u # t => Isolated(u)'
  BY <1>1, <1>3, <1>5, IsolatedByOthers
<1>6. ASSUME NEW t \in Threads, NEW place, pc' = [pc EXCEPT ![t] = place],
             UNCHANGED <<store, events>>,
             \A u \in Threads : u # t =>
               /\ cmd'[u] = cmd[u] /\ changes'[u] = changes[u] /\ next'[u] = next[u]
               /\ roots'[u].recorded = roots[u].recorded
      PROVE  /\ \A u \in Threads : u # t => Isolated(u)'
             /\ pc'[t] = place
             /\ place \in {"idle", "sent", "publish"} => Isolated(t)'
             /\ (place \in {"note", "load", "assign", "execute"} /\ roots'[t].recorded = <<>>)
                  => Isolated(t)'
  <2>1. pc'[t] = place /\ \A u \in Threads : u # t => pc'[u] = pc[u]
    BY <1>2, <1>6
  <2>2. \A u \in Threads : u # t => Isolated(u)'
    BY <1>5, <1>6, <2>1
  <2>3. place \in {"idle", "sent", "publish"} => Isolated(t)'
    BY <2>1 DEF Isolated
  <2>4. (place \in {"note", "load", "assign", "execute"} /\ roots'[t].recorded = <<>>)
          => Isolated(t)'
    BY <1>3, <2>1 DEF Isolated, Ascending, root, Instance
  <2>5. QED
    BY <2>1, <2>2, <2>3, <2>4
<1>7. ASSUME NEW t \in Threads, NEW outcome, Return(t, outcome), UNCHANGED <<store, events, roots>>
      PROVE  \A u \in Threads : Isolated(u)'
  <2>1. /\ pc' = [pc EXCEPT ![t] = "idle"]
        /\ \A u \in Threads : u # t =>
             /\ cmd'[u] = cmd[u] /\ changes'[u] = changes[u] /\ next'[u] = next[u]
    BY <1>2, <1>7 DEF Return, GoTo
  <2>2. QED
    BY <1>6, <1>7, <2>1
<1>8. ASSUME NEW t \in Threads, NEW id, Send(t, id)
      PROVE  \A u \in Threads : Isolated(u)'
  <2>1. /\ pc' = [pc EXCEPT ![t] = "sent"]
        /\ UNCHANGED <<store, events, roots, changes, next>>
        /\ \A u \in Threads : u # t => cmd'[u] = cmd[u]
    BY <1>2, <1>8 DEF Send, GoTo
  <2>2. QED
    BY <1>6, <2>1
<1>9. ASSUME NEW t \in Threads, Get(t)
      PROVE  \A u \in Threads : Isolated(u)'
  <2>1. PICK place \in {"note", "load"} : pc' = [pc EXCEPT ![t] = place]
    BY <1>9 DEF Get, GoTo
  <2>2. /\ UNCHANGED <<store, events, cmd, changes, next>>
        /\ roots' = [roots EXCEPT ![t] = NewRoot]
    BY <1>9 DEF Get, Resolve
  <2>3. roots'[t].recorded = <<>> /\ \A u \in Threads : u # t => roots'[u] = roots[u]
    BY <1>2, <2>2 DEF NewRoot
  <2>4. QED
    BY <1>6, <2>1, <2>2, <2>3
<1>10. ASSUME NEW t \in Threads, NoteAggregateCreated(t)
       PROVE  \A u \in Threads : Isolated(u)'
  <2>1. PICK x, y : /\ store' = Append(store, x) /\ x.ev = Len(events) + 1
                    /\ events' = Append(events, y)
    BY <1>10 DEF NoteAggregateCreated, Entry
  <2>2. /\ pc[t] = "note"
        /\ pc' = [pc EXCEPT ![t] = "assign"]
        /\ UNCHANGED <<cmd, changes, next, roots>>
    BY <1>10 DEF NoteAggregateCreated, GoTo, locals
  <2>3. /\ pc'[t] = "assign"
        /\ \A u \in Threads : u # t => pc'[u] = pc[u]
        /\ roots[t].recorded = <<>>
    BY <1>2, <1>3, <2>2 DEF Isolated
  <2>4. Isolated(t)'
    BY <1>3, <2>2, <2>3 DEF Isolated, root, Instance
  <2>5. ASSUME NEW e \in DOMAIN events
        PROVE  /\ \A j \in DOMAIN store' : store'[j].ev = e => j \in DOMAIN store
               /\ events'[e].src = events[e].src
    <3>1. e # Len(events) + 1 /\ events'[e] = events[e]
      BY <1>2, <2>1
    <3>2. \A j \in DOMAIN store' : j \in DOMAIN store \/ store'[j] = x
      BY <1>2, <2>1
    <3>3. QED
      BY <2>1, <3>1, <3>2
  <2>6. QED
    BY <1>5, <2>2, <2>3, <2>4, <2>5
<1>11. ASSUME NEW t \in Threads, LoadEvent(t)
       PROVE  \A u \in Threads : Isolated(u)'
  <2>1. UNCHANGED <<store, pc, cmd, changes, next>>
    BY <1>11 DEF LoadEvent
  <2>2. \A u \in Threads : roots'[u].recorded = roots[u].recorded
    <3>1. PICK e : \/ roots' = roots
                   \/ roots' = [roots EXCEPT ![t].applied = Append(@, e)]
      BY <1>3, <1>11 DEF LoadEvent
    <3>2. QED
      BY <1>2, <3>1 DEF Root
  <2>3. PICK i \in unread[t] : \E src, ver :
          events' = events \/ events' = [events EXCEPT ![store[i].ev].src = src,
                                                       ![store[i].ev].ver = ver]
    <3>1. PICK i \in unread[t] :
            LET e == store[i].ev
            IN  IF events[e].kind = "domain"
                  THEN events' = [events EXCEPT ![e].src = root(t).id, ![e].ver = root(t).version]
                  ELSE events' = events
      BY <1>11 DEF LoadEvent
    <3>2. QED
      BY <3>1
  <2>4. ASSUME NEW e \in DOMAIN events, ~ IsFiled(e)
        PROVE  /\ \A j \in DOMAIN store' : store'[j].ev = e => j \in DOMAIN store
               /\ events'[e].src = events[e].src
    <3>1. i \in DOMAIN store
      BY DEF TypeInv, TypeOK
    <3>2. e # store[i].ev
      BY <2>4, <3>1 DEF IsFiled
    <3>3. events'[e] = events[e]
      BY <1>2, <2>3, <3>2
    <3>4. QED
      BY <2>1, <3>3
  <2>5. QED
    BY <1>1, <1>3, <2>1, <2>2, <2>4, IsolatedByOthers DEF Private
<1>12. ASSUME NEW t \in Threads, VersionCommand(t) \/ AssignId(t)
       PROVE  \A u \in Threads : Isolated(u)'
  <2>1. /\ UNCHANGED <<store, events, cmd, changes, next>>
        /\ pc[t] \in {"load", "assign"}
    BY <1>12 DEF VersionCommand, AssignId, locals
  <2>2. PICK place \in {"assign", "execute"} : pc' = [pc EXCEPT ![t] = place]
    BY <1>12 DEF VersionCommand, AssignId, GoTo
  <2>3. \A u \in Threads : roots'[u].recorded = roots[u].recorded
    <3>1. PICK id : roots' = roots \/ roots' = [roots EXCEPT ![t].id = id]
      BY <1>3, <1>12 DEF VersionCommand, AssignId
    <3>2. QED
      BY <1>2, <3>1 DEF Root
  <2>4. roots'[t].recorded = <<>>
    BY <1>3, <2>1, <2>3 DEF Isolated
  <2>5. QED
    BY <1>6, <2>1, <2>2, <2>3, <2>4
<1>13. ASSUME NEW t \in Threads, Apply(t)
       PROVE  \A u \in Threads : Isolated(u)'
  <2>1. Isolated(t)'
    BY <1>1, <1>3, <1>13, ApplyIsolated
  <2>2. UNCHANGED <<store, pc, cmd, changes, next>>
    BY <1>13 DEF Apply, locals
  <2>3. \A u \in Threads : u # t => roots'[u].recorded = roots[u].recorded
    <3>1. PICK version, refs, e :
            roots' = [roots EXCEPT ![t].version  = version,
                                   ![t].recorded = @ \o refs,
                                   ![t].applied  = Append(@, e)]
      BY <1>3, <1>13 DEF Apply
    <3>2. QED
      BY <1>2, <3>1
  <2>4. \A e \in DOMAIN events : events'[e] = events[e]
    <3>1. PICK raised \in Seq(Event) : events' = events \o raised
      BY <1>13, ApplyEffect
    <3>2. QED
      BY <1>2, <3>1
  <2>5. QED
    BY <1>5, <2>1, <2>2, <2>3, <2>4
<1>14. ASSUME NEW t \in Threads, Accept(t)
       PROVE  \A u \in Threads : Isolated(u)'
  <2>1. /\ UNCHANGED <<store, events, cmd>>
        /\ pc[t] = "execute"
        /\ changes' = [changes EXCEPT ![t] = root(t).recorded]
        /\ next' = [next EXCEPT ![t] = 1]
    BY <1>14 DEF Accept
  <2>2. PICK place \in {"save", "publish"} : pc' = [pc EXCEPT ![t] = place]
    BY <1>14 DEF Accept, GoTo
  <2>3. \A u \in Threads : roots'[u].recorded = roots[u].recorded
    <3>1. roots' = [roots EXCEPT ![t].command = cmd[t]]
      BY <1>3, <1>14 DEF Accept
    <3>2. QED
      BY <1>2, <3>1 DEF Root
  <2>4. /\ changes'[t] = roots[t].recorded
        /\ \A u \in Threads : u # t => changes'[u] = changes[u] /\ next'[u] = next[u]
    BY <1>2, <1>3, <2>1
  <2>5. /\ \A u \in Threads : u # t => Isolated(u)'
        /\ pc'[t] = place
        /\ place = "publish" => Isolated(t)'
    BY <1>6, <2>1, <2>2, <2>3, <2>4
  <2>6. CASE place = "save"
    <3>1. Ascending(changes'[t]) /\ \A k \in DOMAIN changes'[t] : Private(t, changes'[t][k])
      BY <1>3, <2>1, <2>4 DEF Isolated
    <3>2. \A k \in DOMAIN changes'[t] : Private(t, changes[t][k])'
      BY <2>1, <3>1 DEF Private, IsFiled, Created
    <3>3. QED
      BY <2>5, <2>6, <3>1, <3>2 DEF Isolated
  <2>7. QED
    BY <2>2, <2>5, <2>6
<1>15. ASSUME NEW t \in Threads, Save(t)
       PROVE  \A u \in Threads : Isolated(u)'
  <2>1. Isolated(t)'
    BY <1>1, <1>3, <1>15, SaveIsolated
  <2>2. PICK d, x : /\ d = changes[t][next[t]]
                    /\ store' = Append(store, x) /\ x.ev = d
    BY <1>15 DEF Save, Entry
  <2>3. /\ pc[t] = "save"
        /\ UNCHANGED <<events, roots, cmd, changes>>
        /\ \A u \in Threads : u # t => pc'[u] = pc[u] /\ next'[u] = next[u]
    BY <1>2, <1>15 DEF Save, GoTo
  <2>4. events[d].cmd = cmd[t]
    <3>1. next[t] \in DOMAIN changes[t] /\ next[t] <= next[t]
      BY <1>2, <2>3 DEF TypeInv, InsideSend, Ref
    <3>2. \A k \in DOMAIN changes[t] : next[t] <= k => Private(t, changes[t][k])
      BY <1>3, <2>3 DEF Isolated
    <3>3. QED
      BY <2>2, <3>1, <3>2 DEF Private
  <2>5. ASSUME NEW u \in Threads, u # t, NEW e \in DOMAIN events, pc[u] # "idle", Private(u, e)
        PROVE  /\ \A j \in DOMAIN store' : store'[j].ev = e => j \in DOMAIN store
               /\ events'[e].src = events[e].src
    <3>1. cmd[u] # cmd[t]
      BY <2>3, <2>5 DEF CreationInv, OwnCommand
    <3>2. e # d
      BY <2>4, <2>5, <3>1 DEF Private
    <3>3. \A j \in DOMAIN store' : j \in DOMAIN store \/ store'[j] = x
      BY <1>2, <2>2
    <3>4. QED
      BY <2>2, <2>3, <3>2, <3>3
  <2>6. QED
    BY <1>5, <2>1, <2>3, <2>5
<1>16. ASSUME NEW t \in Threads, Publish(t)
       PROVE  \A u \in Threads : Isolated(u)'
  <2>1. /\ pc[t] = "publish" /\ pc' = pc
        /\ UNCHANGED <<store, events, roots, cmd, changes>>
        /\ next' = [next EXCEPT ![t] = next[t] + 1]
    BY <1>16 DEF Publish, Deliver
  <2>2. Isolated(t)'
    BY <2>1 DEF Isolated
  <2>3. \A u \in Threads : u # t => next'[u] = next[u]
    BY <1>2, <2>1
  <2>4. QED
    BY <1>5, <2>1, <2>2, <2>3
<1>17. CASE UNCHANGED vars
  BY <1>1, <1>3, <1>17, IsolatedByOthers DEF vars, locals
<1>18. QED
  BY <1>7, <1>8, <1>9, <1>10, <1>11, <1>12, <1>13, <1>14, <1>15, <1>16, <1>17
     DEF Next, ValidatorRefuses, Load, Execute, ConsumerThrows, ReturnNothing, Stream,
         HandlerThrows, ModuleThrows, Deliver, Complete

LEMMA CreationStep ==
  ASSUME TypeInv, CreationInv, [Next]_vars
  PROVE  CreationInv'
<1>1. OwnCommand'
  BY OwnCommandStep DEF CreationInv
<1>2. QED
  BY <1>1, CreationFirstStep, LoadedStep, SharedStampsStep, IsolatedStep DEF CreationInv

\* Whatever the lifestyle of the aggregates and the interleaving of the threads, a stream
\* begins with the creation event that NoteAggregateCreatedForFirstTime saves.
THEOREM StreamsBeginWithCreation == Spec => []CreationFirst
<1>1. Init => TypeInv /\ CreationInv
  BY TypeInit, CreationInit
<1>2. TypeInv /\ CreationInv /\ [Next]_vars => (TypeInv /\ CreationInv)'
  BY TypeStep, CreationStep
<1>3. CreationInv => CreationFirst
  BY DEF CreationInv
<1>4. QED
  BY <1>1, <1>2, <1>3, PTL DEF Spec
=============================================================================
