----------------------- MODULE PipelineDeliveryProofs -----------------------
(***************************************************************************)
(* What the caller of Send may rely on: a command that returned was heard, *)
(* and with an aggregate instance per command it is durable exactly once,  *)
(* is delivered once, leaves nothing when it was refused, and is decided   *)
(* on the state that its history gives.                                    *)
(***************************************************************************)
EXTENDS CreationProofs, FiniteSetTheorems

\* A container that builds an aggregate instance for each command.
Transient == Lifestyle = "transient"

-----------------------------------------------------------------------------
(* What a step of thread t does, read at each thread, command and event.    *)

Step(t) ==
  \/ \E id \in Targets[t] \cup {NoId} : Send(t, id)
  \/ ValidatorRefuses(t)
  \/ Load(t)
  \/ Execute(t)
  \/ Stream(t)

\* It leaves the other threads where they are, and their instances alone.
Others(t) ==
  \A u \in Threads : u # t =>
    /\ pc'[u] = pc[u] /\ cmd'[u] = cmd[u] /\ target'[u] = target[u]
    /\ history'[u] = history[u] /\ unread'[u] = unread[u]
    /\ changes'[u] = changes[u] /\ next'[u] = next[u] /\ known'[u] = known[u]
    /\ Transient => roots'[u] = roots[u]

\* It leaves the commands alone that it does not execute, but for their version.
SameCommand(n) ==
  /\ n \in DOMAIN commands'
  /\ commands'[n].id = commands[n].id
  /\ commands'[n].outcome = commands[n].outcome

LEMMA Typed ==
  ASSUME TypeInv
  PROVE  /\ events \in Seq(Event) /\ store \in Seq(Filed) /\ commands \in Seq(Command)
         /\ DOMAIN events = 1..Len(events) /\ DOMAIN store = 1..Len(store)
         /\ DOMAIN commands = 1..Len(commands)
         /\ Len(events) \in Nat /\ Len(store) \in Nat /\ Len(commands) \in Nat
         /\ roots \in [Instances -> Root]
         /\ pc \in [Threads -> Places] /\ cmd \in [Threads -> Nat]
         /\ target \in [Threads -> AnyId]
         /\ history \in [Threads -> SUBSET DOMAIN store]
         /\ unread \in [Threads -> SUBSET DOMAIN store]
         /\ changes \in [Threads -> Seq(Ref)] /\ next \in [Threads -> Ref]
         /\ known \in [Threads -> SUBSET Ref]
BY DEF TypeInv, TypeOK

LEMMA RootTyped ==
  ASSUME TypeInv, NEW t \in Threads
  PROVE  /\ Instance(t) \in Instances
         /\ root(t) = roots[Instance(t)]
         /\ root(t) \in Root
         /\ root(t).id \in AnyId
         /\ root(t).recorded \in Seq(Ref) /\ root(t).applied \in Seq(Ref)
         /\ Transient => Instance(t) = t
         /\ Lifestyle = "singleton" => Instance(t) = "shared"
BY InstanceType DEF TypeInv, TypeOK, root, Root, Transient, Instance

\* Either lifestyle, and what the instances are with it.
LEMMA Lifestyles ==
  /\ Transient \/ Lifestyle = "singleton"
  /\ ~(Transient /\ Lifestyle = "singleton")
  /\ Transient => Instances = Threads
  /\ Lifestyle = "singleton" => Instances = {"shared"}
BY PipelineAssumption DEF Transient, Instances, PipelineAssumption

LEMMA SendEffect ==
  ASSUME TypeInv, NEW t \in Threads, NEW id \in Targets[t] \cup {NoId}, Send(t, id)
  PROVE  /\ pc[t] = "idle" /\ pc'[t] = "sent"
         /\ cmd'[t] = Len(commands) + 1
         /\ known'[t] = Acknowledged(id)
         /\ DOMAIN commands' = 1..(Len(commands) + 1)
         /\ commands'[Len(commands) + 1].id = id
         /\ commands'[Len(commands) + 1].outcome = "pending"
         /\ \A n \in DOMAIN commands : commands'[n] = commands[n]
         /\ UNCHANGED <<events, store, roots, published, target, history, unread, changes, next>>
         /\ Others(t)
<1>1. commands' = Append(commands, [id |-> id, version |-> 0, outcome |-> "pending"])
  BY DEF Send
<1>2. /\ DOMAIN commands' = 1..(Len(commands) + 1)
      /\ commands'[Len(commands) + 1] = [id |-> id, version |-> 0, outcome |-> "pending"]
      /\ \A n \in DOMAIN commands : commands'[n] = commands[n]
  BY <1>1, Typed
<1>3. /\ pc' = [pc EXCEPT ![t] = "sent"] /\ pc[t] = "idle"
      /\ cmd' = [cmd EXCEPT ![t] = Len(commands) + 1]
      /\ known' = [known EXCEPT ![t] = Acknowledged(id)]
      /\ UNCHANGED <<events, store, roots, published, target, history, unread, changes, next>>
  BY DEF Send, GoTo
<1>4. Others(t)
  BY <1>3, Typed DEF Others
<1>5. QED
  BY <1>2, <1>3, <1>4, Typed

LEMMA ReturnEffect ==
  ASSUME TypeInv, NEW t \in Threads, NEW outcome, Return(t, outcome), pc[t] # "idle",
         roots' = roots
  PROVE  /\ pc'[t] = "idle" /\ cmd'[t] = 0 /\ changes'[t] = <<>> /\ known'[t] = {}
         /\ DOMAIN commands' = DOMAIN commands
         /\ cmd[t] \in DOMAIN commands
         /\ commands'[cmd[t]].id = commands[cmd[t]].id
         /\ commands'[cmd[t]].outcome = outcome
         /\ \A n \in DOMAIN commands : n # cmd[t] => commands'[n] = commands[n]
         /\ Others(t)
<1>1. cmd[t] \in DOMAIN commands /\ commands[cmd[t]] \in Command
  BY Typed DEF TypeInv, InsideSend
<1>2. commands' = [commands EXCEPT ![cmd[t]].outcome = outcome]
  BY DEF Return
<1>3. /\ DOMAIN commands' = DOMAIN commands
      /\ commands'[cmd[t]].id = commands[cmd[t]].id
      /\ commands'[cmd[t]].outcome = outcome
      /\ \A n \in DOMAIN commands : n # cmd[t] => commands'[n] = commands[n]
  BY <1>1, <1>2, Typed DEF Command
<1>4. /\ pc' = [pc EXCEPT ![t] = "idle"]
      /\ history' = [history EXCEPT ![t] = {}]
      /\ unread' = [unread EXCEPT ![t] = {}]
      /\ changes' = [changes EXCEPT ![t] = <<>>]
      /\ next' = [next EXCEPT ![t] = 1]
      /\ known' = [known EXCEPT ![t] = {}]
      /\ cmd' = [cmd EXCEPT ![t] = 0]
      /\ target' = [target EXCEPT ![t] = NoId]
  BY DEF Return, GoTo
<1>5. Others(t)
  BY <1>4, Typed DEF Others
<1>6. QED
  BY <1>1, <1>3, <1>4, <1>5, Typed

\* No entry has the name that the snapshot query looks for.
LEMMA NoSnapshotFound ==
  ASSUME TypeInv, NEW id
  PROVE  GetHistorySinceSnapshot(id) = {}
<1>1. \A k : FullName(k) # ShortName("snapshot")
  BY DEF FullName, ShortName
<1>2. \A i \in DOMAIN store : store[i].name # ShortName("snapshot")
  <2> SUFFICES ASSUME NEW i \in DOMAIN store
               PROVE  store[i].name # ShortName("snapshot")
    OBVIOUS
  <2>1. store[i] \in Filed
    BY Typed
  <2>2. store[i].name \in {FullName(k) : k \in Kinds}
    BY <2>1 DEF Filed
  <2>3. QED
    BY <1>1, <2>2
<1>3. QED
  BY <1>2 DEF GetHistorySinceSnapshot, Positions

LEMMA GetEffect ==
  ASSUME TypeInv, NEW t \in Threads, Get(t)
  PROVE  \E id \in Ids :
           /\ pc[t] = "sent" /\ pc'[t] = (IF Positions(id) = {} THEN "note" ELSE "load")
           /\ commands[cmd[t]].id # NoId => commands[cmd[t]].id = id
           /\ commands[cmd[t]].id = NoId => id \in Targets[t]
           /\ DOMAIN commands' = DOMAIN commands
           /\ cmd[t] \in DOMAIN commands
           /\ commands'[cmd[t]].id = id
           /\ commands'[cmd[t]].outcome = commands[cmd[t]].outcome
           /\ \A n \in DOMAIN commands : n # cmd[t] => commands'[n] = commands[n]
           /\ target'[t] = id /\ history'[t] = Positions(id) /\ unread'[t] = Positions(id)
           /\ Transient => roots'[t] = NewRoot
           /\ Lifestyle = "singleton" => roots' = roots
           /\ UNCHANGED <<events, store, published, cmd, changes, next, known>>
           /\ Others(t)
<1>1. PICK id \in IF commands[cmd[t]].id = NoId THEN NewGuids(t) ELSE {commands[cmd[t]].id} :
        LET since == GetHistorySinceSnapshot(id)
            read  == IF since = {} THEN GetHistory(id) ELSE since
        IN  /\ target'   = [target EXCEPT ![t] = id]
            /\ commands' = [commands EXCEPT ![cmd[t]].id = id]
            /\ history'  = [history EXCEPT ![t] = read]
            /\ unread'   = [unread EXCEPT ![t] = read]
            /\ GoTo(t, IF read = {} THEN "note" ELSE "load")
  BY DEF Get
<1>2. pc[t] = "sent"
  BY DEF Get
<1>3. cmd[t] \in DOMAIN commands /\ commands[cmd[t]] \in Command
  BY <1>2, Typed DEF TypeInv, InsideSend
<1>4. /\ id \in Ids
      /\ commands[cmd[t]].id # NoId => commands[cmd[t]].id = id
      /\ commands[cmd[t]].id = NoId => id \in Targets[t]
  BY <1>1, <1>3, PipelineAssumption DEF PipelineAssumption, NewGuids, Command, AnyId
<1>5. /\ target'   = [target EXCEPT ![t] = id]
      /\ commands' = [commands EXCEPT ![cmd[t]].id = id]
      /\ history'  = [history EXCEPT ![t] = Positions(id)]
      /\ unread'   = [unread EXCEPT ![t] = Positions(id)]
      /\ pc'       = [pc EXCEPT ![t] = IF Positions(id) = {} THEN "note" ELSE "load"]
  BY <1>1, NoSnapshotFound DEF GoTo, GetHistory
<1>6. /\ DOMAIN commands' = DOMAIN commands
      /\ commands'[cmd[t]].id = id
      /\ commands'[cmd[t]].outcome = commands[cmd[t]].outcome
      /\ \A n \in DOMAIN commands : n # cmd[t] => commands'[n] = commands[n]
  BY <1>3, <1>5, Typed DEF Command
<1>7. UNCHANGED <<events, store, published, cmd, changes, next, known>>
  BY DEF Get
<1>8. roots' = IF Lifestyle = "singleton" THEN roots ELSE [roots EXCEPT ![t] = NewRoot]
  BY DEF Get, Resolve
<1>9. /\ Transient => /\ roots'[t] = NewRoot
                      /\ \A u \in Threads : u # t => roots'[u] = roots[u]
      /\ Lifestyle = "singleton" => roots' = roots
  BY <1>8, Typed, Lifestyles
<1>10. Others(t)
  BY <1>5, <1>7, <1>9, Typed DEF Others
<1>11. QED
  BY <1>2, <1>3, <1>4, <1>5, <1>6, <1>7, <1>9, <1>10, Typed

LEMMA NoteEffect ==
  ASSUME TypeInv, NEW t \in Threads, NoteAggregateCreated(t)
  PROVE  /\ pc[t] = "note" /\ pc'[t] = "assign"
         /\ DOMAIN events' = 1..(Len(events) + 1)
         /\ \A e \in DOMAIN events : events'[e] = events[e]
         /\ events'[Len(events) + 1].kind = "created"
         /\ events'[Len(events) + 1].cmd = cmd[t]
         /\ DOMAIN store' = 1..(Len(store) + 1)
         /\ \A j \in DOMAIN store : store'[j] = store[j]
         /\ store'[Len(store) + 1].ev = Len(events) + 1
         /\ store'[Len(store) + 1].src = target[t]
         /\ UNCHANGED <<roots, commands, published, locals>>
         /\ Others(t)
<1> DEFINE created == [kind |-> "created", src |-> target[t], ver |-> 0, cmd |-> cmd[t]]
           entry   == Entry(Len(events) + 1, created)
<1>1. /\ events' = Append(events, created) /\ store' = Append(store, entry)
      /\ pc' = [pc EXCEPT ![t] = "assign"] /\ pc[t] = "note"
      /\ UNCHANGED <<roots, commands, published, locals>>
  BY DEF NoteAggregateCreated, GoTo
<1>2. /\ created.kind = "created" /\ created.cmd = cmd[t]
      /\ entry.ev = Len(events) + 1 /\ entry.src = target[t]
  BY DEF Entry
<1> HIDE DEF created, entry
<1>3. Others(t)
  BY <1>1, Typed DEF Others, locals
<1>4. QED
  BY <1>1, <1>2, <1>3, Typed

LEMMA LoadEventEffect ==
  ASSUME TypeInv, NEW t \in Threads, LoadEvent(t)
  PROVE  \E i \in unread[t] :
           /\ pc[t] = "load" /\ i \in DOMAIN store
           /\ \A j \in unread[t] : i <= j
           /\ unread'[t] = unread[t] \ {i}
           /\ root(t)'.applied = IF events[store[i].ev].kind = "domain"
                                   THEN Append(root(t).applied, store[i].ev)
                                   ELSE root(t).applied
           /\ \A r \in Instances : roots'[r].recorded = roots[r].recorded
           /\ \A r \in Instances : roots'[r].id = roots[r].id
           /\ DOMAIN events' = DOMAIN events
           /\ \A e \in DOMAIN events : e # store[i].ev => events'[e] = events[e]
           /\ UNCHANGED <<store, commands, published, pc, cmd, target, history, changes, next,
                          known>>
           /\ Others(t)
<1>1. PICK i \in unread[t] :
        /\ InOrder(t, i)
        /\ unread' = [unread EXCEPT ![t] = @ \ {i}]
        /\ IF events[store[i].ev].kind = "domain"
             THEN /\ events' = [events EXCEPT ![store[i].ev].src = root(t).id,
                                              ![store[i].ev].ver = root(t).version]
                  /\ roots'  = [roots EXCEPT ![Instance(t)].applied = Append(@, store[i].ev)]
             ELSE UNCHANGED <<events, roots>>
  BY DEF LoadEvent
<1>2. /\ pc[t] = "load"
      /\ UNCHANGED <<store, commands, published, pc, cmd, target, history, changes, next, known>>
  BY DEF LoadEvent
<1>3. i \in DOMAIN store
  BY Typed
<1>4. /\ DOMAIN events' = DOMAIN events
      /\ \A e \in DOMAIN events : e # store[i].ev => events'[e] = events[e]
  BY <1>1, Typed
<1>5. \A r \in Instances : roots[r] \in Root
  BY Typed
<1>6. root(t)'.applied = roots'[Instance(t)].applied
  BY DEF root, Instance
<1>7. /\ \A r \in Instances : roots'[r].recorded = roots[r].recorded /\ roots'[r].id = roots[r].id
      /\ \A r \in Instances : r # Instance(t) => roots'[r] = roots[r]
      /\ root(t)'.applied = IF events[store[i].ev].kind = "domain"
                              THEN Append(root(t).applied, store[i].ev)
                              ELSE root(t).applied
  <2>1. CASE events[store[i].ev].kind = "domain"
    <3> DEFINE e == store[i].ev
    <3>1. roots' = [roots EXCEPT ![Instance(t)].applied = Append(@, e)]
      BY <1>1, <2>1
    <3> HIDE DEF e
    <3>2. /\ roots'[Instance(t)] = [roots[Instance(t)] EXCEPT !.applied =
                                     Append(roots[Instance(t)].applied, e)]
          /\ \A r \in Instances : r # Instance(t) => roots'[r] = roots[r]
      BY <3>1, Typed, RootTyped
    <3>3. /\ roots'[Instance(t)].applied = Append(roots[Instance(t)].applied, e)
          /\ roots'[Instance(t)].recorded = roots[Instance(t)].recorded
          /\ roots'[Instance(t)].id = roots[Instance(t)].id
      BY <1>5, <3>2, RootTyped DEF Root
    <3>4. QED
      BY <1>6, <2>1, <3>2, <3>3, RootTyped DEF e
  <2>2. CASE events[store[i].ev].kind # "domain"
    BY <1>1, <1>6, <2>2, RootTyped
  <2>3. QED
    BY <2>1, <2>2
<1>8. Others(t)
  BY <1>1, <1>2, <1>7, Typed, RootTyped, Lifestyles DEF Others
<1>9. QED
  BY <1>1, <1>2, <1>3, <1>4, <1>7, <1>8, Typed DEF InOrder

LEMMA VersionCommandEffect ==
  ASSUME TypeInv, NEW t \in Threads, VersionCommand(t)
  PROVE  /\ pc[t] = "load" /\ pc'[t] = "assign" /\ unread[t] = {}
         /\ DOMAIN commands' = DOMAIN commands
         /\ \A n \in DOMAIN commands : commands'[n].id = commands[n].id
         /\ \A n \in DOMAIN commands : commands'[n].outcome = commands[n].outcome
         /\ UNCHANGED <<events, store, roots, published, locals>>
         /\ Others(t)
<1>1. /\ pc[t] = "load" /\ unread[t] = {} /\ pc' = [pc EXCEPT ![t] = "assign"]
      /\ UNCHANGED <<events, store, roots, published, locals>>
  BY DEF VersionCommand, GoTo
<1>2. PICK v : commands' = IF root(t).command = 0 THEN commands
                           ELSE [commands EXCEPT ![root(t).command].version = v]
  BY DEF VersionCommand
<1>3. /\ DOMAIN commands' = DOMAIN commands
      /\ \A n \in DOMAIN commands : \/ commands'[n] = commands[n]
                                    \/ commands'[n] = [commands[n] EXCEPT !.version = v]
  BY <1>2, Typed
<1>4. \A n \in DOMAIN commands : commands[n] \in Command
  BY Typed
<1>5. Others(t)
  BY <1>1, Typed DEF Others, locals
<1>6. QED
  BY <1>1, <1>3, <1>4, <1>5, Typed DEF Command

LEMMA AssignIdEffect ==
  ASSUME TypeInv, NEW t \in Threads, AssignId(t)
  PROVE  /\ pc[t] = "assign" /\ pc'[t] = "execute"
         /\ root(t)'.id = target[t]
         /\ \A r \in Instances : roots'[r].recorded = roots[r].recorded
         /\ \A r \in Instances : roots'[r].applied = roots[r].applied
         /\ UNCHANGED <<events, store, commands, published, locals>>
         /\ Others(t)
<1>1. /\ pc[t] = "assign" /\ pc' = [pc EXCEPT ![t] = "execute"]
      /\ roots' = [roots EXCEPT ![Instance(t)].id = target[t]]
      /\ UNCHANGED <<events, store, commands, published, locals>>
  BY DEF AssignId, GoTo
<1>2. \A r \in Instances : roots[r] \in Root
  BY Typed
<1>3. /\ \A r \in Instances : /\ roots'[r].recorded = roots[r].recorded
                              /\ roots'[r].applied = roots[r].applied
      /\ roots'[Instance(t)].id = target[t]
      /\ \A r \in Instances : r # Instance(t) => roots'[r] = roots[r]
  BY <1>1, <1>2, Typed, RootTyped DEF Root
<1>4. root(t)' = roots'[Instance(t)]
  BY DEF root, Instance
<1>5. Others(t)
  BY <1>1, <1>3, Typed, RootTyped, Lifestyles DEF Others, locals
<1>6. QED
  BY <1>1, <1>3, <1>4, <1>5, Typed

LEMMA AcceptEffect ==
  ASSUME TypeInv, NEW t \in Threads, Accept(t)
  PROVE  /\ pc[t] = "execute"
         /\ pc'[t] = (IF root(t).recorded = <<>> THEN "publish" ELSE "save")
         /\ changes'[t] = root(t).recorded /\ next'[t] = 1
         /\ \A r \in Instances : roots'[r].recorded = roots[r].recorded
         /\ \A r \in Instances : roots'[r].applied = roots[r].applied
         /\ \A r \in Instances : roots'[r].id = roots[r].id
         /\ UNCHANGED <<events, store, commands, published, cmd, target, history, unread, known>>
         /\ Others(t)
<1>1. /\ pc[t] = "execute"
      /\ pc' = [pc EXCEPT ![t] = IF root(t).recorded = <<>> THEN "publish" ELSE "save"]
      /\ changes' = [changes EXCEPT ![t] = root(t).recorded]
      /\ next' = [next EXCEPT ![t] = 1]
      /\ roots' = [roots EXCEPT ![Instance(t)].command = cmd[t]]
      /\ UNCHANGED <<events, store, commands, published, cmd, target, history, unread, known>>
  BY DEF Accept, GoTo
<1>2. \A r \in Instances : roots[r] \in Root
  BY Typed
<1>3. /\ \A r \in Instances : /\ roots'[r].recorded = roots[r].recorded
                              /\ roots'[r].applied = roots[r].applied
                              /\ roots'[r].id = roots[r].id
      /\ \A r \in Instances : r # Instance(t) => roots'[r] = roots[r]
  BY <1>1, <1>2, Typed, RootTyped DEF Root
<1>4. Others(t)
  BY <1>1, <1>3, Typed, RootTyped, Lifestyles DEF Others
<1>5. QED
  BY <1>1, <1>3, <1>4, Typed

LEMMA SaveEffect ==
  ASSUME TypeInv, NEW t \in Threads, Save(t)
  PROVE  /\ pc[t] = "save" /\ next[t] \in DOMAIN changes[t]
         /\ DOMAIN store' = 1..(Len(store) + 1)
         /\ \A j \in DOMAIN store : store'[j] = store[j]
         /\ store'[Len(store) + 1].ev = changes[t][next[t]]
         /\ store'[Len(store) + 1].src = events[changes[t][next[t]]].src
         /\ \/ pc'[t] = "save" /\ next'[t] = next[t] + 1
            \/ pc'[t] = "publish" /\ next'[t] = 1
         /\ UNCHANGED <<events, roots, commands, published, cmd, target, history, unread,
                        changes, known>>
         /\ Others(t)
<1>1. PICK x : /\ x.ev = changes[t][next[t]]
               /\ x.src = events[changes[t][next[t]]].src
               /\ store' = Append(store, x)
  BY DEF Save, Entry
<1>2. /\ pc[t] = "save"
      /\ \/ next' = [next EXCEPT ![t] = @ + 1] /\ pc' = pc
         \/ next' = [next EXCEPT ![t] = 1] /\ pc' = [pc EXCEPT ![t] = "publish"]
      /\ UNCHANGED <<events, roots, commands, published, cmd, target, history, unread, changes,
                     known>>
  BY DEF Save, GoTo
<1>3. next[t] \in DOMAIN changes[t]
  BY <1>2 DEF TypeInv, InsideSend
<1>4. /\ \/ pc'[t] = "save" /\ next'[t] = next[t] + 1
         \/ pc'[t] = "publish" /\ next'[t] = 1
      /\ \A u \in Threads : u # t => pc'[u] = pc[u] /\ next'[u] = next[u]
  BY <1>2, Typed
<1>5. Others(t)
  BY <1>2, <1>4 DEF Others
<1>6. /\ DOMAIN store' = 1..(Len(store) + 1)
      /\ \A j \in DOMAIN store : store'[j] = store[j]
      /\ store'[Len(store) + 1] = x
  BY <1>1, Typed
<1>7. QED
  BY <1>1, <1>2, <1>3, <1>4, <1>5, <1>6

LEMMA DeliverEffect ==
  ASSUME TypeInv, NEW t \in Threads, Deliver(t)
  PROVE  /\ pc[t] = "publish" /\ next[t] \in DOMAIN changes[t]
         /\ published \subseteq published'
         /\ \E p \in published' :
              /\ published' = published \cup {p}
              /\ p.ev = changes[t][next[t]] /\ p.cmd = cmd[t] /\ p.turn = next[t]
              /\ p.src = events[changes[t][next[t]]].src
<1>1. /\ pc[t] = "publish" /\ next[t] <= Len(changes[t])
      /\ published' = published \cup
           {[ev |-> changes[t][next[t]], src |-> events[changes[t][next[t]]].src,
             cmd |-> cmd[t], turn |-> next[t]]}
  BY DEF Deliver
<1>2. next[t] \in DOMAIN changes[t]
  BY <1>1, Typed DEF Ref
<1> DEFINE p == [ev |-> changes[t][next[t]], src |-> events[changes[t][next[t]]].src,
                 cmd |-> cmd[t], turn |-> next[t]]
<1>3. /\ p.ev = changes[t][next[t]] /\ p.cmd = cmd[t] /\ p.turn = next[t]
      /\ p.src = events[changes[t][next[t]]].src
  OBVIOUS
<1>4. published' = published \cup {p}
  BY <1>1
<1> HIDE DEF p
<1>5. p \in published'
  BY <1>4
<1>6. QED
  BY <1>1, <1>2, <1>3, <1>4, <1>5

LEMMA PublishEffect ==
  ASSUME TypeInv, NEW t \in Threads, Publish(t)
  PROVE  /\ next'[t] = next[t] + 1
         /\ UNCHANGED <<events, store, roots, commands, pc, cmd, target, history, unread,
                        changes, known>>
         /\ Others(t)
<1>1. /\ next' = [next EXCEPT ![t] = @ + 1]
      /\ UNCHANGED <<events, store, roots, commands, pc, cmd, target, history, unread,
                     changes, known>>
  BY DEF Publish
<1>2. QED
  BY <1>1, Typed DEF Others

\* The elements of a concatenation.
LEMMA Concatenated ==
  ASSUME NEW S, NEW s \in Seq(S), NEW r \in Seq(S)
  PROVE  /\ DOMAIN (s \o r) = 1..(Len(s) + Len(r))
         /\ \A i \in DOMAIN s : (s \o r)[i] = s[i]
         /\ \A i \in 1..Len(r) : (s \o r)[Len(s) + i] = r[i]
OBVIOUS

\* Apply raises one event, or a snapshot and one event, which are numbered on from those
\* there are.
LEMMA ApplyRaises ==
  ASSUME TypeInv, NEW t \in Threads, Apply(t)
  PROVE  \E m \in {1, 2} :
           /\ pc[t] = "execute"
           /\ DOMAIN events' = 1..(Len(events) + m)
           /\ \A e \in DOMAIN events : events'[e] = events[e]
           /\ \A e \in DOMAIN events' : e \notin DOMAIN events =>
                /\ events'[e].cmd = cmd[t] /\ events'[e].src = root(t).id
                /\ events'[e].kind = IF e = Len(events) + m THEN "domain" ELSE "snapshot"
           /\ DOMAIN root(t)'.recorded = 1..(Len(root(t).recorded) + m)
           /\ \A k \in DOMAIN root(t).recorded : root(t)'.recorded[k] = root(t).recorded[k]
           /\ \A k \in 1..m : root(t)'.recorded[Len(root(t).recorded) + k] = Len(events) + k
           /\ root(t)'.applied = Append(root(t).applied, Len(events) + m)
           /\ root(t)'.id = root(t).id
           /\ Cardinality(RaisedBy(cmd[t])) < MaxApplies
           /\ UNCHANGED <<store, commands, published, pc, locals>>
           /\ Others(t)
<1> DEFINE version  == root(t).version + 1
           snapshot == [kind |-> "snapshot", src |-> root(t).id, ver |-> version, cmd |-> cmd[t]]
           domain   == [kind |-> "domain", src |-> root(t).id, ver |-> version, cmd |-> cmd[t]]
           raised   == IF Len(root(t).recorded) > SnapshotLevel
                         THEN <<snapshot, domain>> ELSE <<domain>>
           refs     == [i \in 1..Len(raised) |-> Len(events) + i]
<1>1. /\ pc[t] = "execute"
      /\ Cardinality(RaisedBy(cmd[t])) < MaxApplies
      /\ events' = events \o raised
      /\ roots' = [roots EXCEPT
                     ![Instance(t)].version  = version,
                     ![Instance(t)].recorded = @ \o refs,
                     ![Instance(t)].applied  = Append(@, Len(events) + Len(raised))]
      /\ UNCHANGED <<store, commands, published, pc, locals>>
  BY DEF Apply
<1>2. /\ snapshot.kind = "snapshot" /\ snapshot.cmd = cmd[t] /\ snapshot.src = root(t).id
      /\ domain.kind = "domain" /\ domain.cmd = cmd[t] /\ domain.src = root(t).id
      /\ raised = <<snapshot, domain>> \/ raised = <<domain>>
  OBVIOUS
<1>3. /\ root(t) \in Root /\ version \in Nat
  BY RootTyped DEF Root
<1> HIDE DEF version
<1>4. snapshot \in Event /\ domain \in Event
  BY <1>3, Typed DEF Root, Event, Kinds
<1>5. raised \in Seq(Event)
  BY <1>4
<1> HIDE DEF snapshot, domain, raised
<1>6. PICK m \in {1, 2} : /\ Len(raised) = m /\ DOMAIN raised = 1..m
                          /\ raised[m] = domain
                          /\ m = 2 => raised[1] = snapshot
  BY <1>2
<1>7. refs \in Seq(Nat) /\ Len(refs) = m /\ \A k \in 1..m : refs[k] = Len(events) + k
  BY <1>6, Typed
<1>8. /\ DOMAIN events' = 1..(Len(events) + m)
      /\ \A e \in DOMAIN events : events'[e] = events[e]
      /\ \A k \in 1..m : events'[Len(events) + k] = raised[k]
  <2>1. events \in Seq(Event) /\ Len(events) \in Nat /\ DOMAIN events = 1..Len(events)
    BY Typed
  <2>2. /\ DOMAIN (events \o raised) = 1..(Len(events) + Len(raised))
        /\ \A e \in DOMAIN events : (events \o raised)[e] = events[e]
        /\ \A k \in 1..Len(raised) : (events \o raised)[Len(events) + k] = raised[k]
    BY <1>5, <2>1, Concatenated
  <2>3. events' = events \o raised
    BY <1>1
  <2>4. QED
    BY <1>6, <2>2, <2>3
<1>9. ASSUME NEW e \in DOMAIN events', e \notin DOMAIN events
      PROVE  /\ events'[e].cmd = cmd[t] /\ events'[e].src = root(t).id
             /\ events'[e].kind = IF e = Len(events) + m THEN "domain" ELSE "snapshot"
  <2>1. PICK k \in 1..m : e = Len(events) + k
    BY <1>8, <1>9, Typed
  <2>2. CASE k = m
    <3>1. events'[e] = domain
      BY <1>6, <1>8, <2>1, <2>2
    <3>2. QED
      BY <1>2, <2>1, <2>2, <3>1
  <2>3. CASE k # m
    <3>1. m = 2 /\ k = 1
      BY <2>3
    <3>2. e # Len(events) + m
      BY <2>1, <3>1, Typed
    <3>3. events'[e] = snapshot
      BY <1>6, <1>8, <2>1, <3>1, Typed
    <3>4. QED
      BY <1>2, <3>2, <3>3
  <2>4. QED
    BY <2>2, <2>3
<1>10. root(t)' = roots'[Instance(t)]
  BY DEF root, Instance
<1> DEFINE was == roots[Instance(t)]
<1>11. /\ root(t)' = [was EXCEPT !.version = version, !.recorded = @ \o refs,
                                !.applied = Append(@, Len(events) + Len(raised))]
      /\ \A r \in Instances : r # Instance(t) => roots'[r] = roots[r]
  BY <1>1, <1>10, Typed, RootTyped
<1>12. was \in Root /\ was = root(t) /\ was.recorded \in Seq(Ref)
  BY Typed, RootTyped
<1> HIDE DEF refs, was
<1>13. /\ root(t)'.recorded = root(t).recorded \o refs
       /\ root(t)'.applied = Append(root(t).applied, Len(events) + m)
       /\ root(t)'.id = root(t).id
  BY <1>6, <1>11, <1>12 DEF Root
<1>14. /\ DOMAIN root(t)'.recorded = 1..(Len(root(t).recorded) + m)
       /\ \A k \in DOMAIN root(t).recorded : root(t)'.recorded[k] = root(t).recorded[k]
       /\ \A k \in 1..m : root(t)'.recorded[Len(root(t).recorded) + k] = Len(events) + k
  BY <1>7, <1>12, <1>13, RootTyped
<1>15. Others(t)
  BY <1>1, <1>11, RootTyped, Lifestyles DEF Others, locals
<1>16. QED
  BY <1>1, <1>8, <1>9, <1>13, <1>14, <1>15

-----------------------------------------------------------------------------
(* What every step of thread t leaves as it was.                            *)

\* The instance holds on to what it has recorded and applied.
Keeps(r) ==
  /\ Elements(roots[r].recorded) \subseteq Elements(roots'[r].recorded)
  /\ Elements(roots[r].applied) \subseteq Elements(roots'[r].applied)

LEMMA AppendElements ==
  ASSUME NEW S, NEW s \in Seq(S), NEW x \in S
  PROVE  /\ Elements(Append(s, x)) = Elements(s) \cup {x}
         /\ DOMAIN Append(s, x) = 1..(Len(s) + 1) /\ DOMAIN s = 1..Len(s)
         /\ Len(Append(s, x)) = Len(s) + 1
         /\ \A k \in DOMAIN s : Append(s, x)[k] = s[k]
         /\ Append(s, x)[Len(s) + 1] = x
BY DEF Elements

LEMMA Referenced ==
  ASSUME TypeInv
  PROVE  /\ \A i \in DOMAIN store : store[i].ev \in DOMAIN events /\ store[i].ev \in Ref
         /\ \A t \in Threads : \A k \in DOMAIN root(t).recorded :
              root(t).recorded[k] \in DOMAIN events
         /\ \A t \in Threads : \A k \in DOMAIN changes[t] : changes[t][k] \in DOMAIN events
         /\ \A t \in Threads : pc[t] # "idle" => cmd[t] \in DOMAIN commands
BY Typed, RootTyped DEF TypeInv, RefsInHeap, InsideSend, Ref

LEMMA StepFrame ==
  ASSUME TypeInv, TypeInv', NEW t \in Threads, Step(t)
  PROVE  /\ Others(t)
         /\ DOMAIN commands \subseteq DOMAIN commands'
         /\ \A n \in DOMAIN commands : (pc[t] = "idle" \/ n # cmd[t]) => SameCommand(n)
         /\ published \subseteq published'
         /\ \A e \in DOMAIN events' :
              e \in DOMAIN events \/ (pc[t] = "execute" /\ events'[e].cmd = cmd[t])
                                  \/ (pc[t] = "note" /\ events'[e].cmd = cmd[t])
         /\ Lifestyle = "singleton" => Keeps("shared")
<1> DEFINE Frame ==
             /\ Others(t)
             /\ DOMAIN commands \subseteq DOMAIN commands'
             /\ \A n \in DOMAIN commands : (pc[t] = "idle" \/ n # cmd[t]) => SameCommand(n)
             /\ published \subseteq published'
             /\ \A e \in DOMAIN events' :
                  e \in DOMAIN events \/ (pc[t] = "execute" /\ events'[e].cmd = cmd[t])
                                      \/ (pc[t] = "note" /\ events'[e].cmd = cmd[t])
             /\ Lifestyle = "singleton" => Keeps("shared")
<1> SUFFICES Frame
  OBVIOUS
<1>1. ASSUME \A r \in Instances : /\ roots'[r].recorded = roots[r].recorded
                                  /\ roots'[r].applied = roots[r].applied
      PROVE  Lifestyle = "singleton" => Keeps("shared")
  BY <1>1, Lifestyles DEF Keeps
<1>2. ASSUME NEW id \in Targets[t] \cup {NoId}, Send(t, id)
      PROVE  Frame
  BY <1>1, <1>2, SendEffect, Typed DEF SameCommand
<1>3. ASSUME NEW outcome, Return(t, outcome), pc[t] # "idle", UNCHANGED <<events, roots>>,
             published \subseteq published'
      PROVE  Frame
  BY <1>1, <1>3, ReturnEffect DEF SameCommand
<1>4. ASSUME Get(t)
      PROVE  Frame
  BY <1>1, <1>4, GetEffect DEF SameCommand
<1>5. ASSUME NoteAggregateCreated(t)
      PROVE  Frame
  BY <1>1, <1>5, NoteEffect, Typed DEF SameCommand
<1>6. ASSUME LoadEvent(t)
      PROVE  Frame
  <2>1. PICK i \in unread[t] :
          /\ root(t)'.applied = IF events[store[i].ev].kind = "domain"
                                   THEN Append(root(t).applied, store[i].ev)
                                   ELSE root(t).applied
          /\ \A r \in Instances : roots'[r].recorded = roots[r].recorded
          /\ DOMAIN events' = DOMAIN events
          /\ UNCHANGED <<store, commands, published>>
          /\ Others(t)
          /\ i \in DOMAIN store
    BY <1>6, LoadEventEffect
  <2>2. Lifestyle = "singleton" => Keeps("shared")
    <3> SUFFICES ASSUME Lifestyle = "singleton"
                 PROVE  Keeps("shared")
      OBVIOUS
    <3>1. /\ root(t) = roots["shared"] /\ root(t)' = roots'["shared"]
          /\ root(t).applied \in Seq(Ref)
          /\ "shared" \in Instances
      BY RootTyped, Lifestyles DEF root, Instance
    <3>2. store[i].ev \in Ref
      BY <2>1, Referenced
    <3>3. Elements(root(t).applied) \subseteq Elements(root(t)'.applied)
      <4>1. CASE root(t)'.applied = root(t).applied
        BY <4>1
      <4>2. CASE root(t)'.applied = Append(root(t).applied, store[i].ev)
        BY <3>1, <3>2, <4>2, AppendElements
      <4>3. QED
        BY <2>1, <4>1, <4>2
    <3>4. QED
      BY <2>1, <3>1, <3>3 DEF Keeps
  <2>3. QED
    BY <2>1, <2>2 DEF SameCommand
<1>7. ASSUME VersionCommand(t)
      PROVE  Frame
  BY <1>1, <1>7, VersionCommandEffect DEF SameCommand
<1>8. ASSUME AssignId(t)
      PROVE  Frame
  BY <1>1, <1>8, AssignIdEffect DEF SameCommand
<1>9. ASSUME Apply(t)
      PROVE  Frame
  <2>1. PICK m \in {1, 2} :
          /\ pc[t] = "execute"
          /\ DOMAIN events' = 1..(Len(events) + m)
          /\ \A e \in DOMAIN events' : e \notin DOMAIN events => events'[e].cmd = cmd[t]
          /\ DOMAIN root(t)'.recorded = 1..(Len(root(t).recorded) + m)
          /\ \A k \in DOMAIN root(t).recorded : root(t)'.recorded[k] = root(t).recorded[k]
          /\ root(t)'.applied = Append(root(t).applied, Len(events) + m)
          /\ UNCHANGED <<store, commands, published, pc, locals>>
          /\ Others(t)
    BY <1>9, ApplyRaises
  <2>2. Lifestyle = "singleton" => Keeps("shared")
    <3> SUFFICES ASSUME Lifestyle = "singleton"
                 PROVE  Keeps("shared")
      OBVIOUS
    <3>1. /\ root(t) = roots["shared"] /\ root(t)' = roots'["shared"]
          /\ root(t).applied \in Seq(Ref) /\ root(t).recorded \in Seq(Ref)
      BY RootTyped DEF root, Instance
    <3>2. Elements(root(t).applied) \subseteq Elements(root(t)'.applied)
      <4>1. Len(events) + m \in Ref
        BY Typed DEF Ref
      <4>2. QED
        BY <2>1, <3>1, <4>1, AppendElements
    <3>3. Elements(root(t).recorded) \subseteq Elements(root(t)'.recorded)
      <4>1. DOMAIN root(t).recorded = 1..Len(root(t).recorded) /\ Len(root(t).recorded) \in Nat
        BY <3>1
      <4>2. QED
        BY <2>1, <4>1 DEF Elements
    <3>4. QED
      BY <3>1, <3>2, <3>3 DEF Keeps
  <2>3. QED
    BY <2>1, <2>2 DEF SameCommand
<1>10. ASSUME Accept(t)
       PROVE  Frame
  BY <1>1, <1>10, AcceptEffect DEF SameCommand
<1>11. ASSUME Save(t)
       PROVE  Frame
  BY <1>1, <1>11, SaveEffect DEF SameCommand
<1>12. ASSUME Publish(t)
       PROVE  Frame
  BY <1>1, <1>12, PublishEffect, DeliverEffect DEF SameCommand, Publish
<1>13. ASSUME HandlerThrows(t)
       PROVE  Frame
  BY <1>3, <1>13, DeliverEffect DEF HandlerThrows
<1>14. QED
  BY <1>2, <1>3, <1>4, <1>5, <1>6, <1>7, <1>8, <1>9, <1>10, <1>11, <1>12, <1>13
     DEF Step, ValidatorRefuses, Load, Execute, ConsumerThrows, ReturnNothing, Stream,
         ModuleThrows, Complete

-----------------------------------------------------------------------------
(* A command that returned was heard, with either lifestyle.                *)

\* The events that command n raised: those of the domain, and the snapshots.
Raised(n) == {e \in DOMAIN events : events[e].cmd = n /\ events[e].kind # "created"}

\* Each event is of a command that was sent; the command of a thread inside Send has no
\* outcome yet.
EventsOwned == \A e \in DOMAIN events : events[e].cmd \in DOMAIN commands
Pending(t)  == pc[t] # "idle" => commands[cmd[t]].outcome = "pending"

\* A command has raised no event before its consumer runs; then its events are among the
\* changes of the instance, then among the copy of them, and those before next are heard.
Heard(t) ==
  /\ pc[t] \in {"sent", "note", "load", "assign"} => Raised(cmd[t]) = {}
  /\ pc[t] = "execute" => Raised(cmd[t]) \subseteq Elements(root(t).recorded)
  /\ pc[t] \in {"save", "publish"} => Raised(cmd[t]) \subseteq Elements(changes[t])
  /\ pc[t] = "publish" =>
       \A k \in DOMAIN changes[t] :
         k < next[t] => \E p \in published : p.ev = changes[t][k] /\ p.cmd = cmd[t]

HeardInv ==
  /\ EventsOwned
  /\ AckedDelivered
  /\ \A t \in Threads : Pending(t) /\ Heard(t)

\* No other thread adds to the events of a command.
LEMMA RaisedByOthers ==
  ASSUME TypeInv, TypeInv', OwnCommand, Grows, NEW t \in Threads, Step(t),
         NEW u \in Threads, u # t, pc[u] # "idle"
  PROVE  /\ Raised(cmd[u])' = Raised(cmd[u])
         /\ SameCommand(cmd[u])
         /\ pc[t] = "idle" \/ cmd[u] # cmd[t]
<1>1. pc[t] = "idle" \/ cmd[u] # cmd[t]
  BY DEF OwnCommand
<1>2. cmd'[u] = cmd[u] /\ SameCommand(cmd[u])
  BY <1>1, StepFrame, Referenced DEF Others
<1>3. \A e \in DOMAIN events' : e \in DOMAIN events \/ events'[e].cmd # cmd[u]
  BY <1>1, StepFrame
<1>4. QED
  BY <1>1, <1>2, <1>3 DEF Raised, Grows

LEMMA HeardByOthers ==
  ASSUME TypeInv, TypeInv', OwnCommand, Grows, NEW t \in Threads, Step(t),
         NEW u \in Threads, u # t, Pending(u), Heard(u)
  PROVE  (Pending(u) /\ Heard(u))'
<1>1. /\ pc'[u] = pc[u] /\ cmd'[u] = cmd[u] /\ changes'[u] = changes[u] /\ next'[u] = next[u]
      /\ Transient => roots'[u] = roots[u]
      /\ published \subseteq published'
      /\ Lifestyle = "singleton" => Keeps("shared")
  BY StepFrame DEF Others
<1>2. CASE pc[u] = "idle"
  BY <1>1, <1>2 DEF Pending, Heard
<1>3. CASE pc[u] # "idle"
  <2>1. Raised(cmd[u])' = Raised(cmd[u]) /\ SameCommand(cmd[u])
    BY <1>3, RaisedByOthers
  <2>2. Pending(u)'
    BY <1>1, <1>3, <2>1 DEF Pending, SameCommand
  <2>3. Elements(root(u).recorded) \subseteq Elements(root(u)'.recorded)
    BY <1>1, Lifestyles DEF Keeps, root, Instance, Transient
  <2>4. Heard(u)'
    BY <1>1, <2>1, <2>3 DEF Heard
  <2>5. QED
    BY <2>2, <2>4
<1>4. QED
  BY <1>2, <1>3

\* The outcome of a command is the only thing that AckedDelivered may lose.
LEMMA HeardOwn ==
  ASSUME TypeInv, TypeInv', OwnCommand, Grows, HeardInv, NEW t \in Threads, Step(t)
  PROVE  (Pending(t) /\ Heard(t))'
<1>1. Pending(t) /\ Heard(t)
  BY DEF HeardInv
<1>2. ASSUME NEW id \in Targets[t] \cup {NoId}, Send(t, id)
      PROVE  (Pending(t) /\ Heard(t))'
  <2>1. cmd'[t] = Len(commands) + 1 /\ events' = events
    BY <1>2, SendEffect
  <2>2. \A e \in DOMAIN events : events[e].cmd # Len(commands) + 1
    BY Typed DEF HeardInv, EventsOwned
  <2>3. Raised(cmd[t])' = {}
    BY <2>1, <2>2 DEF Raised
  <2>4. QED
    BY <1>2, <2>1, <2>3, SendEffect DEF Pending, Heard
<1>3. ASSUME NEW outcome, Return(t, outcome), pc[t] # "idle", roots' = roots
      PROVE  (Pending(t) /\ Heard(t))'
  BY <1>3, ReturnEffect DEF Pending, Heard
<1>4. ASSUME pc[t] \in {"sent", "note", "load", "assign"},
             pc'[t] \in {"note", "load", "assign", "execute"},
             cmd'[t] = cmd[t], commands'[cmd[t]].outcome = commands[cmd[t]].outcome,
             \A e \in DOMAIN events' : e \in DOMAIN events \/ events'[e].kind = "created"
      PROVE  (Pending(t) /\ Heard(t))'
  <2>1. Raised(cmd[t])' = {}
    BY <1>1, <1>4 DEF Heard, Raised, Grows
  <2>2. QED
    BY <1>1, <1>4, <2>1 DEF Heard, Pending, SameCommand
<1>5. ASSUME Get(t)
      PROVE  (Pending(t) /\ Heard(t))'
  BY <1>4, <1>5, GetEffect DEF SameCommand
<1>6. ASSUME NoteAggregateCreated(t)
      PROVE  (Pending(t) /\ Heard(t))'
  BY <1>4, <1>6, NoteEffect, Typed, Referenced DEF SameCommand, locals
<1>7. ASSUME LoadEvent(t)
      PROVE  (Pending(t) /\ Heard(t))'
  BY <1>4, <1>7, LoadEventEffect, Referenced DEF SameCommand
<1>8. ASSUME VersionCommand(t)
      PROVE  (Pending(t) /\ Heard(t))'
  BY <1>4, <1>8, VersionCommandEffect, Referenced DEF SameCommand, locals
<1>9. ASSUME AssignId(t)
      PROVE  (Pending(t) /\ Heard(t))'
  BY <1>4, <1>9, AssignIdEffect, Referenced DEF SameCommand, locals
<1>10. ASSUME Apply(t)
       PROVE  (Pending(t) /\ Heard(t))'
  <2>1. PICK m \in {1, 2} :
          /\ pc[t] = "execute"
          /\ DOMAIN events' = 1..(Len(events) + m)
          /\ DOMAIN root(t)'.recorded = 1..(Len(root(t).recorded) + m)
          /\ \A k \in DOMAIN root(t).recorded : root(t)'.recorded[k] = root(t).recorded[k]
          /\ \A k \in 1..m : root(t)'.recorded[Len(root(t).recorded) + k] = Len(events) + k
          /\ UNCHANGED <<store, commands, published, pc, locals>>
    BY <1>10, ApplyRaises
  <2>2. /\ DOMAIN root(t).recorded = 1..Len(root(t).recorded)
        /\ Len(root(t).recorded) \in Nat
    BY RootTyped
  <2>3. Elements(root(t).recorded) \subseteq Elements(root(t)'.recorded)
    BY <2>1, <2>2 DEF Elements
  <2>4. \A e \in DOMAIN events' : e \in DOMAIN events \/ e \in Elements(root(t)'.recorded)
    <3> SUFFICES ASSUME NEW e \in DOMAIN events', e \notin DOMAIN events
                 PROVE  e \in Elements(root(t)'.recorded)
      OBVIOUS
    <3>1. PICK k \in 1..m : e = Len(events) + k
      BY <2>1, Typed
    <3>2. Len(root(t).recorded) + k \in DOMAIN root(t)'.recorded
      BY <2>1, <2>2
    <3>3. QED
      BY <2>1, <3>1, <3>2 DEF Elements
  <2>5. cmd'[t] = cmd[t]
    BY <2>1 DEF locals
  <2>6. Raised(cmd[t])' \subseteq Elements(root(t)'.recorded)
    BY <1>1, <2>1, <2>3, <2>4, <2>5 DEF Heard, Raised, Grows
  <2>7. QED
    BY <1>1, <2>1, <2>5, <2>6 DEF Pending, Heard
<1>11. ASSUME Accept(t)
       PROVE  (Pending(t) /\ Heard(t))'
  <2>1. Raised(cmd[t])' = Raised(cmd[t]) /\ cmd' = cmd
    BY <1>11, AcceptEffect DEF Raised
  <2>2. \A k \in DOMAIN changes'[t] : ~ (k < next'[t])
    BY <1>11, AcceptEffect, RootTyped
  <2>3. QED
    BY <1>1, <1>11, <2>1, <2>2, AcceptEffect DEF Pending, Heard
<1>12. ASSUME Save(t)
       PROVE  (Pending(t) /\ Heard(t))'
  <2>1. Raised(cmd[t])' = Raised(cmd[t]) /\ UNCHANGED <<cmd, commands, changes>>
    BY <1>12, SaveEffect DEF Raised
  <2>2. pc'[t] = "publish" => \A k \in DOMAIN changes[t] : ~ (k < next'[t])
    <3>1. \A k \in DOMAIN changes[t] : k \in Nat /\ 1 <= k
      BY Typed
    <3>2. pc'[t] = "publish" => next'[t] = 1
      BY <1>12, SaveEffect
    <3>3. QED
      BY <3>1, <3>2
  <2>3. QED
    BY <1>1, <1>12, <2>1, <2>2, SaveEffect DEF Pending, Heard
<1>13. ASSUME Publish(t)
       PROVE  (Pending(t) /\ Heard(t))'
  <2>1. Deliver(t)
    BY <1>13 DEF Publish
  <2>2. Raised(cmd[t])' = Raised(cmd[t]) /\ UNCHANGED <<cmd, commands, changes, pc>>
    BY <1>13, PublishEffect DEF Raised
  <2>3. ASSUME NEW k \in DOMAIN changes[t], k < next'[t]
        PROVE  \E p \in published' : p.ev = changes[t][k] /\ p.cmd = cmd[t]
    <3>1. CASE k = next[t]
      BY <2>1, <3>1, DeliverEffect
    <3>2. CASE k # next[t]
      <4>1. k < next[t]
        BY <1>13, <2>3, <3>2, PublishEffect, Typed DEF Ref
      <4>2. QED
        BY <1>1, <2>1, <4>1, DeliverEffect DEF Heard
    <3>3. QED
      BY <3>1, <3>2
  <2>4. QED
    BY <1>1, <2>1, <2>2, <2>3, DeliverEffect DEF Pending, Heard
<1>14. QED
  BY <1>2, <1>3, <1>5, <1>6, <1>7, <1>8, <1>9, <1>10, <1>11, <1>12, <1>13
     DEF Step, ValidatorRefuses, Load, Execute, ConsumerThrows, ReturnNothing, Stream,
         HandlerThrows, Deliver, ModuleThrows, Complete

LEMMA EventsOwnedStep ==
  ASSUME TypeInv, TypeInv', EventsOwned, Grows, NEW t \in Threads, Step(t)
  PROVE  EventsOwned'
<1>1. DOMAIN commands \subseteq DOMAIN commands'
  BY StepFrame
<1>2. \A n \in {cmd[t]} : pc[t] # "idle" => n \in DOMAIN commands
  BY Referenced
<1>3. QED
  BY <1>1, <1>2, StepFrame DEF EventsOwned, Grows

\* Inside Send a step goes on with the command, or ends it with an outcome that depends on
\* where the thread is.
LEMMA StepStays ==
  ASSUME TypeInv, NEW t \in Threads, Step(t), pc[t] # "idle"
  PROVE  \/ /\ pc'[t] # "idle" /\ cmd'[t] = cmd[t]
            /\ commands'[cmd[t]].outcome = commands[cmd[t]].outcome
         \/ /\ pc[t] \in {"sent", "execute"} /\ UNCHANGED <<events, store, published>>
            /\ pc'[t] = "idle" /\ commands'[cmd[t]].outcome \in {"refused", "nothing"}
         \/ /\ pc[t] = "publish" /\ UNCHANGED <<events, store>>
            /\ pc'[t] = "idle" /\ commands'[cmd[t]].outcome = "failed"
         \/ /\ pc[t] = "publish" /\ next[t] > Len(changes[t])
            /\ UNCHANGED <<events, store, published>>
            /\ pc'[t] = "idle" /\ commands'[cmd[t]].outcome = "done"
<1> DEFINE Goes == /\ pc'[t] # "idle" /\ cmd'[t] = cmd[t]
                   /\ commands'[cmd[t]].outcome = commands[cmd[t]].outcome
<1>1. ASSUME Get(t) PROVE Goes
  BY <1>1, GetEffect
<1>2. ASSUME NoteAggregateCreated(t) PROVE Goes
  BY <1>2, NoteEffect DEF locals
<1>3. ASSUME LoadEvent(t) PROVE Goes
  BY <1>3, LoadEventEffect
<1>4. ASSUME VersionCommand(t) PROVE Goes
  BY <1>4, VersionCommandEffect, Referenced DEF locals
<1>5. ASSUME AssignId(t) PROVE Goes
  BY <1>5, AssignIdEffect DEF locals
<1>6. ASSUME Apply(t) PROVE Goes
  BY <1>6, ApplyRaises DEF locals
<1>7. ASSUME Accept(t) PROVE Goes
  BY <1>7, AcceptEffect
<1>8. ASSUME Save(t) PROVE Goes
  BY <1>8, SaveEffect
<1>9. ASSUME Publish(t) PROVE Goes
  BY <1>9, PublishEffect
<1>10. ASSUME NEW outcome, Return(t, outcome), roots' = roots
       PROVE  pc'[t] = "idle" /\ commands'[cmd[t]].outcome = outcome
  BY <1>10, ReturnEffect
<1>11. CASE ValidatorRefuses(t) \/ ConsumerThrows(t) \/ ReturnNothing(t)
  BY <1>10, <1>11 DEF ValidatorRefuses, ConsumerThrows, ReturnNothing
<1>12. CASE HandlerThrows(t) \/ ModuleThrows(t)
  BY <1>10, <1>12 DEF HandlerThrows, Deliver, ModuleThrows
<1>13. CASE Complete(t)
  BY <1>10, <1>13 DEF Complete
<1>14. CASE \E id \in Targets[t] \cup {NoId} : Send(t, id)
  BY <1>14 DEF Send
<1>15. QED
  BY <1>1, <1>2, <1>3, <1>4, <1>5, <1>6, <1>7, <1>8, <1>9, <1>11, <1>12, <1>13, <1>14
     DEF Step, Load, Execute, Stream

LEMMA AckedDeliveredStep ==
  ASSUME TypeInv, TypeInv', OwnCommand, Grows, HeardInv, NEW t \in Threads, Step(t)
  PROVE  AckedDelivered'
<1>1. Pending(t) /\ Heard(t) /\ EventsOwned /\ AckedDelivered
  BY DEF HeardInv
<1> SUFFICES ASSUME NEW e \in DOMAIN events',
                    events'[e].kind = "domain", commands'[events'[e].cmd].outcome = "done"
             PROVE  \E p \in published' : p.ev = e /\ p.cmd = events'[e].cmd
  BY DEF AckedDelivered
<1>2. CASE pc[t] = "idle" \/ events'[e].cmd # cmd[t]
  <2>1. e \in DOMAIN events
    BY <1>2, StepFrame
  <2>2. /\ events[e].kind = "domain" /\ events[e].cmd = events'[e].cmd
        /\ SameCommand(events[e].cmd)
    BY <1>1, <1>2, <2>1, StepFrame DEF Grows, EventsOwned
  <2>3. \E p \in published : p.ev = e /\ p.cmd = events[e].cmd
    BY <1>1, <2>1, <2>2 DEF AckedDelivered, SameCommand
  <2>4. QED
    BY <2>2, <2>3, StepFrame
<1>3. CASE pc[t] # "idle" /\ events'[e].cmd = cmd[t]
  <2>1. /\ pc[t] = "publish" /\ next[t] > Len(changes[t])
        /\ UNCHANGED <<events, published>>
    BY <1>1, <1>3, StepStays DEF Pending
  <2>2. e \in Raised(cmd[t])
    BY <1>3, <2>1 DEF Raised
  <2>3. PICK k \in DOMAIN changes[t] : changes[t][k] = e
    BY <1>1, <2>1, <2>2 DEF Heard, Elements
  <2>4. k < next[t]
    BY <2>1, Typed DEF Ref
  <2>5. QED
    BY <1>1, <1>3, <2>1, <2>3, <2>4 DEF Heard
<1>4. QED
  BY <1>2, <1>3

LEMMA NextStep == [Next]_vars => (\E t \in Threads : Step(t)) \/ UNCHANGED vars
BY DEF Next, Step

LEMMA HeardInit == Init => HeardInv
BY DEF Init, HeardInv, EventsOwned, AckedDelivered, Pending, Heard

LEMMA HeardStep ==
  ASSUME TypeInv, TypeInv', CreationInv, HeardInv, [Next]_vars
  PROVE  HeardInv'
<1>1. Grows /\ OwnCommand
  BY StepGrows DEF CreationInv
<1>2. ASSUME NEW t \in Threads, Step(t)
      PROVE  HeardInv'
  <2>1. EventsOwned'
    BY <1>1, <1>2, EventsOwnedStep DEF HeardInv
  <2>2. AckedDelivered'
    BY <1>1, <1>2, AckedDeliveredStep
  <2>3. ASSUME NEW u \in Threads
        PROVE  (Pending(u) /\ Heard(u))'
    <3>1. CASE u = t
      BY <1>1, <1>2, <3>1, HeardOwn
    <3>2. CASE u # t
      BY <1>1, <1>2, <3>2, HeardByOthers DEF HeardInv
    <3>3. QED
      BY <3>1, <3>2
  <2>4. QED
    BY <2>1, <2>2, <2>3 DEF HeardInv
<1>3. CASE UNCHANGED vars
  BY <1>3 DEF vars, locals, HeardInv, EventsOwned, AckedDelivered, Pending, Heard, Raised, root,
     Instance
<1>4. QED
  BY <1>2, <1>3, NextStep

\* With either lifestyle: when Send returns without an exception, the handlers were given
\* every event the command raised, although several threads apply to one instance and accept
\* its changes (InProcessCommandBus.Send, UnitOfWork.Accept).
THEOREM AckedHeard == Spec => []AckedDelivered
<1>1. Init => TypeInv /\ CreationInv /\ HeardInv
  BY TypeInit, CreationInit, HeardInit
<1>2. TypeInv /\ CreationInv /\ HeardInv /\ [Next]_vars => (TypeInv /\ CreationInv /\ HeardInv)'
  BY TypeStep, CreationStep, HeardStep
<1>3. HeardInv => AckedDelivered
  BY DEF HeardInv
<1>4. QED
  BY <1>1, <1>2, <1>3, PTL DEF Spec

-----------------------------------------------------------------------------
(* With an instance per command, what a command leaves in the storage.      *)

\* Loading stamps only events that are filed.
LEMMA StampsKept ==
  ASSUME TypeInv, NEW t \in Threads, Step(t), NEW e \in DOMAIN events, ~ IsFiled(e)
  PROVE  events'[e] = events[e]
<1>1. ASSUME LoadEvent(t) PROVE events'[e] = events[e]
  BY <1>1, LoadEventEffect DEF IsFiled
<1>2. ASSUME NoteAggregateCreated(t) PROVE events'[e] = events[e]
  BY <1>2, NoteEffect
<1>3. ASSUME Apply(t) PROVE events'[e] = events[e]
  BY <1>3, ApplyRaises
<1>4. QED
  BY <1>1, <1>2, <1>3 DEF Step, Send, ValidatorRefuses, Load, Get, VersionCommand, AssignId,
     Execute, ConsumerThrows, ReturnNothing, Accept, Stream, Save, Publish, HandlerThrows,
     ModuleThrows, Complete

\* An entry is added by the note of a creation or by Save.
LEMMA NewEntry ==
  ASSUME TypeInv, NEW t \in Threads, Step(t), NEW i \in DOMAIN store', i \notin DOMAIN store
  PROVE  /\ i = Len(store) + 1
         /\ UNCHANGED <<commands, cmd, target, published>> /\ pc'[t] # "idle"
         /\ \/ /\ pc[t] = "note" /\ store'[i].ev = Len(events) + 1 /\ store'[i].src = target[t]
               /\ events'[Len(events) + 1].cmd = cmd[t]
               /\ events'[Len(events) + 1].kind = "created"
            \/ /\ pc[t] = "save" /\ next[t] \in DOMAIN changes[t] /\ UNCHANGED events
               /\ store'[i].ev = changes[t][next[t]]
               /\ store'[i].src = events[changes[t][next[t]]].src
<1>1. CASE NoteAggregateCreated(t)
  <2>1. i = Len(store) + 1
    BY <1>1, NoteEffect, Typed
  <2>2. QED
    BY <1>1, <2>1, NoteEffect DEF locals
<1>2. CASE Save(t)
  <2>1. i = Len(store) + 1
    BY <1>2, SaveEffect, Typed
  <2>2. QED
    BY <1>2, <2>1, SaveEffect
<1>3. QED
  BY <1>1, <1>2 DEF Step, Send, ValidatorRefuses, Load, Get, LoadEvent, VersionCommand, AssignId,
     Execute, Apply, ConsumerThrows, ReturnNothing, Accept, Stream, Publish, HandlerThrows,
     ModuleThrows, Complete

\* Only Get changes which aggregate a command is about.
LEMMA IdsOfCommandsKept ==
  ASSUME TypeInv, NEW t \in Threads, Step(t), NEW n \in DOMAIN commands,
         n # cmd[t] \/ pc[t] # "sent"
  PROVE  commands'[n].id = commands[n].id
<1>1. ASSUME NEW outcome, Return(t, outcome), pc[t] # "idle", roots' = roots
      PROVE  commands'[n].id = commands[n].id
  BY <1>1, ReturnEffect
<1>2. ASSUME Get(t)
      PROVE  commands'[n].id = commands[n].id
  BY <1>2, GetEffect
<1>3. ASSUME VersionCommand(t)
      PROVE  commands'[n].id = commands[n].id
  BY <1>3, VersionCommandEffect
<1>4. ASSUME NEW id \in Targets[t] \cup {NoId}, Send(t, id)
      PROVE  commands'[n].id = commands[n].id
  BY <1>4, SendEffect
<1>5. QED
  BY <1>1, <1>2, <1>3, <1>4 DEF Step, ValidatorRefuses, Load, NoteAggregateCreated, LoadEvent,
     AssignId, Execute, Apply, ConsumerThrows, ReturnNothing, Accept, Stream, Save, Publish,
     HandlerThrows, Deliver, ModuleThrows, Complete

\* With an instance per command: the command is about the aggregate that was loaded, no
\* event is of the command before that aggregate was looked for, and the events of the
\* command carry the aggregate's identifier until they are saved.
Addressed(t) ==
  Transient =>
    /\ pc[t] \in {"sent", "note"} => \A e \in DOMAIN events : events[e].cmd # cmd[t]
    /\ pc[t] \notin {"idle", "sent"} => commands[cmd[t]].id = target[t] /\ target[t] \in Ids
    /\ pc[t] = "execute" =>
         /\ root(t).id = target[t]
         /\ \A k \in DOMAIN root(t).recorded : events[root(t).recorded[k]].src = target[t]
    /\ pc[t] = "save" =>
         \A k \in DOMAIN changes[t] : next[t] <= k => events[changes[t][k]].src = target[t]

\* The changes of an instance are events of its command, each once.
OwnChanges(t) ==
  Transient =>
    /\ pc[t] = "execute" =>
         \A k \in DOMAIN root(t).recorded : events[root(t).recorded[k]].kind # "created"
    /\ pc[t] \in {"save", "publish"} =>
         /\ Ascending(changes[t])
         /\ \A k \in DOMAIN changes[t] : /\ events[changes[t][k]].cmd = cmd[t]
                                         /\ events[changes[t][k]].kind # "created"

\* An entry is in the stream that its event's command addressed.
FiledAtSource ==
  \A i \in DOMAIN store :
    store[i].src \in Ids /\ commands[events[store[i].ev].cmd].id = store[i].src

FiledOnce == \A i, j \in DOMAIN store : store[i].ev = store[j].ev => i = j

AckedFiled ==
  \A e \in DOMAIN events :
    (events[e].kind = "domain" /\ commands[events[e].cmd].outcome = "done") => IsFiled(e)

FiledInv ==
  /\ \A t \in Threads : Addressed(t) /\ OwnChanges(t)
  /\ Transient => FiledAtSource /\ FiledOnce /\ AckedFiled /\ RefusedLeavesNoTrace

\* What Isolated says of the events that are not yet saved.
LEMMA Unsaved ==
  ASSUME TypeInv, CreationInv, Transient, NEW t \in Threads
  PROVE  /\ pc[t] \in {"note", "load", "assign"} => root(t).recorded = <<>>
         /\ pc[t] = "execute" =>
              /\ Ascending(root(t).recorded)
              /\ \A k \in DOMAIN root(t).recorded :
                   /\ events[root(t).recorded[k]].cmd = cmd[t]
                   /\ ~ IsFiled(root(t).recorded[k])
         /\ pc[t] = "save" =>
              \A k \in DOMAIN changes[t] : next[t] <= k =>
                /\ events[changes[t][k]].cmd = cmd[t]
                /\ ~ IsFiled(changes[t][k])
BY DEF CreationInv, Isolated, Private, Transient

LEMMA AddressedByOthers ==
  ASSUME TypeInv, TypeInv', CreationInv, Grows, NEW t \in Threads, Step(t),
         NEW u \in Threads, u # t, Addressed(u), OwnChanges(u)
  PROVE  (Addressed(u) /\ OwnChanges(u))'
<1> SUFFICES ASSUME Transient
             PROVE  (Addressed(u) /\ OwnChanges(u))'
  BY DEF Addressed, OwnChanges, Transient
<1>1. /\ pc'[u] = pc[u] /\ cmd'[u] = cmd[u] /\ changes'[u] = changes[u] /\ next'[u] = next[u]
      /\ target'[u] = target[u] /\ root(u)' = root(u)
  BY StepFrame DEF Others, root, Instance, Transient
<1>2. CASE pc[u] = "idle"
  BY <1>1, <1>2 DEF Addressed, OwnChanges
<1>3. CASE pc[u] # "idle"
  <2>1. SameCommand(cmd[u]) /\ (pc[t] = "idle" \/ cmd[u] # cmd[t])
    BY <1>3, RaisedByOthers DEF CreationInv
  <2>2. \A e \in DOMAIN events' : e \in DOMAIN events \/ events'[e].cmd # cmd[u]
    BY <2>1, StepFrame
  <2>3. pc[u] = "execute" => \A k \in DOMAIN root(u).recorded :
          events'[root(u).recorded[k]].src = events[root(u).recorded[k]].src
    BY StampsKept, Unsaved, Referenced
  <2>4. pc[u] = "save" => \A k \in DOMAIN changes[u] :
          next[u] <= k => events'[changes[u][k]].src = events[changes[u][k]].src
    BY StampsKept, Unsaved, Referenced
  <2>5. Addressed(u)'
    BY <1>1, <2>1, <2>2, <2>3, <2>4 DEF Addressed, SameCommand, Grows
  <2>6. OwnChanges(u)'
    BY <1>1, Referenced DEF OwnChanges, Grows
  <2>7. QED
    BY <2>5, <2>6
<1>4. QED
  BY <1>2, <1>3

LEMMA AddressedOwn ==
  ASSUME TypeInv, TypeInv', CreationInv, Grows, HeardInv, NEW t \in Threads, Step(t),
         Addressed(t), OwnChanges(t)
  PROVE  (Addressed(t) /\ OwnChanges(t))'
<1> DEFINE Goal == (Addressed(t) /\ OwnChanges(t))'
<1> SUFFICES ASSUME Transient
             PROVE  Goal
  BY DEF Addressed, OwnChanges, Transient
<1>1. ASSUME NEW id \in Targets[t] \cup {NoId}, Send(t, id)
      PROVE  Goal
  <2>1. \A e \in DOMAIN events : events[e].cmd # Len(commands) + 1
    BY Typed DEF HeardInv, EventsOwned
  <2>2. QED
    BY <1>1, <2>1, SendEffect DEF Addressed, OwnChanges
<1>2. ASSUME NEW outcome, Return(t, outcome), pc[t] # "idle", roots' = roots
      PROVE  Goal
  BY <1>2, ReturnEffect DEF Addressed, OwnChanges
<1>3. ASSUME Get(t)
      PROVE  Goal
  BY <1>3, GetEffect DEF Addressed, OwnChanges
<1>4. ASSUME NoteAggregateCreated(t)
      PROVE  Goal
  BY <1>4, NoteEffect DEF Addressed, OwnChanges, locals
<1>5. ASSUME LoadEvent(t)
      PROVE  Goal
  BY <1>5, LoadEventEffect DEF Addressed, OwnChanges
<1>6. ASSUME VersionCommand(t)
      PROVE  Goal
  BY <1>6, VersionCommandEffect, Referenced DEF Addressed, OwnChanges, locals
<1>7. ASSUME AssignId(t)
      PROVE  Goal
  <2>1. root(t)'.recorded = <<>>
    BY <1>7, AssignIdEffect, Unsaved, RootTyped DEF root, Instance
  <2>2. QED
    BY <1>7, <2>1, AssignIdEffect DEF Addressed, OwnChanges, locals
<1>8. ASSUME Apply(t)
      PROVE  Goal
  <2>1. PICK m \in {1, 2} :
          /\ pc[t] = "execute"
          /\ DOMAIN events' = 1..(Len(events) + m)
          /\ \A e \in DOMAIN events : events'[e] = events[e]
          /\ \A e \in DOMAIN events' : e \notin DOMAIN events =>
               events'[e].src = root(t).id /\ events'[e].kind # "created"
          /\ DOMAIN root(t)'.recorded = 1..(Len(root(t).recorded) + m)
          /\ \A k \in DOMAIN root(t).recorded : root(t)'.recorded[k] = root(t).recorded[k]
          /\ \A k \in 1..m : root(t)'.recorded[Len(root(t).recorded) + k] = Len(events) + k
          /\ root(t)'.id = root(t).id
          /\ UNCHANGED <<store, commands, published, pc, locals>>
    BY <1>8, ApplyRaises
  <2>2. /\ DOMAIN root(t).recorded = 1..Len(root(t).recorded)
        /\ Len(root(t).recorded) \in Nat
    BY RootTyped
  <2>3. root(t).id = target[t]
    BY <2>1 DEF Addressed
  <2>4. ASSUME NEW k \in DOMAIN root(t)'.recorded
        PROVE  /\ events'[root(t)'.recorded[k]].src = target[t]
               /\ events'[root(t)'.recorded[k]].kind # "created"
    <3>1. CASE k \in DOMAIN root(t).recorded
      BY <2>1, <3>1, Referenced DEF Addressed, OwnChanges
    <3>2. CASE k \notin DOMAIN root(t).recorded
      <4>1. PICK l \in 1..m : k = Len(root(t).recorded) + l
        BY <2>1, <2>2, <3>2
      <4>2. /\ root(t)'.recorded[k] = Len(events) + l
            /\ Len(events) + l \in DOMAIN events' /\ Len(events) + l \notin DOMAIN events
        BY <2>1, <4>1, Typed
      <4>3. QED
        BY <2>1, <2>3, <4>2
    <3>3. QED
      BY <3>1, <3>2
  <2>5. QED
    BY <2>1, <2>3, <2>4 DEF Addressed, OwnChanges, locals
<1>9. ASSUME Accept(t)
      PROVE  Goal
  BY <1>9, AcceptEffect, Unsaved DEF Addressed, OwnChanges
<1>10. ASSUME Save(t)
       PROVE  Goal
  <2>1. \A k \in DOMAIN changes[t] : next[t] + 1 <= k => next[t] <= k
    BY Typed DEF Ref
  <2>2. QED
    BY <1>10, <2>1, SaveEffect DEF Addressed, OwnChanges
<1>11. ASSUME Publish(t)
       PROVE  Goal
  BY <1>11, PublishEffect, DeliverEffect DEF Addressed, OwnChanges, Publish
<1>12. QED
  BY <1>1, <1>2, <1>3, <1>4, <1>5, <1>6, <1>7, <1>8, <1>9, <1>10, <1>11
     DEF Step, ValidatorRefuses, Load, Execute, ConsumerThrows, ReturnNothing, Stream,
         HandlerThrows, Deliver, ModuleThrows, Complete

LEMMA FiledAtSourceStep ==
  ASSUME TypeInv, CreationInv, Grows, HeardInv, FiledInv, Transient,
         NEW t \in Threads, Step(t)
  PROVE  FiledAtSource'
<1>1. Addressed(t) /\ FiledAtSource /\ EventsOwned
  BY DEF FiledInv, HeardInv
<1> SUFFICES ASSUME NEW i \in DOMAIN store'
             PROVE  /\ store'[i].src \in Ids
                    /\ commands'[events'[store'[i].ev].cmd].id = store'[i].src
  BY DEF FiledAtSource
<1>2. CASE i \in DOMAIN store
  <2> DEFINE n == events[store[i].ev].cmd
  <2>1. store'[i] = store[i] /\ events'[store[i].ev].cmd = n /\ n \in DOMAIN commands
    BY <1>1, <1>2, Referenced DEF Grows, EventsOwned
  <2>2. n # cmd[t] \/ pc[t] # "sent"
    BY <1>1, <1>2, Referenced DEF Addressed
  <2>3. commands'[n].id = commands[n].id
    BY <2>1, <2>2, IdsOfCommandsKept
  <2>4. QED
    BY <1>1, <1>2, <2>1, <2>3 DEF FiledAtSource
<1>3. CASE i \notin DOMAIN store
  <2>1. commands' = commands
    BY <1>3, NewEntry
  <2>2. CASE pc[t] = "note"
    BY <1>1, <1>3, <2>1, <2>2, NewEntry DEF Addressed
  <2>3. CASE pc[t] = "save"
    <3>1. /\ next[t] \in DOMAIN changes[t] /\ events' = events
          /\ store'[i].ev = changes[t][next[t]]
          /\ store'[i].src = events[changes[t][next[t]]].src
      BY <1>3, <2>3, NewEntry
    <3>2. next[t] <= next[t]
      BY Typed DEF Ref
    <3>3. /\ events[changes[t][next[t]]].src = target[t]
          /\ events[changes[t][next[t]]].cmd = cmd[t]
          /\ commands[cmd[t]].id = target[t] /\ target[t] \in Ids
      BY <1>1, <2>3, <3>1, <3>2, Unsaved DEF Addressed
    <3>4. QED
      BY <2>1, <3>1, <3>3
  <2>4. QED
    BY <1>3, <2>2, <2>3, NewEntry
<1>4. QED
  BY <1>2, <1>3

LEMMA FiledOnceStep ==
  ASSUME TypeInv, CreationInv, Grows, FiledOnce, Transient, NEW t \in Threads, Step(t)
  PROVE  FiledOnce'
<1>1. ASSUME NEW i \in DOMAIN store', i \notin DOMAIN store
      PROVE  ~ IsFiled(store'[i].ev)
  <2>1. CASE pc[t] = "note"
    <3>1. store'[i].ev = Len(events) + 1
      BY <1>1, <2>1, NewEntry
    <3>2. Len(events) + 1 \notin DOMAIN events
      BY Typed
    <3>3. QED
      BY <3>1, <3>2, Referenced DEF IsFiled
  <2>2. CASE pc[t] = "save"
    <3>1. next[t] <= next[t]
      BY Typed DEF Ref
    <3>2. QED
      BY <1>1, <2>2, <3>1, NewEntry, Unsaved
  <2>3. QED
    BY <1>1, <2>1, <2>2, NewEntry
<1>2. \A i, j \in DOMAIN store' : (i \notin DOMAIN store /\ j \notin DOMAIN store) => i = j
  BY NewEntry
<1>3. \A i \in DOMAIN store' : \A j \in DOMAIN store' :
        (i \in DOMAIN store /\ j \notin DOMAIN store) => store'[i].ev # store'[j].ev
  BY <1>1 DEF IsFiled, Grows
<1>4. QED
  BY <1>2, <1>3 DEF FiledOnce, Grows

LEMMA AckedFiledStep ==
  ASSUME TypeInv, TypeInv', CreationInv, Grows, SavedInv, HeardInv, AckedFiled,
         NEW t \in Threads, Step(t)
  PROVE  AckedFiled'
<1>1. Pending(t) /\ Heard(t) /\ EventsOwned /\ Saved(t)
  BY DEF HeardInv, SavedInv
<1> SUFFICES ASSUME NEW e \in DOMAIN events',
                    events'[e].kind = "domain", commands'[events'[e].cmd].outcome = "done"
             PROVE  IsFiled(e)'
  BY DEF AckedFiled
<1>2. CASE pc[t] = "idle" \/ events'[e].cmd # cmd[t]
  <2>1. e \in DOMAIN events
    BY <1>2, StepFrame
  <2>2. /\ events[e].kind = "domain" /\ events[e].cmd = events'[e].cmd
        /\ SameCommand(events[e].cmd)
    BY <1>1, <1>2, <2>1, StepFrame DEF Grows, EventsOwned
  <2>3. IsFiled(e)
    BY <2>1, <2>2 DEF AckedFiled, SameCommand
  <2>4. QED
    BY <2>3, FiledKept DEF IsFiled
<1>3. CASE pc[t] # "idle" /\ events'[e].cmd = cmd[t]
  <2>1. /\ pc[t] = "publish" /\ UNCHANGED <<events, store>>
    BY <1>1, <1>3, StepStays DEF Pending
  <2>2. e \in Raised(cmd[t])
    BY <1>3, <2>1 DEF Raised
  <2>3. PICK k \in DOMAIN changes[t] : changes[t][k] = e
    BY <1>1, <2>1, <2>2 DEF Heard, Elements
  <2>4. QED
    BY <1>1, <2>1, <2>3 DEF Saved, IsFiled
<1>4. QED
  BY <1>2, <1>3

LEMMA RefusedStep ==
  ASSUME TypeInv, TypeInv', CreationInv, Grows, HeardInv, FiledInv, Transient,
         NEW t \in Threads, Step(t)
  PROVE  RefusedLeavesNoTrace'
<1>1. /\ Pending(t) /\ Heard(t) /\ EventsOwned /\ Addressed(t) /\ RefusedLeavesNoTrace
  BY DEF HeardInv, FiledInv
<1> SUFFICES ASSUME NEW i \in DOMAIN store', events'[store'[i].ev].kind # "created"
             PROVE  commands'[events'[store'[i].ev].cmd].outcome \notin {"refused", "nothing"}
  BY DEF RefusedLeavesNoTrace
<1>2. CASE i \notin DOMAIN store
  <2>1. /\ pc[t] = "save" /\ UNCHANGED <<commands, events>>
        /\ next[t] \in DOMAIN changes[t] /\ store'[i].ev = changes[t][next[t]]
    BY <1>2, NewEntry
  <2>2. next[t] <= next[t]
    BY Typed DEF Ref
  <2>3. events[store'[i].ev].cmd = cmd[t]
    BY <2>1, <2>2, Unsaved
  <2>4. QED
    BY <1>1, <2>1, <2>3 DEF Pending
<1>3. CASE i \in DOMAIN store
  <2> DEFINE e == store[i].ev
  <2>1. /\ store'[i].ev = e /\ e \in DOMAIN events
        /\ events'[e].cmd = events[e].cmd /\ events[e].kind # "created"
        /\ events[e].cmd \in DOMAIN commands
    BY <1>1, <1>3, Referenced DEF Grows, EventsOwned
  <2>2. commands[events[e].cmd].outcome \notin {"refused", "nothing"}
    BY <1>1, <1>3, <2>1 DEF RefusedLeavesNoTrace
  <2>3. CASE pc[t] = "idle" \/ events[e].cmd # cmd[t]
    BY <2>1, <2>2, <2>3, StepFrame DEF SameCommand
  <2>4. CASE pc[t] # "idle" /\ events[e].cmd = cmd[t]
    <3>1. pc[t] # "sent"
      BY <1>1, <2>1, <2>4 DEF Addressed
    <3>2. pc[t] # "execute"
      <4> SUFFICES ASSUME pc[t] = "execute"
                   PROVE  FALSE
        OBVIOUS
      <4>1. e \in Raised(cmd[t])
        BY <2>1, <2>4 DEF Raised
      <4>2. PICK k \in DOMAIN root(t).recorded : root(t).recorded[k] = e
        BY <1>1, <4>1 DEF Heard, Elements
      <4>3. IsFiled(e)
        BY <1>3 DEF IsFiled
      <4>4. QED
        BY <4>2, <4>3, Unsaved
    <3>3. QED
      BY <2>1, <2>2, <2>4, <3>1, <3>2, StepStays
  <2>5. QED
    BY <2>3, <2>4
<1>4. QED
  BY <1>2, <1>3

LEMMA FiledInit == Init => FiledInv
BY DEF Init, FiledInv, Addressed, OwnChanges, FiledAtSource, FiledOnce, AckedFiled,
   RefusedLeavesNoTrace

LEMMA FiledStep ==
  ASSUME TypeInv, TypeInv', CreationInv, SavedInv, HeardInv, FiledInv, [Next]_vars
  PROVE  FiledInv'
<1>1. Grows
  BY StepGrows
<1>2. ASSUME NEW t \in Threads, Step(t)
      PROVE  FiledInv'
  <2>1. ASSUME NEW u \in Threads
        PROVE  (Addressed(u) /\ OwnChanges(u))'
    <3>1. Addressed(u) /\ OwnChanges(u)
      BY DEF FiledInv
    <3>2. CASE u = t
      BY <1>1, <1>2, <3>1, <3>2, AddressedOwn
    <3>3. CASE u # t
      BY <1>1, <1>2, <3>1, <3>3, AddressedByOthers
    <3>4. QED
      BY <3>2, <3>3
  <2>2. Transient => (FiledAtSource /\ FiledOnce /\ AckedFiled /\ RefusedLeavesNoTrace)'
    BY <1>1, <1>2, FiledAtSourceStep, FiledOnceStep, AckedFiledStep, RefusedStep DEF FiledInv
  <2>3. QED
    BY <2>1, <2>2 DEF FiledInv, Transient
<1>3. CASE UNCHANGED vars
  BY <1>3 DEF vars, locals, FiledInv, Addressed, OwnChanges, FiledAtSource, FiledOnce,
     AckedFiled, RefusedLeavesNoTrace, IsFiled, Ascending, root, Instance, Transient
<1>4. QED
  BY <1>2, <1>3, NextStep

\* All that is known of a state whose aggregates are an instance per command.
FiledFacts == TypeInv /\ CreationInv /\ SavedInv /\ HeardInv /\ FiledInv

LEMMA SavedInit == Init => SavedInv
BY DEF Init, SavedInv, Saved, SavedBeforePublished

LEMMA FiledFactsInit == Init => FiledFacts
BY TypeInit, CreationInit, SavedInit, HeardInit, FiledInit DEF FiledFacts

LEMMA FiledFactsStep == FiledFacts /\ [Next]_vars => FiledFacts'
<1> SUFFICES ASSUME FiledFacts, [Next]_vars
             PROVE  FiledFacts'
  OBVIOUS
<1>1. TypeInv'
  BY TypeStep DEF FiledFacts
<1>2. QED
  BY <1>1, CreationStep, SavedStep, HeardStep, FiledStep DEF FiledFacts

\* With an instance per command, whatever the interleaving: each domain event of a command
\* that returned is filed once, in the stream of the aggregate the command addressed
\* (UnitOfWork.Accept, InMemoryEventStorage.Save).
THEOREM AckedIsFiledOnce ==
  ASSUME Transient
  PROVE  Spec => []AckedFiledOnce
<1>1. FiledFacts => AckedFiledOnce
  <2> SUFFICES ASSUME FiledFacts, NEW e \in DOMAIN events,
                      events[e].kind = "domain", commands[events[e].cmd].outcome = "done"
               PROVE  \E i \in DOMAIN store :
                        /\ store[i].ev = e
                        /\ store[i].src = commands[events[e].cmd].id
                        /\ \A j \in DOMAIN store : store[j].ev = e => j = i
    BY DEF AckedFiledOnce
  <2>1. FiledAtSource /\ FiledOnce /\ AckedFiled
    BY DEF FiledFacts, FiledInv
  <2>2. PICK i \in DOMAIN store : store[i].ev = e
    BY <2>1 DEF AckedFiled, IsFiled
  <2>3. QED
    BY <2>1, <2>2 DEF FiledAtSource, FiledOnce
<1>2. QED
  BY <1>1, FiledFactsInit, FiledFactsStep, PTL DEF Spec

\* With an instance per command: a command that its consumer refused leaves no event in the
\* storage, however many it applied, since only Accept hands the changes to Save.
THEOREM RefusedFilesNothing ==
  ASSUME Transient
  PROVE  Spec => []RefusedLeavesNoTrace
<1>1. FiledFacts => RefusedLeavesNoTrace
  BY DEF FiledFacts, FiledInv
<1>2. QED
  BY <1>1, FiledFactsInit, FiledFactsStep, PTL DEF Spec

-----------------------------------------------------------------------------
(* With an instance per command, no event is delivered twice.               *)

\* What was published for the command of a thread is what the thread has passed over.
Delivered(t) ==
  Transient =>
    /\ pc[t] \notin {"idle", "publish"} => \A p \in published : p.cmd # cmd[t]
    /\ pc[t] = "publish" =>
         \A p \in published : p.cmd = cmd[t] =>
           p.turn \in DOMAIN changes[t] /\ p.turn < next[t] /\ p.ev = changes[t][p.turn]

DeliveredInv ==
  /\ \A t \in Threads : Delivered(t)
  /\ Transient =>
       /\ DeliveredOnce
       /\ \A p \in published : p.ev \in DOMAIN events /\ p.cmd = events[p.ev].cmd

\* A step delivers one event, or none; a thread that delivers goes on or ends its command.
LEMMA StepDelivers ==
  ASSUME TypeInv, NEW t \in Threads, Step(t)
  PROVE  \/ published' = published /\ pc[t] = "idle" /\ cmd'[t] = Len(commands) + 1
         \/ published' = published /\ pc'[t] = "idle"
         \/ /\ published' = published /\ cmd'[t] = cmd[t]
            /\ pc[t] \notin {"idle", "publish"}
         \/ /\ Deliver(t) /\ UNCHANGED events
            /\ \/ pc'[t] = "idle"
               \/ UNCHANGED <<cmd, changes, pc>> /\ next'[t] = next[t] + 1
<1>1. ASSUME NEW id \in Targets[t] \cup {NoId}, Send(t, id)
      PROVE  published' = published /\ pc[t] = "idle" /\ cmd'[t] = Len(commands) + 1
  BY <1>1, SendEffect
<1>2. ASSUME NEW outcome, Return(t, outcome), pc[t] # "idle", roots' = roots
      PROVE  pc'[t] = "idle"
  BY <1>2, ReturnEffect
<1>3. CASE ValidatorRefuses(t) \/ ConsumerThrows(t) \/ ReturnNothing(t) \/ ModuleThrows(t)
           \/ Complete(t)
  BY <1>2, <1>3 DEF ValidatorRefuses, ConsumerThrows, ReturnNothing, ModuleThrows, Complete
<1>4. CASE HandlerThrows(t)
  BY <1>2, <1>4 DEF HandlerThrows, Deliver
<1>5. CASE Publish(t)
  BY <1>5, PublishEffect DEF Publish
<1>6. CASE Load(t) \/ Apply(t) \/ Accept(t) \/ Save(t)
  <2>1. UNCHANGED <<published, cmd>> /\ pc[t] \notin {"idle", "publish"}
    BY <1>6 DEF Load, Get, NoteAggregateCreated, LoadEvent, VersionCommand, AssignId, Apply,
       Accept, Save, locals
  <2>2. QED
    BY <2>1
<1>7. QED
  BY <1>1, <1>3, <1>4, <1>5, <1>6 DEF Step, Execute, Stream

\* The event that a thread delivers is its own, and it was not delivered before.
LEMMA Undelivered ==
  ASSUME FiledFacts, DeliveredInv, Transient, NEW t \in Threads, Deliver(t)
  PROVE  /\ changes[t][next[t]] \in DOMAIN events /\ events[changes[t][next[t]]].cmd = cmd[t]
         /\ \A q \in published : q.ev # changes[t][next[t]]
<1> DEFINE e == changes[t][next[t]]
<1>1. TypeInv /\ OwnChanges(t) /\ Delivered(t)
  BY DEF FiledFacts, FiledInv, DeliveredInv
<1>2. pc[t] = "publish" /\ next[t] \in DOMAIN changes[t]
  BY <1>1, DeliverEffect
<1>3. Ascending(changes[t]) /\ events[e].cmd = cmd[t] /\ e \in DOMAIN events
  BY <1>1, <1>2, Referenced DEF OwnChanges
<1>4. ASSUME NEW q \in published, q.ev = e
      PROVE  FALSE
  <2>1. q.cmd = cmd[t]
    BY <1>3, <1>4 DEF DeliveredInv
  <2>2. q.turn \in DOMAIN changes[t] /\ q.turn < next[t] /\ q.ev = changes[t][q.turn]
    BY <1>1, <1>2, <2>1 DEF Delivered
  <2>3. changes[t][q.turn] < changes[t][next[t]]
    BY <1>2, <1>3, <2>2 DEF Ascending
  <2>4. changes[t][q.turn] \in Nat /\ changes[t][next[t]] \in Nat
    BY <1>1, <1>2, <2>2, Referenced, Typed
  <2>5. QED
    BY <1>4, <2>2, <2>3, <2>4
<1>5. QED
  BY <1>3, <1>4

LEMMA DeliveredInit == Init => DeliveredInv
BY DEF Init, DeliveredInv, Delivered, DeliveredOnce

LEMMA DeliveredStep ==
  ASSUME FiledFacts, FiledFacts', DeliveredInv, [Next]_vars
  PROVE  DeliveredInv'
<1>1. Grows
  BY StepGrows DEF FiledFacts
<1>2. /\ TypeInv /\ TypeInv' /\ CreationInv /\ OwnCommand /\ EventsOwned
      /\ \A t \in Threads : Delivered(t)
  BY DEF FiledFacts, CreationInv, HeardInv, DeliveredInv
<1>3. ASSUME NEW t \in Threads, Step(t), Transient
      PROVE  /\ \A u \in Threads : Delivered(u)'
             /\ DeliveredOnce'
             /\ \A p \in published' : p.ev \in DOMAIN events' /\ p.cmd = events'[p.ev].cmd
  <2>1. /\ DeliveredOnce
        /\ \A p \in published : p.ev \in DOMAIN events /\ p.cmd = events[p.ev].cmd
    BY <1>3 DEF DeliveredInv
  <2>2. \A p \in published : p.ev \in DOMAIN events' /\ p.cmd = events'[p.ev].cmd
    BY <1>1, <2>1 DEF Grows
  <2>3. \A u \in Threads : u # t => /\ pc'[u] = pc[u] /\ cmd'[u] = cmd[u]
                                    /\ changes'[u] = changes[u] /\ next'[u] = next[u]
    BY <1>2, <1>3, StepFrame DEF Others
  <2>4. CASE published' = published
    <3>1. \A u \in Threads : u # t => Delivered(u)'
      BY <1>2, <2>3, <2>4 DEF Delivered
    <3>2. \A p \in published : p.cmd # Len(commands) + 1
      <4>1. Len(commands) + 1 \notin DOMAIN commands
        BY <1>2, Typed
      <4>2. QED
        BY <1>2, <2>1, <4>1 DEF EventsOwned
    <3>3. Delivered(t)'
      <4>1. CASE pc'[t] = "idle"
        BY <4>1 DEF Delivered
      <4>2. CASE pc[t] = "idle" /\ cmd'[t] = Len(commands) + 1
        BY <2>4, <3>2, <4>2 DEF Delivered
      <4>3. CASE cmd'[t] = cmd[t] /\ pc[t] \notin {"idle", "publish"}
        BY <1>2, <1>3, <2>4, <4>3 DEF Delivered
      <4>4. CASE Deliver(t) /\ UNCHANGED <<cmd, changes, pc>> /\ next'[t] = next[t] + 1
        <5>1. next[t] \in Nat
          BY <1>2, Typed DEF Ref
        <5>2. \A p \in published : p.cmd = cmd[t] =>
                p.turn \in DOMAIN changes[t] /\ p.turn < next[t] /\ p.ev = changes[t][p.turn]
          BY <1>2, <1>3, <4>4 DEF Delivered, Deliver
        <5>3. \A p \in published : p.cmd = cmd[t] => p.turn \in Nat /\ p.turn < next[t] + 1
          BY <1>2, <5>1, <5>2, Typed
        <5>4. QED
          BY <2>4, <4>4, <5>2, <5>3 DEF Delivered, Deliver
      <4>5. QED
        BY <1>2, <1>3, <4>1, <4>2, <4>3, <4>4, StepDelivers
    <3>4. QED
      BY <2>1, <2>2, <2>4, <3>1, <3>3 DEF DeliveredOnce
  <2>5. CASE published' # published
    <3>1. Deliver(t) /\ UNCHANGED events
      BY <1>2, <1>3, <2>5, StepDelivers
    <3>2. PICK p \in published' :
            /\ published' = published \cup {p}
            /\ p.ev = changes[t][next[t]] /\ p.cmd = cmd[t] /\ p.turn = next[t]
      BY <1>2, <3>1, DeliverEffect
    <3>3. pc[t] = "publish" /\ next[t] \in DOMAIN changes[t]
      BY <1>2, <3>1, DeliverEffect
    <3>4. events[p.ev].cmd = cmd[t] /\ p.ev \in DOMAIN events
      BY <1>3, <3>1, <3>2, Undelivered
    <3>5. \A u \in Threads : u # t => Delivered(u)'
      <4>1. \A u \in Threads : (u # t /\ pc[u] # "idle") => p.cmd # cmd[u]
        BY <1>2, <3>2, <3>3 DEF OwnCommand
      <4>2. QED
        BY <1>2, <2>3, <3>2, <4>1 DEF Delivered
    <3>6. \A q \in published : q.cmd = cmd[t] =>
            q.turn \in DOMAIN changes[t] /\ q.turn < next[t] /\ q.ev = changes[t][q.turn]
      BY <1>2, <1>3, <3>3 DEF Delivered
    <3>7. \A q \in published : q.ev # p.ev
      BY <1>3, <3>1, <3>2, Undelivered
    <3>8. Delivered(t)'
      <4>1. CASE pc'[t] = "idle"
        BY <4>1 DEF Delivered
      <4>2. CASE UNCHANGED <<cmd, changes, pc>> /\ next'[t] = next[t] + 1
        <5>1. next[t] \in Nat /\ DOMAIN changes[t] \subseteq Nat
          BY <1>2, Typed DEF Ref
        <5>2. \A q \in published' : q.cmd = cmd[t] =>
                q.turn \in DOMAIN changes[t] /\ q.turn < next[t] + 1 /\ q.ev = changes[t][q.turn]
          BY <3>2, <3>3, <3>6, <5>1
        <5>3. QED
          BY <3>3, <4>2, <5>2 DEF Delivered
      <4>3. QED
        BY <1>2, <1>3, <2>5, <4>1, <4>2, StepDelivers
    <3>9. DeliveredOnce'
      BY <2>1, <3>2, <3>7 DEF DeliveredOnce
    <3>10. \A q \in published' : q.ev \in DOMAIN events' /\ q.cmd = events'[q.ev].cmd
      BY <2>2, <3>1, <3>2, <3>4
    <3>11. QED
      BY <3>5, <3>8, <3>9, <3>10
  <2>6. QED
    BY <2>4, <2>5
<1>4. CASE ~ Transient
  BY <1>4 DEF DeliveredInv, Delivered, Transient
<1>5. CASE UNCHANGED vars
  BY <1>5 DEF vars, locals, DeliveredInv, Delivered, DeliveredOnce, Transient
<1>6. QED
  BY <1>3, <1>4, <1>5, NextStep DEF DeliveredInv

\* With an instance per command, no event is given to the handlers twice, by the thread that
\* raised it or another (UnitOfWork.Accept, InProcessEventBus.Publish).
THEOREM DeliveredAtMostOnce ==
  ASSUME Transient
  PROVE  Spec => []DeliveredOnce
<1>1. Init => FiledFacts /\ DeliveredInv
  BY FiledFactsInit, DeliveredInit
<1>2. FiledFacts /\ DeliveredInv /\ [Next]_vars => (FiledFacts /\ DeliveredInv)'
  BY FiledFactsStep, DeliveredStep
<1>3. DeliveredInv => DeliveredOnce
  BY DEF DeliveredInv
<1>4. QED
  BY <1>1, <1>2, <1>3, PTL DEF Spec

-----------------------------------------------------------------------------
(* A command is decided on a state that reflects what was acknowledged.     *)

\* The events acknowledged when the command was sent are in the stream, then in the part of
\* it that is still to be applied or applied, then applied.
Visible(t) ==
  /\ \A e \in known[t] : e \in DOMAIN events /\ events[e].kind = "domain"
  /\ Transient =>
       /\ pc[t] = "sent" =>
            \A e \in known[t] : \E i \in Positions(commands[cmd[t]].id) : store[i].ev = e
       /\ pc[t] = "note" => known[t] = {}
       /\ pc[t] = "load" =>
            \A e \in known[t] : \/ e \in Elements(root(t).applied)
                                \/ \E i \in unread[t] : store[i].ev = e
       /\ pc[t] \in {"assign", "execute"} => known[t] \subseteq Elements(root(t).applied)

\* The shared instance has applied every event of the domain.
AppliedByShared ==
  Lifestyle = "singleton" =>
    \A e \in DOMAIN events : events[e].kind = "domain" => e \in Elements(roots["shared"].applied)

VisibleInv ==
  /\ AppliedByShared
  /\ \A t \in Threads : Visible(t)

\* A new event of the domain is one that Apply has just run.
LEMMA RaisedIsApplied ==
  ASSUME TypeInv, NEW t \in Threads, Step(t), NEW e \in DOMAIN events', e \notin DOMAIN events,
         events'[e].kind = "domain"
  PROVE  e \in Elements(root(t)'.applied)
<1>1. CASE NoteAggregateCreated(t)
  BY <1>1, NoteEffect, Typed
<1>2. CASE LoadEvent(t)
  BY <1>2, LoadEventEffect
<1>3. CASE Apply(t)
  <2>1. PICK m \in {1, 2} :
          /\ DOMAIN events' = 1..(Len(events) + m)
          /\ \A d \in DOMAIN events' : d \notin DOMAIN events =>
               events'[d].kind = IF d = Len(events) + m THEN "domain" ELSE "snapshot"
          /\ root(t)'.applied = Append(root(t).applied, Len(events) + m)
    BY <1>3, ApplyRaises
  <2>2. e = Len(events) + m
    BY <2>1
  <2>3. root(t).applied \in Seq(Ref) /\ Len(events) + m \in Ref
    BY RootTyped, Typed DEF Ref
  <2>4. QED
    BY <2>1, <2>2, <2>3, AppendElements
<1>4. QED
  BY <1>1, <1>2, <1>3 DEF Step, Send, ValidatorRefuses, Load, Get, VersionCommand, AssignId,
     Execute, ConsumerThrows, ReturnNothing, Accept, Stream, Save, Publish, HandlerThrows,
     ModuleThrows, Complete

LEMMA AppliedBySharedStep ==
  ASSUME TypeInv, TypeInv', Grows, AppliedByShared, NEW t \in Threads, Step(t)
  PROVE  AppliedByShared'
<1> SUFFICES ASSUME Lifestyle = "singleton", NEW e \in DOMAIN events', events'[e].kind = "domain"
             PROVE  e \in Elements(roots'["shared"].applied)
  BY DEF AppliedByShared, Elements
<1>1. CASE e \in DOMAIN events
  BY <1>1, StepFrame DEF Keeps, AppliedByShared, Grows
<1>2. CASE e \notin DOMAIN events
  BY <1>2, RaisedIsApplied DEF root, Instance
<1>3. QED
  BY <1>1, <1>2

LEMMA VisibleByOthers ==
  ASSUME TypeInv, TypeInv', OwnCommand, Grows, NEW t \in Threads, Step(t),
         NEW u \in Threads, u # t, Visible(u)
  PROVE  Visible(u)'
<1>1. /\ pc'[u] = pc[u] /\ cmd'[u] = cmd[u] /\ known'[u] = known[u] /\ unread'[u] = unread[u]
      /\ Transient => root(u)' = root(u)
  BY StepFrame DEF Others, root, Instance, Transient
<1>2. \A e \in known'[u] : e \in DOMAIN events' /\ events'[e].kind = "domain"
  BY <1>1 DEF Visible, Grows
<1>3. pc[u] = "sent" => commands'[cmd[u]].id = commands[cmd[u]].id
  BY RaisedByOthers DEF SameCommand
<1>4. \A i \in unread[u] : store'[i].ev = store[i].ev
  BY Typed DEF Grows
<1>5. ASSUME Transient, pc[u] = "sent", NEW e \in known[u]
      PROVE  \E i \in Positions(commands[cmd[u]].id)' : store'[i].ev = e
  <2>1. PICK i \in Positions(commands[cmd[u]].id) : store[i].ev = e
    BY <1>5 DEF Visible
  <2>2. i \in DOMAIN store /\ store[i].src = commands[cmd[u]].id
    BY <2>1 DEF Positions
  <2>3. i \in DOMAIN store' /\ store'[i] = store[i]
    BY <2>2 DEF Grows
  <2>4. store'[i].src = commands'[cmd'[u]].id
    BY <1>1, <1>3, <1>5, <2>2, <2>3
  <2>5. i \in Positions(commands[cmd[u]].id)'
    BY <2>3, <2>4 DEF Positions
  <2>6. QED
    BY <2>1, <2>3, <2>5
<1>6. QED
  BY <1>1, <1>2, <1>4, <1>5 DEF Visible, Elements

LEMMA VisibleOwn ==
  ASSUME FiledFacts, FiledFacts', Grows, NEW t \in Threads, Step(t), Visible(t)
  PROVE  Visible(t)'
<1>1. /\ TypeInv /\ TypeInv'
      /\ Transient => FiledAtSource /\ AckedFiled
  BY DEF FiledFacts, FiledInv
<1>2. \A e \in known[t] : e \in DOMAIN events' /\ events'[e].kind = "domain"
  BY DEF Visible, Grows
<1>3. ASSUME NEW id \in Targets[t] \cup {NoId}, Send(t, id)
      PROVE  Visible(t)'
  <2>1. /\ known'[t] = Acknowledged(id) /\ pc'[t] = "sent" /\ UNCHANGED <<events, store>>
        /\ cmd'[t] = Len(commands) + 1 /\ commands'[Len(commands) + 1].id = id
    BY <1>1, <1>3, SendEffect
  <2>2. \A e \in Acknowledged(id) : e \in DOMAIN events /\ events[e].kind = "domain"
    BY DEF Acknowledged
  <2>3. ASSUME Transient, NEW e \in Acknowledged(id)
        PROVE  \E i \in Positions(id) : store[i].ev = e
    <3>1. /\ e \in DOMAIN events /\ events[e].kind = "domain"
          /\ commands[events[e].cmd].id = id /\ commands[events[e].cmd].outcome = "done"
      BY DEF Acknowledged
    <3>2. PICK i \in DOMAIN store : store[i].ev = e
      BY <1>1, <2>3, <3>1 DEF AckedFiled, IsFiled
    <3>3. QED
      BY <1>1, <2>3, <3>1, <3>2 DEF FiledAtSource, Positions
  <2>4. QED
    BY <2>1, <2>2, <2>3 DEF Visible, Positions
<1>4. ASSUME NEW outcome, Return(t, outcome), pc[t] # "idle", roots' = roots
      PROVE  Visible(t)'
  BY <1>1, <1>4, ReturnEffect DEF Visible
<1>5. ASSUME Get(t)
      PROVE  Visible(t)'
  <2>1. PICK id \in Ids :
          /\ pc[t] = "sent" /\ pc'[t] = (IF Positions(id) = {} THEN "note" ELSE "load")
          /\ commands[cmd[t]].id # NoId => commands[cmd[t]].id = id
          /\ unread'[t] = Positions(id)
          /\ UNCHANGED <<events, store, known>>
    BY <1>1, <1>5, GetEffect
  <2>2. Transient => Positions(NoId) = {}
    BY <1>1, PipelineAssumption DEF FiledAtSource, Positions, PipelineAssumption
  <2>3. Transient => \A e \in known[t] : \E i \in Positions(id) : store[i].ev = e
    BY <2>1, <2>2 DEF Visible
  <2>4. QED
    BY <1>2, <2>1, <2>3 DEF Visible
<1>6. ASSUME NoteAggregateCreated(t)
      PROVE  Visible(t)'
  BY <1>1, <1>2, <1>6, NoteEffect DEF Visible, locals
<1>7. ASSUME LoadEvent(t)
      PROVE  Visible(t)'
  <2>1. PICK i \in unread[t] :
          /\ pc[t] = "load" /\ i \in DOMAIN store
          /\ unread'[t] = unread[t] \ {i}
          /\ root(t)'.applied = IF events[store[i].ev].kind = "domain"
                                  THEN Append(root(t).applied, store[i].ev)
                                  ELSE root(t).applied
          /\ UNCHANGED <<store, pc, known>>
    BY <1>1, <1>7, LoadEventEffect
  <2>2. root(t).applied \in Seq(Ref) /\ store[i].ev \in Ref
    BY <1>1, <2>1, RootTyped, Referenced
  <2>3. /\ Elements(root(t).applied) \subseteq Elements(root(t)'.applied)
        /\ events[store[i].ev].kind = "domain" => store[i].ev \in Elements(root(t)'.applied)
    BY <2>1, <2>2, AppendElements
  <2>4. ASSUME Transient, NEW e \in known[t]
        PROVE  \/ e \in Elements(root(t)'.applied)
               \/ \E j \in unread'[t] : store[j].ev = e
    <3>1. events[e].kind = "domain"
      BY DEF Visible
    <3>2. CASE e \in Elements(root(t).applied)
      BY <2>3, <3>2
    <3>3. CASE \E j \in unread[t] : store[j].ev = e
      <4>1. PICK j \in unread[t] : store[j].ev = e
        BY <3>3
      <4>2. QED
        BY <2>1, <2>3, <3>1, <4>1
    <3>4. QED
      BY <2>1, <2>4, <3>2, <3>3 DEF Visible
  <2>5. QED
    BY <1>2, <2>1, <2>4 DEF Visible
<1>8. ASSUME VersionCommand(t)
      PROVE  Visible(t)'
  <2>1. root(t)' = root(t)
    BY <1>8 DEF VersionCommand, root, Instance
  <2>2. QED
    BY <1>1, <1>2, <1>8, <2>1, VersionCommandEffect DEF Visible, locals
<1>9. ASSUME AssignId(t)
      PROVE  Visible(t)'
  <2>1. root(t)'.applied = root(t).applied
    BY <1>1, <1>9, AssignIdEffect, RootTyped DEF root, Instance
  <2>2. QED
    BY <1>1, <1>2, <1>9, <2>1, AssignIdEffect DEF Visible, locals
<1>10. ASSUME Apply(t)
       PROVE  Visible(t)'
  <2>1. PICK m \in {1, 2} :
          /\ pc[t] = "execute"
          /\ root(t)'.applied = Append(root(t).applied, Len(events) + m)
          /\ UNCHANGED <<pc, locals>>
    BY <1>1, <1>10, ApplyRaises
  <2>2. root(t).applied \in Seq(Ref) /\ Len(events) + m \in Ref
    BY <1>1, RootTyped, Typed DEF Ref
  <2>3. Elements(root(t).applied) \subseteq Elements(root(t)'.applied)
    BY <2>1, <2>2, AppendElements
  <2>4. QED
    BY <1>2, <2>1, <2>3 DEF Visible, locals
<1>11. ASSUME Accept(t) \/ Save(t) \/ Publish(t)
       PROVE  Visible(t)'
  <2>1. pc'[t] \in {"save", "publish"} /\ known' = known
    BY <1>1, <1>11, AcceptEffect, SaveEffect, PublishEffect DEF Publish, Deliver
  <2>2. QED
    BY <1>2, <2>1 DEF Visible
<1>12. QED
  BY <1>3, <1>4, <1>5, <1>6, <1>7, <1>8, <1>9, <1>10, <1>11
     DEF Step, ValidatorRefuses, Load, Execute, ConsumerThrows, ReturnNothing, Stream,
         HandlerThrows, Deliver, ModuleThrows, Complete

LEMMA VisibleInit == Init => VisibleInv
BY DEF Init, VisibleInv, Visible, AppliedByShared

LEMMA VisibleStep ==
  ASSUME FiledFacts, FiledFacts', VisibleInv, [Next]_vars
  PROVE  VisibleInv'
<1>1. TypeInv /\ TypeInv' /\ OwnCommand /\ AppliedByShared /\ \A t \in Threads : Visible(t)
  BY DEF FiledFacts, CreationInv, VisibleInv
<1>2. Grows
  BY <1>1, StepGrows
<1>3. ASSUME NEW t \in Threads, Step(t)
      PROVE  VisibleInv'
  <2>1. ASSUME NEW u \in Threads
        PROVE  Visible(u)'
    <3>1. CASE u = t
      BY <1>1, <1>2, <1>3, <3>1, VisibleOwn
    <3>2. CASE u # t
      BY <1>1, <1>2, <1>3, <3>2, VisibleByOthers
    <3>3. QED
      BY <3>1, <3>2
  <2>2. QED
    BY <1>1, <1>2, <1>3, <2>1, AppliedBySharedStep DEF VisibleInv
<1>4. CASE UNCHANGED vars
  BY <1>1, <1>4 DEF vars, locals, VisibleInv, Visible, AppliedByShared, Positions, root,
     Instance, Transient, Elements
<1>5. QED
  BY <1>3, <1>4, NextStep

\* Read your writes, with either lifestyle: the state on which a command is decided has
\* applied every event that was acknowledged on its aggregate when the command was sent
\* (AggregateRootRepository.Get, AggregateRoot.LoadFromHistory).
THEOREM DecidedOnAcked == Spec => []AckedVisible
<1>1. Init => FiledFacts /\ VisibleInv
  BY FiledFactsInit, VisibleInit
<1>2. FiledFacts /\ VisibleInv /\ [Next]_vars => (FiledFacts /\ VisibleInv)'
  BY FiledFactsStep, VisibleStep
<1>3. VisibleInv => AckedVisible
  BY Lifestyles DEF VisibleInv, Visible, AppliedByShared, AckedVisible, root, Instance
<1>4. QED
  BY <1>1, <1>2, <1>3, PTL DEF Spec

-----------------------------------------------------------------------------
(* The state of an aggregate is its history, then what the command adds.    *)

\* The positions of domain events among ps: of those a thread has read, and of those it has
\* applied; and the place of one of them in the order of the storage.
OfDomain(ps) == {i \in ps : events[store[i].ev].kind = "domain"}

Read(t) == OfDomain(history[t])
Seen(t) == OfDomain(history[t] \ unread[t])
Rank(t, i) == Cardinality({j \in Read(t) : j <= i})

\* How far the history has been applied.
Replayed(t) ==
  Transient =>
    /\ pc[t] = "note" => history[t] = {} /\ root(t).applied = <<>>
    /\ pc[t] = "load" =>
         /\ \A i \in unread[t] : i \in history[t] /\ \A j \in history[t] \ unread[t] : j < i
         /\ Len(root(t).applied) = Cardinality(Seen(t))
    /\ pc[t] \in {"load", "assign", "execute"} =>
         \A i \in Seen(t) : /\ Rank(t, i) \in DOMAIN root(t).applied
                            /\ root(t).applied[Rank(t, i)] = store[i].ev
    /\ pc[t] \in {"note", "assign", "execute"} => unread[t] = {}
    /\ pc[t] = "assign" => Len(root(t).applied) = Cardinality(Read(t))
    /\ pc[t] = "execute" =>
         /\ Cardinality(Read(t)) <= Len(root(t).applied)
         /\ \A k \in DOMAIN root(t).applied : k > Cardinality(Read(t)) =>
              root(t).applied[k] \in DOMAIN events /\ events[root(t).applied[k]].cmd = cmd[t]

ReplayedInv == \A t \in Threads : Replayed(t)

\* What was read is read the same after a step that leaves history alone.
LEMMA ReadKept ==
  ASSUME TypeInv, Grows, NEW t \in Threads, history'[t] = history[t]
  PROVE  /\ Read(t)' = Read(t)
         /\ \A i : Rank(t, i)' = Rank(t, i)
         /\ \A i \in history[t] : store'[i].ev = store[i].ev
         /\ unread'[t] = unread[t] => Seen(t)' = Seen(t)
<1>1. history[t] \subseteq DOMAIN store
  BY Typed
<1>2. \A i \in history[t] : /\ store'[i].ev = store[i].ev
                            /\ events'[store[i].ev].kind = events[store[i].ev].kind
  BY <1>1, Referenced DEF Grows
<1>3. Read(t)' = Read(t)
  BY <1>2 DEF Read, OfDomain
<1>4. unread'[t] = unread[t] => Seen(t)' = Seen(t)
  BY <1>2 DEF Seen, OfDomain
<1>5. \A i : Rank(t, i)' = Rank(t, i)
  BY <1>3 DEF Rank
<1>6. QED
  BY <1>2, <1>3, <1>4, <1>5

LEMMA ReadFinite ==
  ASSUME TypeInv, NEW t \in Threads
  PROVE  /\ IsFiniteSet(Read(t)) /\ IsFiniteSet(Seen(t))
         /\ Cardinality(Read(t)) \in Nat /\ Cardinality(Seen(t)) \in Nat
         /\ Seen(t) \subseteq history[t] /\ Read(t) \subseteq history[t]
         /\ history[t] \subseteq Nat
<1>1. Read(t) \subseteq DOMAIN store /\ Seen(t) \subseteq DOMAIN store
  BY Typed DEF Read, Seen, OfDomain
<1>2. IsFiniteSet(DOMAIN store)
  BY Typed, FS_Interval
<1>3. IsFiniteSet(Read(t)) /\ IsFiniteSet(Seen(t))
  BY <1>1, <1>2, FS_Subset
<1>4. Cardinality(Read(t)) \in Nat /\ Cardinality(Seen(t)) \in Nat
  BY <1>3, FS_CardinalityType
<1>5. QED
  BY <1>3, <1>4, Typed DEF Read, Seen, OfDomain

LEMMA ReplayedByOthers ==
  ASSUME TypeInv, TypeInv', Grows, NEW t \in Threads, Step(t),
         NEW u \in Threads, u # t, Replayed(u)
  PROVE  Replayed(u)'
<1> SUFFICES ASSUME Transient
             PROVE  Replayed(u)'
  BY DEF Replayed, Transient
<1>1. /\ pc'[u] = pc[u] /\ cmd'[u] = cmd[u] /\ history'[u] = history[u]
      /\ unread'[u] = unread[u] /\ root(u)' = root(u)
  BY StepFrame DEF Others, root, Instance, Transient
<1>2. /\ Read(u)' = Read(u) /\ Seen(u)' = Seen(u)
      /\ \A i : Rank(u, i)' = Rank(u, i)
      /\ \A i \in history[u] : store'[i].ev = store[i].ev
  BY <1>1, ReadKept
<1>3. Seen(u) \subseteq history[u]
  BY ReadFinite
<1>4. QED
  BY <1>1, <1>2, <1>3 DEF Replayed, Grows

\* The position that LoadEvent takes is the next in the order of the storage.
LEMMA NextRank ==
  ASSUME TypeInv, NEW t \in Threads, NEW i \in unread[t],
         \A j \in unread[t] : i <= j,
         unread[t] \subseteq history[t],
         \A j \in history[t] \ unread[t] : j < i,
         events[store[i].ev].kind = "domain"
  PROVE  /\ OfDomain(history[t] \ (unread[t] \ {i})) = Seen(t) \cup {i}
         /\ Cardinality(Seen(t) \cup {i}) = Cardinality(Seen(t)) + 1
         /\ Rank(t, i) = Cardinality(Seen(t)) + 1
<1>1. i \notin Seen(t)
  BY DEF Seen, OfDomain
<1>2. OfDomain(history[t] \ (unread[t] \ {i})) = Seen(t) \cup {i}
  BY DEF Seen, OfDomain
<1>3. Cardinality(Seen(t) \cup {i}) = Cardinality(Seen(t)) + 1
  BY <1>1, ReadFinite, FS_AddElement
<1>4. {j \in Read(t) : j <= i} = Seen(t) \cup {i}
  <2>1. ASSUME NEW j \in Read(t), j <= i
        PROVE  j \in Seen(t) \cup {i}
    <3>1. j \in history[t] /\ j \in Nat /\ i \in Nat
      BY ReadFinite DEF Read, OfDomain
    <3>2. CASE j \in unread[t]
      BY <2>1, <3>1, <3>2
    <3>3. CASE j \notin unread[t]
      BY <3>1, <3>3 DEF Read, Seen, OfDomain
    <3>4. QED
      BY <3>2, <3>3
  <2>2. ASSUME NEW j \in Seen(t) \cup {i}
        PROVE  j \in Read(t) /\ j <= i
    <3>1. history[t] \subseteq Nat
      BY ReadFinite
    <3>2. CASE j \in Seen(t)
      <4>1. j < i /\ j \in Read(t) /\ j \in Nat /\ i \in Nat
        BY <3>1, <3>2 DEF Seen, Read, OfDomain
      <4>2. QED
        BY <4>1
    <3>3. CASE j = i
      BY <3>1, <3>3 DEF Read, OfDomain
    <3>4. QED
      BY <3>2, <3>3
  <2>3. QED
    BY <2>1, <2>2
<1>5. QED
  BY <1>2, <1>3, <1>4 DEF Rank

LEMMA LoadEventReplayed ==
  ASSUME TypeInv, TypeInv', Grows, Transient, NEW t \in Threads, LoadEvent(t), Replayed(t)
  PROVE  Replayed(t)'
<1>1. PICK i \in unread[t] :
        /\ pc[t] = "load" /\ i \in DOMAIN store
        /\ \A j \in unread[t] : i <= j
        /\ unread'[t] = unread[t] \ {i}
        /\ root(t)'.applied = IF events[store[i].ev].kind = "domain"
                                THEN Append(root(t).applied, store[i].ev)
                                ELSE root(t).applied
        /\ UNCHANGED <<store, pc, cmd, history>>
  BY LoadEventEffect
<1>2. /\ Read(t)' = Read(t) /\ \A j : Rank(t, j)' = Rank(t, j)
      /\ \A j \in history[t] : store'[j].ev = store[j].ev
  BY <1>1, ReadKept
<1>3. /\ unread[t] \subseteq history[t]
      /\ \A j \in unread[t] : \A l \in history[t] \ unread[t] : l < j
      /\ Len(root(t).applied) = Cardinality(Seen(t))
      /\ \A j \in Seen(t) : /\ Rank(t, j) \in DOMAIN root(t).applied
                            /\ root(t).applied[Rank(t, j)] = store[j].ev
  BY <1>1 DEF Replayed
<1>4. history[t] \subseteq Nat /\ Seen(t) \subseteq history[t]
  BY ReadFinite
<1>5. \A j \in unread'[t] : /\ j \in history'[t]
                            /\ \A l \in history'[t] \ unread'[t] : l < j
  <2> SUFFICES ASSUME NEW j \in unread'[t]
               PROVE  j \in history'[t] /\ \A l \in history'[t] \ unread'[t] : l < j
    OBVIOUS
  <2>1. j \in unread[t] /\ j # i /\ i <= j /\ i \in Nat /\ j \in Nat
    BY <1>1, <1>3, <1>4
  <2>2. i < j
    BY <2>1
  <2>3. QED
    BY <1>1, <1>3, <2>1, <2>2
<1>6. Seen(t)' = OfDomain(history[t] \ (unread[t] \ {i}))
  <2>1. \A j \in history[t] : events'[store[j].ev].kind = events[store[j].ev].kind
    BY Typed, Referenced DEF Grows
  <2>2. QED
    BY <1>1, <2>1 DEF Seen, OfDomain
<1>7. /\ Len(root(t)'.applied) = Cardinality(Seen(t)')
      /\ \A j \in Seen(t)' : /\ Rank(t, j)' \in DOMAIN root(t)'.applied
                             /\ root(t)'.applied[Rank(t, j)'] = store'[j].ev
  <2>1. CASE events[store[i].ev].kind = "domain"
    <3>1. /\ Seen(t)' = Seen(t) \cup {i}
          /\ Cardinality(Seen(t) \cup {i}) = Cardinality(Seen(t)) + 1
          /\ Rank(t, i) = Cardinality(Seen(t)) + 1
      BY <1>1, <1>3, <1>6, <2>1, NextRank
    <3>2. root(t).applied \in Seq(Ref) /\ store[i].ev \in Ref
      BY <1>1, RootTyped, Referenced
    <3>3. /\ DOMAIN root(t)'.applied = 1..(Len(root(t).applied) + 1)
          /\ DOMAIN root(t).applied = 1..Len(root(t).applied)
          /\ Len(root(t)'.applied) = Len(root(t).applied) + 1
          /\ \A k \in DOMAIN root(t).applied : root(t)'.applied[k] = root(t).applied[k]
          /\ root(t)'.applied[Len(root(t).applied) + 1] = store[i].ev
      BY <1>1, <2>1, <3>2, AppendElements
    <3>4. Len(root(t).applied) \in Nat
      BY <3>2
    <3>5. ASSUME NEW j \in Seen(t)'
          PROVE  /\ Rank(t, j) \in DOMAIN root(t)'.applied
                 /\ root(t)'.applied[Rank(t, j)] = store[j].ev
      <4>1. CASE j \in Seen(t)
        BY <1>3, <3>3, <3>4, <4>1
      <4>2. CASE j = i
        BY <1>3, <3>1, <3>3, <3>4, <4>2
      <4>3. QED
        BY <3>1, <4>1, <4>2
    <3>6. QED
      BY <1>1, <1>2, <1>3, <3>1, <3>3, <3>5
  <2>2. CASE events[store[i].ev].kind # "domain"
    <3>1. Seen(t)' = Seen(t)
      BY <1>6, <2>2 DEF Seen, OfDomain
    <3>2. root(t)'.applied = root(t).applied
      BY <1>1, <2>2
    <3>3. QED
      BY <1>1, <1>2, <1>3, <3>1, <3>2
  <2>3. QED
    BY <2>1, <2>2
<1>8. QED
  BY <1>1, <1>5, <1>7 DEF Replayed

LEMMA ApplyReplayed ==
  ASSUME TypeInv, TypeInv', Grows, Transient, NEW t \in Threads, Apply(t), Replayed(t)
  PROVE  Replayed(t)'
<1>1. PICK m \in {1, 2} :
        /\ pc[t] = "execute"
        /\ DOMAIN events' = 1..(Len(events) + m)
        /\ \A e \in DOMAIN events' : e \notin DOMAIN events => events'[e].cmd = cmd[t]
        /\ root(t)'.applied = Append(root(t).applied, Len(events) + m)
        /\ UNCHANGED <<store, commands, published, pc, locals>>
  BY ApplyRaises
<1>2. /\ Read(t)' = Read(t) /\ Seen(t)' = Seen(t) /\ \A j : Rank(t, j)' = Rank(t, j)
      /\ \A j \in history[t] : store'[j].ev = store[j].ev
  BY <1>1, ReadKept DEF locals
<1>3. root(t).applied \in Seq(Ref) /\ Len(events) + m \in Ref
  BY RootTyped, Typed DEF Ref
<1>4. /\ DOMAIN root(t)'.applied = 1..(Len(root(t).applied) + 1)
      /\ DOMAIN root(t).applied = 1..Len(root(t).applied)
      /\ Len(root(t)'.applied) = Len(root(t).applied) + 1
      /\ \A k \in DOMAIN root(t).applied : root(t)'.applied[k] = root(t).applied[k]
      /\ root(t)'.applied[Len(root(t).applied) + 1] = Len(events) + m
  BY <1>1, <1>3, AppendElements
<1>5. Len(root(t).applied) \in Nat
  BY <1>3
<1>6. \A j \in Seen(t) : /\ Rank(t, j) \in DOMAIN root(t)'.applied
                         /\ root(t)'.applied[Rank(t, j)] = store[j].ev
  BY <1>1, <1>4, <1>5 DEF Replayed
<1>7. Cardinality(Read(t)) <= Len(root(t)'.applied)
  BY <1>1, <1>4, <1>5, ReadFinite DEF Replayed
<1>8. ASSUME NEW k \in DOMAIN root(t)'.applied, k > Cardinality(Read(t))
      PROVE  /\ root(t)'.applied[k] \in DOMAIN events'
             /\ events'[root(t)'.applied[k]].cmd = cmd[t]
  <2>1. CASE k \in DOMAIN root(t).applied
    <3>1. root(t).applied[k] \in DOMAIN events /\ events[root(t).applied[k]].cmd = cmd[t]
      BY <1>1, <1>8, <2>1 DEF Replayed
    <3>2. QED
      BY <1>4, <2>1, <3>1 DEF Grows
  <2>2. CASE k \notin DOMAIN root(t).applied
    <3>1. k = Len(root(t).applied) + 1
      BY <1>4, <1>5, <2>2
    <3>2. Len(events) + m \in DOMAIN events' /\ Len(events) + m \notin DOMAIN events
      BY <1>1, Typed
    <3>3. QED
      BY <1>1, <1>4, <3>1, <3>2
  <2>3. QED
    BY <2>1, <2>2
<1>9. Seen(t) \subseteq history[t]
  BY ReadFinite
<1>10. QED
  BY <1>1, <1>2, <1>6, <1>7, <1>8, <1>9 DEF Replayed, locals

LEMMA ReplayedOwn ==
  ASSUME TypeInv, TypeInv', Grows, NEW t \in Threads, Step(t), Replayed(t)
  PROVE  Replayed(t)'
<1> SUFFICES ASSUME Transient
             PROVE  Replayed(t)'
  BY DEF Replayed, Transient
<1>1. CASE pc'[t] \in {"idle", "sent", "save", "publish"}
  BY <1>1 DEF Replayed
<1>2. ASSUME Get(t)
      PROVE  Replayed(t)'
  <2>1. PICK id \in Ids :
          /\ pc'[t] = (IF Positions(id) = {} THEN "note" ELSE "load")
          /\ history'[t] = Positions(id) /\ unread'[t] = Positions(id)
          /\ roots'[t] = NewRoot
    BY <1>2, GetEffect
  <2>2. root(t)'.applied = <<>>
    BY <2>1 DEF root, Instance, NewRoot, Transient
  <2>3. Seen(t)' = {}
    BY <2>1 DEF Seen, OfDomain
  <2>4. Len(root(t)'.applied) = Cardinality(Seen(t)')
    BY <2>2, <2>3, FS_EmptySet
  <2>5. QED
    BY <2>1, <2>2, <2>3, <2>4 DEF Replayed
<1>3. ASSUME NoteAggregateCreated(t)
      PROVE  Replayed(t)'
  <2>1. /\ pc[t] = "note" /\ pc'[t] = "assign"
        /\ history'[t] = {} /\ unread'[t] = {} /\ root(t)'.applied = <<>>
    BY <1>3, NoteEffect DEF Replayed, locals, root, Instance
  <2>2. Read(t)' = {} /\ Seen(t)' = {}
    BY <2>1 DEF Read, Seen, OfDomain
  <2>3. Len(root(t)'.applied) = Cardinality(Read(t)')
    BY <2>1, <2>2, FS_EmptySet
  <2>4. QED
    BY <2>1, <2>2, <2>3 DEF Replayed
<1>4. ASSUME VersionCommand(t)
      PROVE  Replayed(t)'
  <2>1. /\ pc[t] = "load" /\ pc'[t] = "assign" /\ unread[t] = {}
        /\ UNCHANGED <<events, store, roots, locals>>
    BY <1>4, VersionCommandEffect
  <2>2. root(t)' = root(t) /\ Read(t)' = Read(t) /\ Seen(t)' = Seen(t)
    BY <2>1 DEF root, Instance, Read, Seen, OfDomain, locals
  <2>3. \A i : Rank(t, i)' = Rank(t, i)
    BY <2>2 DEF Rank
  <2>4. Read(t) = Seen(t)
    BY <2>1 DEF Read, Seen
  <2>5. QED
    BY <2>1, <2>2, <2>3, <2>4 DEF Replayed, locals
<1>5. ASSUME AssignId(t)
      PROVE  Replayed(t)'
  <2>1. /\ pc[t] = "assign" /\ pc'[t] = "execute"
        /\ \A r \in Instances : roots'[r].applied = roots[r].applied
        /\ UNCHANGED <<events, store, locals>>
    BY <1>5, AssignIdEffect
  <2>2. root(t)'.applied = root(t).applied
    BY <2>1, RootTyped DEF root, Instance
  <2>3. Read(t)' = Read(t) /\ Seen(t)' = Seen(t)
    BY <2>1 DEF Read, Seen, OfDomain, locals
  <2>4. \A i : Rank(t, i)' = Rank(t, i)
    BY <2>3 DEF Rank
  <2>5. /\ Cardinality(Read(t)) <= Len(root(t).applied)
        /\ \A k \in DOMAIN root(t).applied : ~ (k > Cardinality(Read(t)))
    <3>1. Len(root(t).applied) = Cardinality(Read(t))
      BY <2>1 DEF Replayed
    <3>2. root(t).applied \in Seq(Ref)
      BY RootTyped
    <3>3. QED
      BY <3>1, <3>2
  <2>6. QED
    BY <2>1, <2>2, <2>3, <2>4, <2>5 DEF Replayed, locals
<1>6. CASE LoadEvent(t)
  BY <1>6, LoadEventReplayed
<1>7. CASE Apply(t)
  BY <1>7, ApplyReplayed
<1>8. ASSUME NEW id \in Targets[t] \cup {NoId}, Send(t, id)
      PROVE  pc'[t] = "sent"
  BY <1>8, SendEffect
<1>9. ASSUME NEW outcome, Return(t, outcome), pc[t] # "idle", roots' = roots
      PROVE  pc'[t] = "idle"
  BY <1>9, ReturnEffect
<1>10. ASSUME Accept(t) \/ Save(t) \/ Publish(t)
       PROVE  pc'[t] \in {"save", "publish"}
  BY <1>10, AcceptEffect, SaveEffect, PublishEffect DEF Publish, Deliver
<1>11. QED
  BY <1>1, <1>2, <1>3, <1>4, <1>5, <1>6, <1>7, <1>8, <1>9, <1>10
     DEF Step, ValidatorRefuses, Load, Execute, ConsumerThrows, ReturnNothing, Stream,
         HandlerThrows, Deliver, ModuleThrows, Complete

LEMMA ReplayedInit == Init => ReplayedInv
BY DEF Init, ReplayedInv, Replayed

LEMMA ReplayedStep ==
  ASSUME TypeInv, TypeInv', ReplayedInv, [Next]_vars
  PROVE  ReplayedInv'
<1>1. Grows
  BY StepGrows
<1>2. ASSUME NEW t \in Threads, Step(t), NEW u \in Threads
      PROVE  Replayed(u)'
  <2>1. Replayed(u)
    BY DEF ReplayedInv
  <2>2. CASE u = t
    BY <1>1, <1>2, <2>1, <2>2, ReplayedOwn
  <2>3. CASE u # t
    BY <1>1, <1>2, <2>1, <2>3, ReplayedByOthers
  <2>4. QED
    BY <2>2, <2>3
<1>3. ASSUME UNCHANGED vars, NEW u \in Threads
      PROVE  Replayed(u)'
  <2>1. /\ UNCHANGED <<events, store, roots, pc, cmd, history, unread>>
        /\ root(u)' = root(u)
    BY <1>3 DEF vars, locals, root, Instance
  <2>2. Read(u)' = Read(u) /\ Seen(u)' = Seen(u)
    BY <2>1 DEF Read, Seen, OfDomain
  <2>3. \A i : Rank(u, i)' = Rank(u, i)
    BY <2>2 DEF Rank
  <2>4. Replayed(u)
    BY DEF ReplayedInv
  <2>5. QED
    BY <2>1, <2>2, <2>3, <2>4 DEF Replayed, Transient
<1>4. QED
  BY <1>2, <1>3, NextStep DEF ReplayedInv

\* With an instance per command, whatever the interleaving: a consumer decides on a state
\* that has applied the domain events of the stream that was read, each exactly once and in
\* the stored order, and after them nothing but its own (AggregateRoot.LoadFromHistory).
THEOREM StateFollowsHistory ==
  ASSUME Transient
  PROVE  Spec => []StateIsItsHistory
<1>1. Init => TypeInv /\ ReplayedInv
  BY TypeInit, ReplayedInit
<1>2. TypeInv /\ ReplayedInv /\ [Next]_vars => (TypeInv /\ ReplayedInv)'
  BY TypeStep, ReplayedStep
<1>3. ReplayedInv => StateIsItsHistory
  <2> SUFFICES ASSUME ReplayedInv, NEW t \in Threads, pc[t] = "execute"
               PROVE  /\ Cardinality(Read(t)) <= Len(root(t).applied)
                      /\ \A i \in Read(t) : root(t).applied[Rank(t, i)] = store[i].ev
                      /\ \A k \in DOMAIN root(t).applied :
                           k > Cardinality(Read(t)) => events[root(t).applied[k]].cmd = cmd[t]
    BY DEF StateIsItsHistory, Read, Rank, OfDomain
  <2>1. Replayed(t)
    BY DEF ReplayedInv
  <2>2. Seen(t) = Read(t)
    BY <2>1 DEF Replayed, Seen, Read
  <2>3. QED
    BY <2>1, <2>2 DEF Replayed
<1>4. QED
  BY <1>1, <1>2, <1>3, PTL DEF Spec
=============================================================================
