------------------------- MODULE StoredAggregateProofs -------------------------
(***************************************************************************)
(* Proofs about StoredAggregate for any identifiers, threads and numbers   *)
(* of events: what is filed, in which order, and what the handlers are     *)
(* given, while threads share the stored aggregate and its list of events, *)
(* whether the container hands out an object for each new aggregate or one *)
(* for all.  Only that a stream begins with its creation needs the former. *)
(***************************************************************************)
EXTENDS StoredAggregate, TLAPS

-----------------------------------------------------------------------------
(* The types.                                                              *)

ModelT   == [id : Ids, recorded : Seq(Nat)]
EventT   == [kind : {"created", "domain"}, src : Ids, cmd : Nat]
EntryT   == [src : Ids, ev : Nat]
CommandT == [id : Ids, outcome : Outcomes]

\* Types that no relation between variables is needed for.
Typed ==
  /\ models \in Seq(ModelT)
  /\ events \in Seq(EventT)
  /\ store \in Seq(EntryT)
  /\ commands \in Seq(CommandT)
  /\ published \in SUBSET (Nat \X Nat)
  /\ pc \in [Threads -> Places]
  /\ cmd \in [Threads -> Nat]
  /\ model \in [Threads -> Nat]
  /\ count \in [Threads -> Nat]
  /\ changes \in [Threads -> Seq(Nat)]
  /\ next \in [Threads -> Nat \ {0}]

-----------------------------------------------------------------------------
(* Lists of events.  E is the heap of event objects.                       *)

Domain(E) == {e \in DOMAIN E : E[e].kind = "domain"}

Raised(n, E) == {e \in Domain(E) : E[e].cmd = n}

\* Only the last element may be a slot not yet written; the others are events of the
\* domain, in the order they were raised.
Ascending(s) == \A i, j \in DOMAIN s : i < j => s[i] # 0 /\ (s[j] # 0 => s[i] < s[j])

\* With an event the list has all that its command raised before.
Together(s, E) ==
  \A d, e \in Domain(E) :
    d < e /\ E[d].cmd = E[e].cmd /\ e \in Elements(s) => d \in Elements(s)

Recorded(s, E) ==
  /\ Ascending(s)
  /\ Together(s, E)
  /\ \A i \in DOMAIN s : s[i] \in {0} \cup Domain(E)

\* E2 has more event objects than E, or the same.
More(E, E2) ==
  /\ \A e \in DOMAIN E : e \in DOMAIN E2 /\ E2[e] = E[e]
  /\ \A d \in DOMAIN E2 : \A e \in DOMAIN E : d < e => d \in DOMAIN E

\* A list is not disturbed by events it does not have.
LEMMA RecordedKept ==
  ASSUME NEW s, NEW E, NEW E2, Recorded(s, E), More(E, E2), 0 \notin DOMAIN E2
  PROVE  Recorded(s, E2)
<1>1. \A i \in DOMAIN s : s[i] \in {0} \cup Domain(E2)
  BY DEF Recorded, More, Domain
<1>2. ASSUME NEW d \in Domain(E2), NEW e \in Domain(E2), d < e, E2[d].cmd = E2[e].cmd,
             e \in Elements(s)
      PROVE  d \in Elements(s)
  <2>1. e \in Domain(E)
    BY <1>2 DEF Recorded, Elements, Domain
  <2>2. d \in DOMAIN E
    BY <1>2, <2>1 DEF More, Domain
  <2>3. d \in Domain(E) /\ E[d].cmd = E[e].cmd
    BY <1>2, <2>1, <2>2 DEF More, Domain
  <2> QED BY <1>2, <2>1, <2>3 DEF Recorded, Together
<1> QED BY <1>1, <1>2 DEF Recorded, Together

\* List.Add counts the new element.
LEMMA RecordedSlot ==
  ASSUME NEW s \in Seq(Nat), NEW E, Recorded(s, E), 0 \notin DOMAIN E,
         \A i \in DOMAIN s : s[i] # 0,
         NEW r, r = Append(s, 0)
  PROVE  /\ r \in Seq(Nat) /\ Recorded(r, E) /\ Elements(s) \subseteq Elements(r)
         /\ Len(r) > 0 /\ r[Len(r)] = 0
<1>1. /\ r \in Seq(Nat) /\ Len(r) = Len(s) + 1 /\ r[Len(s) + 1] = 0
      /\ DOMAIN s = 1..Len(s) /\ DOMAIN r = 1..Len(s) + 1 /\ Len(s) \in Nat
      /\ \A i \in DOMAIN s : i \in DOMAIN r /\ r[i] = s[i]
      /\ \A i \in DOMAIN r : i \in DOMAIN s \/ i = Len(s) + 1
  OBVIOUS
<1>2. Ascending(r)
  <2>1. ASSUME NEW i \in DOMAIN r, NEW j \in DOMAIN r, i < j
        PROVE  r[i] # 0 /\ (r[j] # 0 => r[i] < r[j])
    <3>1. i \in DOMAIN s
      BY <1>1, <2>1
    <3>2. CASE j \in DOMAIN s
      BY <1>1, <2>1, <3>1, <3>2 DEF Recorded, Ascending
    <3>3. CASE j = Len(s) + 1
      BY <1>1, <3>1, <3>3
    <3> QED BY <1>1, <3>2, <3>3
  <2> QED BY <2>1 DEF Ascending
<1>3. Elements(r) = Elements(s) \cup {0}
  <2>1. Len(s) + 1 \in DOMAIN r
    BY <1>1
  <2> QED BY <1>1, <2>1, Zenon DEF Elements
<1>4. Together(r, E)
  BY <1>3 DEF Recorded, Together, Domain
<1>5. \A i \in DOMAIN r : r[i] \in {0} \cup Domain(E)
  BY <1>1 DEF Recorded
<1> QED BY <1>1, <1>2, <1>3, <1>4, <1>5 DEF Recorded

\* The event x is written into the last slot of list s, which becomes r.
Writes(s, E, x, E2, r) ==
  /\ Len(s) > 0 /\ s[Len(s)] = 0
  /\ E2 = Append(E, x)
  /\ r = [s EXCEPT ![Len(s)] = Len(E) + 1]

\* The new element is written: the list gets the newest event.
LEMMA RecordedWritten ==
  ASSUME NEW s \in Seq(Nat), NEW E \in Seq(EventT), NEW x \in EventT, x.kind = "domain",
         Recorded(s, E), Raised(x.cmd, E) \subseteq Elements(s),
         NEW E2, NEW r, Writes(s, E, x, E2, r)
  PROVE  /\ r \in Seq(Nat) /\ Recorded(r, E2)
         /\ \A i \in DOMAIN r : r[i] # 0
         /\ \A e \in Elements(s) : e = 0 \/ e \in Elements(r)
         /\ Raised(x.cmd, E2) \subseteq Elements(r)
<1>1. PICK n \in Nat : n = Len(E) + 1
  OBVIOUS
<1>0. /\ Len(s) > 0 /\ s[Len(s)] = 0 /\ E2 = Append(E, x)
      /\ r = [s EXCEPT ![Len(s)] = Len(E) + 1]
  BY DEF Writes
<1>2. /\ DOMAIN E2 = DOMAIN E \cup {n} /\ n \notin DOMAIN E /\ E2[n] = x
      /\ \A e \in DOMAIN E : E2[e] = E[e] /\ e < n /\ e \in Nat
  BY <1>0, <1>1
<1>3. /\ r \in Seq(Nat) /\ DOMAIN r = DOMAIN s /\ Len(s) \in DOMAIN s /\ r[Len(s)] = n
      /\ \A i \in DOMAIN s : i # Len(s) => r[i] = s[i]
      /\ \A i \in DOMAIN s : i \in Nat /\ s[i] \in Nat /\ i <= Len(s)
  BY <1>0, <1>1
<1>4. \A i \in DOMAIN s : i # Len(s) => s[i] # 0 /\ s[i] \in Domain(E) /\ s[i] < n
  <2>1. ASSUME NEW i \in DOMAIN s, i # Len(s)
        PROVE  s[i] # 0
    <3>1. i < Len(s)
      BY <1>3, <2>1
    <3> QED BY <1>3, <3>1 DEF Recorded, Ascending
  <2>2. \A i \in DOMAIN s : s[i] \in {0} \cup Domain(E)
    BY DEF Recorded
  <2> QED BY <1>2, <2>1, <2>2 DEF Domain
<1>5. Ascending(r)
  <2>1. ASSUME NEW i \in DOMAIN r, NEW j \in DOMAIN r, i < j
        PROVE  r[i] # 0 /\ r[i] < r[j]
    <3>1. i # Len(s)
      BY <1>3, <2>1
    <3>2. CASE j = Len(s)
      BY <1>3, <1>4, <3>1, <3>2
    <3>3. CASE j # Len(s)
      <4>1. s[i] # 0 /\ s[j] # 0
        BY <1>3, <1>4, <3>1, <3>3
      <4>2. s[i] < s[j]
        BY <1>3, <2>1, <4>1 DEF Recorded, Ascending
      <4> QED BY <1>3, <3>1, <3>3, <4>1, <4>2
    <3> QED BY <3>2, <3>3
  <2> QED BY <2>1 DEF Ascending
<1>6. \A e \in Elements(r) : e = n \/ e \in Elements(s)
  BY <1>3 DEF Elements
<1>7. n \in Elements(r) /\ \A e \in Elements(s) : e = 0 \/ e \in Elements(r)
  BY <1>0, <1>3 DEF Elements
<1>8. /\ n \in Domain(E2)
      /\ \A e \in Domain(E2) : e = n \/ (e \in Domain(E) /\ E2[e] = E[e])
      /\ \A e \in Domain(E) : e \in Domain(E2) /\ e # 0
  BY <1>2 DEF Domain
<1>9. \A i \in DOMAIN r : r[i] # 0 /\ r[i] \in {0} \cup Domain(E2)
  <2>1. ASSUME NEW i \in DOMAIN r
        PROVE  r[i] # 0 /\ r[i] \in {0} \cup Domain(E2)
    <3>1. CASE i = Len(s)
      BY <1>1, <1>3, <1>8, <3>1
    <3>2. CASE i # Len(s)
      BY <1>3, <1>4, <1>8, <3>2
    <3> QED BY <3>1, <3>2
  <2> QED BY <2>1
<1>10. \A d \in Domain(E2) : E2[d].cmd = x.cmd => d \in Elements(r)
  <2>1. ASSUME NEW d \in Domain(E2), E2[d].cmd = x.cmd
        PROVE  d \in Elements(r)
    <3>1. CASE d = n
      BY <1>7, <3>1
    <3>2. CASE d # n
      <4>1. d \in Domain(E) /\ E[d].cmd = x.cmd /\ d # 0
        BY <1>8, <2>1, <3>2
      <4>2. d \in Elements(s)
        BY <4>1 DEF Raised
      <4> QED BY <1>7, <4>1, <4>2
    <3> QED BY <3>1, <3>2
  <2> QED BY <2>1
<1>11. Together(r, E2)
  <2>1. ASSUME NEW d \in Domain(E2), NEW e \in Domain(E2), d < e, E2[d].cmd = E2[e].cmd,
               e \in Elements(r)
        PROVE  d \in Elements(r)
    <3>1. CASE e = n
      BY <1>2, <1>10, <2>1, <3>1
    <3>2. CASE e # n
      <4>1. e \in Domain(E) /\ E2[e] = E[e] /\ e \in Elements(s)
        BY <1>6, <1>8, <2>1, <3>2
      <4>2. d # n
        BY <1>1, <1>2, <2>1, <4>1 DEF Domain
      <4>3. d \in Domain(E) /\ E2[d] = E[d] /\ d # 0
        BY <1>8, <4>2
      <4>4. d \in Elements(s)
        BY <2>1, <4>1, <4>3 DEF Recorded, Together
      <4> QED BY <1>7, <4>3, <4>4
    <3> QED BY <3>1, <3>2
  <2> QED BY <2>1 DEF Together
<1>12. Raised(x.cmd, E2) \subseteq Elements(r)
  BY <1>10 DEF Raised
<1> QED BY <1>3, <1>5, <1>7, <1>9, <1>11, <1>12 DEF Recorded

-----------------------------------------------------------------------------
(* Threads.  M, E, S, C and P are the models, the events, the storage, the *)
(* commands and what was published.                                        *)

FiledIn(e, S) == \E i \in DOMAIN S : S[i].ev = e

\* Each new aggregate is an object of its own, which keeps its identifier.
Fresh == Lifestyle = "transient"

\* With such objects, the creation of the aggregate is filed.
CreatedIn(id, S, E) ==
  Fresh => \E i \in DOMAIN S : S[i].src = id /\ E[S[i].ev].kind = "created"

Outside == {"idle", "sent", "note"}

Streaming == {"save", "publish"}

\* A thread at this place, with command n, model m, changes s and next k.
Line(place, n, m, s, k, M, E, S, C, P) ==
  /\ place = "idle" => n = 0
  /\ place # "idle" => n \in DOMAIN C /\ C[n].outcome = "pending"
  /\ place \in {"idle", "sent"} => m = 0
  /\ place \notin {"idle", "sent"} => m \in DOMAIN M
  /\ place \notin Outside => /\ CreatedIn(M[m].id, S, E)
                             /\ Raised(n, E) \subseteq Elements(M[m].recorded)
  /\ place \in {"sent", "note"} => Raised(n, E) = {}
  /\ place = "note" /\ Fresh => M[m].id = C[n].id
  /\ place = "record" => Len(M[m].recorded) > 0 /\ M[m].recorded[Len(M[m].recorded)] = 0
  /\ place \notin Streaming => k = 1
  /\ place = "save" => k <= Len(s) /\ \A i \in DOMAIN s : i < k => FiledIn(s[i], S)
  /\ place = "publish" =>
       \A i \in DOMAIN s : /\ s[i] # 0 /\ FiledIn(s[i], S)
                           /\ i < k => <<n, s[i]>> \in P
  /\ place \in Streaming => Raised(n, E) \subseteq Elements(s)
  /\ Recorded(s, E)

\* A step of the thread that executes command n.
Grown(n, M, E, S, C, P, M2, E2, S2, C2, P2) ==
  /\ More(E, E2) /\ 0 \notin DOMAIN E2
  /\ \A d \in Domain(E2) : d \in DOMAIN E \/ E2[d].cmd = n
  /\ \A i \in DOMAIN S : i \in DOMAIN S2 /\ S2[i] = S[i] /\ S[i].ev \in DOMAIN E
  /\ \A c \in DOMAIN C : c \in DOMAIN C2 /\ (c # n => C2[c] = C[c])
  /\ P \subseteq P2
  /\ \A m \in DOMAIN M :
       /\ m \in DOMAIN M2 /\ (Fresh => M2[m].id = M[m].id)
       /\ \A e \in Elements(M[m].recorded) : e = 0 \/ e \in Elements(M2[m].recorded)

\* What is filed and created stays so, and another command raises nothing.
LEMMA GrownKeeps ==
  ASSUME NEW n, NEW M, NEW E, NEW S, NEW C, NEW P, NEW M2, NEW E2, NEW S2, NEW C2, NEW P2,
         Grown(n, M, E, S, C, P, M2, E2, S2, C2, P2)
  PROVE  /\ \A e : FiledIn(e, S) => FiledIn(e, S2)
         /\ \A id : CreatedIn(id, S, E) => CreatedIn(id, S2, E2)
         /\ \A c : c # n => Raised(c, E2) = Raised(c, E)
<1>1. \A e : FiledIn(e, S) => FiledIn(e, S2)
  BY DEF Grown, FiledIn
<1>2. \A id : CreatedIn(id, S, E) => CreatedIn(id, S2, E2)
  BY DEF Grown, More, CreatedIn
<1>3. \A c : c # n => Raised(c, E2) = Raised(c, E)
  BY DEF Grown, More, Raised, Domain
<1> QED BY <1>1, <1>2, <1>3

\* A thread that executes another command is not disturbed.
LEMMA LineKept ==
  ASSUME NEW n, NEW M, NEW E, NEW S, NEW C, NEW P, NEW M2, NEW E2, NEW S2, NEW C2, NEW P2,
         Grown(n, M, E, S, C, P, M2, E2, S2, C2, P2),
         NEW place, NEW c, NEW m, NEW s, NEW k, Line(place, c, m, s, k, M, E, S, C, P),
         place # "idle" => c # n,
         place = "record" => M2[m].recorded = M[m].recorded
  PROVE  Line(place, c, m, s, k, M2, E2, S2, C2, P2)
<1>1. /\ \A e : FiledIn(e, S) => FiledIn(e, S2)
      /\ \A id : CreatedIn(id, S, E) => CreatedIn(id, S2, E2)
      /\ c # n => Raised(c, E2) = Raised(c, E)
  BY GrownKeeps
<1>2. Recorded(s, E2)
  BY RecordedKept DEF Grown, Line
<1>3. /\ place # "idle" => c \in DOMAIN C2 /\ C2[c].outcome = "pending"
      /\ place \notin {"idle", "sent"} => m \in DOMAIN M2 /\ (Fresh => M2[m].id = M[m].id)
      /\ P \subseteq P2
  BY DEF Grown, Line
<1>4. ASSUME place \notin Outside
      PROVE  Raised(c, E2) \subseteq Elements(M2[m].recorded)
  <2>1. place # "idle" /\ place # "sent"
    BY <1>4 DEF Outside
  <2>2. m \in DOMAIN M /\ Raised(c, E) \subseteq Elements(M[m].recorded)
    BY <1>4, <2>1 DEF Line
  <2>3. 0 \notin Raised(c, E)
    BY DEF Grown, More, Raised, Domain
  <2> QED BY <1>1, <2>1, <2>2, <2>3 DEF Grown
<1>5. place \notin Outside => CreatedIn(M2[m].id, S2, E2)
  BY <1>1, <1>3 DEF Line, Outside, CreatedIn
<1>6. place \in {"sent", "note"} => Raised(c, E2) = {}
  BY <1>1 DEF Line
<1>7. place \in Streaming => Raised(c, E2) \subseteq Elements(s)
  BY <1>1 DEF Line, Streaming
<1>8. place = "note" /\ Fresh => M2[m].id = C2[c].id
  <2>1. place = "note" => c \in DOMAIN C
    BY DEF Line
  <2> QED BY <1>3, <2>1 DEF Line, Grown
<1> QED BY <1>1, <1>2, <1>3, <1>4, <1>5, <1>6, <1>7, <1>8 DEF Line

-----------------------------------------------------------------------------
(* The invariant.                                                          *)

Lists == \A m \in DOMAIN models : Recorded(models[m].recorded, events)

\* References are to what there is, and an event of the domain is of an aggregate whose
\* creation was noted.
Known ==
  /\ \A e \in DOMAIN events :
       /\ events[e].cmd \in DOMAIN commands
       /\ events[e].kind = "domain" => CreatedIn(events[e].src, store, events)
  /\ \A i \in DOMAIN store : store[i].ev \in DOMAIN events
  /\ \A p \in published : p[1] \in DOMAIN commands

\* The first event of a stream.
Creations == Fresh => CreationFirst

World == Lists /\ Known /\ Creations /\ FiledInOrder /\ SavedBeforePublished /\ AckedDelivered

Lines ==
  \A t \in Threads :
    Line(pc[t], cmd[t], model[t], changes[t], next[t], models, events, store, commands, published)

\* Threads execute commands of their own.
Apart == \A t, u \in Threads : t # u /\ pc[t] # "idle" /\ pc[u] # "idle" => cmd[t] # cmd[u]

\* One thread at a time records, and only its aggregate has an unwritten slot.
Locked ==
  /\ \A t, u \in Threads : pc[t] = "record" /\ pc[u] = "record" => t = u
  /\ \A m \in DOMAIN models : \A i \in DOMAIN models[m].recorded :
       models[m].recorded[i] = 0 => \E t \in Threads : pc[t] = "record" /\ model[t] = m

\* What the repository holds are aggregates whose creation was noted.
Holding ==
  ~Dropped => /\ IsABag(storage)
              /\ \A m \in DOMAIN storage : /\ m \in DOMAIN models
                                           /\ CreatedIn(models[m].id, store, events)

\* An event waiting to be recorded has the source of an aggregate whose creation was noted.
Stamped ==
  /\ stamp \in [Threads -> Ids \cup {Null}]
  /\ \A t \in Threads :
       pc[t] \in {"lock", "record"} => stamp[t] \in Ids /\ CreatedIn(stamp[t], store, events)

Inv == Typed /\ World /\ Lines /\ Apart /\ Locked /\ Holding

\* A step of thread t, to this place with these locals.
Local(t, place, n, m, s, k) ==
  /\ pc'[t] = place /\ cmd'[t] = n /\ model'[t] = m /\ changes'[t] = s /\ next'[t] = k
  /\ \A u \in Threads : u # t => /\ pc'[u] = pc[u] /\ cmd'[u] = cmd[u] /\ model'[u] = model[u]
                                 /\ changes'[u] = changes[u] /\ next'[u] = next[u]

\* Steps that leave the locals alone but for the place.
LEMMA LocalStep ==
  ASSUME Typed, NEW t \in Threads, NEW from, NEW to, Step(t, from, to), UNCHANGED locals
  PROVE  Local(t, to, cmd[t], model[t], changes[t], next[t]) /\ pc[t] = from
BY DEF Typed, Step, GoTo, locals, Local

\* Send returns.
LEMMA LocalReturn ==
  ASSUME Typed, NEW t \in Threads, NEW outcome, Return(t, outcome)
  PROVE  Local(t, "idle", 0, 0, <<>>, 1)
BY DEF Typed, Return, GoTo, Local

\* The invariant follows from what it says of the thread that makes the step.
LEMMA InvStep ==
  ASSUME Inv, Typed', World', Locked', Holding', NEW t \in Threads, NEW n,
         NEW place, NEW c, NEW m, NEW s, NEW k, Local(t, place, c, m, s, k),
         place # "idle" => c = n,
         \A u \in Threads : u # t /\ pc[u] # "idle" => cmd[u] # n,
         Grown(n, models, events, store, commands, published,
               models', events', store', commands', published'),
         \A u \in Threads : u # t /\ pc[u] = "record" =>
           models'[model[u]].recorded = models[model[u]].recorded,
         Line(place, c, m, s, k, models', events', store', commands', published')
  PROVE  Inv'
<1>1. PICK M2, E2, S2, C2, P2 :
        M2 = models' /\ E2 = events' /\ S2 = store' /\ C2 = commands' /\ P2 = published'
  OBVIOUS
<1>2. PICK M, E, S, C, P :
        M = models /\ E = events /\ S = store /\ C = commands /\ P = published
  OBVIOUS
<1>3. Grown(n, M, E, S, C, P, M2, E2, S2, C2, P2)
  BY <1>1, <1>2
<1>4. ASSUME NEW u \in Threads
      PROVE  Line(pc'[u], cmd'[u], model'[u], changes'[u], next'[u], M2, E2, S2, C2, P2)
  <2>1. CASE u = t
    <3>1. /\ pc'[u] = place /\ cmd'[u] = c /\ model'[u] = m /\ changes'[u] = s /\ next'[u] = k
      BY <2>1 DEF Local
    <3> QED BY <1>1, <3>1
  <2>2. CASE u # t
    <3>1. PICK p, d, o, l, j :
            p = pc[u] /\ d = cmd[u] /\ o = model[u] /\ l = changes[u] /\ j = next[u]
      OBVIOUS
    <3>2. Line(p, d, o, l, j, M, E, S, C, P)
      BY <1>2, <3>1 DEF Inv, Lines
    <3>3. p # "idle" => d # n
      BY <2>2, <3>1
    <3>4. p = "record" => M2[o].recorded = M[o].recorded
      BY <1>1, <1>2, <2>2, <3>1
    <3>5. Line(p, d, o, l, j, M2, E2, S2, C2, P2)
      BY <1>3, <3>2, <3>3, <3>4, LineKept
    <3>6. pc'[u] = p /\ cmd'[u] = d /\ model'[u] = o /\ changes'[u] = l /\ next'[u] = j
      BY <2>2, <3>1 DEF Local
    <3> QED BY <3>5, <3>6
  <2> QED BY <2>1, <2>2
<1>5. Lines'
  BY <1>1, <1>4 DEF Lines
<1>6. Apart'
  BY DEF Inv, Apart, Local
<1> QED BY <1>5, <1>6 DEF Inv

-----------------------------------------------------------------------------
(* The world under each kind of step.                                      *)

\* Nothing but the outcome of a command that is not done.
LEMMA WorldQuiet ==
  ASSUME World, UNCHANGED <<models, events, store, published>>,
         \A c \in DOMAIN commands : c \in DOMAIN commands',
         \A c \in DOMAIN commands' :
           commands'[c].outcome = "done" => c \in DOMAIN commands /\ commands[c].outcome = "done"
  PROVE  World'
<1>1. Lists' /\ Known'
  BY DEF World, Lists, Known
<1>2. Creations' /\ FiledInOrder' /\ SavedBeforePublished'
  BY DEF World, Creations, CreationFirst, FiledInOrder, SavedBeforePublished, Filed
<1>3. AckedDelivered'
  BY DEF World, AckedDelivered, RaisedBy
<1> QED BY <1>1, <1>2, <1>3 DEF World

\* Nothing but the lists of aggregates.
LEMMA WorldLists ==
  ASSUME World, UNCHANGED <<events, store, commands, published>>, Lists'
  PROVE  World'
<1>1. Known'
  BY DEF World, Known
<1>2. Creations' /\ FiledInOrder' /\ SavedBeforePublished'
  BY DEF World, Creations, CreationFirst, FiledInOrder, SavedBeforePublished, Filed
<1>3. AckedDelivered'
  BY DEF World, AckedDelivered, RaisedBy
<1> QED BY <1>1, <1>2, <1>3 DEF World

\* The handlers are given an event that is filed.
LEMMA WorldDeliver ==
  ASSUME World, UNCHANGED <<models, events, store>>,
         NEW n \in DOMAIN commands, NEW e, FiledIn(e, store),
         published' = published \cup {<<n, e>>},
         DOMAIN commands' = DOMAIN commands,
         \A c \in DOMAIN commands :
           commands'[c].outcome = "done" => commands[c].outcome = "done"
  PROVE  World'
<1>1. Lists'
  BY DEF World, Lists
<1>2. Known'
  BY DEF World, Known
<1>3. Creations' /\ FiledInOrder'
  BY DEF World, Creations, CreationFirst, FiledInOrder
<1>4. SavedBeforePublished'
  BY DEF World, SavedBeforePublished, Filed, FiledIn
<1>5. AckedDelivered'
  BY DEF World, AckedDelivered, RaisedBy
<1> QED BY <1>1, <1>2, <1>3, <1>4, <1>5 DEF World

\* Send completes a command whose events were all given to the handlers.
LEMMA WorldDone ==
  ASSUME World, UNCHANGED <<models, events, store, published>>, NEW n,
         DOMAIN commands' = DOMAIN commands,
         \A c \in DOMAIN commands : c # n => commands'[c] = commands[c],
         \A e \in Raised(n, events) : <<n, e>> \in published
  PROVE  World'
<1>1. Lists' /\ Known'
  BY DEF World, Lists, Known
<1>2. Creations' /\ FiledInOrder' /\ SavedBeforePublished'
  BY DEF World, Creations, CreationFirst, FiledInOrder, SavedBeforePublished, Filed
<1>3. AckedDelivered'
  BY DEF World, AckedDelivered, RaisedBy, Raised, Domain
<1> QED BY <1>1, <1>2, <1>3 DEF World

\* A sequence with one more element.
LEMMA Appended ==
  ASSUME NEW R, NEW s \in Seq(R), NEW x \in R, NEW r, r = Append(s, x)
  PROVE  /\ r \in Seq(R) /\ Len(r) = Len(s) + 1 /\ Len(s) \in Nat
         /\ DOMAIN r = DOMAIN s \cup {Len(s) + 1} /\ Len(s) + 1 \notin DOMAIN s
         /\ \A i \in DOMAIN s : r[i] = s[i] /\ i \in Nat /\ i < Len(s) + 1
         /\ r[Len(s) + 1] = x
OBVIOUS

\* An event is filed, after those that its command raised before it.
LEMMA WorldSaved ==
  ASSUME Typed, World, UNCHANGED <<models, events, commands, published>>,
         NEW e \in Domain(events), NEW entry, entry = [src |-> events[e].src, ev |-> e],
         store' = Append(store, entry),
         \A d \in Domain(events) : d < e /\ events[d].cmd = events[e].cmd => FiledIn(d, store)
  PROVE  World' /\ FiledIn(e, store')
<1>1. /\ events \in Seq(EventT) /\ store \in Seq(EntryT) /\ e \in DOMAIN events
      /\ events[e].kind = "domain"
  BY DEF Typed, Domain
<1>2. events[e] \in EventT /\ e \in Nat
  BY <1>1
<1>3. entry \in EntryT
  BY <1>2 DEF EventT, EntryT
<1>4. PICK n \in Nat : n = Len(store) + 1
  BY <1>1
<1>5. /\ DOMAIN store' = DOMAIN store \cup {n} /\ n \notin DOMAIN store
      /\ \A i \in DOMAIN store : store'[i] = store[i] /\ i \in Nat /\ i < n
      /\ store'[n].src = events[e].src /\ store'[n].ev = e
  BY <1>1, <1>3, <1>4, Appended
<1>6. \A d : FiledIn(d, store) => FiledIn(d, store')
  BY <1>5 DEF FiledIn
<1>7. \A id : CreatedIn(id, store, events) => CreatedIn(id, store', events')
  BY <1>5 DEF CreatedIn
<1>8. Lists'
  BY DEF World, Lists
<1>9. Known'
  <2>1. \A i \in DOMAIN store' : store'[i].ev \in DOMAIN events
    BY <1>1, <1>5 DEF World, Known
  <2> QED BY <1>7, <2>1 DEF World, Known
<1>10. Creations'
  <2> SUFFICES ASSUME Fresh
               PROVE  CreationFirst'
    BY DEF Creations
  <2>1. ASSUME NEW i \in DOMAIN store'
        PROVE  \E j \in 1..i : store'[j].src = store'[i].src /\ events[store'[j].ev].kind = "created"
    <3>1. CASE i \in DOMAIN store
      <4>1. PICK j \in 1..i : store[j].src = store[i].src /\ events[store[j].ev].kind = "created"
        BY <3>1 DEF World, Creations, CreationFirst
      <4>2. j \in DOMAIN store
        BY <1>1, <3>1, <4>1
      <4> QED BY <1>5, <3>1, <4>1, <4>2
    <3>2. CASE i = n
      <4>1. PICK j \in DOMAIN store : store[j].src = events[e].src
                                      /\ events[store[j].ev].kind = "created"
        BY <1>1 DEF World, Known, CreatedIn
      <4>2. j \in 1..i
        BY <1>1, <1>4, <1>5, <3>2, <4>1
      <4> QED BY <1>5, <3>2, <4>1, <4>2
    <3> QED BY <1>5, <3>1, <3>2
  <2> QED BY <2>1 DEF Creations, CreationFirst
<1>11. FiledInOrder'
  <2>1. ASSUME NEW d \in DOMAIN events, NEW f \in DOMAIN events, NEW j \in DOMAIN store',
               events[d].kind = "domain", events[f].kind = "domain",
               events[d].cmd = events[f].cmd, d < f, store'[j].ev = f
        PROVE  \E i \in 1..j : store'[i].ev = d
    <3>1. CASE j \in DOMAIN store
      <4>1. PICK i \in 1..j : store[i].ev = d
        BY <1>5, <2>1, <3>1 DEF World, FiledInOrder
      <4>2. i \in DOMAIN store
        BY <1>1, <3>1, <4>1
      <4> QED BY <1>5, <4>1, <4>2
    <3>2. CASE j = n
      <4>1. f = e
        BY <1>5, <2>1, <3>2
      <4>2. PICK i \in DOMAIN store : store[i].ev = d
        BY <2>1, <4>1 DEF Domain, FiledIn
      <4>3. i \in 1..j
        BY <1>1, <1>4, <3>2, <4>2
      <4> QED BY <1>5, <4>2, <4>3
    <3> QED BY <1>5, <3>1, <3>2
  <2> QED BY <2>1 DEF FiledInOrder
<1>12. SavedBeforePublished'
  BY <1>6 DEF World, SavedBeforePublished, Filed, FiledIn
<1>13. AckedDelivered'
  BY DEF World, AckedDelivered, RaisedBy
<1>14. FiledIn(e, store')
  BY <1>5 DEF FiledIn
<1> QED BY <1>8, <1>9, <1>10, <1>11, <1>12, <1>13, <1>14 DEF World

\* The creation of an aggregate is noted.
LEMMA WorldNoted ==
  ASSUME Typed, World, UNCHANGED <<models, commands, published>>,
         NEW n \in DOMAIN commands, NEW id \in Ids,
         NEW e, e = Len(events) + 1,
         events' = Append(events, [kind |-> "created", src |-> id, cmd |-> n]),
         store' = Append(store, [src |-> id, ev |-> e])
  PROVE  World' /\ CreatedIn(id, store', events')
<1>1. events \in Seq(EventT) /\ store \in Seq(EntryT) /\ commands \in Seq(CommandT)
  BY DEF Typed
<1>2. PICK x \in EventT, y \in EntryT :
        /\ events' = Append(events, x) /\ x.kind = "created" /\ x.src = id /\ x.cmd = n
        /\ store' = Append(store, y) /\ y.src = id /\ y.ev = e
  <2>1. e \in Nat /\ n \in Nat
    BY <1>1
  <2>2. [kind |-> "created", src |-> id, cmd |-> n] \in EventT /\ [src |-> id, ev |-> e] \in EntryT
    BY <2>1 DEF EventT, EntryT
  <2> QED BY <2>2
<1>3. /\ DOMAIN events' = DOMAIN events \cup {e} /\ e \notin DOMAIN events
      /\ \A d \in DOMAIN events : events'[d] = events[d] /\ d \in Nat /\ d < e
      /\ events'[e] = x
  BY <1>1, <1>2, Appended
<1>4. PICK l \in Nat : l = Len(store) + 1
  BY <1>1
<1>5. /\ DOMAIN store' = DOMAIN store \cup {l} /\ l \notin DOMAIN store
      /\ \A i \in DOMAIN store : store'[i] = store[i] /\ i \in Nat /\ i < l
      /\ store'[l] = y
  BY <1>1, <1>2, <1>4, Appended
<1>6. \A i \in DOMAIN store : store[i].ev \in DOMAIN events
  BY DEF World, Known
<1>7. \A d : FiledIn(d, store) => FiledIn(d, store')
  BY <1>5 DEF FiledIn
<1>8. CreatedIn(id, store', events')
        /\ \A o : CreatedIn(o, store, events) => CreatedIn(o, store', events')
  BY <1>2, <1>3, <1>5, <1>6 DEF CreatedIn
<1>9. PICK E, E2 : E = events /\ E2 = events'
  OBVIOUS
<1>10. 0 \notin DOMAIN E2 /\ More(E, E2)
  <2>1. e \in Nat /\ e # 0
    BY <1>1
  <2>2. 0 \notin DOMAIN events
    BY <1>1
  <2> QED BY <1>3, <1>9, <2>1, <2>2 DEF More
<1>11. Lists'
  <2>1. ASSUME NEW m \in DOMAIN models
        PROVE  Recorded(models[m].recorded, E2)
    BY <1>9, <1>10, RecordedKept DEF World, Lists
  <2> QED BY <1>9, <2>1 DEF Lists
<1>12. Known'
  <2>1. \A d \in DOMAIN events' :
          /\ events'[d].cmd \in DOMAIN commands
          /\ events'[d].kind = "domain" => CreatedIn(events'[d].src, store', events')
    BY <1>2, <1>3, <1>8 DEF World, Known
  <2>2. \A i \in DOMAIN store' : store'[i].ev \in DOMAIN events'
    BY <1>2, <1>3, <1>5, <1>6
  <2> QED BY <2>1, <2>2 DEF World, Known
<1>13. Creations'
  <2> SUFFICES ASSUME Fresh
               PROVE  CreationFirst'
    BY DEF Creations
  <2>1. ASSUME NEW i \in DOMAIN store'
        PROVE  \E j \in 1..i : store'[j].src = store'[i].src /\ events'[store'[j].ev].kind = "created"
    <3>1. CASE i \in DOMAIN store
      <4>1. PICK j \in 1..i : store[j].src = store[i].src /\ events[store[j].ev].kind = "created"
        BY <3>1 DEF World, Creations, CreationFirst
      <4>2. j \in DOMAIN store
        BY <1>1, <3>1, <4>1
      <4> QED BY <1>3, <1>5, <1>6, <3>1, <4>1, <4>2
    <3>2. CASE i = l
      <4>1. l \in 1..i
        BY <1>1, <1>4, <3>2
      <4> QED BY <1>2, <1>3, <1>5, <3>2, <4>1
    <3> QED BY <1>5, <3>1, <3>2
  <2> QED BY <2>1 DEF Creations, CreationFirst
<1>14. FiledInOrder'
  <2>1. ASSUME NEW d \in DOMAIN events', NEW f \in DOMAIN events', NEW j \in DOMAIN store',
               events'[d].kind = "domain", events'[f].kind = "domain",
               events'[d].cmd = events'[f].cmd, d < f, store'[j].ev = f
        PROVE  \E i \in 1..j : store'[i].ev = d
    <3>1. d \in DOMAIN events /\ f \in DOMAIN events /\ j \in DOMAIN store
      BY <1>2, <1>3, <1>5, <2>1
    <3>2. PICK i \in 1..j : store[i].ev = d
      BY <1>3, <1>5, <2>1, <3>1 DEF World, FiledInOrder
    <3>3. i \in DOMAIN store
      BY <1>1, <3>1, <3>2
    <3> QED BY <1>5, <3>2, <3>3
  <2> QED BY <2>1 DEF FiledInOrder
<1>15. SavedBeforePublished'
  BY <1>7 DEF World, SavedBeforePublished, Filed, FiledIn
<1>16. AckedDelivered'
  BY <1>2, <1>3 DEF World, AckedDelivered, RaisedBy
<1> QED BY <1>8, <1>11, <1>12, <1>13, <1>14, <1>15, <1>16 DEF World

\* A command that is not done raises an event on an aggregate whose creation was noted.
LEMMA WorldRaised ==
  ASSUME Typed, World, UNCHANGED <<store, commands, published>>, Lists',
         NEW n \in DOMAIN commands, commands[n].outcome = "pending",
         NEW id, CreatedIn(id, store, events),
         NEW x \in EventT, x.kind = "domain", x.src = id, x.cmd = n,
         events' = Append(events, x)
  PROVE  World'
<1>1. events \in Seq(EventT) /\ store \in Seq(EntryT)
  BY DEF Typed
<1>2. PICK e : e = Len(events) + 1
  OBVIOUS
<1>3. /\ DOMAIN events' = DOMAIN events \cup {e} /\ e \notin DOMAIN events
      /\ \A d \in DOMAIN events : events'[d] = events[d] /\ d \in Nat /\ d < e
      /\ events'[e] = x /\ e \in Nat
  BY <1>1, <1>2, Appended
<1>4. \A i \in DOMAIN store : store[i].ev \in DOMAIN events
  BY DEF World, Known
<1>5. \A o : CreatedIn(o, store, events) => CreatedIn(o, store', events')
  BY <1>3, <1>4 DEF CreatedIn
<1>6. Known'
  <2>1. \A d \in DOMAIN events' :
          /\ events'[d].cmd \in DOMAIN commands
          /\ events'[d].kind = "domain" => CreatedIn(events'[d].src, store', events')
    BY <1>3, <1>5 DEF World, Known
  <2> QED BY <1>3, <1>4, <2>1 DEF World, Known
<1>7. Creations'
  <2> SUFFICES ASSUME Fresh
               PROVE  CreationFirst'
    BY DEF Creations
  <2>1. ASSUME NEW i \in DOMAIN store
        PROVE  \E j \in 1..i : store[j].src = store[i].src /\ events'[store[j].ev].kind = "created"
    <3>1. PICK j \in 1..i : store[j].src = store[i].src /\ events[store[j].ev].kind = "created"
      BY DEF World, Creations, CreationFirst
    <3>2. j \in DOMAIN store
      BY <1>1, <3>1
    <3> QED BY <1>3, <1>4, <3>1, <3>2
  <2> QED BY <2>1 DEF Creations, CreationFirst
<1>8. FiledInOrder'
  <2>1. ASSUME NEW d \in DOMAIN events', NEW f \in DOMAIN events', NEW j \in DOMAIN store,
               events'[d].kind = "domain", events'[f].kind = "domain",
               events'[d].cmd = events'[f].cmd, d < f, store[j].ev = f
        PROVE  \E i \in 1..j : store[i].ev = d
    <3>1. f \in DOMAIN events
      BY <1>4, <2>1
    <3>2. d # e
      BY <1>3, <2>1, <3>1
    <3>3. d \in DOMAIN events
      BY <1>3, <3>2
    <3> QED BY <1>3, <2>1, <3>1, <3>3 DEF World, FiledInOrder
  <2> QED BY <2>1 DEF FiledInOrder
<1>9. SavedBeforePublished'
  BY DEF World, SavedBeforePublished, Filed
<1>10. AckedDelivered'
  <2>1. ASSUME NEW c \in DOMAIN commands, commands[c].outcome = "done",
               NEW d \in DOMAIN events', events'[d].cmd = c, events'[d].kind = "domain"
        PROVE  <<c, d>> \in published
    <3>1. d # e
      BY <1>3, <2>1
    <3>2. d \in DOMAIN events /\ events'[d] = events[d]
      BY <1>3, <3>1
    <3> QED BY <2>1, <3>2 DEF World, AckedDelivered, RaisedBy
  <2> QED BY <2>1 DEF AckedDelivered, RaisedBy
<1> QED BY <1>6, <1>7, <1>8, <1>9, <1>10 DEF World

-----------------------------------------------------------------------------
(* Steps.                                                                  *)

\* What the invariant says of one thread.
LEMMA LineOf ==
  ASSUME Inv, NEW t \in Threads
  PROVE  /\ Line(pc[t], cmd[t], model[t], changes[t], next[t],
                 models, events, store, commands, published)
         /\ models \in Seq(ModelT) /\ events \in Seq(EventT) /\ store \in Seq(EntryT)
         /\ commands \in Seq(CommandT)
         /\ pc[t] \in Places /\ cmd[t] \in Nat /\ model[t] \in Nat /\ count[t] \in Nat
         /\ changes[t] \in Seq(Nat) /\ next[t] \in Nat \ {0}
         /\ 0 \notin DOMAIN events
         /\ pc[t] # "idle" => cmd[t] \in DOMAIN commands /\ commands[cmd[t]].outcome = "pending"
         /\ pc[t] \notin {"idle", "sent"} => model[t] \in DOMAIN models
<1>1. Line(pc[t], cmd[t], model[t], changes[t], next[t],
           models, events, store, commands, published)
  BY DEF Inv, Lines
<1>2. /\ models \in Seq(ModelT) /\ events \in Seq(EventT) /\ store \in Seq(EntryT)
      /\ commands \in Seq(CommandT)
      /\ pc[t] \in Places /\ cmd[t] \in Nat /\ model[t] \in Nat /\ count[t] \in Nat
      /\ changes[t] \in Seq(Nat) /\ next[t] \in Nat \ {0}
  BY DEF Inv, Typed
<1>3. 0 \notin DOMAIN events
  BY <1>2
<1> QED BY <1>1, <1>2, <1>3 DEF Line

\* A thread moves on inside Send, where the same is said of it.
LEMMA LineMove ==
  ASSUME NEW from, NEW to, NEW n, NEW m, NEW s, NEW k, NEW M, NEW E, NEW S, NEW C, NEW P,
         Line(from, n, m, s, k, M, E, S, C, P),
         from \notin {"idle", "sent", "note", "save", "publish"},
         to \notin {"idle", "sent", "note", "save", "publish", "record"}
  PROVE  Line(to, n, m, s, k, M, E, S, C, P)
BY DEF Line, Outside, Streaming

\* Nothing has grown.
LEMMA GrownSame ==
  ASSUME Inv, NEW n, UNCHANGED <<models, events, store>>, published \subseteq published',
         \A c \in DOMAIN commands : c \in DOMAIN commands' /\ (c # n => commands'[c] = commands[c])
  PROVE  Grown(n, models, events, store, commands, published,
               models', events', store', commands', published')
<1>1. events \in Seq(EventT)
  BY DEF Inv, Typed
<1>2. 0 \notin DOMAIN events
  BY <1>1
<1>3. \A i \in DOMAIN store : store[i].ev \in DOMAIN events
  BY DEF Inv, World, Known
<1> QED BY <1>2, <1>3 DEF Grown, More, Domain

\* The repository is left alone.
LEMMA HoldingKept ==
  ASSUME Inv, NEW n, storage' = storage,
         Grown(n, models, events, store, commands, published,
               models', events', store', commands', published')
  PROVE  Holding'
<1>1. PICK M2, E2, S2, C2, P2 :
        M2 = models' /\ E2 = events' /\ S2 = store' /\ C2 = commands' /\ P2 = published'
  OBVIOUS
<1>2. Grown(n, models, events, store, commands, published, M2, E2, S2, C2, P2)
  BY <1>1
<1>3. \A id : CreatedIn(id, store, events) => CreatedIn(id, S2, E2)
  BY <1>2, GrownKeeps
<1>4. \A m \in DOMAIN models : m \in DOMAIN M2 /\ (Fresh => M2[m].id = models[m].id)
  BY <1>2 DEF Grown
<1>5. \A m \in DOMAIN models :
        CreatedIn(models[m].id, store, events) => CreatedIn(M2[m].id, S2, E2)
  BY <1>3, <1>4 DEF CreatedIn
<1> QED BY <1>1, <1>4, <1>5 DEF Inv, Holding, Dropped

\* Nobody starts or ends recording, and lists are the same or new and empty.
LEMMA LockedKept ==
  ASSUME Inv, NEW t \in Threads, NEW place, NEW n, NEW m, NEW s, NEW k,
         Local(t, place, n, m, s, k), pc[t] # "record", place # "record",
         \A o \in DOMAIN models' : \/ o \in DOMAIN models /\ models'[o].recorded = models[o].recorded
                                   \/ models'[o].recorded = <<>>
  PROVE  Locked'
<1>1. \A u \in Threads : /\ pc'[u] = "record" => pc[u] = "record" /\ model'[u] = model[u]
                         /\ pc[u] = "record" => pc'[u] = "record" /\ model'[u] = model[u]
  BY DEF Local
<1>2. \A t1, u1 \in Threads : pc'[t1] = "record" /\ pc'[u1] = "record" => t1 = u1
  BY <1>1 DEF Inv, Locked
<1>3. ASSUME NEW o \in DOMAIN models', NEW i \in DOMAIN models'[o].recorded,
             models'[o].recorded[i] = 0
      PROVE  \E u \in Threads : pc'[u] = "record" /\ model'[u] = o
  <2>1. o \in DOMAIN models /\ models'[o].recorded = models[o].recorded
    BY <1>3
  <2>2. PICK u \in Threads : pc[u] = "record" /\ model[u] = o
    BY <1>3, <2>1 DEF Inv, Locked
  <2> QED BY <1>1, <2>2
<1> QED BY <1>2, <1>3 DEF Locked

\* A step that concerns nobody but the thread and, maybe, the repository.
LEMMA QuietStep ==
  ASSUME Inv, Typed', Holding', NEW t \in Threads,
         UNCHANGED <<models, events, store, commands, published>>,
         NEW place, NEW m, NEW s, NEW k, Local(t, place, cmd[t], m, s, k),
         pc[t] \notin {"idle", "record"}, place \notin {"idle", "record"},
         Line(place, cmd[t], m, s, k, models, events, store, commands, published)
  PROVE  Inv'
<1>1. PICK n : n = cmd[t]
  OBVIOUS
<1>2. Grown(n, models, events, store, commands, published,
            models', events', store', commands', published')
  BY GrownSame
<1>3. Locked'
  BY LockedKept
<1>4. World'
  BY WorldQuiet DEF Inv
<1>5. \A u \in Threads : u # t /\ pc[u] # "idle" => cmd[u] # n
  BY <1>1 DEF Inv, Apart
<1>6. Line(place, n, m, s, k, models', events', store', commands', published')
  BY <1>1
<1>7. Local(t, place, n, m, s, k)
  BY <1>1
<1> QED BY <1>2, <1>3, <1>4, <1>5, <1>6, <1>7, InvStep

\* Send returns: the invariant says nothing more of its thread.
LEMMA ReturnStep ==
  ASSUME Inv, NEW t \in Threads, NEW outcome \in Outcomes, Return(t, outcome),
         pc[t] \notin {"idle", "record"},
         UNCHANGED <<memory, models, events, store>>, published \subseteq published',
         published' \in SUBSET (Nat \X Nat),
         /\ DOMAIN commands' = DOMAIN commands
         /\ commands'[cmd[t]].outcome = outcome
         /\ \A c \in DOMAIN commands : c # cmd[t] => commands'[c] = commands[c]
         => World'
  PROVE  Inv'
<1>1. PICK n : n = cmd[t]
  OBVIOUS
<1>2. n \in DOMAIN commands /\ commands \in Seq(CommandT)
  BY <1>1, LineOf
<1>3. commands' = [commands EXCEPT ![n].outcome = outcome]
  BY <1>1 DEF Return
<1>4. /\ commands' \in Seq(CommandT) /\ DOMAIN commands' = DOMAIN commands
      /\ commands'[n].outcome = outcome
      /\ \A c \in DOMAIN commands : c # n => commands'[c] = commands[c]
  <2>1. PICK x : x = [commands[n] EXCEPT !.outcome = outcome]
    OBVIOUS
  <2>2. commands[n] \in CommandT
    BY <1>2
  <2>3. x \in CommandT /\ x.outcome = outcome
    BY <2>1, <2>2 DEF CommandT
  <2>4. commands' = [commands EXCEPT ![n] = x]
    BY <1>2, <1>3, <2>1
  <2> QED BY <1>2, <2>3, <2>4
<1>5. World'
  BY <1>1, <1>4
<1>6. Local(t, "idle", 0, 0, <<>>, 1)
  BY LocalReturn DEF Inv
<1>7. Typed'
  <2>1. /\ pc' \in [Threads -> Places] /\ cmd' \in [Threads -> Nat] /\ model' \in [Threads -> Nat]
        /\ count' \in [Threads -> Nat] /\ next' \in [Threads -> Nat \ {0}]
    BY DEF Inv, Typed, Return, GoTo, Places
  <2>2. changes' \in [Threads -> Seq(Nat)]
    <3>1. PICK none \in Seq(Nat) : none = <<>>
      <4>1. <<>> \in Seq(Nat)
        OBVIOUS
      <4> QED BY <4>1, Zenon
    <3>2. changes' = [changes EXCEPT ![t] = none]
      BY <3>1 DEF Return
    <3> QED BY <3>2 DEF Inv, Typed
  <2> QED BY <1>4, <2>1, <2>2 DEF Inv, Typed
<1>8. Grown(n, models, events, store, commands, published,
            models', events', store', commands', published')
  BY <1>4, GrownSame
<1>9. Holding'
  BY <1>8, HoldingKept DEF memory
<1>10. PICK none, one : none = <<>> /\ one = 1
  OBVIOUS
<1>11. Local(t, "idle", 0, 0, none, one)
  BY <1>6, <1>10
<1>12. Locked'
  BY <1>11, LockedKept
<1>13. PICK M2, E2, S2, C2, P2 :
        M2 = models' /\ E2 = events' /\ S2 = store' /\ C2 = commands' /\ P2 = published'
  OBVIOUS
<1>14. Line("idle", 0, 0, none, one, M2, E2, S2, C2, P2)
  BY <1>10 DEF Line, Outside, Streaming, Recorded, Ascending, Together, Elements
<1>15. Line("idle", 0, 0, none, one, models', events', store', commands', published')
  BY <1>13, <1>14
<1>16. \A u \in Threads : u # t /\ pc[u] # "idle" => cmd[u] # n
  BY <1>1 DEF Inv, Apart
<1> QED BY <1>5, <1>7, <1>8, <1>9, <1>11, <1>12, <1>15, <1>16, InvStep

\* Send refuses the command, its consumer returns nothing, or it fails without a handler.
LEMMA StepFails ==
  ASSUME Inv, NEW t \in Threads,
         \/ ValidatorRefuses(t) \/ ConsumerThrows(t) \/ ReturnNothing(t) \/ NullReference(t)
         \/ CopyThrows(t) \/ SaveThrows(t) \/ ModuleThrows(t)
  PROVE  Inv'
<1>1. PICK outcome \in Outcomes :
        /\ Return(t, outcome) /\ outcome # "done"
        /\ pc[t] \notin {"idle", "record"}
        /\ UNCHANGED <<memory, models, events, store, published>>
  BY DEF ValidatorRefuses, ConsumerThrows, ReturnNothing, NullReference, CopyThrows, SaveThrows,
         ModuleThrows, Outcomes
<1>2. /\ DOMAIN commands' = DOMAIN commands
      /\ commands'[cmd[t]].outcome = outcome
      /\ \A c \in DOMAIN commands : c # cmd[t] => commands'[c] = commands[c]
      => World'
  BY <1>1, WorldQuiet DEF Inv
<1>3. published' \in SUBSET (Nat \X Nat)
  BY <1>1 DEF Inv, Typed
<1> QED BY <1>1, <1>2, <1>3, ReturnStep

\* What a thread gives to the handlers was filed.
LEMMA DeliverFacts ==
  ASSUME Inv, NEW t \in Threads, Deliver(t), NEW n, n = cmd[t], NEW e, e = changes[t][next[t]]
  PROVE  /\ next[t] \in DOMAIN changes[t] /\ e \in Nat /\ FiledIn(e, store)
         /\ n \in DOMAIN commands /\ commands[n].outcome = "pending"
         /\ published' = published \cup {<<n, e>>}
         /\ published' \in SUBSET (Nat \X Nat)
<1>1. /\ pc[t] = "publish" /\ next[t] <= Len(changes[t])
      /\ published' = published \cup {<<n, e>>}
  BY DEF Deliver
<1>2. /\ changes[t] \in Seq(Nat) /\ next[t] \in Nat \ {0} /\ n \in Nat
      /\ n \in DOMAIN commands /\ commands[n].outcome = "pending"
      /\ Line(pc[t], cmd[t], model[t], changes[t], next[t],
              models, events, store, commands, published)
  BY <1>1, LineOf
<1>3. next[t] \in DOMAIN changes[t] /\ e \in Nat
  BY <1>1, <1>2
<1>4. FiledIn(e, store)
  BY <1>1, <1>2, <1>3 DEF Line
<1>5. published' \in SUBSET (Nat \X Nat)
  BY <1>1, <1>2, <1>3 DEF Inv, Typed
<1> QED BY <1>1, <1>2, <1>3, <1>4, <1>5

\* A handler throws.
LEMMA StepHandlerThrows ==
  ASSUME Inv, NEW t \in Threads, HandlerThrows(t)
  PROVE  Inv'
<1>1. /\ Deliver(t) /\ Return(t, "failed") /\ UNCHANGED <<memory, models, events, store>>
      /\ pc[t] \notin {"idle", "record"}
  BY DEF HandlerThrows, Deliver
<1>2. PICK n, e : n = cmd[t] /\ e = changes[t][next[t]]
  OBVIOUS
<1>3. /\ FiledIn(e, store) /\ n \in DOMAIN commands
      /\ published' = published \cup {<<n, e>>} /\ published' \in SUBSET (Nat \X Nat)
  BY <1>1, <1>2, DeliverFacts
<1>4. ASSUME DOMAIN commands' = DOMAIN commands, commands'[cmd[t]].outcome = "failed",
             \A c \in DOMAIN commands : c # cmd[t] => commands'[c] = commands[c]
      PROVE  World'
  <2>1. \A c \in DOMAIN commands : commands'[c].outcome = "done" => commands[c].outcome = "done"
    BY <1>4
  <2> QED BY <1>1, <1>3, <1>4, <2>1, WorldDeliver DEF Inv
<1>5. "failed" \in Outcomes
  BY DEF Outcomes
<1> QED BY <1>1, <1>3, <1>4, <1>5, ReturnStep

\* Send returns when every event of its command was given to the handlers.
LEMMA StepComplete ==
  ASSUME Inv, NEW t \in Threads, Complete(t)
  PROVE  Inv'
<1>1. /\ pc[t] = "publish" /\ next[t] > Len(changes[t]) /\ Return(t, "done")
      /\ UNCHANGED <<memory, models, events, store, published>>
  BY DEF Complete
<1>2. PICK n : n = cmd[t]
  OBVIOUS
<1>3. /\ changes[t] \in Seq(Nat) /\ next[t] \in Nat
      /\ Line(pc[t], cmd[t], model[t], changes[t], next[t],
              models, events, store, commands, published)
  BY LineOf
<1>4. /\ Raised(n, events) \subseteq Elements(changes[t])
      /\ \A i \in DOMAIN changes[t] : i < next[t] => <<n, changes[t][i]>> \in published
  BY <1>1, <1>2, <1>3 DEF Line, Streaming
<1>5. \A i \in DOMAIN changes[t] : i < next[t]
  BY <1>1, <1>3
<1>6. \A e \in Raised(n, events) : <<n, e>> \in published
  BY <1>4, <1>5 DEF Elements
<1>7. /\ DOMAIN commands' = DOMAIN commands
      /\ \A c \in DOMAIN commands : c # n => commands'[c] = commands[c]
      => World'
  BY <1>1, <1>6, WorldDone DEF Inv
<1>8. "done" \in Outcomes /\ published' \in SUBSET (Nat \X Nat)
  BY <1>1 DEF Outcomes, Inv, Typed
<1> QED BY <1>1, <1>2, <1>7, <1>8, ReturnStep

\* The handlers of an event return.
LEMMA StepPublish ==
  ASSUME Inv, NEW t \in Threads, Publish(t)
  PROVE  Inv'
<1>1. /\ Deliver(t) /\ pc[t] = "publish" /\ next' = [next EXCEPT ![t] = @ + 1]
      /\ UNCHANGED <<memory, models, events, store, commands, pc, cmd, model, count, changes>>
  BY DEF Publish, Deliver
<1>2. PICK n, e, s, k, m : /\ n = cmd[t] /\ e = changes[t][next[t]] /\ s = changes[t]
                           /\ k = next[t] /\ m = model[t]
  OBVIOUS
<1>3. /\ k \in DOMAIN s /\ FiledIn(e, store) /\ n \in DOMAIN commands
      /\ published' = published \cup {<<n, e>>} /\ published' \in SUBSET (Nat \X Nat)
  BY <1>1, <1>2, DeliverFacts
<1>4. /\ s \in Seq(Nat) /\ k \in Nat \ {0}
      /\ Line("publish", n, m, s, k, models, events, store, commands, published)
  BY <1>1, <1>2, LineOf
<1>5. Typed'
  <2>1. next' \in [Threads -> Nat \ {0}]
    BY <1>1 DEF Inv, Typed
  <2> QED BY <1>1, <1>3, <2>1 DEF Inv, Typed
<1>6. World'
  BY <1>1, <1>3, WorldDeliver DEF Inv
<1>7. Grown(n, models, events, store, commands, published,
            models', events', store', commands', published')
  BY <1>1, <1>3, GrownSame
<1>8. Holding'
  BY <1>1, <1>7, HoldingKept DEF memory
<1>9. PICK j : j = k + 1
  OBVIOUS
<1>10. Local(t, "publish", n, m, s, j)
  BY <1>1, <1>2, <1>9 DEF Inv, Typed, Local
<1>11. Locked'
  BY <1>1, <1>10, LockedKept
<1>12. Line("publish", n, m, s, j, models, events, store, commands, published \cup {<<n, e>>})
  <2>1. \A i \in DOMAIN s : i < j => i < k \/ i = k
    BY <1>4, <1>9
  <2>2. \A i \in DOMAIN s : i < j => <<n, s[i]>> \in published \cup {<<n, e>>}
    BY <1>2, <1>4, <2>1 DEF Line
  <2> QED BY <1>4, <2>2 DEF Line, Outside, Streaming
<1>13. Line("publish", n, m, s, j, models', events', store', commands', published')
  BY <1>1, <1>3, <1>12
<1>14. \A u \in Threads : u # t /\ pc[u] # "idle" => cmd[u] # n
  BY <1>1, <1>2 DEF Inv, Apart
<1>15. \A u \in Threads : u # t /\ pc[u] = "record" =>
         models'[model[u]].recorded = models[model[u]].recorded
  BY <1>1
<1> QED BY <1>5, <1>6, <1>7, <1>8, <1>10, <1>11, <1>13, <1>14, <1>15, InvStep

\* The repository is constructed, or its bag changes, and the thread moves on.
LEMMA StepRepository ==
  ASSUME Inv, NEW t \in Threads, ConstructRepository(t) \/ FindOld(t) \/ Take(t) \/ Insert(t)
  PROVE  Inv'
<1>1. /\ UNCHANGED <<models, events, store, commands, published, locals>>
      /\ \/ pc[t] = "sent" /\ pc' = pc
         \/ /\ pc[t] \in {"update", "take", "insert"}
            /\ \E to \in {"take", "insert", "count"} : Step(t, pc[t], to)
  BY DEF ConstructRepository, FindOld, Take, Insert, Step
<1>2. PICK n, m, s, k : n = cmd[t] /\ m = model[t] /\ s = changes[t] /\ k = next[t]
  OBVIOUS
<1>3. Line(pc[t], n, m, s, k, models, events, store, commands, published)
  BY <1>2, LineOf
<1>4. PICK place :
        /\ Local(t, place, n, m, s, k)
        /\ pc[t] \notin {"idle", "record"} /\ place \notin {"idle", "record"}
        /\ Line(place, n, m, s, k, models, events, store, commands, published)
        /\ pc' = pc \/ \E to \in Places : pc' = [pc EXCEPT ![t] = to]
  <2>1. CASE pc[t] = "sent" /\ pc' = pc
    <3>1. Local(t, "sent", n, m, s, k)
      BY <1>1, <1>2, <2>1 DEF Local, locals
    <3> QED BY <1>3, <2>1, <3>1
  <2>2. ASSUME NEW to \in {"take", "insert", "count"}, Step(t, pc[t], to),
               pc[t] \in {"update", "take", "insert"}
        PROVE  /\ Local(t, to, n, m, s, k)
               /\ Line(to, n, m, s, k, models, events, store, commands, published)
               /\ \E p \in Places : pc' = [pc EXCEPT ![t] = p]
    <3>1. Local(t, to, n, m, s, k)
      BY <1>1, <1>2, <2>2, LocalStep DEF Inv
    <3>2. Line(to, n, m, s, k, models, events, store, commands, published)
      BY <1>3, <2>2, LineMove
    <3>3. to \in Places
      BY DEF Places
    <3> QED BY <2>2, <3>1, <3>2, <3>3 DEF Step, GoTo
  <2> QED BY <1>1, <2>1, <2>2
<1>5. Typed'
  BY <1>1, <1>4 DEF Inv, Typed, locals
<1>6. Holding'
  <2>1. /\ ~Dropped => IsABag(storage)
        /\ ~Dropped => \A o \in DOMAIN storage : /\ o \in DOMAIN models
                                                 /\ CreatedIn(models[o].id, store, events)
    BY DEF Inv, Holding
  <2>2. \/ storage' = storage
        \/ storage' = EmptyBag
        \/ ~Dropped /\ (\E o \in DOMAIN storage : storage' = BagRemove(storage, o))
        \/ ~Dropped /\ storage' = BagAdd(storage, m) /\ pc[t] = "insert"
    BY <1>2 DEF ConstructRepository, Construct, FindOld, memory, Take, TryTake, Insert, Add, Step,
                BagToSet
  <2>3. pc[t] = "insert" => m \in DOMAIN models /\ CreatedIn(models[m].id, store, events)
    BY <1>3 DEF Line, Outside
  <2>4. storage' # Null => IsABag(storage') /\ \A o \in DOMAIN storage' :
                             o \in DOMAIN models /\ CreatedIn(models[o].id, store, events)
    <3>1. CASE storage' = storage
      BY <2>1, <3>1 DEF Dropped
    <3>2. CASE storage' = EmptyBag
      BY <3>2 DEF EmptyBag, SetToBag, IsABag
    <3>3. ASSUME ~Dropped, NEW o \in DOMAIN storage, storage' = BagRemove(storage, o)
          PROVE  IsABag(storage') /\ DOMAIN storage' \subseteq DOMAIN storage
      BY <2>1, <3>3 DEF BagRemove, IsABag
    <3>4. ASSUME ~Dropped, storage' = BagAdd(storage, m)
          PROVE  IsABag(storage') /\ DOMAIN storage' \subseteq DOMAIN storage \cup {m}
      BY <2>1, <3>4 DEF BagAdd, IsABag
    <3> QED BY <2>1, <2>2, <2>3, <3>1, <3>2, <3>3, <3>4
  <2> QED BY <1>1, <2>4 DEF Holding, Dropped
<1>7. Local(t, place, cmd[t], m, s, k)
  BY <1>2, <1>4
<1>8. Line(place, cmd[t], m, s, k, models, events, store, commands, published)
  BY <1>2, <1>4
<1> QED BY <1>1, <1>4, <1>5, <1>6, <1>7, <1>8, QuietStep

\* The stored aggregate is found: its creation was noted when it was stored.
LEMMA StepFind ==
  ASSUME Inv, NEW t \in Threads, Find(t)
  PROVE  Inv'
<1>1. PICK o : o \in Matching(requested(t)) /\ model' = [model EXCEPT ![t] = o]
  BY DEF Find
<1>2. /\ pc[t] = "sent" /\ pc' = [pc EXCEPT ![t] = "execute"]
      /\ UNCHANGED <<memory, models, events, store, commands, published, cmd, count, changes, next>>
  BY DEF Find, Step, GoTo
<1>3. PICK n, m, s, k : n = cmd[t] /\ m = model[t] /\ s = changes[t] /\ k = next[t]
  OBVIOUS
<1>4. Line("sent", n, m, s, k, models, events, store, commands, published)
  BY <1>2, <1>3, LineOf
<1>5. o \in DOMAIN models /\ CreatedIn(models[o].id, store, events)
  BY <1>1 DEF Matching, Stored, BagIn, BagToSet, Inv, Holding
<1>6. Line("execute", n, o, s, k, models, events, store, commands, published)
  BY <1>4, <1>5 DEF Line, Outside, Streaming
<1>7. o \in Nat
  BY <1>5 DEF Inv, Typed
<1>8. Typed'
  <2>1. "execute" \in Places
    BY DEF Places
  <2> QED BY <1>1, <1>2, <1>7, <2>1 DEF Inv, Typed
<1>9. Local(t, "execute", n, o, s, k)
  BY <1>1, <1>2, <1>3 DEF Inv, Typed, Local
<1>10. Holding'
  BY <1>2 DEF memory, Inv, Holding, Dropped
<1> QED BY <1>2, <1>3, <1>6, <1>8, <1>9, <1>10, QuietStep

\* An event is applied, the consumer returns the aggregate, or the length of its list is read.
LEMMA StepAccept ==
  ASSUME Inv, NEW t \in Threads, Apply(t) \/ Accept(t) \/ CountChanges(t)
  PROVE  Inv'
<1>1. PICK to \in {"lock", "update", "copy"} :
        /\ pc[t] \in {"execute", "count"} /\ pc' = [pc EXCEPT ![t] = to]
        /\ UNCHANGED <<memory, models, events, store, commands, published, cmd, model, changes, next>>
        /\ count' = count \/ count' = [count EXCEPT ![t] = Len(aggregate(t).recorded)]
  BY DEF Apply, Accept, CountChanges, Step, GoTo, locals
<1>2. PICK n, m, s, k : n = cmd[t] /\ m = model[t] /\ s = changes[t] /\ k = next[t]
  OBVIOUS
<1>3. /\ Line(pc[t], n, m, s, k, models, events, store, commands, published)
      /\ models \in Seq(ModelT) /\ m \in DOMAIN models
  BY <1>1, <1>2, LineOf
<1>4. Line(to, n, m, s, k, models, events, store, commands, published)
  BY <1>1, <1>3, LineMove
<1>5. Typed'
  <2>1. models[m] \in ModelT
    BY <1>3
  <2>2. Len(models[m].recorded) \in Nat
    BY <2>1 DEF ModelT
  <2>3. count' \in [Threads -> Nat]
    BY <1>1, <1>2, <2>2 DEF Inv, Typed, aggregate
  <2>4. to \in Places
    BY DEF Places
  <2> QED BY <1>1, <2>3, <2>4 DEF Inv, Typed
<1>6. Local(t, to, n, m, s, k)
  BY <1>1, <1>2 DEF Inv, Typed, Local
<1>7. Holding'
  BY <1>1 DEF memory, Inv, Holding, Dropped
<1> QED BY <1>1, <1>2, <1>4, <1>5, <1>6, <1>7, QuietStep

\* The copy has every event of the command, and of any other up to the last it has.
LEMMA StepCopyChanges ==
  ASSUME Inv, NEW t \in Threads, CopyChanges(t)
  PROVE  Inv'
<1>1. PICK to, s :
        /\ to = (IF count[t] = 0 THEN "publish" ELSE "save") /\ s = aggregate(t).recorded
        /\ pc[t] = "copy" /\ pc' = [pc EXCEPT ![t] = to]
        /\ Len(s) = count[t] /\ changes' = [changes EXCEPT ![t] = s]
        /\ UNCHANGED <<memory, models, events, store, commands, published, cmd, model, count, next>>
  BY DEF CopyChanges, Step, GoTo
<1>2. PICK n, m, s0, k : n = cmd[t] /\ m = model[t] /\ s0 = changes[t] /\ k = next[t]
  OBVIOUS
<1>3. /\ Line("copy", n, m, s0, k, models, events, store, commands, published)
      /\ models \in Seq(ModelT) /\ m \in DOMAIN models /\ s = models[m].recorded
      /\ count[t] \in Nat
  BY <1>1, <1>2, LineOf DEF aggregate
<1>4. s \in Seq(Nat)
  <2>1. models[m] \in ModelT
    BY <1>3
  <2> QED BY <1>3, <2>1 DEF ModelT
<1>5. Recorded(s, events)
  BY <1>3 DEF Inv, World, Lists
<1>6. Raised(n, events) \subseteq Elements(s) /\ k = 1
  BY <1>3 DEF Line, Outside, Streaming
<1>7. Line(to, n, m, s, k, models, events, store, commands, published)
  <2>1. CASE to = "publish"
    <3>1. DOMAIN s = {}
      BY <1>1, <1>3, <1>4, <2>1
    <3> QED BY <1>3, <1>5, <1>6, <2>1, <3>1 DEF Line, Outside, Streaming
  <2>2. CASE to = "save"
    <3>1. k <= Len(s) /\ \A i \in DOMAIN s : ~ (i < k)
      BY <1>1, <1>3, <1>4, <1>6, <2>2
    <3> QED BY <1>3, <1>5, <1>6, <2>2, <3>1 DEF Line, Outside, Streaming
  <2> QED BY <1>1, <2>1, <2>2
<1>8. to \in Places /\ to \notin {"idle", "record"}
  BY <1>1 DEF Places
<1>9. Typed'
  BY <1>1, <1>4, <1>8 DEF Inv, Typed
<1>10. Local(t, to, n, m, s, k)
  BY <1>1, <1>2 DEF Inv, Typed, Local
<1>11. Holding'
  BY <1>1 DEF memory, Inv, Holding, Dropped
<1> QED BY <1>1, <1>2, <1>7, <1>8, <1>9, <1>10, <1>11, QuietStep

\* A command is sent: it has raised nothing.
LEMMA StepSend ==
  ASSUME Inv, NEW t \in Threads, NEW id \in Ids, Send(t, id)
  PROVE  Inv'
<1>1. PICK n, x : n = Len(commands) + 1 /\ x = [id |-> id, outcome |-> "pending"]
  OBVIOUS
<1>2. /\ pc[t] = "idle" /\ pc' = [pc EXCEPT ![t] = "sent"]
      /\ commands' = Append(commands, x) /\ cmd' = [cmd EXCEPT ![t] = n]
      /\ UNCHANGED <<memory, models, events, store, published, model, count, changes, next>>
  BY <1>1 DEF Send, Step, GoTo
<1>3. PICK m, s, k : m = model[t] /\ s = changes[t] /\ k = next[t]
  OBVIOUS
<1>4. /\ Line("idle", cmd[t], m, s, k, models, events, store, commands, published)
      /\ commands \in Seq(CommandT)
  BY <1>2, <1>3, LineOf
<1>5. x \in CommandT /\ x.outcome = "pending"
  BY <1>1 DEF CommandT, Outcomes
<1>6. /\ commands' \in Seq(CommandT)
      /\ DOMAIN commands' = DOMAIN commands \cup {n} /\ n \notin DOMAIN commands
      /\ \A c \in DOMAIN commands : commands'[c] = commands[c]
      /\ commands'[n] = x /\ n \in Nat
  BY <1>1, <1>2, <1>4, <1>5, Appended
<1>7. Typed'
  <2>1. "sent" \in Places
    BY DEF Places
  <2> QED BY <1>2, <1>6, <2>1 DEF Inv, Typed
<1>8. World'
  <2>1. \A c \in DOMAIN commands' :
          commands'[c].outcome = "done" => c \in DOMAIN commands /\ commands[c].outcome = "done"
    BY <1>5, <1>6
  <2> QED BY <1>2, <1>6, <2>1, WorldQuiet DEF Inv
<1>9. Grown(n, models, events, store, commands, published,
            models', events', store', commands', published')
  BY <1>2, <1>6, GrownSame
<1>10. Holding'
  BY <1>2, <1>9, HoldingKept DEF memory
<1>11. Local(t, "sent", n, m, s, k)
  BY <1>2, <1>3 DEF Inv, Typed, Local
<1>12. Locked'
  BY <1>2, <1>11, LockedKept
<1>13. Raised(n, events) = {}
  BY <1>6 DEF Inv, World, Known, Raised, Domain
<1>14. PICK C2 : C2 = commands'
  OBVIOUS
<1>15. Line("sent", n, m, s, k, models, events, store, C2, published)
  BY <1>4, <1>5, <1>6, <1>13, <1>14 DEF Line, Outside, Streaming
<1>16. Line("sent", n, m, s, k, models', events', store', commands', published')
  BY <1>2, <1>14, <1>15
<1>17. \A u \in Threads : u # t /\ pc[u] # "idle" => cmd[u] # n
  BY <1>6, LineOf
<1>18. \A u \in Threads : u # t /\ pc[u] = "record" =>
         models'[model[u]].recorded = models[model[u]].recorded
  BY <1>2
<1> QED BY <1>7, <1>8, <1>9, <1>10, <1>11, <1>12, <1>16, <1>17, <1>18, InvStep

\* Nothing is found: the object is a new one, or the one that there is gets the identifier.
LEMMA Resolved ==
  ASSUME models \in Seq(ModelT), NEW t \in Threads, FindNothing(t), requested(t) \in Ids,
         NEW m, m = Len(models'), NEW id, id = requested(t)
  PROVE  /\ models' \in Seq(ModelT) /\ m \in DOMAIN models' /\ m \in Nat
         /\ models'[m].id = id
         /\ m \notin DOMAIN models => models'[m].recorded = <<>>
         /\ \A o \in DOMAIN models' : o = m \/ (o \in DOMAIN models /\ models'[o] = models[o])
         /\ \A o \in DOMAIN models : /\ o \in DOMAIN models' /\ (Fresh => models'[o] = models[o])
                                    /\ models'[o].recorded = models[o].recorded
<1>1. CASE models' = [models EXCEPT ![Len(models)].id = id] /\ models # <<>> /\ ~Fresh
  <2>1. PICK l : l = Len(models)
    OBVIOUS
  <2>2. l \in DOMAIN models /\ l \in Nat /\ models[l] \in ModelT
    BY <1>1, <2>1
  <2>3. PICK x : x = [models[l] EXCEPT !.id = id]
    OBVIOUS
  <2>4. x \in ModelT /\ x.id = id /\ x.recorded = models[l].recorded
    BY <2>2, <2>3 DEF ModelT
  <2>5. models' = [models EXCEPT ![l] = x]
    BY <1>1, <2>1, <2>3
  <2>6. models' \in Seq(ModelT) /\ Len(models') = Len(models) /\ DOMAIN models' = DOMAIN models
    BY <2>2, <2>4, <2>5
  <2>7. models'[l] = x /\ \A o \in DOMAIN models : o # l => models'[o] = models[o]
    BY <2>2, <2>5
  <2> QED BY <1>1, <2>1, <2>2, <2>4, <2>6, <2>7
<1>2. CASE models' = Append(models, [id |-> id, recorded |-> <<>>])
  <2>1. PICK none \in Seq(Nat) : none = <<>>
    <3>1. <<>> \in Seq(Nat)
      OBVIOUS
    <3> QED BY <3>1, Zenon
  <2>2. PICK x : x = [id |-> id, recorded |-> none]
    OBVIOUS
  <2>3. x \in ModelT /\ x.id = id /\ x.recorded = none
    BY <2>2 DEF ModelT
  <2>4. models' = Append(models, x)
    BY <1>2, <2>1, <2>2
  <2>5. /\ models' \in Seq(ModelT) /\ Len(models') = Len(models) + 1 /\ Len(models) \in Nat
        /\ DOMAIN models' = DOMAIN models \cup {Len(models) + 1}
        /\ \A o \in DOMAIN models : models'[o] = models[o] /\ o # Len(models) + 1
        /\ models'[Len(models) + 1] = x
    BY <2>3, <2>4, Appended
  <2> QED BY <2>1, <2>3, <2>5
<1> QED BY <1>1, <1>2 DEF FindNothing, Fresh, Reused

\* Nothing is found: the instance of the container is given the identifier.
LEMMA StepFindNothing ==
  ASSUME Inv, NEW t \in Threads, FindNothing(t)
  PROVE  Inv'
<1>1. PICK m, id : m = Len(models') /\ id = requested(t)
  OBVIOUS
<1>2. /\ pc[t] = "sent" /\ pc' = [pc EXCEPT ![t] = "note"]
      /\ model' = [model EXCEPT ![t] = m]
      /\ UNCHANGED <<memory, events, store, commands, published, cmd, count, changes, next>>
  BY <1>1 DEF FindNothing, Step, GoTo
<1>3. PICK n, s, k : n = cmd[t] /\ s = changes[t] /\ k = next[t]
  OBVIOUS
<1>4. /\ Line("sent", n, model[t], s, k, models, events, store, commands, published)
      /\ models \in Seq(ModelT) /\ commands \in Seq(CommandT) /\ n \in DOMAIN commands
      /\ 0 \notin DOMAIN events
  BY <1>2, <1>3, LineOf
<1>5. id \in Ids /\ id = commands[n].id
  <2>1. commands[n] \in CommandT
    BY <1>4
  <2> QED BY <1>1, <1>3, <2>1 DEF requested, CommandT
<1>6. /\ models' \in Seq(ModelT) /\ m \in DOMAIN models' /\ m \in Nat
      /\ models'[m].id = id
      /\ m \notin DOMAIN models => models'[m].recorded = <<>>
      /\ \A o \in DOMAIN models' : o \in DOMAIN models \/ o = m
      /\ \A o \in DOMAIN models : /\ o \in DOMAIN models' /\ (Fresh => models'[o] = models[o])
                                 /\ models'[o].recorded = models[o].recorded
  BY <1>1, <1>4, <1>5, Resolved
<1>7. Typed'
  <2>1. "note" \in Places
    BY DEF Places
  <2> QED BY <1>2, <1>6, <2>1 DEF Inv, Typed
<1>8. World'
  <2>1. PICK none : none = <<>>
    OBVIOUS
  <2>2. Recorded(none, events)
    BY <2>1 DEF Recorded, Ascending, Together, Elements
  <2>3. Lists'
    BY <1>2, <1>6, <2>1, <2>2 DEF Inv, World, Lists
  <2> QED BY <1>2, <2>3, WorldLists DEF Inv
<1>9. PICK M2 : M2 = models'
  OBVIOUS
<1>10. Grown(n, models, events, store, commands, published,
             models', events', store', commands', published')
  <2>1. \A i \in DOMAIN store : store[i].ev \in DOMAIN events
    BY DEF Inv, World, Known
  <2>2. \A o \in DOMAIN models :
          /\ o \in DOMAIN M2 /\ (Fresh => M2[o].id = models[o].id)
          /\ \A e \in Elements(models[o].recorded) : e = 0 \/ e \in Elements(M2[o].recorded)
    BY <1>6, <1>9
  <2>3. Grown(n, models, events, store, commands, published,
              M2, events, store, commands, published)
    BY <1>4, <2>1, <2>2 DEF Grown, More, Domain
  <2> QED BY <1>2, <1>9, <2>3
<1>11. Holding'
  BY <1>2, <1>10, HoldingKept DEF memory
<1>12. Local(t, "note", n, m, s, k)
  BY <1>2, <1>3, <1>6 DEF Inv, Typed, Local
<1>13. Locked'
  <2>1. \A o \in DOMAIN models' :
          \/ o \in DOMAIN models /\ models'[o].recorded = models[o].recorded
          \/ models'[o].recorded = <<>>
    BY <1>6
  <2> QED BY <1>2, <1>12, <2>1, LockedKept
<1>14. Line("note", n, m, s, k, M2, events, store, commands, published)
  BY <1>4, <1>5, <1>6, <1>9 DEF Line, Outside, Streaming
<1>15. Line("note", n, m, s, k, models', events', store', commands', published')
  BY <1>2, <1>9, <1>14
<1>16. \A u \in Threads : u # t /\ pc[u] # "idle" => cmd[u] # n
  BY <1>2, <1>3 DEF Inv, Apart
<1>17. \A u \in Threads : u # t /\ pc[u] = "record" =>
         models'[model[u]].recorded = models[model[u]].recorded
  BY <1>6, LineOf
<1> QED BY <1>7, <1>8, <1>10, <1>11, <1>12, <1>13, <1>15, <1>16, <1>17, InvStep

\* One more event object.
LEMMA MoreAppended ==
  ASSUME NEW E \in Seq(EventT), NEW x \in EventT, NEW E2, E2 = Append(E, x)
  PROVE  /\ More(E, E2) /\ 0 \notin DOMAIN E2 /\ 0 \notin DOMAIN E
         /\ \A d \in Domain(E2) :
              d \in DOMAIN E \/ (x.kind = "domain" /\ E2[d].cmd = x.cmd)
<1>1. PICK n \in Nat : n = Len(E) + 1
  OBVIOUS
<1>2. /\ DOMAIN E2 = DOMAIN E \cup {n} /\ n \notin DOMAIN E /\ E2[n] = x /\ n # 0
      /\ \A e \in DOMAIN E : E2[e] = E[e] /\ e < n /\ e \in Nat /\ e # 0
  BY <1>1
<1>3. 0 \notin DOMAIN E
  BY <1>2
<1> QED BY <1>2, <1>3 DEF More, Domain

\* The creation of the aggregate is noted.
LEMMA StepNote ==
  ASSUME Inv, NEW t \in Threads, NoteAggregateCreated(t)
  PROVE  Inv'
<1>1. PICK n, m, s, k : n = cmd[t] /\ m = model[t] /\ s = changes[t] /\ k = next[t]
  OBVIOUS
<1>2. PICK id, e, x, y :
        /\ id = commands[n].id /\ e = Len(events) + 1
        /\ x = [kind |-> "created", src |-> id, cmd |-> n] /\ y = [src |-> id, ev |-> e]
  OBVIOUS
<1>3. /\ pc[t] = "note" /\ pc' = [pc EXCEPT ![t] = "execute"]
      /\ events' = Append(events, x) /\ store' = Append(store, y)
      /\ UNCHANGED <<memory, models, commands, published, locals>>
  BY <1>1, <1>2 DEF NoteAggregateCreated, Step, GoTo, requested
<1>4. /\ Line("note", n, m, s, k, models, events, store, commands, published)
      /\ models \in Seq(ModelT) /\ events \in Seq(EventT) /\ store \in Seq(EntryT)
      /\ commands \in Seq(CommandT) /\ n \in DOMAIN commands /\ m \in DOMAIN models /\ n \in Nat
  BY <1>1, <1>3, LineOf
<1>5. id \in Ids
  <2>1. commands[n] \in CommandT
    BY <1>4
  <2> QED BY <1>2, <2>1 DEF CommandT
<1>6. x \in EventT /\ y \in EntryT /\ x.kind = "created" /\ x.cmd = n /\ y.ev = e
  <2>1. e \in Nat
    BY <1>2, <1>4
  <2> QED BY <1>2, <1>4, <1>5, <2>1 DEF EventT, EntryT
<1>7. World' /\ CreatedIn(id, store', events')
  BY <1>2, <1>3, <1>4, <1>5, WorldNoted DEF Inv
<1>8. PICK E2, S2 : E2 = events' /\ S2 = store'
  OBVIOUS
<1>9. /\ More(events, E2) /\ 0 \notin DOMAIN E2 /\ 0 \notin DOMAIN events
      /\ \A d \in Domain(E2) : d \in DOMAIN events
  BY <1>3, <1>4, <1>6, <1>8, MoreAppended
<1>10. /\ E2 \in Seq(EventT) /\ S2 \in Seq(EntryT)
       /\ \A i \in DOMAIN store : i \in DOMAIN S2 /\ S2[i] = store[i]
  BY <1>3, <1>4, <1>6, <1>8
<1>11. Typed'
  <2>1. "execute" \in Places
    BY DEF Places
  <2> QED BY <1>3, <1>8, <1>10, <2>1 DEF Inv, Typed, locals
<1>12. Grown(n, models, events, store, commands, published,
             models', events', store', commands', published')
  <2>1. \A i \in DOMAIN store : store[i].ev \in DOMAIN events
    BY DEF Inv, World, Known
  <2>2. Grown(n, models, events, store, commands, published,
              models, E2, S2, commands, published)
    BY <1>9, <1>10, <2>1 DEF Grown
  <2> QED BY <1>3, <1>8, <2>2
<1>13. Holding'
  BY <1>3, <1>12, HoldingKept DEF memory
<1>14. Local(t, "execute", n, m, s, k)
  BY <1>1, <1>3 DEF Inv, Typed, Local, locals
<1>15. Locked'
  BY <1>3, <1>14, LockedKept
<1>16. Line("execute", n, m, s, k, models, E2, S2, commands, published)
  <2>1. Raised(n, E2) = {}
    BY <1>4, <1>9 DEF Line, Raised, More, Domain
  <2>2. Recorded(s, E2)
    BY <1>4, <1>9, RecordedKept DEF Line
  <2>3. CreatedIn(models[m].id, S2, E2)
    <3>1. Fresh => models[m].id = id
      BY <1>2, <1>4 DEF Line
    <3> QED BY <1>7, <1>8, <3>1 DEF CreatedIn
  <2> QED BY <1>4, <2>1, <2>2, <2>3 DEF Line, Outside, Streaming
<1>17. Line("execute", n, m, s, k, models', events', store', commands', published')
  BY <1>3, <1>8, <1>16
<1>18. \A u \in Threads : u # t /\ pc[u] # "idle" => cmd[u] # n
  BY <1>1, <1>3 DEF Inv, Apart
<1>19. \A u \in Threads : u # t /\ pc[u] = "record" =>
         models'[model[u]].recorded = models[model[u]].recorded
  BY <1>3
<1> QED BY <1>7, <1>11, <1>12, <1>13, <1>14, <1>15, <1>17, <1>18, <1>19, InvStep

\* What a thread saved and is about to save is all that the command raised before.
LEMMA SavedSoFar ==
  ASSUME NEW s \in Seq(Nat), NEW E \in Seq(EventT), NEW S, Recorded(s, E), NEW k \in DOMAIN s,
         s[k] # 0, \A i \in DOMAIN s : i < k => FiledIn(s[i], S)
  PROVE  /\ s[k] \in Domain(E)
         /\ \A d \in Domain(E) : d < s[k] /\ E[d].cmd = E[s[k]].cmd => FiledIn(d, S)
         /\ \A i \in DOMAIN s : i < k => s[i] # 0
<1>1. s[k] \in Domain(E) /\ s[k] \in Elements(s)
  BY DEF Recorded, Elements
<1>2. \A i \in DOMAIN s : i \in Nat /\ s[i] \in Nat
  OBVIOUS
<1>3. ASSUME NEW d \in Domain(E), d < s[k], E[d].cmd = E[s[k]].cmd
      PROVE  FiledIn(d, S)
  <2>1. d \in Elements(s)
    BY <1>1, <1>3 DEF Recorded, Together
  <2>2. PICK i \in DOMAIN s : s[i] = d
    BY <2>1 DEF Elements
  <2>3. d # 0
    BY <1>3 DEF Domain
  <2>4. ~ (k < i)
    BY <1>2, <1>3, <2>2, <2>3 DEF Recorded, Ascending
  <2>5. i # k
    BY <1>2, <1>3, <2>2
  <2> QED BY <1>2, <2>2, <2>4, <2>5
<1>4. \A i \in DOMAIN s : i < k => s[i] # 0
  BY DEF Recorded, Ascending
<1> QED BY <1>1, <1>3, <1>4

\* One of the changes is saved.
LEMMA StepSave ==
  ASSUME Inv, NEW t \in Threads, Save(t)
  PROVE  Inv'
<1>1. PICK n, m, s, k : n = cmd[t] /\ m = model[t] /\ s = changes[t] /\ k = next[t]
  OBVIOUS
<1>2. PICK e, to, j, y :
        /\ e = s[k] /\ y = [src |-> events[e].src, ev |-> e]
        /\ to = (IF k < Len(s) THEN "save" ELSE "publish")
        /\ j = (IF k < Len(s) THEN k + 1 ELSE 1)
  OBVIOUS
<1>3. /\ pc[t] = "save" /\ pc' = [pc EXCEPT ![t] = to] /\ e # 0
      /\ store' = Append(store, y) /\ next' = [next EXCEPT ![t] = j]
      /\ UNCHANGED <<memory, models, events, commands, published, cmd, model, count, changes>>
  <2>1. next' = [next EXCEPT ![t] = IF next[t] < Len(changes[t]) THEN next[t] + 1 ELSE 1]
    BY DEF Save
  <2> QED BY <1>1, <1>2, <2>1 DEF Save, Step, GoTo
<1>4. /\ Line("save", n, m, s, k, models, events, store, commands, published)
      /\ events \in Seq(EventT) /\ store \in Seq(EntryT)
      /\ s \in Seq(Nat) /\ k \in Nat \ {0}
  BY <1>1, <1>3, LineOf
<1>5. /\ k <= Len(s) /\ Recorded(s, events)
      /\ \A i \in DOMAIN s : i < k => FiledIn(s[i], store)
  BY <1>4 DEF Line
<1>6. k \in DOMAIN s /\ e \in Nat
  BY <1>2, <1>4, <1>5
<1>7. /\ e \in Domain(events)
      /\ \A d \in Domain(events) : d < e /\ events[d].cmd = events[e].cmd => FiledIn(d, store)
      /\ \A i \in DOMAIN s : i < k => s[i] # 0
  BY <1>2, <1>3, <1>4, <1>5, <1>6, SavedSoFar
<1>8. World' /\ FiledIn(e, store')
  BY <1>2, <1>3, <1>7, WorldSaved DEF Inv
<1>9. PICK S2 : S2 = store'
  OBVIOUS
<1>10. y \in EntryT
  <2>1. events[e] \in EventT
    BY <1>4, <1>7 DEF Domain
  <2> QED BY <1>2, <1>6, <2>1 DEF EventT, EntryT
<1>11. S2 \in Seq(EntryT) /\ \A i \in DOMAIN store : i \in DOMAIN S2 /\ S2[i] = store[i]
  BY <1>3, <1>4, <1>9, <1>10
<1>12. Typed'
  <2>1. to \in Places /\ j \in Nat \ {0}
    BY <1>2, <1>4 DEF Places
  <2> QED BY <1>3, <1>9, <1>11, <2>1 DEF Inv, Typed
<1>13. Grown(n, models, events, store, commands, published,
             models', events', store', commands', published')
  <2>1. \A i \in DOMAIN store : store[i].ev \in DOMAIN events
    BY DEF Inv, World, Known
  <2>2. 0 \notin DOMAIN events
    BY <1>4
  <2>3. Grown(n, models, events, store, commands, published,
              models, events, S2, commands, published)
    BY <1>11, <2>1, <2>2 DEF Grown, More, Domain
  <2> QED BY <1>3, <1>9, <2>3
<1>14. Holding'
  BY <1>3, <1>13, HoldingKept DEF memory
<1>15. Local(t, to, n, m, s, j)
  BY <1>1, <1>3 DEF Inv, Typed, Local
<1>16. Locked'
  <2>1. to # "record"
    BY <1>2
  <2> QED BY <1>3, <1>15, <2>1, LockedKept
<1>17. Line(to, n, m, s, j, models, events, S2, commands, published)
  <2>1. CreatedIn(models[m].id, S2, events)
    BY <1>4, <1>11 DEF Line, Outside, CreatedIn
  <2>2. \A i \in DOMAIN s : i < k \/ i = k => FiledIn(s[i], S2)
    BY <1>2, <1>5, <1>8, <1>9, <1>11 DEF FiledIn
  <2>3. CASE k < Len(s)
    <3>1. to = "save" /\ j <= Len(s) /\ \A i \in DOMAIN s : i < j => i < k \/ i = k
      BY <1>2, <1>4, <2>3
    <3> QED BY <1>4, <2>1, <2>2, <3>1 DEF Line, Outside, Streaming
  <2>4. CASE ~ (k < Len(s))
    <3>1. /\ to = "publish" /\ \A i \in DOMAIN s : i < k \/ i = k
          /\ \A i \in DOMAIN s : ~ (i < j)
      BY <1>2, <1>4, <1>5, <2>4
    <3>2. \A i \in DOMAIN s : s[i] # 0
      BY <1>2, <1>3, <1>7, <3>1
    <3> QED BY <1>4, <2>1, <2>2, <3>1, <3>2 DEF Line, Outside, Streaming
  <2> QED BY <2>3, <2>4
<1>18. Line(to, n, m, s, j, models', events', store', commands', published')
  BY <1>3, <1>9, <1>17
<1>19. \A u \in Threads : u # t /\ pc[u] # "idle" => cmd[u] # n
  BY <1>1, <1>3 DEF Inv, Apart
<1>20. \A u \in Threads : u # t /\ pc[u] = "record" =>
         models'[model[u]].recorded = models[model[u]].recorded
  BY <1>3
<1> QED BY <1>8, <1>12, <1>13, <1>14, <1>15, <1>16, <1>18, <1>19, <1>20, InvStep

\* The list of one aggregate changes.
LEMMA ListChanges ==
  ASSUME NEW M \in Seq(ModelT), NEW m \in DOMAIN M, NEW r \in Seq(Nat),
         NEW M2, M2 = [M EXCEPT ![m].recorded = r]
  PROVE  /\ M2 \in Seq(ModelT) /\ DOMAIN M2 = DOMAIN M
         /\ M2[m].recorded = r /\ M2[m].id = M[m].id
         /\ \A o \in DOMAIN M : o # m => M2[o] = M[o]
<1>1. PICK x : x = [M[m] EXCEPT !.recorded = r]
  OBVIOUS
<1>2. M[m] \in ModelT
  OBVIOUS
<1>3. x \in ModelT /\ x.recorded = r /\ x.id = M[m].id
  BY <1>1, <1>2 DEF ModelT
<1>4. M2 = [M EXCEPT ![m] = x]
  BY <1>1
<1> QED BY <1>3, <1>4

\* The lock is taken: the list of the aggregate gets a slot for the event.
LEMMA StepLock ==
  ASSUME Inv, NEW t \in Threads, Lock(t)
  PROVE  Inv'
<1>1. PICK n, m, s, k : n = cmd[t] /\ m = model[t] /\ s = changes[t] /\ k = next[t]
  OBVIOUS
<1>2. PICK l, r : l = models[m].recorded /\ r = Append(l, 0)
  OBVIOUS
<1>3. /\ pc[t] = "lock" /\ pc' = [pc EXCEPT ![t] = "record"]
      /\ \A u \in Threads : pc[u] # "record"
      /\ models' = [models EXCEPT ![m].recorded = r]
      /\ UNCHANGED <<memory, events, store, commands, published, locals>>
  BY <1>1, <1>2 DEF Lock, AddUnlocked, Step, GoTo
<1>4. /\ Line("lock", n, m, s, k, models, events, store, commands, published)
      /\ models \in Seq(ModelT) /\ m \in DOMAIN models /\ 0 \notin DOMAIN events
  BY <1>1, <1>3, LineOf
<1>5. l \in Seq(Nat) /\ Recorded(l, events)
  <2>1. models[m] \in ModelT
    BY <1>4
  <2> QED BY <1>2, <1>4, <2>1 DEF ModelT, Inv, World, Lists
<1>6. \A o \in DOMAIN models : \A i \in DOMAIN models[o].recorded : models[o].recorded[i] # 0
  BY <1>3 DEF Inv, Locked
<1>7. /\ r \in Seq(Nat) /\ Recorded(r, events) /\ Elements(l) \subseteq Elements(r)
      /\ Len(r) > 0 /\ r[Len(r)] = 0
  <2>1. \A i \in DOMAIN l : l[i] # 0
    BY <1>2, <1>4, <1>6
  <2> QED BY <1>2, <1>4, <1>5, <2>1, RecordedSlot
<1>8. PICK M2 : M2 = models'
  OBVIOUS
<1>9. /\ M2 \in Seq(ModelT) /\ DOMAIN M2 = DOMAIN models
      /\ M2[m].recorded = r /\ M2[m].id = models[m].id
      /\ \A o \in DOMAIN models : o # m => M2[o] = models[o]
  <2>1. M2 = [models EXCEPT ![m].recorded = r]
    BY <1>3, <1>8
  <2>2. models \in Seq(ModelT) /\ m \in DOMAIN models /\ r \in Seq(Nat)
    BY <1>4, <1>7
  <2> QED BY <2>1, <2>2, ListChanges
<1>10. Typed'
  <2>1. "record" \in Places
    BY DEF Places
  <2> QED BY <1>3, <1>8, <1>9, <2>1 DEF Inv, Typed, locals
<1>11. World'
  <2>1. \A o \in DOMAIN M2 : Recorded(M2[o].recorded, events)
    BY <1>7, <1>9 DEF Inv, World, Lists
  <2>2. Lists'
    BY <1>3, <1>8, <2>1 DEF Lists
  <2> QED BY <1>3, <2>2, WorldLists DEF Inv
<1>12. Grown(n, models, events, store, commands, published,
             models', events', store', commands', published')
  <2>1. \A i \in DOMAIN store : store[i].ev \in DOMAIN events
    BY DEF Inv, World, Known
  <2>2. \A o \in DOMAIN models :
          /\ o \in DOMAIN M2 /\ (Fresh => M2[o].id = models[o].id)
          /\ \A e \in Elements(models[o].recorded) : e = 0 \/ e \in Elements(M2[o].recorded)
    BY <1>2, <1>7, <1>9
  <2>3. Grown(n, models, events, store, commands, published,
              M2, events, store, commands, published)
    BY <1>4, <2>1, <2>2 DEF Grown, More, Domain
  <2> QED BY <1>3, <1>8, <2>3
<1>13. Holding'
  BY <1>3, <1>12, HoldingKept DEF memory
<1>14. Local(t, "record", n, m, s, k)
  BY <1>1, <1>3 DEF Inv, Typed, Local, locals
<1>15. Locked'
  <2>1. \A u \in Threads : pc'[u] = "record" => u = t
    BY <1>3, <1>14 DEF Local
  <2>2. pc'[t] = "record" /\ model'[t] = m
    BY <1>14 DEF Local
  <2>3. \A o \in DOMAIN M2 : \A i \in DOMAIN M2[o].recorded : M2[o].recorded[i] = 0 => o = m
    BY <1>6, <1>9
  <2> QED BY <1>8, <2>1, <2>2, <2>3 DEF Locked
<1>16. Line("record", n, m, s, k, M2, events, store, commands, published)
  BY <1>2, <1>4, <1>7, <1>9 DEF Line, Outside, Streaming
<1>17. Line("record", n, m, s, k, models', events', store', commands', published')
  BY <1>3, <1>8, <1>16
<1>18. \A u \in Threads : u # t /\ pc[u] # "idle" => cmd[u] # n
  BY <1>1, <1>3 DEF Inv, Apart
<1>19. \A u \in Threads : u # t /\ pc[u] = "record" =>
         models'[model[u]].recorded = models[model[u]].recorded
  BY <1>3
<1> QED BY <1>10, <1>11, <1>12, <1>13, <1>14, <1>15, <1>17, <1>18, <1>19, InvStep

\* The event is written into its slot.
LEMMA StepRecord ==
  ASSUME Inv, Stamped, NEW t \in Threads, Record(t)
  PROVE  Inv'
<1>1. PICK n, m, s, k : n = cmd[t] /\ m = model[t] /\ s = changes[t] /\ k = next[t]
  OBVIOUS
<1>2. PICK l, e, id, x, r :
        /\ l = models[m].recorded /\ e = Len(events) + 1 /\ id = stamp[t]
        /\ x = [kind |-> "domain", src |-> id, cmd |-> n] /\ r = [l EXCEPT ![Len(l)] = e]
  OBVIOUS
<1>3. /\ pc[t] = "record" /\ pc' = [pc EXCEPT ![t] = "execute"]
      /\ events' = Append(events, x) /\ models' = [models EXCEPT ![m].recorded[Len(l)] = e]
      /\ UNCHANGED <<memory, store, commands, published, cmd, model, count, changes, next>>
  BY <1>1, <1>2 DEF Record, Step, GoTo, aggregate
<1>4. /\ Line("record", n, m, s, k, models, events, store, commands, published)
      /\ models \in Seq(ModelT) /\ events \in Seq(EventT) /\ m \in DOMAIN models
      /\ n \in Nat /\ n \in DOMAIN commands /\ commands[n].outcome = "pending"
  BY <1>1, <1>3, LineOf
<1>5. models[m] \in ModelT
  BY <1>4
<1>6. /\ l \in Seq(Nat) /\ id \in Ids /\ Recorded(l, events)
      /\ Len(l) > 0 /\ l[Len(l)] = 0 /\ CreatedIn(id, store, events)
      /\ Raised(n, events) \subseteq Elements(l)
  <2>1. l \in Seq(Nat) /\ id \in Ids /\ CreatedIn(id, store, events)
    BY <1>2, <1>3, <1>5 DEF ModelT, Stamped
  <2>2. Recorded(l, events)
    BY <1>2, <1>4 DEF Inv, World, Lists
  <2> QED BY <1>2, <1>4, <2>1, <2>2 DEF Line, Outside
<1>7. x \in EventT /\ x.kind = "domain" /\ x.src = id /\ x.cmd = n
  BY <1>2, <1>4, <1>6 DEF EventT
<1>8. PICK M2, E2 : M2 = models' /\ E2 = events'
  OBVIOUS
<1>9. /\ r \in Seq(Nat) /\ Recorded(r, E2)
      /\ \A i \in DOMAIN r : r[i] # 0
      /\ \A d \in Elements(l) : d = 0 \/ d \in Elements(r)
      /\ Raised(n, E2) \subseteq Elements(r)
  <2>1. Raised(x.cmd, events) \subseteq Elements(l) /\ Writes(l, events, x, E2, r)
    BY <1>2, <1>3, <1>6, <1>7, <1>8 DEF Writes
  <2>2. /\ events \in Seq(EventT) /\ x \in EventT /\ x.kind = "domain"
        /\ l \in Seq(Nat) /\ Recorded(l, events)
    BY <1>4, <1>6, <1>7
  <2>3. /\ r \in Seq(Nat) /\ Recorded(r, E2)
        /\ \A i \in DOMAIN r : r[i] # 0
        /\ \A d \in Elements(l) : d = 0 \/ d \in Elements(r)
        /\ Raised(x.cmd, E2) \subseteq Elements(r)
    BY <2>1, <2>2, RecordedWritten
  <2> QED BY <1>7, <2>3
<1>10. /\ M2 \in Seq(ModelT) /\ DOMAIN M2 = DOMAIN models
       /\ M2[m].recorded = r /\ M2[m].id = models[m].id
       /\ \A o \in DOMAIN models : o # m => M2[o] = models[o]
  <2>1. M2 = [models EXCEPT ![m].recorded = r]
    <3>1. M2 = [models EXCEPT ![m].recorded[Len(l)] = e]
      BY <1>3, <1>8
    <3>2. M2 = [models EXCEPT ![m].recorded = [l EXCEPT ![Len(l)] = e]]
      BY <1>2, <3>1
    <3> QED BY <1>2, <3>2
  <2>2. models \in Seq(ModelT) /\ m \in DOMAIN models /\ r \in Seq(Nat)
    BY <1>4, <1>9
  <2>3. /\ M2 \in Seq(ModelT) /\ DOMAIN M2 = DOMAIN models
        /\ M2[m].recorded = r /\ M2[m].id = models[m].id
        /\ \A o \in DOMAIN models : o # m => M2[o] = models[o]
    BY <2>1, <2>2, ListChanges
  <2> QED BY <1>2, <2>3
<1>11. /\ More(events, E2) /\ 0 \notin DOMAIN E2 /\ 0 \notin DOMAIN events
       /\ \A d \in Domain(E2) : d \in DOMAIN events \/ E2[d].cmd = n
  <2>1. E2 = Append(events, x) /\ events \in Seq(EventT) /\ x \in EventT
    BY <1>3, <1>4, <1>7, <1>8
  <2>2. More(events, E2) /\ 0 \notin DOMAIN E2 /\ 0 \notin DOMAIN events
    BY <2>1, MoreAppended
  <2>3. \A d \in DOMAIN E2 : d \in DOMAIN events \/ E2[d] = x
    BY <2>1
  <2> QED BY <1>7, <2>2, <2>3 DEF Domain
<1>12. E2 \in Seq(EventT)
  BY <1>3, <1>4, <1>7, <1>8
<1>13. Typed'
  <2>1. "execute" \in Places
    BY DEF Places
  <2> QED BY <1>3, <1>8, <1>10, <1>12, <2>1 DEF Inv, Typed
<1>14. World'
  <2>1. ASSUME NEW o \in DOMAIN M2
        PROVE  Recorded(M2[o].recorded, E2)
    <3>1. CASE o = m
      BY <1>9, <1>10, <3>1
    <3>2. CASE o # m
      <4>1. Recorded(models[o].recorded, events) /\ M2[o] = models[o]
        BY <1>10, <3>2 DEF Inv, World, Lists
      <4> QED BY <1>11, <4>1, RecordedKept
    <3> QED BY <3>1, <3>2
  <2>2. Lists'
    BY <1>8, <2>1 DEF Lists
  <2> QED BY <1>3, <1>4, <1>6, <1>7, <2>2, WorldRaised DEF Inv
<1>15. Grown(n, models, events, store, commands, published,
             models', events', store', commands', published')
  <2>1. \A i \in DOMAIN store : store[i].ev \in DOMAIN events
    BY DEF Inv, World, Known
  <2>2. \A o \in DOMAIN models :
          /\ o \in DOMAIN M2 /\ (Fresh => M2[o].id = models[o].id)
          /\ \A d \in Elements(models[o].recorded) : d = 0 \/ d \in Elements(M2[o].recorded)
    BY <1>2, <1>9, <1>10
  <2>3. Grown(n, models, events, store, commands, published,
              M2, E2, store, commands, published)
    BY <1>11, <2>1, <2>2 DEF Grown
  <2> QED BY <1>3, <1>8, <2>3
<1>16. Holding'
  BY <1>3, <1>15, HoldingKept DEF memory
<1>17. Local(t, "execute", n, m, s, k)
  BY <1>1, <1>3 DEF Inv, Typed, Local
<1>18. \A u \in Threads : u # t => pc[u] # "record"
  BY <1>3 DEF Inv, Locked
<1>19. Locked'
  <2>1. \A u \in Threads : pc'[u] # "record"
    BY <1>17, <1>18 DEF Local
  <2>2. \A o \in DOMAIN M2 : \A i \in DOMAIN M2[o].recorded : M2[o].recorded[i] # 0
    <3>1. ASSUME NEW o \in DOMAIN models, o # m, NEW i \in DOMAIN models[o].recorded
          PROVE  models[o].recorded[i] # 0
      BY <1>1, <1>18, <3>1 DEF Inv, Locked
    <3> QED BY <1>9, <1>10, <3>1
  <2> QED BY <1>8, <2>1, <2>2 DEF Locked
<1>20. Line("execute", n, m, s, k, M2, E2, store, commands, published)
  <2>1. Recorded(s, E2)
    BY <1>4, <1>11, RecordedKept DEF Line
  <2>2. CreatedIn(M2[m].id, store, E2)
    <3>1. \A i \in DOMAIN store : store[i].ev \in DOMAIN events
      BY DEF Inv, World, Known
    <3>2. CreatedIn(models[m].id, store, events)
      BY <1>4 DEF Line, Outside
    <3> QED BY <1>10, <1>11, <3>1, <3>2 DEF CreatedIn, More
  <2> QED BY <1>4, <1>9, <1>10, <2>1, <2>2 DEF Line, Outside, Streaming
<1>21. Line("execute", n, m, s, k, models', events', store', commands', published')
  BY <1>3, <1>8, <1>20
<1>22. \A u \in Threads : u # t /\ pc[u] # "idle" => cmd[u] # n
  BY <1>1, <1>3 DEF Inv, Apart
<1> QED BY <1>13, <1>14, <1>15, <1>16, <1>17, <1>18, <1>19, <1>21, <1>22, InvStep

\* The finalizer drops the storage of the repository.
LEMMA StepDrop ==
  ASSUME Inv, Drop
  PROVE  Inv'
<1>1. /\ storage' = Null
      /\ UNCHANGED <<models, events, store, commands, published, pc, locals>>
  BY DEF Drop, Finalize
<1>2. Typed'
  BY <1>1 DEF Inv, Typed, locals
<1>3. World'
  BY <1>1, WorldQuiet DEF Inv
<1>4. Lines'
  BY <1>1 DEF Inv, Lines, locals
<1>5. Apart'
  BY <1>1 DEF Inv, Apart, locals
<1>6. Locked'
  BY <1>1 DEF Inv, Locked, locals
<1>7. Holding'
  BY <1>1 DEF Holding, Dropped
<1> QED BY <1>2, <1>3, <1>4, <1>5, <1>6, <1>7 DEF Inv

-----------------------------------------------------------------------------
(* The specification.                                                      *)

\* The invariant holds at the start.
LEMMA InvInit == Init => Inv
<1> SUFFICES ASSUME Init
             PROVE  Inv
  OBVIOUS
<1>1. PICK none : none = <<>>
  OBVIOUS
<1>2. /\ storage = EmptyBag /\ models = none /\ events = none /\ store = none
      /\ commands = none /\ published = {}
      /\ pc = [t \in Threads |-> "idle"] /\ cmd = [t \in Threads |-> 0]
      /\ model = [t \in Threads |-> 0]
      /\ count = [t \in Threads |-> 0]
      /\ changes = [t \in Threads |-> none] /\ next = [t \in Threads |-> 1]
  BY <1>1 DEF Init, RepositoryInit
<1>3. \A S : none \in Seq(S)
  BY <1>1
<1>4. DOMAIN none = {}
  BY <1>1
<1>5. Typed
  <2>1. "idle" \in Places
    BY DEF Places
  <2> QED BY <1>2, <1>3, <2>1 DEF Typed
<1>6. World
  <2>1. Lists /\ Known
    BY <1>2, <1>4 DEF Lists, Known
  <2>2. Creations /\ FiledInOrder
    BY <1>2, <1>4 DEF Creations, CreationFirst, FiledInOrder
  <2>3. SavedBeforePublished /\ AckedDelivered
    BY <1>2, <1>4 DEF SavedBeforePublished, AckedDelivered
  <2> QED BY <2>1, <2>2, <2>3 DEF World
<1>7. Lines
  <2>1. Line("idle", 0, 0, none, 1, models, events, store, commands, published)
    BY <1>4 DEF Line, Outside, Streaming, Recorded, Ascending, Together, Elements
  <2> QED BY <1>2, <2>1 DEF Lines
<1>8. Apart /\ Locked
  BY <1>2, <1>4 DEF Apart, Locked
<1>9. Holding
  BY <1>2 DEF Holding, EmptyBag, SetToBag, IsABag
<1> QED BY <1>5, <1>6, <1>7, <1>8, <1>9 DEF Inv

\* Every step keeps the invariant.
LEMMA InvNext == Inv /\ Stamped /\ [Next]_vars => Inv'
<1> SUFFICES ASSUME Inv, Stamped, [Next]_vars
             PROVE  Inv'
  OBVIOUS
<1>1. ASSUME NEW t \in Threads, NEW id \in Ids, Send(t, id)
      PROVE  Inv'
  BY <1>1, StepSend
<1>2. ASSUME NEW t \in Threads, Load(t)
      PROVE  Inv'
  <2>1. CASE ConstructRepository(t)
    BY <2>1, StepRepository
  <2>2. CASE Find(t)
    BY <2>2, StepFind
  <2>3. CASE FindNothing(t)
    BY <2>3, StepFindNothing
  <2>4. CASE NoteAggregateCreated(t)
    BY <2>4, StepNote
  <2> QED BY <1>2, <2>1, <2>2, <2>3, <2>4 DEF Load
<1>3. ASSUME NEW t \in Threads, Execute(t)
      PROVE  Inv'
  <2>1. CASE Lock(t)
    BY <2>1, StepLock
  <2>2. CASE Record(t)
    BY <2>2, StepRecord
  <2>3. CASE ValidatorRefuses(t) \/ ConsumerThrows(t) \/ ReturnNothing(t)
    BY <2>3, StepFails
  <2>4. CASE Apply(t) \/ Accept(t)
    BY <2>4, StepAccept
  <2> QED BY <1>3, <2>1, <2>2, <2>3, <2>4 DEF Execute
<1>4. ASSUME NEW t \in Threads, Update(t)
      PROVE  Inv'
  <2>1. CASE FindOld(t) \/ Take(t) \/ Insert(t)
    BY <2>1, StepRepository
  <2>2. CASE NullReference(t)
    BY <2>2, StepFails
  <2> QED BY <1>4, <2>1, <2>2 DEF Update
<1>5. ASSUME NEW t \in Threads, Copy(t)
      PROVE  Inv'
  <2>1. CASE CountChanges(t)
    BY <2>1, StepAccept
  <2>2. CASE CopyChanges(t)
    BY <2>2, StepCopyChanges
  <2>3. CASE CopyThrows(t)
    BY <2>3, StepFails
  <2> QED BY <1>5, <2>1, <2>2, <2>3 DEF Copy
<1>6. ASSUME NEW t \in Threads, Stream(t)
      PROVE  Inv'
  <2>1. CASE Save(t)
    BY <2>1, StepSave
  <2>2. CASE SaveThrows(t) \/ ModuleThrows(t)
    BY <2>2, StepFails
  <2>3. CASE Publish(t)
    BY <2>3, StepPublish
  <2>4. CASE HandlerThrows(t)
    BY <2>4, StepHandlerThrows
  <2>5. CASE Complete(t)
    BY <2>5, StepComplete
  <2> QED BY <1>6, <2>1, <2>2, <2>3, <2>4, <2>5 DEF Stream
<1>7. CASE Drop
  BY <1>7, StepDrop
<1>8. CASE UNCHANGED vars
  <2>1. UNCHANGED <<memory, models, events, store, commands, published, pc, locals>>
    BY <1>8 DEF vars
  <2>2. Typed'
    BY <2>1 DEF Inv, Typed, locals
  <2>3. World'
    BY <2>1, WorldQuiet DEF Inv
  <2>4. Lines'
    BY <2>1 DEF Inv, Lines, locals
  <2>5. Apart' /\ Locked'
    BY <2>1 DEF Inv, Apart, Locked, locals
  <2>6. Holding'
    BY <2>1 DEF Inv, Holding, Dropped, memory
  <2> QED BY <2>2, <2>3, <2>4, <2>5, <2>6 DEF Inv
<1> QED BY <1>1, <1>2, <1>3, <1>4, <1>5, <1>6, <1>7, <1>8 DEF Next

\* A step that lets no other event wait.
Waiting == {"lock", "record"}

Stays ==
  /\ stamp' \in [Threads -> Ids \cup {Null}]
  /\ \A t \in Threads : pc'[t] \in Waiting => pc[t] \in Waiting /\ stamp'[t] = stamp[t]

LEMMA StaysMoved ==
  ASSUME Typed, Stamped, NEW t \in Threads, NEW to, pc' = [pc EXCEPT ![t] = to],
         \/ to \notin Waiting /\ (stamp' = stamp \/ stamp' = [stamp EXCEPT ![t] = Null])
         \/ pc[t] \in Waiting /\ stamp' = stamp
  PROVE  Stays
<1>1. pc \in [Threads -> Places] /\ stamp \in [Threads -> Ids \cup {Null}]
  BY DEF Typed, Stamped
<1>2. /\ stamp' \in [Threads -> Ids \cup {Null}]
      /\ \A u \in Threads : u # t => stamp'[u] = stamp[u] /\ pc'[u] = pc[u]
      /\ pc'[t] = to
  BY <1>1
<1> QED BY <1>2 DEF Stays

\* Only Apply lets an event wait.
LEMMA StaysNext ==
  ASSUME Typed, Stamped, NEW t \in Threads,
         \/ \E id \in Ids : Send(t, id)
         \/ Load(t) \/ Lock(t) \/ Record(t) \/ ValidatorRefuses(t) \/ ConsumerThrows(t)
         \/ ReturnNothing(t) \/ Accept(t) \/ Update(t) \/ Copy(t) \/ Stream(t)
  PROVE  Stays
<1> USE DEF Waiting
<1>1. ASSUME NEW outcome, Return(t, outcome)
      PROVE  Stays
  BY <1>1, StaysMoved DEF Return, GoTo
<1>2. ASSUME NEW from, NEW to, Step(t, from, to), to \notin Waiting, UNCHANGED stamp
      PROVE  Stays
  BY <1>2, StaysMoved DEF Step, GoTo
<1>3. ASSUME UNCHANGED <<pc, stamp>>
      PROVE  Stays
  BY <1>3 DEF Stays, Stamped
<1>4. ASSUME NEW id \in Ids, Send(t, id)
      PROVE  Stays
  BY <1>2, <1>4 DEF Send
<1>5. CASE Load(t)
  BY <1>2, <1>3, <1>5 DEF Load, ConstructRepository, Find, FindNothing, NoteAggregateCreated,
                          locals
<1>6. CASE Lock(t)
  <2>1. pc[t] = "lock" /\ pc' = [pc EXCEPT ![t] = "record"] /\ stamp' = stamp
    BY <1>6 DEF Lock, AddUnlocked, Step, GoTo, locals
  <2> QED BY <2>1, StaysMoved
<1>7. CASE Record(t)
  <2>1. pc' = [pc EXCEPT ![t] = "execute"] /\ stamp' = [stamp EXCEPT ![t] = Null]
    BY <1>7 DEF Record, Step, GoTo
  <2> QED BY <2>1, StaysMoved
<1>8. CASE ValidatorRefuses(t) \/ ConsumerThrows(t) \/ ReturnNothing(t) \/ Accept(t)
  BY <1>1, <1>2, <1>8 DEF ValidatorRefuses, ConsumerThrows, ReturnNothing, Accept, locals
<1>9. CASE Update(t)
  BY <1>1, <1>2, <1>9 DEF Update, FindOld, Take, Insert, NullReference, locals
<1>10. CASE Copy(t)
  BY <1>1, <1>2, <1>10 DEF Copy, CountChanges, CopyChanges, CopyThrows
<1>11. CASE Stream(t)
  BY <1>1, <1>2, <1>3, <1>11 DEF Stream, Save, SaveThrows, Publish, HandlerThrows,
     ModuleThrows, Complete
<1> QED BY <1>4, <1>5, <1>6, <1>7, <1>8, <1>9, <1>10, <1>11

\* What a stream began with stays there.
LEMMA CreatedStays ==
  ASSUME Inv, [Next]_vars, NEW id, CreatedIn(id, store, events)
  PROVE  CreatedIn(id, store, events)'
<1>1. store \in Seq(EntryT) /\ events \in Seq(EventT)
  BY DEF Inv, Typed
<1>2. \A i \in DOMAIN store : store[i].ev \in DOMAIN events
  BY DEF Inv, World, Known
<1>3. ASSUME \/ UNCHANGED store
             \/ \E x : store' = Append(store, x)
             ,
             \/ UNCHANGED events
             \/ \E x : events' = Append(events, x)
      PROVE  CreatedIn(id, store, events)'
  <2>1. \A i \in DOMAIN store : i \in DOMAIN store' /\ store'[i] = store[i]
    BY <1>1, <1>3
  <2>2. \A e \in DOMAIN events : events'[e] = events[e]
    BY <1>1, <1>3
  <2> QED BY <1>2, <2>1, <2>2 DEF CreatedIn
<1>4. ASSUME NEW t \in Threads, NEW i \in Ids, Send(t, i)
      PROVE  UNCHANGED <<store, events>>
  BY <1>4 DEF Send
<1>5. ASSUME NEW t \in Threads, Load(t)
      PROVE  (UNCHANGED store \/ \E x : store' = Append(store, x))
             /\ (UNCHANGED events \/ \E x : events' = Append(events, x))
  BY <1>5 DEF Load, ConstructRepository, Find, FindNothing, NoteAggregateCreated
<1>6. ASSUME NEW t \in Threads, Execute(t)
      PROVE  UNCHANGED store /\ (UNCHANGED events \/ \E x : events' = Append(events, x))
  BY <1>6 DEF Execute, Apply, Lock, AddUnlocked, Record, ValidatorRefuses, ConsumerThrows,
              ReturnNothing, Accept
<1>7. ASSUME NEW t \in Threads, Update(t) \/ Copy(t)
      PROVE  UNCHANGED <<store, events>>
  BY <1>7 DEF Update, FindOld, Take, Insert, NullReference, Copy, CountChanges, CopyChanges,
              CopyThrows
<1>8. ASSUME NEW t \in Threads, Stream(t)
      PROVE  UNCHANGED events /\ (UNCHANGED store \/ \E x : store' = Append(store, x))
  BY <1>8 DEF Stream, Save, SaveThrows, Publish, HandlerThrows, ModuleThrows, Complete
<1>9. CASE Drop \/ UNCHANGED vars
  BY <1>3, <1>9 DEF Drop, vars
<1> QED BY <1>3, <1>4, <1>5, <1>6, <1>7, <1>8, <1>9 DEF Next

\* Every step keeps the sources given to events that wait to be recorded: Apply takes that of
\* the aggregate it is called on.
LEMMA StampedNext ==
  ASSUME Inv, Stamped, [Next]_vars
  PROVE  Stamped'
<1>1. pc \in [Threads -> Places] /\ models \in Seq(ModelT)
      /\ stamp \in [Threads -> Ids \cup {Null}]
  BY DEF Inv, Typed, Stamped
<1>2. ASSUME Stays
      PROVE  Stamped'
  <2>1. ASSUME NEW u \in Threads, pc'[u] \in Waiting
        PROVE  stamp'[u] \in Ids /\ CreatedIn(stamp'[u], store', events')
    <3>1. pc[u] \in Waiting /\ stamp'[u] = stamp[u]
      BY <1>2, <2>1 DEF Stays
    <3>2. stamp[u] \in Ids /\ CreatedIn(stamp[u], store, events)
      BY <3>1 DEF Stamped, Waiting
    <3>3. PICK id : id = stamp[u]
      OBVIOUS
    <3>4. CreatedIn(id, store', events')
      BY <3>2, <3>3, CreatedStays DEF CreatedIn
    <3> QED BY <3>1, <3>2, <3>3, <3>4
  <2> QED BY <1>2, <2>1 DEF Stamped, Stays, Waiting
<1>3. ASSUME NEW t \in Threads, Apply(t)
      PROVE  Stamped'
  <2>1. /\ pc[t] = "execute" /\ pc' = [pc EXCEPT ![t] = "lock"]
        /\ stamp' = [stamp EXCEPT ![t] = models[model[t]].id]
        /\ UNCHANGED <<store, events>>
    BY <1>3 DEF Apply, Step, GoTo, aggregate
  <2>2. model[t] \in DOMAIN models /\ CreatedIn(models[model[t]].id, store, events)
    BY <2>1, LineOf DEF Line, Outside
  <2>3. models[model[t]] \in ModelT
    BY <1>1, <2>2
  <2>4. PICK id \in Ids : id = models[model[t]].id
    BY <2>3 DEF ModelT
  <2>5. /\ stamp' \in [Threads -> Ids \cup {Null}] /\ stamp'[t] = id
        /\ \A u \in Threads : u # t => stamp'[u] = stamp[u] /\ pc'[u] = pc[u]
    BY <1>1, <2>1, <2>4
  <2>6. \A u \in Threads :
          pc'[u] \in {"lock", "record"} => stamp'[u] \in Ids /\ CreatedIn(stamp'[u], store, events)
    BY <2>2, <2>4, <2>5 DEF Stamped
  <2> QED BY <2>1, <2>5, <2>6 DEF Stamped
<1>4. CASE Drop \/ UNCHANGED vars
  <2>1. UNCHANGED <<pc, stamp>>
    BY <1>4 DEF Drop, vars, locals
  <2> QED BY <1>1, <1>2, <2>1 DEF Stays
<1>5. ASSUME NEW t \in Threads,
             \/ \E id \in Ids : Send(t, id)
             \/ Load(t) \/ Execute(t) \/ Update(t) \/ Copy(t) \/ Stream(t)
      PROVE  Stamped'
  <2>1. Typed
    BY DEF Inv
  <2> QED BY <1>2, <1>3, <1>5, <2>1, StaysNext DEF Execute
<1> QED BY <1>4, <1>5 DEF Next

\* The invariants together.
LEMMA Always == Spec => [](Inv /\ Stamped)
<1>1. Init => Inv /\ Stamped
  BY InvInit DEF Init, Stamped
<1>2. Inv /\ Stamped /\ [Next]_vars => (Inv /\ Stamped)'
  BY InvNext, StampedNext
<1> QED BY <1>1, <1>2, PTL DEF Spec

\* When the container hands out an object for each new aggregate, the first event of a stream
\* in the storage is its creation, whichever threads load the aggregate, fail, or command
\* the stored object (AggregateRootRepository.FetchFromRepository).  The one object of the
\* default registration gets its identifier before the creation is noted, while another
\* thread may be filing events that it raises.
THEOREM CreationsFirst ==
  ASSUME Lifestyle = "transient"
  PROVE  Spec => []CreationFirst
<1>1. Inv => CreationFirst
  BY DEF Inv, World, Creations, Fresh
<1> QED BY <1>1, Always, PTL

\* The events of a command are filed in the order it raised them, although threads share
\* the list they are copied from (UnitOfWork.StreamEventsToStorage).
THEOREM OrderFiled == Spec => []FiledInOrder
<1>1. Inv => FiledInOrder
  BY DEF Inv, World
<1> QED BY <1>1, Always, PTL

\* Handlers are given no event that is not in the storage
\* (UnitOfWork.InvokeEventSourcingForAggregate).
THEOREM SavedFirst == Spec => []SavedBeforePublished
<1>1. Inv => SavedBeforePublished
  BY DEF Inv, World
<1> QED BY <1>1, Always, PTL

\* When Send returns the handlers were given every event its command raised, although the
\* list was copied without the lock that guards it (AggregateRoot.GetChanges).
THEOREM AckedHeard == Spec => []AckedDelivered
<1>1. Inv => AckedDelivered
  BY DEF Inv, World
<1> QED BY <1>1, Always, PTL

-----------------------------------------------------------------------------
(* Types.                                                                  *)

\* A sequence whose elements are all in S.
LEMMA SeqOf ==
  ASSUME NEW R, NEW s \in Seq(R), NEW S, \A i \in DOMAIN s : s[i] \in S
  PROVE  s \in Seq(S)
OBVIOUS

\* The flags of the repository are Booleans.
Flags == constructed \in BOOLEAN /\ abandoned \in BOOLEAN

\* Every step keeps them so.
LEMMA FlagsNext == Flags /\ [Next]_vars => Flags'
<1> SUFFICES ASSUME Flags, [Next]_vars
             PROVE  Flags'
  OBVIOUS
<1> USE DEF Flags, memory
<1>1. ASSUME NEW t \in Threads, NEW id \in Ids, Send(t, id)
      PROVE  Flags'
  BY <1>1 DEF Send
<1>2. ASSUME NEW t \in Threads, Load(t)
      PROVE  Flags'
  BY <1>2 DEF Load, ConstructRepository, Construct, Find, FindNothing, NoteAggregateCreated
<1>3. ASSUME NEW t \in Threads, Execute(t)
      PROVE  Flags'
  BY <1>3 DEF Execute, Apply, Lock, AddUnlocked, Record, ValidatorRefuses, ConsumerThrows,
              ReturnNothing, Accept
<1>4. ASSUME NEW t \in Threads, Update(t)
      PROVE  Flags'
  BY <1>4 DEF Update, FindOld, Take, TryTake, Insert, Add, NullReference
<1>5. ASSUME NEW t \in Threads, Copy(t)
      PROVE  Flags'
  BY <1>5 DEF Copy, CountChanges, CopyChanges, CopyThrows
<1>6. ASSUME NEW t \in Threads, Stream(t)
      PROVE  Flags'
  BY <1>6 DEF Stream, Save, SaveThrows, Publish, HandlerThrows, ModuleThrows, Complete
<1>7. CASE Drop
  BY <1>7 DEF Drop, Finalize
<1>8. CASE UNCHANGED vars
  BY <1>8 DEF vars
<1> QED BY <1>1, <1>2, <1>3, <1>4, <1>5, <1>6, <1>7, <1>8 DEF Next

\* The type invariant follows: references are to what there is.
LEMMA TypesFollow ==
  ASSUME Inv, Stamped, Flags
  PROVE  TypeOK
<1>1. /\ models \in Seq(ModelT) /\ events \in Seq(EventT) /\ store \in Seq(EntryT)
      /\ commands \in Seq(CommandT) /\ published \in SUBSET (Nat \X Nat)
      /\ pc \in [Threads -> Places] /\ cmd \in [Threads -> Nat] /\ model \in [Threads -> Nat]
      /\ count \in [Threads -> Nat] /\ changes \in [Threads -> Seq(Nat)]
      /\ next \in [Threads -> Nat \ {0}]
  BY DEF Inv, Typed
<1>2. Dropped \/ (IsABag(storage) /\ BagToSet(storage) \subseteq DOMAIN models)
  BY DEF Inv, Holding, BagToSet
<1>3. PICK E : E = DOMAIN events
  OBVIOUS
<1>4. ASSUME NEW s \in Seq(Nat), Recorded(s, events)
      PROVE  s \in Seq({0} \cup E)
  <2>1. \A i \in DOMAIN s : s[i] \in {0} \cup E
    BY <1>3, <1>4 DEF Recorded, Domain
  <2> QED BY <2>1, SeqOf
<1>5. models \in Seq([id : Ids, recorded : Seq({0} \cup E)])
  <2>1. ASSUME NEW m \in DOMAIN models
        PROVE  models[m] \in [id : Ids, recorded : Seq({0} \cup E)]
    <3>1. models[m] \in ModelT
      BY <1>1
    <3>2. models[m].recorded \in Seq(Nat) /\ Recorded(models[m].recorded, events)
      BY <3>1 DEF ModelT, Inv, World, Lists
    <3>3. models[m].recorded \in Seq({0} \cup E)
      BY <1>4, <3>2
    <3> QED BY <3>1, <3>3 DEF ModelT
  <2> QED BY <1>1, <2>1, SeqOf
<1>6. events \in Seq([kind : {"created", "domain"}, src : Ids, cmd : DOMAIN commands])
  <2>1. ASSUME NEW e \in DOMAIN events
        PROVE  events[e] \in [kind : {"created", "domain"}, src : Ids, cmd : DOMAIN commands]
    <3>1. events[e] \in EventT
      BY <1>1
    <3>2. events[e].cmd \in DOMAIN commands
      BY DEF Inv, World, Known
    <3> QED BY <3>1, <3>2 DEF EventT
  <2> QED BY <1>1, <2>1, SeqOf
<1>7. store \in Seq([src : Ids, ev : E])
  <2>1. ASSUME NEW i \in DOMAIN store
        PROVE  store[i] \in [src : Ids, ev : E]
    <3>1. store[i] \in EntryT
      BY <1>1
    <3>2. store[i].ev \in E
      BY <1>3 DEF Inv, World, Known
    <3> QED BY <3>1, <3>2 DEF EntryT
  <2> QED BY <1>1, <2>1, SeqOf
<1>8. published \in SUBSET ((DOMAIN commands) \X E)
  <2>1. ASSUME NEW p \in published
        PROVE  p \in (DOMAIN commands) \X E
    <3>1. p[1] \in DOMAIN commands
      BY DEF Inv, World, Known
    <3>2. p[2] \in E
      BY <1>3 DEF Inv, World, Known, SavedBeforePublished, Filed
    <3>3. p \in Nat \X Nat
      BY <1>1
    <3> QED BY <3>1, <3>2, <3>3
  <2> QED BY <2>1
<1>9. cmd \in [Threads -> {0} \cup DOMAIN commands]
  <2>1. \A t \in Threads : cmd[t] \in {0} \cup DOMAIN commands
    BY LineOf DEF Line
  <2> QED BY <1>1, <2>1
<1>10. model \in [Threads -> {0} \cup DOMAIN models]
  <2>1. \A t \in Threads : model[t] \in {0} \cup DOMAIN models
    BY LineOf DEF Line
  <2> QED BY <1>1, <2>1
<1>11. changes \in [Threads -> Seq({0} \cup E)]
  <2>1. ASSUME NEW t \in Threads
        PROVE  changes[t] \in Seq({0} \cup E)
    <3>1. changes[t] \in Seq(Nat) /\ Recorded(changes[t], events)
      BY LineOf DEF Line
    <3> QED BY <1>4, <3>1
  <2> QED BY <1>1, <2>1
<1>12. SlotsWritten
  <2>1. ASSUME NEW m \in DOMAIN models, NEW i \in DOMAIN models[m].recorded,
               models[m].recorded[i] = 0
        PROVE  i = Len(models[m].recorded)
    <3>1. PICK l : l = models[m].recorded
      OBVIOUS
    <3>2. models[m] \in ModelT
      BY <1>1
    <3>3. l \in Seq(Nat) /\ Recorded(l, events)
      BY <3>1, <3>2 DEF ModelT, Inv, World, Lists
    <3>4. i \in DOMAIN l /\ l[i] = 0 /\ \A j \in DOMAIN l : ~ (i < j)
      BY <2>1, <3>1, <3>3 DEF Recorded, Ascending
    <3>5. i \in 1..Len(l) /\ Len(l) \in Nat /\ Len(l) \in DOMAIN l
      BY <3>3, <3>4
    <3>6. ~ (i < Len(l))
      BY <3>4, <3>5
    <3>7. i = Len(l)
      BY <3>5, <3>6
    <3> QED BY <3>1, <3>7
  <2>2. \A m \in DOMAIN models : \A i \in DOMAIN models[m].recorded :
          models[m].recorded[i] = 0 => \E t \in Threads : pc[t] = "record" /\ model[t] = m
    BY DEF Inv, Locked
  <2> QED BY <2>1, <2>2 DEF SlotsWritten
<1>13. commands \in Seq([id : Ids, outcome : Outcomes])
  BY <1>1 DEF CommandT
<1>14. constructed \in BOOLEAN /\ abandoned \in BOOLEAN
  BY DEF Flags
<1>15. stamp \in [Threads -> Ids \cup {Null}]
  BY DEF Stamped
<1> QED BY <1>1, <1>2, <1>3, <1>5, <1>6, <1>7, <1>8, <1>9, <1>10, <1>11, <1>12, <1>13, <1>14,
           <1>15 DEF TypeOK

\* Every variable has its type, references are to what there is, and a list has an unwritten
\* slot only while a thread is inside AggregateRoot.Record.
THEOREM TypeCorrect == Spec => []TypeOK
<1>1. Init => Flags
  BY DEF Init, RepositoryInit, Flags
<1>2. Inv /\ Stamped /\ Flags => TypeOK
  BY TypesFollow
<1> QED BY <1>1, <1>2, Always, FlagsNext, PTL DEF Spec

-----------------------------------------------------------------------------
(* The repository is not emptied.                                          *)

\* Update is over.
PastInsert == {"count", "copy", "save", "publish"}

\* Some command has put its aggregate into the repository.
Updated ==
  \/ \E t \in Threads : pc[t] \in PastInsert
  \/ \E n \in DOMAIN commands : commands[n].outcome = "done"

\* No command comes past Get before the constructor has run, after which nothing clears the
\* repository but the finalizer; and who takes the last element out is about to put one in.
Stocked ==
  /\ ~constructed => ~Updated /\ \A t \in Threads : pc[t] \in {"idle", "sent"}
  /\ Updated /\ ~Dropped =>
       DOMAIN storage # {} \/ \E t \in Threads : pc[t] = "insert"

\* What a step of a thread does that leaves the repository alone.
LEMMA QuietMoves ==
  ASSUME Typed, NEW t \in Threads,
         \/ \E id \in Ids : Send(t, id)
         \/ Find(t) \/ FindNothing(t) \/ NoteAggregateCreated(t)
         \/ Execute(t) \/ FindOld(t) \/ NullReference(t) \/ Copy(t) \/ Stream(t)
  PROVE  /\ UNCHANGED <<storage, constructed>>
         /\ \A u \in Threads : u # t => pc'[u] = pc[u]
         /\ pc[t] = "insert" => Dropped
         /\ pc'[t] \in PastInsert => pc[t] \in PastInsert
         /\ pc[t] \in {"idle", "sent"} => constructed \/ pc'[t] \in {"idle", "sent"}
         /\ \A n \in DOMAIN commands' :
              commands'[n].outcome = "done" =>
                pc[t] \in PastInsert \/ (n \in DOMAIN commands /\ commands[n].outcome = "done")
<1>1. pc \in [Threads -> Places] /\ commands \in Seq(CommandT)
  BY DEF Typed
<1> USE DEF PastInsert, memory
<1>2. ASSUME NEW from, NEW to, Step(t, from, to)
      PROVE  pc[t] = from /\ pc'[t] = to /\ \A u \in Threads : u # t => pc'[u] = pc[u]
  BY <1>1, <1>2 DEF Step, GoTo
<1>3. ASSUME NEW outcome, Return(t, outcome)
      PROVE  /\ pc'[t] = "idle" /\ \A u \in Threads : u # t => pc'[u] = pc[u]
             /\ \A n \in DOMAIN commands' :
                  /\ n \in DOMAIN commands
                  /\ commands'[n].outcome = commands[n].outcome \/ commands'[n].outcome = outcome
  BY <1>1, <1>3 DEF Return, GoTo
<1>4. ASSUME NEW id \in Ids, Send(t, id)
      PROVE  \A n \in DOMAIN commands' :
               commands'[n].outcome = "done" =>
                 n \in DOMAIN commands /\ commands[n].outcome = "done"
  <2>1. PICK x : x.outcome = "pending" /\ commands' = Append(commands, x)
    BY <1>4 DEF Send
  <2> QED BY <1>1, <2>1
<1>5. ASSUME NEW id \in Ids, Send(t, id)
      PROVE  pc[t] = "idle" /\ pc'[t] = "sent" /\ UNCHANGED <<storage, constructed>>
             /\ \A u \in Threads : u # t => pc'[u] = pc[u]
  BY <1>2, <1>5 DEF Send
<1>6. CASE Find(t) \/ FindNothing(t) \/ NoteAggregateCreated(t)
  BY <1>2, <1>6 DEF Find, FindNothing, NoteAggregateCreated
<1>7. CASE Execute(t)
  BY <1>2, <1>3, <1>7 DEF Execute, Apply, Lock, AddUnlocked, Record, ValidatorRefuses,
     ConsumerThrows, ReturnNothing, Accept
<1>8. CASE FindOld(t)
  BY <1>2, <1>8 DEF FindOld
<1>9. CASE NullReference(t)
  BY <1>3, <1>9 DEF NullReference
<1>10. CASE Copy(t)
  BY <1>2, <1>3, <1>10 DEF Copy, CountChanges, CopyChanges, CopyThrows
<1>11. CASE Stream(t)
  BY <1>2, <1>3, <1>11 DEF Stream, Save, SaveThrows, Publish, Deliver, HandlerThrows,
     ModuleThrows, Complete
<1> QED BY <1>4, <1>5, <1>6, <1>7, <1>8, <1>9, <1>10, <1>11

LEMMA StockedNext ==
  ASSUME Typed, Holding, Stocked, [Next]_vars
  PROVE  Stocked'
<1>1. pc \in [Threads -> Places]
  BY DEF Typed
<1>2. ASSUME NEW t \in Threads,
             \/ \E id \in Ids : Send(t, id)
             \/ Find(t) \/ FindNothing(t) \/ NoteAggregateCreated(t)
             \/ Execute(t) \/ FindOld(t) \/ NullReference(t) \/ Copy(t) \/ Stream(t)
      PROVE  Stocked'
  <2>1. /\ UNCHANGED <<storage, constructed>>
        /\ \A u \in Threads : u # t => pc'[u] = pc[u]
        /\ pc[t] = "insert" => Dropped
        /\ pc'[t] \in PastInsert => pc[t] \in PastInsert
        /\ pc[t] \in {"idle", "sent"} => constructed \/ pc'[t] \in {"idle", "sent"}
        /\ \A n \in DOMAIN commands' :
             commands'[n].outcome = "done" =>
               pc[t] \in PastInsert \/ (n \in DOMAIN commands /\ commands[n].outcome = "done")
    BY <1>2, QuietMoves
  <2>2. Updated' => Updated
    BY <2>1 DEF Updated
  <2>3. Dropped' = Dropped
    BY <2>1 DEF Dropped
  <2> QED BY <2>1, <2>2, <2>3 DEF Stocked
<1>3. ASSUME NEW t \in Threads, ConstructRepository(t)
      PROVE  Stocked'
  <2>1. ~constructed /\ constructed' = TRUE /\ UNCHANGED <<pc, commands>>
    BY <1>3 DEF ConstructRepository, Construct
  <2> QED BY <2>1 DEF Stocked, Updated
<1>4. ASSUME NEW t \in Threads, Take(t)
      PROVE  Stocked'
  <2>1. pc[t] = "take" /\ pc'[t] = "insert" /\ constructed' = constructed
    BY <1>1, <1>4 DEF Take, Step, GoTo, TryTake
  <2> QED BY <2>1 DEF Stocked
<1>5. ASSUME NEW t \in Threads, Insert(t)
      PROVE  Stocked'
  <2>1. /\ pc[t] = "insert" /\ constructed' = constructed
        /\ storage' = BagAdd(storage, model[t])
    BY <1>5 DEF Insert, Step, Add
  <2>2. DOMAIN storage' # {}
    BY <2>1 DEF BagAdd
  <2> QED BY <2>1, <2>2 DEF Stocked
<1>6. CASE Drop
  <2>1. Dropped' /\ UNCHANGED <<constructed, pc, commands>>
    BY <1>6 DEF Drop, Finalize, Dropped
  <2> QED BY <2>1 DEF Stocked, Updated
<1>7. CASE UNCHANGED vars
  BY <1>7 DEF vars, memory, Stocked, Updated, Dropped
<1> QED BY <1>2, <1>3, <1>4, <1>5, <1>6, <1>7 DEF Next, Load, Update

\* An object has the identifier that some command named, whatever the container hands out.
Homes == \A m \in DOMAIN models : \E n \in DOMAIN commands : models[m].id = commands[n].id

LEMMA HomesNext == Inv /\ Homes /\ [Next]_vars => Homes'
<1> SUFFICES ASSUME Inv, Homes, [Next]_vars
             PROVE  Homes'
  OBVIOUS
<1>1. models \in Seq(ModelT) /\ commands \in Seq(CommandT)
  BY DEF Inv, Typed
<1>2. ASSUME UNCHANGED <<models, commands>>
      PROVE  Homes'
  BY <1>2 DEF Homes
<1>3. ASSUME NEW t \in Threads, NEW outcome, Return(t, outcome), UNCHANGED models
      PROVE  Homes'
  <2>1. \A n \in DOMAIN commands : n \in DOMAIN commands' /\ commands'[n].id = commands[n].id
    BY <1>1, <1>3 DEF Return, CommandT
  <2> QED BY <1>3, <2>1 DEF Homes
<1>4. ASSUME NEW t \in Threads, NEW id \in Ids, Send(t, id)
      PROVE  Homes'
  <2>1. PICK x : commands' = Append(commands, x) /\ UNCHANGED models
    BY <1>4 DEF Send
  <2>2. \A n \in DOMAIN commands : n \in DOMAIN commands' /\ commands'[n] = commands[n]
    BY <1>1, <2>1
  <2> QED BY <2>1, <2>2 DEF Homes
<1>5. ASSUME NEW t \in Threads, FindNothing(t)
      PROVE  Homes'
  <2>1. pc[t] = "sent" /\ commands' = commands
    BY <1>5 DEF FindNothing, Step
  <2>2. cmd[t] \in DOMAIN commands
    BY <2>1, LineOf
  <2>3. requested(t) \in Ids
    <3>1. commands[cmd[t]] \in CommandT
      BY <1>1, <2>2
    <3> QED BY <3>1 DEF CommandT, requested
  <2>4. PICK m : m = Len(models')
    OBVIOUS
  <2>5. PICK id : id = requested(t)
    OBVIOUS
  <2>6. /\ models'[m].id = id
        /\ \A o \in DOMAIN models' : o = m \/ (o \in DOMAIN models /\ models'[o] = models[o])
    BY <1>1, <1>5, <2>3, <2>4, <2>5, Resolved
  <2> QED BY <2>1, <2>2, <2>5, <2>6 DEF Homes, requested
<1>6. ASSUME NEW t \in Threads, NEW l, models' = [models EXCEPT ![model[t]].recorded = l],
             pc[t] \notin {"idle", "sent"}, UNCHANGED commands
      PROVE  Homes'
  <2>1. model[t] \in DOMAIN models
    BY <1>6, LineOf
  <2>2. models[model[t]] \in ModelT
    BY <1>1, <2>1
  <2>3. [models[model[t]] EXCEPT !.recorded = l].id = models[model[t]].id
    BY <2>2 DEF ModelT
  <2>4. \A m \in DOMAIN models' : m \in DOMAIN models /\ models'[m].id = models[m].id
    BY <1>1, <1>6, <2>1, <2>3
  <2> QED BY <1>6, <2>4 DEF Homes
<1>7. ASSUME NEW t \in Threads, Load(t)
      PROVE  Homes'
  BY <1>2, <1>5, <1>7 DEF Load, ConstructRepository, Find, NoteAggregateCreated
<1>8. ASSUME NEW t \in Threads, Execute(t)
      PROVE  Homes'
  <2>1. CASE Lock(t)
    <3>1. PICK l : models' = [models EXCEPT ![model[t]].recorded = l]
      BY <2>1 DEF Lock, AddUnlocked
    <3> QED BY <1>6, <2>1, <3>1 DEF Lock, AddUnlocked, Step
  <2>2. CASE Record(t)
    <3>1. models' = [models EXCEPT ![model[t]].recorded =
                       [models[model[t]].recorded EXCEPT
                          ![Len(aggregate(t).recorded)] = Len(events) + 1]]
      <4>1. models' = [models EXCEPT ![model[t]].recorded =
                         [@ EXCEPT ![Len(aggregate(t).recorded)] = Len(events) + 1]]
        BY <2>2 DEF Record
      <4> QED BY <4>1
    <3>2. PICK l : models' = [models EXCEPT ![model[t]].recorded = l]
      BY <3>1
    <3> QED BY <1>6, <2>2, <3>2 DEF Record, Step
  <2> QED BY <1>2, <1>3, <1>8, <2>1, <2>2 DEF Execute, Apply, ValidatorRefuses, ConsumerThrows,
          ReturnNothing, Accept
<1>9. ASSUME NEW t \in Threads, Update(t) \/ Copy(t) \/ Stream(t)
      PROVE  Homes'
  BY <1>2, <1>3, <1>9 DEF Update, FindOld, Take, Insert, NullReference, Copy, CountChanges,
     CopyChanges, CopyThrows, Stream, Save, SaveThrows, Publish, Deliver, HandlerThrows,
     ModuleThrows, Complete
<1>10. CASE Drop \/ UNCHANGED vars
  BY <1>2, <1>10 DEF Drop, vars
<1> QED BY <1>4, <1>7, <1>8, <1>9, <1>10 DEF Next

\* As long as all commands are for one aggregate, an acknowledged one leaves a model of it in
\* the repository, although Update takes out some element and puts one in while other threads
\* do the same, so that the repository is empty in between (InMemoryReadModelRepository.Update).
\* With two aggregates the element taken out may be the other's, and this does not hold.
THEOREM AckedKept == Spec => []KeptIfAlone
<1>1. Init => Stocked /\ Homes
  BY DEF Init, RepositoryInit, Stocked, Updated, PastInsert, Homes
<1>2. Inv /\ Stocked /\ Homes /\ [Next]_vars => (Stocked /\ Homes)'
  BY StockedNext, HomesNext DEF Inv
<1>3. Inv /\ Stocked /\ Homes => KeptIfAlone
  <2> SUFFICES ASSUME Inv, Stocked, Homes, ~Dropped, \A t \in Threads : pc[t] = "idle",
                      \A m, n \in DOMAIN commands : commands[m].id = commands[n].id,
                      NEW n \in DOMAIN commands, commands[n].outcome = "done"
               PROVE  Matching(commands[n].id) # {}
    BY DEF KeptIfAlone, AckedStored
  <2>1. DOMAIN storage # {}
    BY DEF Stocked, Updated
  <2>2. PICK m : m \in DOMAIN storage
    BY <2>1
  <2>3. m \in DOMAIN models
    BY <2>2 DEF Inv, Holding
  <2>4. models[m].id = commands[n].id
    BY <2>3 DEF Homes
  <2>5. Stored(m)
    BY <2>2 DEF Stored, BagIn, BagToSet
  <2> QED BY <2>3, <2>4, <2>5 DEF Matching
<1> QED BY <1>1, <1>2, <1>3, Always, PTL DEF Spec

-----------------------------------------------------------------------------
(* Events are filed under the aggregate their command is for.              *)

\* The thread commands the aggregate that its command names, and stamps events with that name.
Addressed(t) ==
  /\ pc[t] # "idle" => cmd[t] \in DOMAIN commands
  /\ pc[t] \notin {"idle", "sent"} =>
       model[t] \in DOMAIN models /\ aggregate(t).id = requested(t)
  /\ pc[t] \in Waiting => stamp[t] = requested(t)

Named ==
  /\ \A e \in DOMAIN events :
       events[e].cmd \in DOMAIN commands /\ events[e].src = commands[events[e].cmd].id
  /\ \A i \in DOMAIN store :
       store[i].ev \in DOMAIN events /\ store[i].src = events[store[i].ev].src
  /\ \A t \in Threads : Addressed(t)

\* No step renames a command or an object, or moves another thread.
Unnamed(t) ==
  /\ \A n \in DOMAIN commands : n \in DOMAIN commands' /\ commands'[n].id = commands[n].id
  /\ \A m \in DOMAIN models : m \in DOMAIN models' /\ models'[m].id = models[m].id
  /\ \A u \in Threads : u # t =>
       pc'[u] = pc[u] /\ cmd'[u] = cmd[u] /\ model'[u] = model[u] /\ stamp'[u] = stamp[u]

\* The threads and the objects after a step of one of them.
LEMMA NamedStep ==
  ASSUME Named, NEW t \in Threads, Unnamed(t), Addressed(t)',
         \A e \in DOMAIN events : e \in DOMAIN events' /\ events'[e] = events[e],
         \A e \in DOMAIN events' : e \in DOMAIN events
           \/ (events'[e].cmd \in DOMAIN commands' /\ events'[e].src = commands'[events'[e].cmd].id),
         \A i \in DOMAIN store' : (i \in DOMAIN store /\ store'[i] = store[i])
           \/ (store'[i].ev \in DOMAIN events' /\ store'[i].src = events'[store'[i].ev].src)
  PROVE  Named'
<1>1. \A e \in DOMAIN events' :
        events'[e].cmd \in DOMAIN commands' /\ events'[e].src = commands'[events'[e].cmd].id
  BY DEF Named, Unnamed
<1>2. \A i \in DOMAIN store' :
        store'[i].ev \in DOMAIN events' /\ store'[i].src = events'[store'[i].ev].src
  BY DEF Named
<1>3. ASSUME NEW u \in Threads, u # t
      PROVE  Addressed(u)'
  <2>1. Addressed(u)
    BY DEF Named
  <2>2. pc'[u] = pc[u] /\ cmd'[u] = cmd[u] /\ model'[u] = model[u] /\ stamp'[u] = stamp[u]
    BY <1>3 DEF Unnamed
  <2> QED BY <2>1, <2>2 DEF Unnamed, Addressed, aggregate, requested, Waiting
<1> QED BY <1>1, <1>2, <1>3 DEF Named

\* A step inside Send that neither finds an aggregate nor writes an event.
LEMMA NamedMove ==
  ASSUME Typed, Named, NEW t \in Threads, NEW from, NEW to, Step(t, from, to),
         from \notin {"idle", "sent"}, to \notin {"idle", "sent"}, to \in Waiting => from \in Waiting,
         UNCHANGED <<models, events, commands, cmd, model, stamp>>,
         \A i \in DOMAIN store' : (i \in DOMAIN store /\ store'[i] = store[i])
           \/ (store'[i].ev \in DOMAIN events /\ store'[i].src = events[store'[i].ev].src)
  PROVE  Named'
<1>1. pc[t] = from /\ pc'[t] = to /\ \A u \in Threads : u # t => pc'[u] = pc[u]
  BY DEF Typed, Step, GoTo
<1>2. Unnamed(t)
  BY <1>1 DEF Unnamed
<1>3. Addressed(t)
  BY DEF Named
<1>4. Addressed(t)'
  BY <1>1, <1>3 DEF Addressed, aggregate, requested
<1> QED BY <1>2, <1>4, NamedStep

\* Send returns or throws.
LEMMA NamedReturn ==
  ASSUME Typed, Stamped, Named, NEW t \in Threads, NEW outcome, Return(t, outcome),
         UNCHANGED <<models, events, store>>
  PROVE  Named'
<1>1. /\ pc \in [Threads -> Places] /\ cmd \in [Threads -> Nat] /\ model \in [Threads -> Nat]
      /\ commands \in Seq(CommandT) /\ stamp \in [Threads -> Ids \cup {Null}]
  BY DEF Typed, Stamped
<1>2. /\ pc'[t] = "idle"
      /\ \A u \in Threads : u # t =>
           pc'[u] = pc[u] /\ cmd'[u] = cmd[u] /\ model'[u] = model[u] /\ stamp'[u] = stamp[u]
  <2>1. /\ pc' = [pc EXCEPT ![t] = "idle"] /\ cmd' = [cmd EXCEPT ![t] = 0]
        /\ model' = [model EXCEPT ![t] = 0] /\ stamp' = [stamp EXCEPT ![t] = Null]
    BY DEF Return, GoTo
  <2> QED BY <1>1, <2>1
<1>3. \A n \in DOMAIN commands : n \in DOMAIN commands' /\ commands'[n].id = commands[n].id
  BY <1>1 DEF Return, CommandT
<1>4. Unnamed(t)
  BY <1>2, <1>3 DEF Unnamed
<1>5. Addressed(t)'
  BY <1>2 DEF Addressed, Waiting
<1> QED BY <1>4, <1>5, NamedStep

\* A command is loaded and its aggregate found, or made.
LEMMA NamedLoad ==
  ASSUME Inv, Named, Fresh, NEW t \in Threads,
         (\E id \in Ids : Send(t, id)) \/ Find(t) \/ FindNothing(t)
  PROVE  Named'
<1>1. /\ pc \in [Threads -> Places] /\ cmd \in [Threads -> Nat] /\ model \in [Threads -> Nat]
      /\ commands \in Seq(CommandT) /\ models \in Seq(ModelT)
  BY DEF Inv, Typed
<1>2. Addressed(t)
  BY DEF Named
<1>3. CASE \E id \in Ids : Send(t, id)
  <2>1. PICK id \in Ids : Send(t, id)
    BY <1>3
  <2>2. PICK x : x = [id |-> id, outcome |-> "pending"]
    OBVIOUS
  <2>3. /\ commands' = Append(commands, x) /\ x \in CommandT
        /\ pc' = [pc EXCEPT ![t] = "sent"] /\ cmd' = [cmd EXCEPT ![t] = Len(commands) + 1]
        /\ UNCHANGED <<models, events, store, model, stamp>>
    BY <2>1, <2>2 DEF Send, Step, GoTo, CommandT, Outcomes
  <2>4. /\ \A n \in DOMAIN commands : n \in DOMAIN commands' /\ commands'[n] = commands[n]
        /\ Len(commands) + 1 \in DOMAIN commands' /\ Len(commands) + 1 \in Nat
    BY <1>1, <2>3
  <2>5. /\ pc'[t] = "sent" /\ cmd'[t] = Len(commands) + 1
        /\ \A u \in Threads : u # t => pc'[u] = pc[u] /\ cmd'[u] = cmd[u]
    BY <1>1, <2>3, <2>4
  <2>6. Unnamed(t)
    BY <2>3, <2>4, <2>5 DEF Unnamed
  <2>7. Addressed(t)'
    BY <2>4, <2>5 DEF Addressed, Waiting
  <2> QED BY <2>3, <2>6, <2>7, NamedStep
<1>4. CASE Find(t)
  <2>1. PICK m \in Matching(requested(t)) : model' = [model EXCEPT ![t] = m]
    BY <1>4 DEF Find
  <2>2. m \in DOMAIN models /\ models[m].id = requested(t)
    BY <2>1 DEF Matching
  <2>3. /\ pc[t] = "sent" /\ pc' = [pc EXCEPT ![t] = "execute"]
        /\ UNCHANGED <<models, events, store, commands, cmd, stamp>>
    BY <1>4 DEF Find, Step, GoTo
  <2>4. /\ pc'[t] = "execute" /\ model'[t] = m
        /\ \A u \in Threads : u # t => pc'[u] = pc[u] /\ model'[u] = model[u]
    BY <1>1, <2>1, <2>3
  <2>5. Unnamed(t)
    BY <2>3, <2>4 DEF Unnamed
  <2>6. Addressed(t)'
    BY <1>2, <2>2, <2>3, <2>4 DEF Addressed, Waiting, aggregate, requested
  <2> QED BY <2>3, <2>5, <2>6, NamedStep
<1>5. CASE FindNothing(t)
  <2>1. /\ pc[t] = "sent" /\ pc' = [pc EXCEPT ![t] = "note"]
        /\ model' = [model EXCEPT ![t] = Len(models')]
        /\ UNCHANGED <<events, store, commands, cmd, stamp>>
    BY <1>5 DEF FindNothing, Step, GoTo
  <2>2. requested(t) \in Ids
    <3>1. commands[cmd[t]] \in CommandT
      BY <1>1, <1>2, <2>1 DEF Addressed
    <3> QED BY <3>1 DEF CommandT, requested
  <2>3. PICK m : m = Len(models')
    OBVIOUS
  <2>4. PICK id : id = requested(t)
    OBVIOUS
  <2>5. /\ m \in DOMAIN models' /\ models'[m].id = id
        /\ \A o \in DOMAIN models : o \in DOMAIN models' /\ models'[o] = models[o]
    BY <1>1, <1>5, <2>2, <2>3, <2>4, Resolved
  <2>6. /\ pc'[t] = "note" /\ model'[t] = m
        /\ \A u \in Threads : u # t => pc'[u] = pc[u] /\ model'[u] = model[u]
    BY <1>1, <2>1, <2>3
  <2>7. Unnamed(t)
    BY <2>1, <2>5, <2>6 DEF Unnamed
  <2>8. Addressed(t)'
    BY <1>2, <2>1, <2>4, <2>5, <2>6 DEF Addressed, Waiting, aggregate, requested
  <2> QED BY <2>1, <2>7, <2>8, NamedStep
<1> QED BY <1>3, <1>4, <1>5

\* An event is made: the creation of the aggregate, or what the consumer applies.
LEMMA NamedRaise ==
  ASSUME Inv, Stamped, Named, NEW t \in Threads,
         NoteAggregateCreated(t) \/ Apply(t) \/ Lock(t) \/ Record(t)
  PROVE  Named'
<1>1. /\ pc \in [Threads -> Places] /\ events \in Seq(EventT) /\ store \in Seq(EntryT)
      /\ models \in Seq(ModelT) /\ stamp \in [Threads -> Ids \cup {Null}]
  BY DEF Inv, Typed, Stamped
<1>2. Addressed(t) /\ Typed
  BY DEF Named, Inv
<1>3. PICK e \in Nat : e = Len(events) + 1
  BY <1>1
<1>4. ASSUME NEW x, events' = Append(events, x), x.cmd = cmd[t], x.src = requested(t),
             UNCHANGED <<commands, cmd>>, pc[t] # "idle"
      PROVE  /\ \A d \in DOMAIN events : d \in DOMAIN events' /\ events'[d] = events[d]
             /\ e \in DOMAIN events' /\ events'[e] = x
             /\ \A d \in DOMAIN events' : d \in DOMAIN events
                  \/ (events'[d].cmd \in DOMAIN commands' /\ events'[d].src = commands'[events'[d].cmd].id)
  <2>1. /\ \A d \in DOMAIN events : d \in DOMAIN events' /\ events'[d] = events[d]
        /\ e \in DOMAIN events' /\ events'[e] = x
        /\ \A d \in DOMAIN events' : d \in DOMAIN events \/ d = e
    BY <1>1, <1>3, <1>4
  <2> QED BY <1>2, <1>4, <2>1 DEF Addressed, requested
<1>5. CASE NoteAggregateCreated(t)
  <2>1. PICK x : /\ x = [kind |-> "created", src |-> requested(t), cmd |-> cmd[t]]
                 /\ events' = Append(events, x)
                 /\ store' = Append(store, [src |-> x.src, ev |-> Len(events) + 1])
    BY <1>5 DEF NoteAggregateCreated
  <2>2. /\ pc[t] = "note" /\ pc' = [pc EXCEPT ![t] = "execute"]
        /\ UNCHANGED <<models, commands, cmd, model, stamp>>
    BY <1>5 DEF NoteAggregateCreated, Step, GoTo, locals
  <2>3. PICK y : y = [src |-> x.src, ev |-> e] /\ store' = Append(store, y)
    BY <1>3, <2>1
  <2>4. \A i \in DOMAIN store' : (i \in DOMAIN store /\ store'[i] = store[i]) \/ store'[i] = y
    BY <1>1, <2>3
  <2>5. /\ pc'[t] = "execute" /\ \A u \in Threads : u # t => pc'[u] = pc[u]
    BY <1>1, <2>2
  <2>6. Unnamed(t)
    BY <2>2, <2>5 DEF Unnamed
  <2>7. Addressed(t)'
    BY <1>2, <2>2, <2>5 DEF Addressed, Waiting, aggregate, requested
  <2>8. /\ \A d \in DOMAIN events : d \in DOMAIN events' /\ events'[d] = events[d]
        /\ e \in DOMAIN events' /\ events'[e] = x
        /\ \A d \in DOMAIN events' : d \in DOMAIN events
             \/ (events'[d].cmd \in DOMAIN commands' /\ events'[d].src = commands'[events'[d].cmd].id)
    BY <1>4, <2>1, <2>2
  <2>9. y.ev = e /\ y.src = x.src
    BY <2>3
  <2> QED BY <2>4, <2>6, <2>7, <2>8, <2>9, NamedStep
<1>6. CASE Apply(t)
  <2>1. /\ pc[t] = "execute" /\ pc' = [pc EXCEPT ![t] = "lock"]
        /\ stamp' = [stamp EXCEPT ![t] = aggregate(t).id]
        /\ UNCHANGED <<models, events, store, commands, cmd, model>>
    BY <1>6 DEF Apply, Step, GoTo
  <2>2. PICK id : id = aggregate(t).id
    OBVIOUS
  <2>3. /\ pc'[t] = "lock" /\ stamp'[t] = id
        /\ \A u \in Threads : u # t => pc'[u] = pc[u] /\ stamp'[u] = stamp[u]
    BY <1>1, <2>1, <2>2
  <2>4. Unnamed(t)
    BY <2>1, <2>3 DEF Unnamed
  <2>5. Addressed(t)'
    BY <1>2, <2>1, <2>2, <2>3 DEF Addressed, aggregate, requested
  <2> QED BY <2>1, <2>4, <2>5, NamedStep
<1>7. ASSUME NEW l, models' = [models EXCEPT ![model[t]].recorded = l], model[t] \in DOMAIN models
      PROVE  \A m \in DOMAIN models : m \in DOMAIN models' /\ models'[m].id = models[m].id
  <2>1. models[model[t]] \in ModelT
    BY <1>1, <1>7
  <2>2. [models[model[t]] EXCEPT !.recorded = l].id = models[model[t]].id
    BY <2>1 DEF ModelT
  <2> QED BY <1>1, <1>7, <2>2
<1>8. CASE Lock(t)
  <2>1. PICK l : models' = [models EXCEPT ![model[t]].recorded = l]
    BY <1>8 DEF Lock, AddUnlocked
  <2>2. /\ pc[t] = "lock" /\ pc' = [pc EXCEPT ![t] = "record"]
        /\ UNCHANGED <<events, store, commands, cmd, model, stamp>>
    BY <1>8 DEF Lock, AddUnlocked, Step, GoTo, locals
  <2>3. pc'[t] = "record" /\ \A u \in Threads : u # t => pc'[u] = pc[u]
    BY <1>1, <2>2
  <2>4. \A m \in DOMAIN models : m \in DOMAIN models' /\ models'[m].id = models[m].id
    BY <1>2, <1>7, <2>1, <2>2 DEF Addressed
  <2>5. Unnamed(t)
    BY <2>2, <2>3, <2>4 DEF Unnamed
  <2>6. Addressed(t)'
    BY <1>2, <2>2, <2>3, <2>4 DEF Addressed, Waiting, aggregate, requested
  <2> QED BY <2>2, <2>5, <2>6, NamedStep
<1>9. CASE Record(t)
  <2>1. /\ pc[t] = "record" /\ pc' = [pc EXCEPT ![t] = "execute"]
        /\ stamp' = [stamp EXCEPT ![t] = Null]
        /\ UNCHANGED <<store, commands, cmd, model>>
    BY <1>9 DEF Record, Step, GoTo
  <2>2. PICK x : /\ x = [kind |-> "domain", src |-> stamp[t], cmd |-> cmd[t]]
                 /\ events' = Append(events, x)
    BY <1>9 DEF Record
  <2>3. PICK l : models' = [models EXCEPT ![model[t]].recorded = l]
    <3>1. models' = [models EXCEPT ![model[t]].recorded =
                       [@ EXCEPT ![Len(aggregate(t).recorded)] = Len(events) + 1]]
      BY <1>9 DEF Record
    <3>2. models' = [models EXCEPT ![model[t]].recorded =
                       [models[model[t]].recorded EXCEPT
                          ![Len(aggregate(t).recorded)] = Len(events) + 1]]
      BY <3>1
    <3> QED BY <3>2
  <2>4. /\ pc'[t] = "execute"
        /\ \A u \in Threads : u # t => pc'[u] = pc[u] /\ stamp'[u] = stamp[u]
    BY <1>1, <2>1
  <2>5. \A m \in DOMAIN models : m \in DOMAIN models' /\ models'[m].id = models[m].id
    BY <1>2, <1>7, <2>1, <2>3 DEF Addressed
  <2>6. Unnamed(t)
    BY <2>1, <2>4, <2>5 DEF Unnamed
  <2>7. Addressed(t)'
    BY <1>2, <2>1, <2>4, <2>5 DEF Addressed, Waiting, aggregate, requested
  <2>8. x.cmd = cmd[t] /\ x.src = requested(t)
    BY <1>2, <2>1, <2>2 DEF Addressed, Waiting
  <2>9. /\ \A d \in DOMAIN events : d \in DOMAIN events' /\ events'[d] = events[d]
        /\ \A d \in DOMAIN events' : d \in DOMAIN events
             \/ (events'[d].cmd \in DOMAIN commands' /\ events'[d].src = commands'[events'[d].cmd].id)
    BY <1>4, <2>1, <2>2, <2>8
  <2> QED BY <2>1, <2>6, <2>7, <2>9, NamedStep
<1> QED BY <1>5, <1>6, <1>8, <1>9

\* An event is saved under the source it has.
LEMMA NamedSave ==
  ASSUME Inv, Named, NEW t \in Threads, Save(t)
  PROVE  Named'
<1>1. store \in Seq(EntryT) /\ Typed
  BY DEF Inv, Typed
<1>2. PICK e : e = changes[t][next[t]]
  OBVIOUS
<1>3. PICK y : y = [src |-> events[e].src, ev |-> e]
  OBVIOUS
<1>4. /\ pc[t] = "save" /\ e # 0 /\ store' = Append(store, y)
      /\ UNCHANGED <<models, events, commands, cmd, model, stamp>>
  BY <1>2, <1>3, Zenon DEF Save, Step
<1>5. PICK to : to \in Streaming /\ Step(t, "save", to)
  BY DEF Save, Streaming
<1>6. e \in DOMAIN events
  <2>1. /\ next[t] <= Len(changes[t]) /\ Recorded(changes[t], events)
        /\ changes[t] \in Seq(Nat) /\ next[t] \in Nat \ {0}
    BY <1>4, LineOf DEF Line
  <2>2. next[t] \in DOMAIN changes[t]
    BY <2>1
  <2> QED BY <1>2, <1>4, <2>1, <2>2 DEF Recorded, Domain
<1>7. \A i \in DOMAIN store' : (i \in DOMAIN store /\ store'[i] = store[i]) \/ store'[i] = y
  BY <1>1, <1>4
<1>8. y.ev = e /\ y.src = events[e].src
  BY <1>3
<1> QED BY <1>1, <1>4, <1>5, <1>6, <1>7, <1>8, NamedMove DEF Streaming, Waiting

LEMMA NamedNext == Fresh /\ Inv /\ Stamped /\ Named /\ [Next]_vars => Named'
<1> SUFFICES ASSUME Fresh, Inv, Stamped, Named, [Next]_vars
             PROVE  Named'
  OBVIOUS
<1>1. Typed
  BY DEF Inv
<1>2. ASSUME UNCHANGED <<models, events, store, commands, pc, cmd, model, stamp>>
      PROVE  Named'
  BY <1>2 DEF Named, Addressed, aggregate, requested
<1>3. ASSUME NEW t \in Threads, NEW from, NEW to, Step(t, from, to), to \notin Waiting,
             from \notin {"idle", "sent"}, to \notin {"idle", "sent"},
             UNCHANGED <<models, events, store, commands, cmd, model, stamp>>
      PROVE  Named'
  BY <1>1, <1>3, NamedMove
<1>4. ASSUME NEW t \in Threads, NEW outcome, Return(t, outcome),
             UNCHANGED <<models, events, store>>
      PROVE  Named'
  BY <1>1, <1>4, NamedReturn
<1>5. ASSUME NEW t \in Threads, NEW id \in Ids, Send(t, id)
      PROVE  Named'
  BY <1>5, NamedLoad
<1>6. ASSUME NEW t \in Threads, Load(t)
      PROVE  Named'
  <2>1. CASE ConstructRepository(t)
    BY <1>2, <2>1 DEF ConstructRepository, locals
  <2> QED BY <1>6, <2>1, NamedLoad, NamedRaise DEF Load
<1>7. ASSUME NEW t \in Threads, Execute(t)
      PROVE  Named'
  <2>1. CASE ValidatorRefuses(t) \/ ConsumerThrows(t) \/ ReturnNothing(t)
    BY <1>4, <2>1 DEF ValidatorRefuses, ConsumerThrows, ReturnNothing
  <2>2. CASE Accept(t)
    BY <1>3, <2>2 DEF Accept, locals, Waiting
  <2> QED BY <1>7, <2>1, <2>2, NamedRaise DEF Execute
<1>8. ASSUME NEW t \in Threads, Update(t)
      PROVE  Named'
  BY <1>3, <1>4, <1>8 DEF Update, FindOld, Take, Insert, NullReference, locals, Waiting
<1>9. ASSUME NEW t \in Threads, Copy(t)
      PROVE  Named'
  BY <1>3, <1>4, <1>9 DEF Copy, CountChanges, CopyChanges, CopyThrows, Waiting
<1>10. ASSUME NEW t \in Threads, Stream(t)
       PROVE  Named'
  <2>1. CASE Publish(t)
    BY <1>2, <2>1 DEF Publish
  <2> QED BY <1>4, <1>10, <2>1, NamedSave
          DEF Stream, SaveThrows, HandlerThrows, ModuleThrows, Complete
<1>11. CASE Drop \/ UNCHANGED vars
  BY <1>2, <1>11 DEF Drop, vars, locals
<1> QED BY <1>5, <1>6, <1>7, <1>8, <1>9, <1>10, <1>11 DEF Next

\* When the container hands out an object for each new aggregate, what a command raised is
\* filed under the aggregate the command is for, although threads share the object, save each
\* other's events and load other aggregates meanwhile (AggregateRoot.Apply, UnitOfWork.
\* StreamEventsToStorage). The one object of the default registration may get another
\* identifier at any time.
THEOREM FiledAtHome ==
  ASSUME Lifestyle = "transient"
  PROVE  Spec => []FiledUnderOwn
<1>1. Fresh
  BY DEF Fresh
<1>2. Init => Named
  BY DEF Init, Named, Addressed, Waiting
<1>3. Inv /\ Stamped /\ Named /\ [Next]_vars => Named'
  BY <1>1, NamedNext
<1>4. Named => FiledUnderOwn
  BY DEF Named, FiledUnderOwn
<1> QED BY <1>2, <1>3, <1>4, Always, PTL DEF Spec
=============================================================================
