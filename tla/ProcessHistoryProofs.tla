-------------------------- MODULE ProcessHistoryProofs --------------------------
(***************************************************************************)
(* Where every event has a machine of its own and the events of a key      *)
(* arrive on one thread: the proofs that a key has one process at most and *)
(* that the machine implements ProcessHistory, for any threads, keys,      *)
(* queues and bounds.                                                      *)
(***************************************************************************)
EXTENDS ProcessManagerProofs

\* The circumstances: RegisterFactory makes the machine transient, and no two threads
\* publish events of one key.
Partitioned ==
  /\ Lifestyle = "transient"
  /\ \A t, u \in Threads : t # u => Owned[t] \cap Owned[u] = {}

-----------------------------------------------------------------------------
(* Calls, threads and machines.                                            *)

Over == {"done", "threw"}

Waiting == {"publishing", "sending"}

\* A call has the machine of its number, which nobody disposes before it is done; the one
\* that waits for nothing is the innermost of its thread.
Own ==
  /\ Len(machines) = Len(calls)
  /\ \A c \in DOMAIN calls :
       /\ calls[c].machine = c
       /\ calls[c].key \in Owned[calls[c].by] \cup {NoKey}
       /\ calls[c].parent # 0 => calls[calls[c].parent].by = calls[c].by
       /\ calls[c].place \notin Over \cup Waiting => top[calls[c].by] = c
       /\ calls[c].place \notin Over => machines[c].disposed = FALSE
  /\ \A t \in Threads : top[t] # 0 => calls[top[t]].by = t

\* A step of the innermost call of a thread.
LEMMA OwnMove ==
  ASSUME TypeInv, Own, NEW t \in Threads, NEW c \in DOMAIN calls, c = top[t],
         NEW place, NEW found, NEW out, NEW next,
         CallChanged(c, place, found, out, next),
         calls[c].place \notin Over \/ place \in Over,
         Len(machines') = Len(machines),
         \A n \in DOMAIN machines : n # c => machines'[n] = machines[n],
         place \in {"done", "threw"} \/ machines'[c].disposed = machines[c].disposed,
         \/ top' = top
         \/ top' = [top EXCEPT ![t] = calls[c].parent] /\ place \in {"done", "threw"}
  PROVE  Own'
<1>1. /\ DOMAIN calls' = DOMAIN calls /\ Len(calls') = Len(calls)
      /\ \A d \in DOMAIN calls : d # c => calls'[d] = calls[d]
      /\ \A d \in DOMAIN calls : /\ calls'[d].by = calls[d].by /\ calls'[d].key = calls[d].key
                                 /\ calls'[d].parent = calls[d].parent
                                 /\ calls'[d].machine = calls[d].machine
      /\ calls'[c].place = place
  BY DEF CallChanged
<1>2. top \in [Threads -> Nat] /\ calls \in Seq(CallT) /\ machines \in Seq(MachineT)
  BY DEF TypeInv, Typed
<1>3. DOMAIN machines = DOMAIN calls /\ c # 0
  BY <1>2 DEF Own
<1>4. calls[c].by = t
  BY <1>3 DEF Own
<1>5. ASSUME NEW d \in DOMAIN calls'
      PROVE  /\ calls'[d].machine = d
             /\ calls'[d].key \in Owned[calls'[d].by] \cup {NoKey}
             /\ calls'[d].parent # 0 => calls'[calls'[d].parent].by = calls'[d].by
             /\ calls'[d].place \notin Over \cup Waiting => top'[calls'[d].by] = d
             /\ calls'[d].place \notin Over => machines'[d].disposed = FALSE
  <2>1. calls'[d].machine = d /\ calls'[d].key \in Owned[calls'[d].by] \cup {NoKey}
    BY <1>1 DEF Own
  <2>2. calls'[d].parent # 0 => calls'[calls'[d].parent].by = calls'[d].by
    <3>1. calls[d].parent \in {0} \cup DOMAIN calls
      BY <1>1 DEF TypeInv, References
    <3> QED BY <1>1, <3>1 DEF Own
  <2>3. CASE d = c
    <3>1. place \notin Over => top' = top
      BY DEF Over
    <3>2. place \notin Over => machines'[c].disposed = machines[c].disposed
      BY DEF Over
    <3>3. place \notin Over => machines[c].disposed = FALSE
      BY DEF Own
    <3> QED BY <1>1, <1>4, <2>1, <2>2, <2>3, <3>1, <3>2, <3>3
  <2>4. CASE d # c
    <3>1. calls'[d] = calls[d] /\ machines'[d] = machines[d]
      BY <1>1, <1>3, <2>4
    <3>2. calls[d].place \notin Over \cup Waiting => top[calls[d].by] = d
      BY <1>1 DEF Own
    <3>3. calls[d].place \notin Over \cup Waiting => calls[d].by # t
      BY <2>4, <3>2
    <3>4. calls[d].place \notin Over \cup Waiting => top'[calls[d].by] = d
      <4>1. calls[d].by \in Threads
        BY <1>1, <1>2, CallFields
      <4> QED BY <1>2, <3>2, <3>3, <4>1
    <3>5. calls[d].place \notin Over => machines[d].disposed = FALSE
      BY <1>1 DEF Own
    <3> QED BY <2>1, <2>2, <3>1, <3>4, <3>5
  <2> QED BY <2>3, <2>4
<1>6. ASSUME NEW u \in Threads, top'[u] # 0
      PROVE  calls'[top'[u]].by = u
  <2>1. CASE top'[u] = top[u]
    <3>1. top[u] \in DOMAIN calls /\ calls[top[u]].by = u
      BY <1>6, <2>1 DEF TypeInv, References, Own
    <3> QED BY <1>1, <2>1, <3>1
  <2>2. CASE u = t /\ top'[u] = calls[c].parent
    <3>1. calls[c].parent \in DOMAIN calls /\ calls[calls[c].parent].by = t
      BY <1>4, <1>6, <2>2 DEF TypeInv, References, Own
    <3> QED BY <1>1, <2>2, <3>1
  <2> QED BY <1>2, <2>1, <2>2
<1>7. Len(machines') = Len(calls')
  BY <1>1 DEF Own
<1> QED BY <1>5, <1>6, <1>7 DEF Own

\* A call and a machine more.
LEMMA OwnDeliver ==
  ASSUME TypeInv, Partitioned, Own, NEW t \in Threads, NEW k \in Owned[t] \cup {NoKey},
         Deliver(t, k)
  PROVE  /\ Own'
         /\ Len(calls) + 1 \notin DOMAIN calls
         /\ DOMAIN calls' = DOMAIN calls \cup {Len(calls) + 1}
         /\ \A d \in DOMAIN calls : calls'[d] = calls[d] /\ machines'[d] = machines[d]
         /\ calls'[Len(calls) + 1].place = "retrieve"
         /\ calls'[Len(calls) + 1].found = FALSE
         /\ calls'[Len(calls) + 1].key = k
         /\ calls'[Len(calls) + 1].machine = Len(calls) + 1
         /\ machines'[Len(calls) + 1] = NewMachine
         /\ UNCHANGED <<rows, assigned, handled, queued, emitted>>
<1>1. PICK n : n = Len(calls) + 1
  OBVIOUS
<1>2. /\ n \notin DOMAIN calls
      /\ DOMAIN calls' = DOMAIN calls \cup {n}
      /\ Len(calls') = n
      /\ \A d \in DOMAIN calls : calls'[d] = calls[d]
      /\ calls'[n] = [by |-> t, parent |-> top[t], key |-> k, machine |-> Len(machines'),
                      place |-> "retrieve", found |-> FALSE, out |-> <<>>, next |-> 1]
  BY <1>1, DeliverChanges DEF TypeInv
<1>3. /\ Len(machines') = Len(machines) + 1
      /\ Len(machines') \in DOMAIN machines'
      /\ \A m \in DOMAIN machines : m \in DOMAIN machines' /\ machines'[m] = machines[m]
      /\ \A m \in DOMAIN machines' : m \notin DOMAIN machines => machines'[m] = NewMachine
  BY ResolveChanges DEF TypeInv, Typed, Deliver, Partitioned
<1>4. top \in [Threads -> Nat] /\ calls \in Seq(CallT) /\ machines \in Seq(MachineT)
  BY DEF TypeInv, Typed
<1>5. Len(machines') = n /\ DOMAIN machines = DOMAIN calls /\ machines'[n] = NewMachine
  BY <1>1, <1>2, <1>3, <1>4 DEF Own
<1>6. /\ calls'[n].by = t /\ calls'[n].parent = top[t] /\ calls'[n].key = k
      /\ calls'[n].machine = n /\ calls'[n].place = "retrieve" /\ calls'[n].found = FALSE
  BY <1>2, <1>5
<1>7. /\ top' = [top EXCEPT ![t] = n]
      /\ top[t] # 0 => calls[top[t]].place \in Waiting
      /\ UNCHANGED <<rows, assigned, handled, queued, emitted>>
  BY <1>1 DEF Deliver, call, Waiting
<1>8. ASSUME NEW d \in DOMAIN calls'
      PROVE  /\ calls'[d].machine = d
             /\ calls'[d].key \in Owned[calls'[d].by] \cup {NoKey}
             /\ calls'[d].parent # 0 => calls'[calls'[d].parent].by = calls'[d].by
             /\ calls'[d].place \notin Over \cup Waiting => top'[calls'[d].by] = d
             /\ calls'[d].place \notin Over => machines'[d].disposed = FALSE
  <2>1. CASE d = n
    <3>1. top[t] # 0 => top[t] \in DOMAIN calls /\ calls[top[t]].by = t
      BY DEF TypeInv, References, Own
    <3> QED BY <1>2, <1>4, <1>5, <1>6, <1>7, <2>1, <3>1, NewFields
  <2>2. CASE d \in DOMAIN calls
    <3>1. calls'[d] = calls[d] /\ machines'[d] = machines[d]
      BY <1>2, <1>3, <1>5, <2>2
    <3>2. /\ calls[d].machine = d /\ calls[d].key \in Owned[calls[d].by] \cup {NoKey}
          /\ calls[d].place \notin Over => machines[d].disposed = FALSE
          /\ calls[d].by \in Threads
      BY <1>4, <2>2, CallFields DEF Own
    <3>3. calls[d].parent # 0 => calls'[calls[d].parent].by = calls[d].by
      <4>1. calls[d].parent \in {0} \cup DOMAIN calls
        BY <2>2 DEF TypeInv, References
      <4> QED BY <1>2, <2>2, <4>1 DEF Own
    <3>4. calls[d].place \notin Over \cup Waiting => top'[calls[d].by] = d
      <4>1. SUFFICES ASSUME calls[d].place \notin Over \cup Waiting
                     PROVE  top'[calls[d].by] = d
        OBVIOUS
      <4>2. top[calls[d].by] = d /\ d # 0
        BY <1>4, <2>2, <4>1 DEF Own
      <4>3. calls[d].by # t
        BY <1>7, <4>1, <4>2
      <4> QED BY <1>4, <1>7, <3>2, <4>2, <4>3
    <3> QED BY <3>1, <3>2, <3>3, <3>4
  <2> QED BY <1>2, <2>1, <2>2
<1>9. ASSUME NEW u \in Threads, top'[u] # 0
      PROVE  calls'[top'[u]].by = u
  <2>1. CASE u = t
    BY <1>4, <1>6, <1>7, <2>1
  <2>2. CASE u # t
    <3>1. top'[u] = top[u]
      BY <1>4, <1>7, <2>2
    <3>2. top[u] \in DOMAIN calls /\ calls[top[u]].by = u
      BY <1>9, <3>1 DEF TypeInv, References, Own
    <3> QED BY <1>2, <3>1, <3>2
  <2> QED BY <2>1, <2>2
<1>10. Own'
  BY <1>2, <1>5, <1>8, <1>9 DEF Own
<1> QED BY <1>1, <1>2, <1>3, <1>5, <1>6, <1>7, <1>10

\* The innermost call of the thread is over.
LEMMA OwnThrow ==
  ASSUME TypeInv, Own, NEW t \in Threads, Throw(t)
  PROVE  Own'
<1>1. PICK c : c = top[t]
  OBVIOUS
<1>2. /\ c \in DOMAIN calls /\ CallChanged(c, "threw", FALSE, <<>>, 1)
      /\ top' = [top EXCEPT ![t] = calls[c].parent] /\ machines' = machines
  BY <1>1, ThrowStep
<1>3. "threw" \in Over
  BY DEF Over
<1> QED BY <1>1, <1>2, <1>3, OwnMove

\* The steps inside Execute.
LEMMA OwnExecute ==
  ASSUME TypeInv, Own, NEW t \in Threads, Execute(t)
  PROVE  Own'
<1>1. PICK c : c = top[t]
  OBVIOUS
<1>2. PICK m : m = calls[c].machine
  OBVIOUS
<1>3. PICK found, out, next : found = calls[c].found /\ out = calls[c].out /\ next = calls[c].next
  OBVIOUS
<1>4. CASE Retrieve(t)
  <2>1. /\ c \in DOMAIN calls /\ calls[c].place = "retrieve" /\ UNCHANGED top
        /\ \/ machines' = machines /\ CallChanged(c, "handle", calls[c].found, calls[c].out, calls[c].next)
           \/ \E r \in rows :
                /\ MachineChanged(m, r, machines[m].completed, machines[m].events,
                                  machines[m].commands, machines[m].disposed)
                /\ CallChanged(c, "handle", TRUE, calls[c].out, calls[c].next)
    BY <1>1, <1>2, <1>4, RetrieveStep
  <2>2. m = c
    BY <1>2, <2>1 DEF Own
  <2>3. /\ Len(machines') = Len(machines)
        /\ \A n \in DOMAIN machines : n # c => machines'[n] = machines[n]
        /\ machines'[c].disposed = machines[c].disposed
    BY <2>1, <2>2 DEF MachineChanged
  <2>4. CallChanged(c, "handle", found, out, next) \/ CallChanged(c, "handle", TRUE, out, next)
    BY <1>3, <2>1
  <2>5. calls[c].place \notin Over
    BY <2>1 DEF Over
  <2> QED BY <1>1, <2>1, <2>3, <2>4, <2>5, OwnMove
<1>5. CASE Handle(t)
  <2>1. /\ c \in DOMAIN calls /\ calls[c].place = "handle" /\ UNCHANGED top
        /\ CallChanged(c, "save", calls[c].found, calls[c].out, calls[c].next)
    BY <1>1, <1>2, <1>5, HandleStep
  <2>2. m = c
    BY <1>2, <2>1 DEF Own
  <2>3. \E data, completed, events, commands :
          MachineChanged(m, data, completed, events, commands, machines[m].disposed)
    BY <1>1, <1>2, <1>5, HandleStep
  <2>4. /\ Len(machines') = Len(machines)
        /\ \A n \in DOMAIN machines : n # c => machines'[n] = machines[n]
        /\ machines'[c].disposed = machines[c].disposed
    BY <2>2, <2>3 DEF MachineChanged
  <2>5. CallChanged(c, "save", found, out, next)
    BY <1>3, <2>1
  <2>6. calls[c].place \notin Over
    BY <2>1 DEF Over
  <2> QED BY <1>1, <2>1, <2>4, <2>5, <2>6, OwnMove
<1>6. CASE Save(t)
  <2>1. /\ c \in DOMAIN calls /\ calls[c].place = "save" /\ UNCHANGED top
        /\ CallChanged(c, "saved", calls[c].found, calls[c].out, calls[c].next)
    BY <1>1, <1>2, <1>6, SaveStep
  <2>2. m = c
    BY <1>2, <2>1 DEF Own
  <2>3. \/ machines' = machines
        \/ \E data : MachineChanged(m, data, machines[m].completed, machines[m].events,
                                    machines[m].commands, machines[m].disposed)
    BY <1>1, <1>2, <1>6, SaveStep
  <2>4. /\ Len(machines') = Len(machines)
        /\ \A n \in DOMAIN machines : n # c => machines'[n] = machines[n]
        /\ machines'[c].disposed = machines[c].disposed
    BY <2>2, <2>3 DEF MachineChanged
  <2>5. CallChanged(c, "saved", found, out, next)
    BY <1>3, <2>1
  <2>6. calls[c].place \notin Over
    BY <2>1 DEF Over
  <2> QED BY <1>1, <2>1, <2>4, <2>5, <2>6, OwnMove
<1>7. CASE \/ CopyEvents(t) \/ PublishEvent(t) \/ EventPublished(t)
           \/ CopyCommands(t) \/ SendCommand(t) \/ CommandSent(t)
  <2>1. /\ c \in DOMAIN calls /\ UNCHANGED <<machines, top>>
        /\ calls[c].place \in {"saved", "publish", "publishing", "send", "sending"}
        /\ \E place, out2, next2 : CallChanged(c, place, calls[c].found, out2, next2)
    BY <1>1, <1>2, <1>7, QueueStep
  <2>2. PICK place, out2, next2 : CallChanged(c, place, found, out2, next2)
    BY <1>3, <2>1
  <2>3. calls[c].place \notin Over
    BY <2>1 DEF Over
  <2> QED BY <1>1, <2>1, <2>2, <2>3, OwnMove
<1>8. CASE Dispose(t)
  <2>1. /\ c \in DOMAIN calls /\ calls[c].place = "send"
        /\ CallChanged(c, "done", FALSE, <<>>, 1)
        /\ MachineChanged(m, NewMachine.data, machines[m].completed, <<>>, <<>>, TRUE)
        /\ top' = [top EXCEPT ![t] = calls[c].parent]
    BY <1>1, <1>2, <1>8, DisposeStep
  <2>2. m = c
    BY <1>2, <2>1 DEF Own
  <2>3. /\ Len(machines') = Len(machines)
        /\ \A n \in DOMAIN machines : n # c => machines'[n] = machines[n]
    BY <2>1, <2>2 DEF MachineChanged
  <2>4. calls[c].place \notin Over
    BY <2>1 DEF Over
  <2> QED BY <1>1, <2>1, <2>3, <2>4, OwnMove
<1> QED BY <1>4, <1>5, <1>6, <1>7, <1>8 DEF Execute

\* Two calls that wait for nothing are of two threads, and so of two keys.
LEMMA KeysApart ==
  ASSUME Partitioned, TypeInv, Own, NEW c \in DOMAIN calls, NEW d \in DOMAIN calls, c # d,
         calls[c].place \notin Over \cup Waiting, calls[d].place \notin Over \cup Waiting,
         calls[c].key # NoKey
  PROVE  calls[c].key # calls[d].key
<1>1. /\ top[calls[c].by] = c /\ top[calls[d].by] = d
      /\ calls[c].key \in Owned[calls[c].by] \cup {NoKey}
      /\ calls[d].key \in Owned[calls[d].by] \cup {NoKey}
  BY DEF Own
<1>2. calls[c].by \in Threads /\ calls[d].by \in Threads
  BY CallFields DEF TypeInv, Typed
<1>3. Owned[calls[c].by] \cap Owned[calls[d].by] = {}
  BY <1>1, <1>2 DEF Partitioned
<1> QED BY <1>1, <1>3

-----------------------------------------------------------------------------
(* The data of a process.                                                  *)

Unused(key, rs) == \A r \in rs : key # NoKey => r.key # key

\* The data of the machine of call c, of an event with this key: nothing before the event is
\* handled, if no data was found, or else what the repository holds for the key.
Fresh(place, found, key, data, rs, c) ==
  /\ place = "retrieve" =>
       found = FALSE /\ data.id = 0 /\ data.key = NoKey /\ data.handled = <<>>
  /\ place \in {"handle", "save"} /\ found = FALSE =>
       /\ data.id = 0 /\ data.key = NoKey
       /\ data.handled = IF place = "save" THEN <<c>> ELSE <<>>
       /\ Unused(key, rs)
  /\ place \in {"handle", "save"} /\ found = TRUE =>
       /\ key # NoKey /\ data.key = key
       /\ \E r \in rs :
            /\ r.id = data.id /\ r.key = key
            /\ data.handled = IF place = "save" THEN Append(r.handled, c) ELSE r.handled

AllFresh ==
  \A c \in DOMAIN calls :
    Fresh(calls[c].place, calls[c].found, calls[c].key, machines[c].data, rows, c)

DataInv == TypeInv /\ Own /\ AllFresh /\ OnePerKey

\* The rows of a key are the same.
SameRows(key, rs, rs2) == \A r \in rs \cup rs2 : r.key = key => (r \in rs <=> r \in rs2)

\* A call depends on the rows of its key only.
LEMMA FreshRows ==
  ASSUME NEW place, NEW found, NEW key, NEW data, NEW rs, NEW rs2, NEW c,
         Fresh(place, found, key, data, rs, c), key # NoKey => SameRows(key, rs, rs2)
  PROVE  Fresh(place, found, key, data, rs2, c)
<1>1. Unused(key, rs) => Unused(key, rs2)
  BY DEF Unused, SameRows
<1>2. ASSUME key # NoKey, NEW h, NEW r \in rs, r.id = data.id, r.key = key
      PROVE  r \in rs2
  BY <1>2 DEF SameRows
<1> QED BY <1>1, <1>2, Zenon DEF Fresh

\* A step of call c that keeps the rows, or changes only those of its key, and after which
\* its own data is as it should be.
LEMMA DataMove ==
  ASSUME Partitioned, DataInv, TypeInv', Own', OnePerKey', NEW c \in DOMAIN calls,
         NEW place, NEW found, NEW out, NEW next, CallChanged(c, place, found, out, next),
         \A n \in DOMAIN machines : n # c => machines'[n] = machines[n],
         Fresh(place, found, calls[c].key, machines'[c].data, rows', c),
         \/ rows' = rows
         \/ /\ calls[c].place \notin Over \cup Waiting
            /\ \A k : k # NoKey /\ k # calls[c].key => SameRows(k, rows, rows')
  PROVE  DataInv'
<1>1. /\ DOMAIN calls' = DOMAIN calls
      /\ \A d \in DOMAIN calls : d # c => calls'[d] = calls[d]
      /\ calls'[c].place = place /\ calls'[c].found = found /\ calls'[c].key = calls[c].key
  BY DEF CallChanged
<1>2. DOMAIN machines = DOMAIN calls
  BY DEF DataInv, TypeInv, Typed, Own
<1>3. ASSUME NEW d \in DOMAIN calls
      PROVE  Fresh(calls'[d].place, calls'[d].found, calls'[d].key, machines'[d].data, rows', d)
  <2>1. CASE d = c
    BY <1>1, <2>1
  <2>2. CASE d # c
    <3>1. calls'[d] = calls[d] /\ machines'[d] = machines[d]
      BY <1>1, <1>2, <2>2
    <3>2. Fresh(calls[d].place, calls[d].found, calls[d].key, machines[d].data, rows, d)
      BY DEF DataInv, AllFresh
    <3>3. CASE rows' = rows
      BY <3>1, <3>2, <3>3
    <3>4. CASE calls[d].place \in Over \cup Waiting
      <4>1. calls[d].place \notin {"retrieve", "handle", "save"}
        BY <3>4 DEF Over, Waiting
      <4>2. Fresh(calls[d].place, calls[d].found, calls[d].key, machines[d].data, rows', d)
        BY <4>1 DEF Fresh
      <4> QED BY <3>1, <4>2
    <3>5. CASE /\ calls[d].place \notin Over \cup Waiting
               /\ calls[c].place \notin Over \cup Waiting
               /\ \A k : k # NoKey /\ k # calls[c].key => SameRows(k, rows, rows')
      <4>1. calls[d].key # NoKey => calls[d].key # calls[c].key
        BY <2>2, <3>5, KeysApart DEF DataInv
      <4>2. calls[d].key # NoKey => SameRows(calls[d].key, rows, rows')
        BY <3>5, <4>1
      <4>3. Fresh(calls[d].place, calls[d].found, calls[d].key, machines[d].data, rows', d)
        BY <3>2, <4>2, FreshRows
      <4> QED BY <3>1, <4>3
    <3> QED BY <3>3, <3>4, <3>5
  <2> QED BY <2>1, <2>2
<1>4. AllFresh'
  BY <1>1, <1>3 DEF AllFresh
<1> QED BY <1>4 DEF DataInv

\* Deliver: a new machine has no data.
LEMMA DataDeliver ==
  ASSUME Partitioned, DataInv, TypeInv', NEW t \in Threads, NEW k \in Owned[t] \cup {NoKey},
         Deliver(t, k)
  PROVE  DataInv'
<1>1. PICK n : n = Len(calls) + 1
  OBVIOUS
<1>2. /\ Own' /\ DOMAIN calls' = DOMAIN calls \cup {n}
      /\ \A d \in DOMAIN calls : calls'[d] = calls[d] /\ machines'[d] = machines[d]
      /\ calls'[n].place = "retrieve" /\ calls'[n].found = FALSE
      /\ machines'[n] = NewMachine /\ rows' = rows
  BY <1>1, OwnDeliver DEF DataInv
<1>3. ASSUME NEW d \in DOMAIN calls'
      PROVE  Fresh(calls'[d].place, calls'[d].found, calls'[d].key, machines'[d].data, rows', d)
  <2>1. CASE d \in DOMAIN calls
    <3>1. Fresh(calls[d].place, calls[d].found, calls[d].key, machines[d].data, rows, d)
      BY <2>1 DEF DataInv, AllFresh
    <3> QED BY <1>2, <2>1, <3>1
  <2>2. CASE d = n
    <3>1. PICK data, key : data = NewMachine.data /\ key = calls'[n].key
      OBVIOUS
    <3>2. Fresh("retrieve", FALSE, key, data, rows, n)
      BY <3>1, NewData DEF Fresh
    <3> QED BY <1>2, <2>2, <3>1, <3>2
  <2> QED BY <1>2, <2>1, <2>2
<1>4. AllFresh'
  BY <1>3 DEF AllFresh
<1>5. OnePerKey'
  BY <1>2 DEF DataInv, OnePerKey
<1> QED BY <1>2, <1>4, <1>5 DEF DataInv

\* Throw
LEMMA DataThrow ==
  ASSUME DataInv, TypeInv', NEW t \in Threads, Throw(t)
  PROVE  DataInv'
<1>1. /\ DOMAIN calls' = DOMAIN calls
      /\ \A d \in DOMAIN calls : calls'[d] = calls[d] \/ calls'[d].place = "threw"
  BY ThrowChanges DEF DataInv
<1>2. UNCHANGED <<rows, machines>>
  BY DEF Throw
<1>3. ASSUME NEW d \in DOMAIN calls
      PROVE  Fresh(calls'[d].place, calls'[d].found, calls'[d].key, machines'[d].data, rows', d)
  <2>1. CASE calls'[d] = calls[d]
    BY <1>2, <2>1 DEF DataInv, AllFresh
  <2>2. CASE calls'[d].place = "threw"
    <3>1. calls'[d].place \notin {"retrieve", "handle", "save"}
      BY <2>2
    <3> QED BY <3>1 DEF Fresh
  <2> QED BY <1>1, <2>1, <2>2
<1>4. AllFresh'
  BY <1>1, <1>3 DEF AllFresh
<1>5. OnePerKey' /\ Own'
  BY <1>2, OwnThrow DEF DataInv, OnePerKey
<1> QED BY <1>4, <1>5 DEF DataInv

\* Retrieve: the data of the key is found, if there is any.
LEMMA DataRetrieve ==
  ASSUME Partitioned, DataInv, TypeInv', NEW t \in Threads, Retrieve(t)
  PROVE  DataInv'
<1>1. PICK c : c = top[t]
  OBVIOUS
<1>2. PICK m : m = calls[c].machine
  OBVIOUS
<1>3. TypeInv /\ Own /\ OnePerKey
  BY DEF DataInv
<1>4. /\ c \in DOMAIN calls /\ calls[c].place = "retrieve" /\ rows' = rows
  BY <1>1, <1>2, <1>3, RetrieveStep
<1>5. m = c /\ machines[c].disposed = FALSE
  BY <1>2, <1>3, <1>4 DEF Own, Over
<1>6. Own' /\ OnePerKey'
  BY <1>3, <1>4, OwnExecute DEF OnePerKey, Execute
<1>7. PICK key, data, out, next :
        key = calls[c].key /\ data = machines[c].data /\ out = calls[c].out /\ next = calls[c].next
  OBVIOUS
<1>8. calls[c].found = FALSE /\ data.id = 0 /\ data.key = NoKey /\ data.handled = <<>>
  BY <1>4, <1>7 DEF DataInv, AllFresh, Fresh
<1>9. CASE /\ machines' = machines
           /\ \A r \in rows : key # NoKey => r.key # key
           /\ CallChanged(c, "handle", FALSE, out, next)
  <2>1. Fresh("handle", FALSE, key, data, rows, c)
    BY <1>8, <1>9 DEF Fresh, Unused
  <2>2. Fresh("handle", FALSE, calls[c].key, machines'[c].data, rows', c)
    BY <1>4, <1>7, <1>9, <2>1
  <2> QED BY <1>4, <1>6, <1>9, <2>2, DataMove
<1>10. CASE \E r \in rows :
                 /\ key # NoKey /\ r.key = key
                 /\ MachineChanged(c, r, machines[c].completed, machines[c].events,
                                   machines[c].commands, machines[c].disposed)
                 /\ CallChanged(c, "handle", TRUE, out, next)
  <2>1. PICK r \in rows :
                 /\ key # NoKey /\ r.key = key
                 /\ MachineChanged(c, r, machines[c].completed, machines[c].events,
                                   machines[c].commands, machines[c].disposed)
                 /\ CallChanged(c, "handle", TRUE, out, next)
    BY <1>10
  <2>2. /\ machines'[c].data = r
        /\ \A n \in DOMAIN machines : n # c => machines'[n] = machines[n]
    BY <2>1 DEF MachineChanged
  <2>3. Fresh("handle", TRUE, key, r, rows, c)
    BY <2>1 DEF Fresh
  <2>4. Fresh("handle", TRUE, calls[c].key, machines'[c].data, rows', c)
    BY <1>4, <1>7, <2>2, <2>3
  <2> QED BY <1>4, <1>6, <2>1, <2>2, <2>4, DataMove
<1>11. \/ /\ machines' = machines
          /\ machines[m].disposed \/ \A r \in rows : calls[c].key # NoKey => r.key # calls[c].key
          /\ CallChanged(c, "handle", calls[c].found, calls[c].out, calls[c].next)
       \/ \E r \in rows :
            /\ ~machines[m].disposed
            /\ calls[c].key # NoKey /\ r.key = calls[c].key
            /\ MachineChanged(m, r, machines[m].completed, machines[m].events,
                              machines[m].commands, machines[m].disposed)
            /\ CallChanged(c, "handle", TRUE, calls[c].out, calls[c].next)
  BY <1>1, <1>2, <1>3, RetrieveStep
<1> QED BY <1>5, <1>7, <1>8, <1>9, <1>10, <1>11

\* Handle: the event is added to what the process has handled.
LEMMA DataHandle ==
  ASSUME Partitioned, DataInv, TypeInv', NEW t \in Threads, Handle(t)
  PROVE  DataInv'
<1>1. PICK c : c = top[t]
  OBVIOUS
<1>2. PICK m : m = calls[c].machine
  OBVIOUS
<1>3. TypeInv /\ Own /\ OnePerKey
  BY DEF DataInv
<1>4. /\ c \in DOMAIN calls /\ calls[c].place = "handle" /\ rows' = rows
      /\ CallChanged(c, "save", calls[c].found, calls[c].out, calls[c].next)
      /\ \E completed, events, commands, disposed :
           MachineChanged(m, Extended(machines[m].data, c), completed, events, commands, disposed)
  BY <1>1, <1>2, <1>3, HandleStep
<1>5. m = c /\ c \in Calls /\ DOMAIN machines = DOMAIN calls
  BY <1>2, <1>3, <1>4, ProcessAssumption DEF Own, TypeInv, Typed, Calls
<1>6. Own' /\ OnePerKey'
  BY <1>3, <1>4, OwnExecute DEF OnePerKey, Execute
<1>7. PICK found, key, data, out, next :
        /\ found = calls[c].found /\ key = calls[c].key /\ data = machines[c].data
        /\ out = calls[c].out /\ next = calls[c].next
  OBVIOUS
<1>8. Fresh("handle", found, key, data, rows, c)
  BY <1>4, <1>7 DEF DataInv, AllFresh
<1>9. /\ machines'[c].data = Extended(data, c)
      /\ \A n \in DOMAIN machines : n # c => machines'[n] = machines[n]
  BY <1>4, <1>5, <1>7 DEF MachineChanged
<1>10. data \in Data /\ found \in BOOLEAN
  BY <1>3, <1>4, <1>5, <1>7, MachineFields, CallFields DEF TypeInv, Typed
<1>11. PICK new : new = Extended(data, c)
  OBVIOUS
<1>12. new.id = data.id /\ new.key = data.key /\ new.handled = Append(data.handled, c)
  BY <1>5, <1>10, <1>11, ExtendedFields
<1>13. Fresh("save", found, key, new, rows, c)
  <2>1. CASE found = FALSE
    <3>1. Append(<<>>, c) = <<c>>
      OBVIOUS
    <3>2. data.id = 0 /\ data.key = NoKey /\ data.handled = <<>> /\ Unused(key, rows)
      BY <1>8, <2>1 DEF Fresh
    <3>3. new.handled = <<c>>
      BY <1>12, <3>1, <3>2
    <3> QED BY <1>12, <2>1, <3>2, <3>3 DEF Fresh
  <2>2. CASE found = TRUE
    BY <1>8, <1>12, <2>2 DEF Fresh
  <2> QED BY <1>10, <2>1, <2>2
<1>14. Fresh("save", found, calls[c].key, machines'[c].data, rows', c)
  BY <1>4, <1>7, <1>9, <1>11, <1>13
<1>15. CallChanged(c, "save", found, out, next)
  BY <1>4, <1>7
<1> QED BY <1>4, <1>6, <1>9, <1>14, <1>15, DataMove

\* What the repository has for key k, after event c was handled on top of it.
Follows(k, c) ==
  \E r \in rows' :
    /\ r.key = k
    /\ \/ r.handled = <<c>> /\ \A s \in rows : s.key # k
       \/ \E s \in rows : s.key = k /\ r.handled = Append(s.handled, c)

\* Save changes the data of one key: the process of the event goes on or is over.
LEMMA SaveRows ==
  ASSUME DataInv, NEW t \in Threads, Save(t), NEW c, c = top[t]
  PROVE  /\ OnePerKey'
         /\ \A k : k # NoKey /\ k # calls[c].key => SameRows(k, rows, rows')
         /\ calls[c].key # NoKey =>
              IF machines[c].completed THEN \A r \in rows' : r.key # calls[c].key
              ELSE Follows(calls[c].key, c)
<1>1. PICK m : m = calls[c].machine
  OBVIOUS
<1>2. TypeInv /\ Own
  BY DEF DataInv
<1>3. c \in DOMAIN calls /\ calls[c].place = "save"
  BY <1>1, <1>2, SaveStep
<1>4. m = c
  BY <1>1, <1>2, <1>3 DEF Own
<1>5. PICK found, key, data : found = calls[c].found /\ key = calls[c].key /\ data = machines[c].data
  OBVIOUS
<1>6. Fresh("save", found, key, data, rows, c) /\ found \in BOOLEAN
  BY <1>2, <1>3, <1>5, CallFields DEF DataInv, AllFresh, TypeInv, Typed
<1>7. /\ \A r \in rows : r.id \in Nat /\ r.id # 0
      /\ \A r, s \in rows : r.id = s.id => r = s
      /\ \A r, s \in rows : r.key = s.key /\ r.key # NoKey => r = s
  BY <1>2 DEF DataInv, TypeInv, Typed, Numbered, OnePerKey
<1>8. \/ machines[m].completed /\ rows' = Without(machines[m].data.id)
      \/ \E new \in Data :
           /\ ~machines[m].completed /\ ~calls[c].found
           /\ new.key = IF calls[c].key = NoKey THEN machines[m].data.key ELSE calls[c].key
           /\ new.handled = machines[m].data.handled
           /\ rows' = rows \cup {new}
      \/ /\ ~machines[m].completed /\ calls[c].found
         /\ rows' = Without(machines[m].data.id) \cup {machines[m].data}
  BY <1>1, <1>2, SaveStep
<1>9. CASE found = FALSE
  <2>1. /\ data.id = 0 /\ data.key = NoKey /\ data.handled = <<c>>
        /\ \A r \in rows : key # NoKey => r.key # key
    BY <1>6, <1>9 DEF Fresh, Unused
  <2>2. Without(data.id) = rows
    BY <1>7, <2>1 DEF Without
  <2>3. CASE machines[c].completed /\ rows' = Without(data.id)
    <3>1. rows' = rows
      BY <2>2, <2>3
    <3> QED BY <1>5, <1>7, <2>1, <2>3, <3>1 DEF OnePerKey, SameRows
  <2>4. CASE \E new \in Data :
               /\ ~machines[c].completed /\ rows' = rows \cup {new}
               /\ new.key = key /\ new.handled = data.handled
    <3>1. PICK new \in Data :
               /\ ~machines[c].completed /\ rows' = rows \cup {new}
               /\ new.key = key /\ new.handled = <<c>>
      BY <2>1, <2>4
    <3>2. OnePerKey'
      BY <1>7, <2>1, <3>1 DEF OnePerKey
    <3>3. \A k : k # NoKey /\ k # key => SameRows(k, rows, rows')
      BY <3>1 DEF SameRows
    <3>4. key # NoKey => Follows(key, c)
      BY <2>1, <3>1 DEF Follows
    <3> QED BY <1>5, <3>1, <3>2, <3>3, <3>4
  <2>5. \/ machines[c].completed /\ rows' = Without(data.id)
        \/ \E new \in Data :
               /\ ~machines[c].completed /\ rows' = rows \cup {new}
               /\ new.key = IF key = NoKey THEN data.key ELSE key
               /\ new.handled = data.handled
    BY <1>4, <1>5, <1>9, <1>8
  <2> QED BY <2>1, <2>3, <2>4, <2>5
<1>10. CASE found = TRUE
  <2>1. PICK r \in rows : /\ key # NoKey /\ data.key = key /\ r.id = data.id /\ r.key = key
                          /\ data.handled = Append(r.handled, c)
    BY <1>6, <1>10 DEF Fresh
  <2>2. Without(data.id) = rows \ {r}
    BY <1>7, <2>1 DEF Without
  <2>3. CASE machines[c].completed /\ rows' = Without(data.id)
    <3>1. rows' = rows \ {r}
      BY <2>2, <2>3
    <3>2. \A s \in rows' : s.key # key
      BY <1>7, <2>1, <3>1
    <3> QED BY <1>5, <1>7, <2>1, <2>3, <3>1, <3>2 DEF OnePerKey, SameRows
  <2>4. CASE ~machines[c].completed /\ rows' = Without(data.id) \cup {data}
    <3>1. rows' = (rows \ {r}) \cup {data}
      BY <2>2, <2>4
    <3>2. OnePerKey'
      BY <1>7, <2>1, <3>1 DEF OnePerKey
    <3>3. \A k : k # NoKey /\ k # key => SameRows(k, rows, rows')
      BY <2>1, <3>1 DEF SameRows
    <3>4. Follows(key, c)
      BY <2>1, <3>1 DEF Follows
    <3> QED BY <1>5, <2>4, <3>2, <3>3, <3>4
  <2>5. \/ machines[c].completed /\ rows' = Without(data.id)
        \/ ~machines[c].completed /\ rows' = Without(data.id) \cup {data}
    BY <1>4, <1>5, <1>10, <1>8
  <2> QED BY <2>3, <2>4, <2>5
<1> QED BY <1>6, <1>9, <1>10

\* Save
LEMMA DataSave ==
  ASSUME Partitioned, DataInv, TypeInv', NEW t \in Threads, Save(t)
  PROVE  DataInv'
<1>1. PICK c : c = top[t]
  OBVIOUS
<1>2. PICK m : m = calls[c].machine
  OBVIOUS
<1>3. TypeInv /\ Own
  BY DEF DataInv
<1>4. /\ c \in DOMAIN calls /\ calls[c].place = "save"
      /\ CallChanged(c, "saved", calls[c].found, calls[c].out, calls[c].next)
      /\ \/ machines' = machines
         \/ \E data : MachineChanged(m, data, machines[m].completed, machines[m].events,
                                     machines[m].commands, machines[m].disposed)
  BY <1>1, <1>2, <1>3, SaveStep
<1>5. m = c /\ calls[c].place \notin Over \cup Waiting
  BY <1>2, <1>3, <1>4 DEF Own, Over, Waiting
<1>6. Own'
  BY <1>3, OwnExecute DEF Execute
<1>7. \A n \in DOMAIN machines : n # c => machines'[n] = machines[n]
  BY <1>4, <1>5 DEF MachineChanged
<1>8. OnePerKey' /\ \A k : k # NoKey /\ k # calls[c].key => SameRows(k, rows, rows')
  BY <1>1, SaveRows
<1>9. PICK found, out, next : found = calls[c].found /\ out = calls[c].out /\ next = calls[c].next
  OBVIOUS
<1>10. CallChanged(c, "saved", found, out, next)
  BY <1>4, <1>9
<1>11. Fresh("saved", found, calls[c].key, machines'[c].data, rows', c)
  BY DEF Fresh
<1> QED BY <1>4, <1>5, <1>6, <1>7, <1>8, <1>10, <1>11, DataMove

\* The steps after the data was saved.
LEMMA DataRest ==
  ASSUME Partitioned, DataInv, TypeInv', NEW t \in Threads,
         \/ CopyEvents(t) \/ PublishEvent(t) \/ EventPublished(t)
         \/ CopyCommands(t) \/ SendCommand(t) \/ CommandSent(t) \/ Dispose(t)
  PROVE  DataInv'
<1>1. PICK c : c = top[t]
  OBVIOUS
<1>2. PICK m : m = calls[c].machine
  OBVIOUS
<1>3. TypeInv /\ Own /\ OnePerKey
  BY DEF DataInv
<1>4. /\ c \in DOMAIN calls /\ rows' = rows
      /\ \E place \in {"publish", "publishing", "send", "sending", "done"} :
           \E found, out, next : CallChanged(c, place, found, out, next)
      /\ machines' = machines \/ (\E data, completed, events, commands, disposed :
           MachineChanged(m, data, completed, events, commands, disposed))
  BY <1>1, <1>2, <1>3, QueueStep, DisposeStep
<1>5. m = c
  BY <1>2, <1>3, <1>4 DEF Own
<1>6. Own' /\ OnePerKey'
  BY <1>3, <1>4, OwnExecute DEF OnePerKey, Execute
<1>7. \A n \in DOMAIN machines : n # c => machines'[n] = machines[n]
  BY <1>4, <1>5 DEF MachineChanged
<1>8. PICK place, found, out, next :
        /\ place \in {"publish", "publishing", "send", "sending", "done"}
        /\ CallChanged(c, place, found, out, next)
  BY <1>4
<1>9. Fresh(place, found, calls[c].key, machines'[c].data, rows', c)
  BY <1>8, Zenon DEF Fresh
<1> QED BY <1>4, <1>6, <1>7, <1>8, <1>9, DataMove

\* Every step keeps the data as it should be.
LEMMA DataNext ==
  ASSUME Partitioned, DataInv, [Next]_vars
  PROVE  DataInv'
<1>1. TypeInv'
  BY TypeNext DEF DataInv
<1>2. CASE UNCHANGED vars
  BY <1>1, <1>2 DEF vars, DataInv, Own, AllFresh, OnePerKey
<1>3. ASSUME NEW t \in Threads, NEW k \in Owned[t] \cup {NoKey}, Deliver(t, k)
      PROVE  DataInv'
  BY <1>1, <1>3, DataDeliver
<1>4. ASSUME NEW t \in Threads, Execute(t)
      PROVE  DataInv'
  BY <1>1, <1>4, DataRetrieve, DataHandle, DataSave, DataRest DEF Execute
<1>5. ASSUME NEW t \in Threads, Throw(t)
      PROVE  DataInv'
  BY <1>1, <1>5, DataThrow
<1> QED BY <1>2, <1>3, <1>4, <1>5 DEF Next

\* The first state.
LEMMA DataInit ==
  ASSUME Init
  PROVE  DataInv
<1>1. rows = {} /\ calls = <<>> /\ machines = <<>> /\ top = [t \in Threads |-> 0]
  BY DEF Init
<1>2. DOMAIN calls = {} /\ Len(calls) = Len(machines)
  BY <1>1
<1>3. Own /\ AllFresh /\ OnePerKey
  BY <1>1, <1>2 DEF Own, AllFresh, OnePerKey
<1> QED BY <1>3, TypeInit DEF DataInv

\* A key has the data of one process at most, however the events of a thread nest in its
\* publishing and sending and wherever they are left by exceptions.
THEOREM OneProcess ==
  ASSUME Partitioned
  PROVE  Spec => []OnePerKey
<1>1. Init => DataInv
  BY DataInit
<1>2. DataInv /\ [Next]_vars => DataInv'
  BY DataNext
<1>3. DataInv => OnePerKey
  BY DEF DataInv
<1> QED BY <1>1, <1>2, <1>3, PTL DEF Spec

-----------------------------------------------------------------------------
(* What is published and sent.                                             *)

Is(q, c, kind) == \A i \in DOMAIN q : q[i] = <<c, kind, i>>

\* The messages of call c with machine m: queued by itself only, and in the order of the copy
\* among those sent. H and S are the calls handled and the messages sent.
Told(place, out, next, m, c, H, S) ==
  /\ place \in {"retrieve", "handle"} => m.events = <<>> /\ m.commands = <<>>
  /\ place \in {"retrieve", "handle", "save"} => c \notin H
  /\ place \in {"saved", "publish", "publishing", "send", "sending"} => c \in H
  /\ place \in {"save", "saved"} => Is(m.events, c, "event")
  /\ place \in {"save", "saved", "publish", "publishing"} => Is(m.commands, c, "command")
  /\ place \in {"publish", "publishing"} => Is(out, c, "event")
  /\ place \in {"send", "sending"} => Is(out, c, "command")
  /\ \A x \in S : x[1] = c =>
       /\ place # "saved"
       /\ place = "publish" => x[2] = "event" /\ x[3] < next
       /\ place = "publishing" => x[2] = "event" /\ x[3] <= next
       /\ place = "send" /\ x[2] = "command" => x[3] < next
       /\ place = "sending" /\ x[2] = "command" => x[3] <= next

AllTold ==
  \A c \in DOMAIN calls :
    Told(calls[c].place, calls[c].out, calls[c].next, machines[c], c, handled, Elements(emitted))

SentHandled == \A x \in Elements(emitted) : x[1] \in handled

SentInv == DataInv /\ AllTold /\ SentHandled

\* A call that another one's step does not concern.
LEMMA ToldSame ==
  ASSUME NEW place, NEW out, NEW next, NEW m, NEW c, NEW d, d # c, NEW H, NEW S, NEW H2, NEW S2,
         Told(place, out, next, m, d, H, S), H2 = H \/ H2 = H \cup {c},
         \A x \in S2 : x \in S \/ x[1] = c
  PROVE  Told(place, out, next, m, d, H2, S2)
<1>1. d \in H2 <=> d \in H
  OBVIOUS
<1>2. \A x \in S2 : x[1] = d => x \in S
  OBVIOUS
<1> QED BY <1>1, <1>2 DEF Told

\* A step of call c.
LEMMA ToldMove ==
  ASSUME SentInv, DataInv', NEW c \in DOMAIN calls,
         NEW place, NEW found, NEW out, NEW next, CallChanged(c, place, found, out, next),
         \A n \in DOMAIN machines : n # c => machines'[n] = machines[n],
         handled' = handled \/ handled' = handled \cup {c},
         \A x \in Elements(emitted') : x \in Elements(emitted) \/ (x[1] = c /\ c \in handled'),
         Told(place, out, next, machines'[c], c, handled', Elements(emitted'))
  PROVE  SentInv'
<1>1. /\ DOMAIN calls' = DOMAIN calls
      /\ \A d \in DOMAIN calls : d # c => calls'[d] = calls[d]
      /\ calls'[c].place = place /\ calls'[c].out = out /\ calls'[c].next = next
  BY DEF CallChanged
<1>2. DOMAIN machines = DOMAIN calls
  BY DEF SentInv, DataInv, TypeInv, Typed, Own
<1>3. PICK H2, S2 : H2 = handled' /\ S2 = Elements(emitted')
  OBVIOUS
<1>4. ASSUME NEW d \in DOMAIN calls
      PROVE  Told(calls'[d].place, calls'[d].out, calls'[d].next, machines'[d], d, H2, S2)
  <2>1. CASE d = c
    BY <1>1, <1>3, <2>1
  <2>2. CASE d # c
    <3>1. calls'[d] = calls[d] /\ machines'[d] = machines[d]
      BY <1>1, <1>2, <2>2
    <3>2. Told(calls[d].place, calls[d].out, calls[d].next, machines[d], d, handled,
               Elements(emitted))
      BY DEF SentInv, AllTold
    <3>3. PICK p, o, n, m, H, S :
            /\ p = calls[d].place /\ o = calls[d].out /\ n = calls[d].next
            /\ m = machines[d] /\ H = handled /\ S = Elements(emitted)
      OBVIOUS
    <3>4. /\ Told(p, o, n, m, d, H, S)
          /\ H2 = H \/ H2 = H \cup {c}
          /\ \A x \in S2 : x \in S \/ x[1] = c
      BY <1>3, <3>2, <3>3
    <3>5. Told(p, o, n, m, d, H2, S2)
      BY <2>2, <3>4, ToldSame
    <3> QED BY <3>1, <3>3, <3>5
  <2> QED BY <2>1, <2>2
<1>5. AllTold'
  BY <1>1, <1>3, <1>4 DEF AllTold
<1>6. SentHandled'
  BY DEF SentInv, SentHandled
<1> QED BY <1>5, <1>6 DEF SentInv

\* Deliver: a new call has queued and sent nothing.
LEMMA ToldDeliver ==
  ASSUME Partitioned, SentInv, DataInv', NEW t \in Threads, NEW k \in Owned[t] \cup {NoKey},
         Deliver(t, k)
  PROVE  SentInv'
<1>1. PICK n : n = Len(calls) + 1
  OBVIOUS
<1>2. /\ n \notin DOMAIN calls /\ DOMAIN calls' = DOMAIN calls \cup {n}
      /\ \A d \in DOMAIN calls : calls'[d] = calls[d] /\ machines'[d] = machines[d]
      /\ calls'[n].place = "retrieve" /\ machines'[n] = NewMachine
      /\ UNCHANGED <<handled, emitted>>
  BY <1>1, OwnDeliver DEF SentInv, DataInv
<1>3. n \notin handled
  BY <1>2 DEF SentInv, DataInv, TypeInv, References
<1>4. PICK H2, S2 : H2 = handled' /\ S2 = Elements(emitted')
  OBVIOUS
<1>5. H2 = handled /\ S2 = Elements(emitted)
  BY <1>2, <1>4
<1>6. ASSUME NEW d \in DOMAIN calls'
      PROVE  Told(calls'[d].place, calls'[d].out, calls'[d].next, machines'[d], d, H2, S2)
  <2>1. CASE d \in DOMAIN calls
    <3>1. Told(calls[d].place, calls[d].out, calls[d].next, machines[d], d, handled,
               Elements(emitted))
      BY <2>1 DEF SentInv, AllTold
    <3> QED BY <1>2, <1>5, <2>1, <3>1
  <2>2. CASE d = n
    <3>1. PICK m, out, next : m = NewMachine /\ out = calls'[n].out /\ next = calls'[n].next
      OBVIOUS
    <3>2. m.events = <<>> /\ m.commands = <<>>
      BY <3>1, NewFields
    <3>3. \A x \in S2 : x[1] # n
      BY <1>3, <1>5 DEF SentInv, SentHandled
    <3>4. Told("retrieve", out, next, m, n, H2, S2)
      BY <1>3, <1>5, <3>2, <3>3 DEF Told
    <3> QED BY <1>2, <2>2, <3>1, <3>4
  <2> QED BY <1>2, <2>1, <2>2
<1>7. AllTold'
  BY <1>4, <1>6 DEF AllTold
<1>8. SentHandled'
  BY <1>2 DEF SentInv, SentHandled
<1> QED BY <1>7, <1>8 DEF SentInv

\* Throw
LEMMA ToldThrow ==
  ASSUME SentInv, DataInv', NEW t \in Threads, Throw(t)
  PROVE  SentInv'
<1>1. /\ DOMAIN calls' = DOMAIN calls
      /\ \A d \in DOMAIN calls : calls'[d] = calls[d] \/ calls'[d].place = "threw"
  BY ThrowChanges DEF SentInv, DataInv
<1>2. UNCHANGED <<machines, handled, emitted>>
  BY DEF Throw
<1>3. PICK H2, S2 : H2 = handled' /\ S2 = Elements(emitted')
  OBVIOUS
<1>4. H2 = handled /\ S2 = Elements(emitted)
  BY <1>2, <1>3
<1>5. ASSUME NEW d \in DOMAIN calls
      PROVE  Told(calls'[d].place, calls'[d].out, calls'[d].next, machines'[d], d, H2, S2)
  <2>1. CASE calls'[d] = calls[d]
    <3>1. Told(calls[d].place, calls[d].out, calls[d].next, machines[d], d, handled,
               Elements(emitted))
      BY DEF SentInv, AllTold
    <3> QED BY <1>2, <1>4, <2>1, <3>1
  <2>2. CASE calls'[d].place = "threw"
    BY <2>2 DEF Told
  <2> QED BY <1>1, <2>1, <2>2
<1>6. AllTold'
  BY <1>1, <1>3, <1>5 DEF AllTold
<1>7. SentHandled'
  BY <1>2 DEF SentInv, SentHandled
<1> QED BY <1>6, <1>7 DEF SentInv

\* Retrieve
LEMMA ToldRetrieve ==
  ASSUME SentInv, DataInv', NEW t \in Threads, Retrieve(t)
  PROVE  SentInv'
<1>1. PICK c : c = top[t]
  OBVIOUS
<1>2. PICK m : m = calls[c].machine
  OBVIOUS
<1>3. TypeInv /\ Own
  BY DEF SentInv, DataInv
<1>4. /\ c \in DOMAIN calls /\ calls[c].place = "retrieve" /\ UNCHANGED <<handled, emitted>>
      /\ \/ machines' = machines
         \/ \E r \in rows : MachineChanged(m, r, machines[m].completed, machines[m].events,
                                           machines[m].commands, machines[m].disposed)
      /\ \E found : CallChanged(c, "handle", found, calls[c].out, calls[c].next)
  BY <1>1, <1>2, <1>3, RetrieveStep
<1>5. m = c
  BY <1>2, <1>3, <1>4 DEF Own
<1>6. /\ \A n \in DOMAIN machines : n # c => machines'[n] = machines[n]
      /\ machines'[c].events = machines[c].events /\ machines'[c].commands = machines[c].commands
  BY <1>4, <1>5 DEF MachineChanged
<1>7. PICK out, next : out = calls[c].out /\ next = calls[c].next
  OBVIOUS
<1>8. Told("retrieve", out, next, machines[c], c, handled, Elements(emitted))
  BY <1>4, <1>7 DEF SentInv, AllTold
<1>9. Told("handle", out, next, machines'[c], c, handled, Elements(emitted))
  BY <1>6, <1>8 DEF Told
<1>10. Elements(emitted') = Elements(emitted) /\ handled' = handled
  BY <1>4
<1>11. Told("handle", out, next, machines'[c], c, handled', Elements(emitted'))
  BY <1>9, <1>10
<1>12. PICK found : CallChanged(c, "handle", found, out, next)
  BY <1>4, <1>7
<1> QED BY <1>4, <1>6, <1>10, <1>11, <1>12, ToldMove

\* Handle
LEMMA ToldHandle ==
  ASSUME SentInv, DataInv', NEW t \in Threads, Handle(t)
  PROVE  SentInv'
<1>1. PICK c : c = top[t]
  OBVIOUS
<1>2. PICK m : m = calls[c].machine
  OBVIOUS
<1>3. TypeInv /\ Own
  BY DEF SentInv, DataInv
<1>4. /\ c \in DOMAIN calls /\ calls[c].place = "handle" /\ UNCHANGED <<handled, emitted>>
      /\ CallChanged(c, "save", calls[c].found, calls[c].out, calls[c].next)
      /\ \E data, completed, disposed : \E e \in Nat, n \in Nat :
           MachineChanged(m, data, completed, machines[m].events \o Messages(c, "event", e),
                          machines[m].commands \o Messages(c, "command", n), disposed)
  BY <1>1, <1>2, <1>3, HandleStep
<1>5. m = c /\ c \in Calls
  BY <1>2, <1>3, <1>4, ProcessAssumption DEF Own, TypeInv, Typed, Calls
<1>6. PICK e \in Nat, n \in Nat :
        /\ \A k \in DOMAIN machines : k # c => machines'[k] = machines[k]
        /\ machines'[c].events = machines[c].events \o Messages(c, "event", e)
        /\ machines'[c].commands = machines[c].commands \o Messages(c, "command", n)
  BY <1>4, <1>5 DEF MachineChanged
<1>7. PICK out, next, found : out = calls[c].out /\ next = calls[c].next /\ found = calls[c].found
  OBVIOUS
<1>8. Told("handle", out, next, machines[c], c, handled, Elements(emitted))
  BY <1>4, <1>7 DEF SentInv, AllTold
<1>9. machines[c].events = <<>> /\ machines[c].commands = <<>> /\ c \notin handled
  BY <1>8 DEF Told
<1>10. Is(machines'[c].events, c, "event") /\ Is(machines'[c].commands, c, "command")
  <2>1. PICK es \in Seq(Message), cs \in Seq(Message) :
          /\ es = Messages(c, "event", e) /\ cs = Messages(c, "command", n)
    BY <1>5, MessagesFields
  <2>2. Is(es, c, "event") /\ Is(cs, c, "command")
    BY <1>5, <2>1, MessagesFields DEF Is
  <2>3. <<>> \o es = es /\ <<>> \o cs = cs
    OBVIOUS
  <2> QED BY <1>6, <1>9, <2>1, <2>2, <2>3
<1>11. Elements(emitted') = Elements(emitted) /\ handled' = handled
  BY <1>4
<1>12. Told("save", out, next, machines'[c], c, handled', Elements(emitted'))
  BY <1>9, <1>10, <1>11 DEF Told
<1>13. CallChanged(c, "save", found, out, next)
  BY <1>4, <1>7
<1> QED BY <1>4, <1>6, <1>11, <1>12, <1>13, ToldMove

\* Save: the call is handled, and has sent nothing yet.
LEMMA ToldSave ==
  ASSUME SentInv, DataInv', NEW t \in Threads, Save(t)
  PROVE  SentInv'
<1>1. PICK c : c = top[t]
  OBVIOUS
<1>2. PICK m : m = calls[c].machine
  OBVIOUS
<1>3. TypeInv /\ Own
  BY DEF SentInv, DataInv
<1>4. /\ c \in DOMAIN calls /\ calls[c].place = "save" /\ UNCHANGED emitted
      /\ handled' = handled \cup {c}
      /\ CallChanged(c, "saved", calls[c].found, calls[c].out, calls[c].next)
      /\ \/ machines' = machines
         \/ \E data : MachineChanged(m, data, machines[m].completed, machines[m].events,
                                     machines[m].commands, machines[m].disposed)
  BY <1>1, <1>2, <1>3, SaveStep
<1>5. m = c
  BY <1>2, <1>3, <1>4 DEF Own
<1>6. /\ \A n \in DOMAIN machines : n # c => machines'[n] = machines[n]
      /\ machines'[c].events = machines[c].events /\ machines'[c].commands = machines[c].commands
  BY <1>4, <1>5 DEF MachineChanged
<1>7. PICK out, next, found : out = calls[c].out /\ next = calls[c].next /\ found = calls[c].found
  OBVIOUS
<1>8. Told("save", out, next, machines[c], c, handled, Elements(emitted))
  BY <1>4, <1>7 DEF SentInv, AllTold
<1>9. c \notin handled
  BY <1>8 DEF Told
<1>10. \A x \in Elements(emitted) : x[1] # c
  BY <1>9 DEF SentInv, SentHandled
<1>11. Elements(emitted') = Elements(emitted)
  BY <1>4
<1>12. Told("saved", out, next, machines'[c], c, handled', Elements(emitted'))
  BY <1>4, <1>6, <1>8, <1>10, <1>11 DEF Told
<1>13. CallChanged(c, "saved", found, out, next)
  BY <1>4, <1>7
<1> QED BY <1>4, <1>6, <1>11, <1>12, <1>13, ToldMove

\* The queues are copied.
LEMMA ToldCopy ==
  ASSUME SentInv, DataInv', NEW c \in DOMAIN calls,
         NEW place, NEW found, NEW out, NEW next, CallChanged(c, place, found, out, next),
         UNCHANGED <<machines, handled, emitted>>,
         \/ calls[c].place = "saved" /\ place = "publish" /\ out = machines[c].events
         \/ calls[c].place = "publish" /\ place = "send" /\ out = machines[c].commands
  PROVE  SentInv'
<1>1. PICK o, n : o = calls[c].out /\ n = calls[c].next
  OBVIOUS
<1>2. Told(calls[c].place, o, n, machines[c], c, handled, Elements(emitted))
  BY <1>1 DEF SentInv, AllTold
<1>3. Told(place, out, next, machines[c], c, handled, Elements(emitted))
  <2>1. CASE calls[c].place = "saved"
    BY <1>2, <2>1 DEF Told
  <2>2. CASE calls[c].place = "publish"
    <3>1. \A x \in Elements(emitted) : x[1] = c => x[2] = "event"
      BY <1>2, <2>2 DEF Told
    <3> QED BY <1>2, <2>2, <3>1 DEF Told
  <2> QED BY <2>1, <2>2
<1>4. Elements(emitted') = Elements(emitted) /\ machines' = machines /\ handled' = handled
  OBVIOUS
<1>5. Told(place, out, next, machines'[c], c, handled', Elements(emitted'))
  BY <1>3, <1>4
<1> QED BY <1>4, <1>5, ToldMove

\* A message is sent: the next of the copy, which was not sent before.
LEMMA ToldSend ==
  ASSUME SentInv, DataInv', NEW c \in DOMAIN calls,
         NEW place, NEW found, NEW out, NEW next, CallChanged(c, place, found, out, next),
         UNCHANGED <<machines, handled>>,
         \/ calls[c].place = "publish" /\ place = "publishing"
         \/ calls[c].place = "send" /\ place = "sending",
         out = calls[c].out, next = calls[c].next, next <= Len(out),
         emitted' = Append(emitted, out[next])
  PROVE  /\ SentInv'
         /\ out[next] \in Message /\ out[next] \notin Elements(emitted)
         /\ out[next][1] \in handled
<1>1. out \in Seq(Message) /\ next \in Nat \ {0} /\ emitted \in Seq(Message)
  BY CallFields DEF SentInv, DataInv, TypeInv, Typed
<1>2. next \in DOMAIN out /\ out[next] \in Message
  BY <1>1
<1>3. Told(calls[c].place, out, next, machines[c], c, handled, Elements(emitted))
  BY DEF SentInv, AllTold
<1>4. PICK kind : kind = IF place = "publishing" THEN "event" ELSE "command"
  OBVIOUS
<1>5. c \in handled /\ Is(out, c, kind)
  BY <1>3, <1>4 DEF Told
<1>6. out[next] = <<c, kind, next>>
  BY <1>2, <1>5 DEF Is
<1>7. out[next][1] = c /\ out[next][2] = kind /\ out[next][3] = next
  BY <1>6
<1>8. out[next] \notin Elements(emitted)
  BY <1>1, <1>3, <1>4, <1>7 DEF Told
<1>9. Elements(emitted') = Elements(emitted) \cup {out[next]}
  <2>1. /\ \A i \in DOMAIN emitted : i \in DOMAIN Append(emitted, out[next])
                                     /\ Append(emitted, out[next])[i] = emitted[i]
        /\ Len(emitted) + 1 \in DOMAIN Append(emitted, out[next])
        /\ Append(emitted, out[next])[Len(emitted) + 1] = out[next]
        /\ \A i \in DOMAIN Append(emitted, out[next]) : i \in DOMAIN emitted \/ i = Len(emitted) + 1
    BY <1>1, <1>2
  <2>2. Elements(Append(emitted, out[next])) = Elements(emitted) \cup {out[next]}
    BY <2>1 DEF Elements
  <2> QED BY <2>2
<1>10. Told(place, out, next, machines[c], c, handled, Elements(emitted) \cup {out[next]})
  <2>1. ASSUME NEW x \in Elements(emitted) \cup {out[next]}, x[1] = c
        PROVE  /\ place = "publishing" => x[2] = "event" /\ x[3] <= next
               /\ place = "sending" /\ x[2] = "command" => x[3] <= next
    <3>1. CASE x = out[next]
      BY <1>1, <1>4, <1>7, <3>1
    <3>2. CASE x \in Elements(emitted)
      <4>1. x \in Message
        BY <1>1, <3>2 DEF Elements
      <4>2. x[3] \in Nat
        BY <4>1 DEF Message
      <4>3. /\ place = "publishing" => x[2] = "event" /\ x[3] < next
            /\ place = "sending" /\ x[2] = "command" => x[3] < next
        BY <1>3, <2>1, <3>2 DEF Told
      <4> QED BY <1>1, <4>2, <4>3
    <3> QED BY <2>1, <3>1, <3>2
  <2> QED BY <1>3, <2>1 DEF Told
<1>11. PICK S2 : S2 = Elements(emitted')
  OBVIOUS
<1>12. Told(place, out, next, machines'[c], c, handled', S2)
  BY <1>9, <1>10, <1>11
<1>13. \A x \in S2 : x \in Elements(emitted) \/ (x[1] = c /\ c \in handled')
  BY <1>5, <1>7, <1>9, <1>11
<1>14. SentInv'
  BY <1>11, <1>12, <1>13, ToldMove
<1> QED BY <1>2, <1>5, <1>7, <1>8, <1>14

\* The handlers that were told of a message return, or the machine is disposed.
LEMMA ToldPass ==
  ASSUME SentInv, DataInv', NEW c \in DOMAIN calls,
         NEW place, NEW found, NEW out, NEW next, CallChanged(c, place, found, out, next),
         \A n \in DOMAIN machines : n # c => machines'[n] = machines[n],
         UNCHANGED <<handled, emitted>>,
         \/ /\ calls[c].place = "publishing" /\ place = "publish"
            /\ machines' = machines /\ out = calls[c].out /\ next = calls[c].next + 1
         \/ /\ calls[c].place = "sending" /\ place = "send"
            /\ machines' = machines /\ out = calls[c].out /\ next = calls[c].next + 1
         \/ place = "done"
  PROVE  SentInv'
<1>1. emitted \in Seq(Message) /\ calls[c].next \in Nat
  BY CallFields DEF SentInv, DataInv, TypeInv, Typed
<1>2. \A x \in Elements(emitted) : x[3] \in Nat
  BY <1>1 DEF Elements, Message
<1>3. PICK o, n : o = calls[c].out /\ n = calls[c].next
  OBVIOUS
<1>4. Told(calls[c].place, o, n, machines[c], c, handled, Elements(emitted))
  BY <1>3 DEF SentInv, AllTold
<1>5. \A x \in Elements(emitted) : x[3] <= n => x[3] < n + 1
  BY <1>1, <1>2, <1>3
<1>6. Told(place, out, next, machines'[c], c, handled, Elements(emitted))
  <2>1. CASE place = "done"
    BY <2>1 DEF Told
  <2>2. CASE /\ calls[c].place = "publishing" /\ place = "publish"
             /\ machines' = machines /\ out = o /\ next = n + 1
    BY <1>4, <1>5, <2>2 DEF Told
  <2>3. CASE /\ calls[c].place = "sending" /\ place = "send"
             /\ machines' = machines /\ out = o /\ next = n + 1
    BY <1>4, <1>5, <2>3 DEF Told
  <2> QED BY <1>3, <2>1, <2>2, <2>3
<1>7. Elements(emitted') = Elements(emitted) /\ handled' = handled
  OBVIOUS
<1>8. Told(place, out, next, machines'[c], c, handled', Elements(emitted'))
  BY <1>6, <1>7
<1> QED BY <1>7, <1>8, ToldMove

\* The queues: a step copies one, goes on to the next message, or sends a message that was
\* not sent before and that the handling of an event has queued.
LEMMA ToldQueue ==
  ASSUME SentInv, DataInv', NEW t \in Threads,
         \/ CopyEvents(t) \/ PublishEvent(t) \/ EventPublished(t)
         \/ CopyCommands(t) \/ SendCommand(t) \/ CommandSent(t)
  PROVE  /\ SentInv'
         /\ UNCHANGED <<rows, assigned, machines, top, handled, queued>>
         /\ DOMAIN calls' = DOMAIN calls
         /\ \A d \in DOMAIN calls : calls'[d].key = calls[d].key /\ calls'[d].machine = calls[d].machine
         /\ \/ UNCHANGED emitted
            \/ \E new \in Message : /\ emitted' = Append(emitted, new)
                                    /\ new \notin Elements(emitted) /\ new[1] \in handled
<1>1. PICK c : c = top[t]
  OBVIOUS
<1>2. PICK m : m = calls[c].machine
  OBVIOUS
<1>3. TypeInv /\ Own
  BY DEF SentInv, DataInv
<1>4. c \in DOMAIN calls /\ UNCHANGED <<rows, assigned, machines, top, handled, queued>>
  BY <1>1, <1>2, <1>3, QueueStep
<1>5. m = c
  BY <1>2, <1>3, <1>4 DEF Own
<1>6. PICK found, out, next : found = calls[c].found /\ out = calls[c].out /\ next = calls[c].next
  OBVIOUS
<1>7. /\ DOMAIN calls' = DOMAIN calls
      /\ \A d \in DOMAIN calls : calls'[d].key = calls[d].key /\ calls'[d].machine = calls[d].machine
  <2>1. \E place, found2, out2, next2 : CallChanged(c, place, found2, out2, next2)
    BY <1>1, <1>2, <1>3, QueueStep
  <2> QED BY <2>1 DEF CallChanged
<1>8. CASE /\ UNCHANGED emitted
           /\ \/ /\ calls[c].place = "saved"
                 /\ CallChanged(c, "publish", found, machines[c].events, 1)
              \/ /\ calls[c].place = "publish"
                 /\ CallChanged(c, "send", found, machines[c].commands, 1)
  <2>1. PICK place, queue, one :
          /\ CallChanged(c, place, found, queue, one)
          /\ \/ calls[c].place = "saved" /\ place = "publish" /\ queue = machines[c].events
             \/ calls[c].place = "publish" /\ place = "send" /\ queue = machines[c].commands
    BY <1>8
  <2>2. SentInv'
    BY <1>4, <1>8, <2>1, ToldCopy
  <2> QED BY <1>4, <1>7, <1>8, <2>2
<1>9. CASE \E from \in {"publish", "send"} :
             /\ calls[c].place = from /\ next <= Len(out)
             /\ CallChanged(c, IF from = "publish" THEN "publishing" ELSE "sending",
                            found, out, next)
             /\ emitted' = Append(emitted, out[next])
  <2>1. PICK place :
          /\ next <= Len(out) /\ emitted' = Append(emitted, out[next])
          /\ CallChanged(c, place, found, out, next)
          /\ \/ calls[c].place = "publish" /\ place = "publishing"
             \/ calls[c].place = "send" /\ place = "sending"
    BY <1>9
  <2>2. /\ SentInv' /\ out[next] \in Message /\ out[next] \notin Elements(emitted)
        /\ out[next][1] \in handled
    BY <1>4, <1>6, <2>1, ToldSend
  <2> QED BY <1>4, <1>7, <2>1, <2>2
<1>10. CASE \E from \in {"publishing", "sending"} :
             /\ calls[c].place = from
             /\ CallChanged(c, IF from = "publishing" THEN "publish" ELSE "send",
                            found, out, next + 1)
             /\ UNCHANGED emitted
  <2>1. PICK place, more :
          /\ more = next + 1 /\ UNCHANGED emitted
          /\ CallChanged(c, place, found, out, more)
          /\ \/ calls[c].place = "publishing" /\ place = "publish"
             \/ calls[c].place = "sending" /\ place = "send"
    BY <1>10
  <2>2. SentInv'
    BY <1>4, <1>6, <2>1, ToldPass
  <2> QED BY <1>4, <1>7, <2>1, <2>2
<1> QED BY <1>1, <1>2, <1>3, <1>5, <1>6, <1>8, <1>9, <1>10, QueueStep

\* Dispose
LEMMA ToldDispose ==
  ASSUME SentInv, DataInv', NEW t \in Threads, Dispose(t)
  PROVE  SentInv'
<1>1. PICK c : c = top[t]
  OBVIOUS
<1>2. PICK m : m = calls[c].machine
  OBVIOUS
<1>3. TypeInv /\ Own
  BY DEF SentInv, DataInv
<1>4. /\ c \in DOMAIN calls /\ CallChanged(c, "done", FALSE, <<>>, 1)
      /\ MachineChanged(m, NewMachine.data, machines[m].completed, <<>>, <<>>, TRUE)
      /\ UNCHANGED <<handled, emitted>>
  BY <1>1, <1>2, <1>3, DisposeStep
<1>5. \A n \in DOMAIN machines : n # c => machines'[n] = machines[n]
  BY <1>2, <1>3, <1>4 DEF MachineChanged, Own
<1> QED BY <1>4, <1>5, ToldPass

\* Every step keeps what was told as it should be.
LEMMA SentNext ==
  ASSUME Partitioned, SentInv, [Next]_vars
  PROVE  SentInv'
<1>1. DataInv'
  BY DataNext DEF SentInv
<1>2. CASE UNCHANGED vars
  BY <1>1, <1>2 DEF vars, SentInv, AllTold, SentHandled, Elements
<1>3. ASSUME NEW t \in Threads, NEW k \in Owned[t] \cup {NoKey}, Deliver(t, k)
      PROVE  SentInv'
  BY <1>1, <1>3, ToldDeliver
<1>4. ASSUME NEW t \in Threads, Execute(t)
      PROVE  SentInv'
  BY <1>1, <1>4, ToldRetrieve, ToldHandle, ToldSave, ToldQueue, ToldDispose DEF Execute
<1>5. ASSUME NEW t \in Threads, Throw(t)
      PROVE  SentInv'
  BY <1>1, <1>5, ToldThrow
<1> QED BY <1>2, <1>3, <1>4, <1>5 DEF Next

\* The first state.
LEMMA SentInit ==
  ASSUME Init
  PROVE  SentInv
<1>1. calls = <<>> /\ emitted = <<>>
  BY DEF Init
<1>2. DOMAIN calls = {} /\ Elements(emitted) = {}
  BY <1>1 DEF Elements
<1>3. AllTold /\ SentHandled
  BY <1>2 DEF AllTold, SentHandled
<1> QED BY <1>3, DataInit DEF SentInv

-----------------------------------------------------------------------------
(* The history.                                                            *)

ProcessIn(k, rs) ==
  IF \E r \in rs : r.key = k THEN (CHOOSE r \in rs : r.key = k).handled ELSE <<>>

OneRow(rs) == \A r, s \in rs : r.key = s.key /\ r.key # NoKey => r = s

\* What ProcessHistory sees of the state.
Arrived    == [c \in DOMAIN calls |-> calls[c].key]
Process    == [k \in Keys |-> ProcessIn(k, rows)]
Completing == {c \in handled : machines[calls[c].machine].completed}

\* The process of a key is its row.
LEMMA ProcessIs ==
  ASSUME NEW rs, OneRow(rs), NEW k, k # NoKey
  PROVE  /\ \A r \in rs : r.key = k => ProcessIn(k, rs) = r.handled
         /\ (\A r \in rs : r.key # k) => ProcessIn(k, rs) = <<>>
<1>1. ASSUME NEW r \in rs, r.key = k
      PROVE  ProcessIn(k, rs) = r.handled
  <2>1. PICK s : s = CHOOSE row \in rs : row.key = k
    OBVIOUS
  <2>2. s \in rs /\ s.key = k
    BY <1>1, <2>1
  <2>3. s = r
    BY <1>1, <2>2 DEF OneRow
  <2> QED BY <1>1, <2>1, <2>3 DEF ProcessIn
<1>2. ASSUME \A r \in rs : r.key # k
      PROVE  ProcessIn(k, rs) = <<>>
  BY <1>2 DEF ProcessIn
<1> QED BY <1>1, <1>2

\* The same rows make the same process.
LEMMA ProcessSame ==
  ASSUME NEW rs, NEW rs2, OneRow(rs), OneRow(rs2), NEW k, k # NoKey, SameRows(k, rs, rs2)
  PROVE  ProcessIn(k, rs2) = ProcessIn(k, rs)
<1>1. CASE \E r \in rs : r.key = k
  <2>1. PICK r \in rs : r.key = k
    BY <1>1
  <2>2. r \in rs2
    BY <2>1 DEF SameRows
  <2>3. ProcessIn(k, rs) = r.handled
    BY <2>1, ProcessIs
  <2>4. ProcessIn(k, rs2) = r.handled
    BY <2>1, <2>2, ProcessIs
  <2> QED BY <2>3, <2>4
<1>2. CASE \A r \in rs : r.key # k
  <2>1. \A r \in rs2 : r.key # k
    BY <1>2 DEF SameRows
  <2> QED BY <1>2, <2>1, ProcessIs
<1> QED BY <1>1, <1>2

\* A step that handles no event and completes no machine of an event handled.
LEMMA CompletingSame ==
  ASSUME SentInv, SentInv', handled' = handled,
         \A c \in handled : machines'[c].completed = machines[c].completed
  PROVE  Completing' = Completing
<1>1. \A c \in handled : calls[c].machine = c /\ calls'[c].machine = c
  BY DEF SentInv, DataInv, TypeInv, References, Own
<1> QED BY <1>1 DEF Completing

\* The keys do not change.
LEMMA ArrivedSame ==
  ASSUME DOMAIN calls' = DOMAIN calls, \A c \in DOMAIN calls : calls'[c].key = calls[c].key
  PROVE  Arrived' = Arrived
BY DEF Arrived

\* Deliver: an event arrives.
LEMMA HistoryArrive ==
  ASSUME Partitioned, SentInv, SentInv', NEW t \in Threads, NEW k \in Owned[t] \cup {NoKey},
         Deliver(t, k)
  PROVE  /\ Arrived' = Append(Arrived, k)
         /\ UNCHANGED <<Process, handled, Completing, emitted>>
<1>1. PICK n : n = Len(calls) + 1
  OBVIOUS
<1>2. /\ n \notin DOMAIN calls /\ DOMAIN calls' = DOMAIN calls \cup {n}
      /\ \A d \in DOMAIN calls : calls'[d] = calls[d] /\ machines'[d] = machines[d]
      /\ calls'[n].key = k
      /\ UNCHANGED <<rows, handled, emitted>>
  BY <1>1, OwnDeliver DEF SentInv, DataInv
<1>3. Completing' = Completing
  BY <1>2, CompletingSame DEF SentInv, DataInv, TypeInv, References
<1>4. Process' = Process
  BY <1>2 DEF Process
<1>5. Arrived' = Append(Arrived, k)
  <2>1. calls \in Seq(CallT) /\ k \in Keys \cup {NoKey}
    BY ProcessAssumption DEF SentInv, DataInv, TypeInv, Typed
  <2>2. PICK a, b : a = Arrived /\ b = Arrived'
    OBVIOUS
  <2>3. /\ a = [d \in 1..Len(calls) |-> calls[d].key]
        /\ \A d \in 1..Len(calls) : calls[d].key \in Keys \cup {NoKey}
    BY <2>1, <2>2, CallFields DEF Arrived
  <2>4. a \in Seq(Keys \cup {NoKey}) /\ Len(a) = Len(calls)
    BY <2>1, <2>3
  <2>5. b = [d \in 1..Len(calls) + 1 |-> IF d = n THEN k ELSE calls[d].key]
    <3>1. DOMAIN calls = 1..Len(calls) /\ Len(calls) \in Nat
      BY <2>1
    <3>2. DOMAIN calls' = 1..Len(calls) + 1
      BY <1>1, <1>2, <3>1
    <3>3. b = [d \in DOMAIN calls' |-> calls'[d].key]
      BY <2>2 DEF Arrived
    <3> QED BY <1>1, <1>2, <3>1, <3>2, <3>3
  <2>6. b = Append(a, k)
    BY <1>1, <2>1, <2>3, <2>4, <2>5
  <2> QED BY <2>2, <2>6
<1> QED BY <1>2, <1>3, <1>4, <1>5

\* What neither handles an event nor sends a message.
LEMMA HistoryStutter ==
  ASSUME SentInv, SentInv', NEW t \in Threads,
         Retrieve(t) \/ Handle(t) \/ Dispose(t) \/ Throw(t)
  PROVE  UNCHANGED <<Arrived, Process, handled, Completing, emitted>>
<1>1. PICK c : c = top[t]
  OBVIOUS
<1>2. PICK m : m = calls[c].machine
  OBVIOUS
<1>3. TypeInv /\ Own
  BY DEF SentInv, DataInv
<1>4. UNCHANGED <<rows, handled, emitted>>
  BY DEF Retrieve, Handle, Dispose, Throw
<1>5. \A d \in handled : d \in DOMAIN calls /\ d \in DOMAIN machines
  BY <1>3 DEF TypeInv, Typed, References, Own
<1>6. Process' = Process
  BY <1>4 DEF Process
<1>7. CASE Retrieve(t)
  <2>1. \A d \in DOMAIN machines : machines'[d].completed = machines[d].completed
    BY <1>1, <1>2, <1>3, <1>7, RetrieveStep DEF MachineChanged
  <2>2. \E found : CallChanged(c, "handle", found, calls[c].out, calls[c].next)
    BY <1>1, <1>2, <1>3, <1>7, RetrieveStep
  <2>3. Arrived' = Arrived
    BY <2>2, ArrivedSame DEF CallChanged
  <2> QED BY <1>4, <1>5, <1>6, <2>1, <2>3, CompletingSame
<1>8. CASE Handle(t)
  <2>1. /\ c \in DOMAIN calls /\ calls[c].place = "handle"
        /\ CallChanged(c, "save", calls[c].found, calls[c].out, calls[c].next)
        /\ \E data, completed, events, commands, disposed :
             MachineChanged(m, data, completed, events, commands, disposed)
    BY <1>1, <1>2, <1>3, <1>8, HandleStep
  <2>2. m = c
    BY <1>2, <1>3, <2>1 DEF Own
  <2>3. c \notin handled
    BY <2>1 DEF SentInv, AllTold, Told
  <2>4. \A d \in handled : machines'[d].completed = machines[d].completed
    BY <1>5, <2>1, <2>2, <2>3 DEF MachineChanged
  <2>5. Arrived' = Arrived
    BY <2>1, ArrivedSame DEF CallChanged
  <2> QED BY <1>4, <1>6, <2>4, <2>5, CompletingSame
<1>9. CASE Dispose(t)
  <2>1. /\ CallChanged(c, "done", FALSE, <<>>, 1)
        /\ MachineChanged(m, NewMachine.data, machines[m].completed, <<>>, <<>>, TRUE)
    BY <1>1, <1>2, <1>3, <1>9, DisposeStep
  <2>2. \A d \in DOMAIN machines : machines'[d].completed = machines[d].completed
    BY <2>1 DEF MachineChanged
  <2>3. Arrived' = Arrived
    BY <2>1, ArrivedSame DEF CallChanged
  <2> QED BY <1>4, <1>5, <1>6, <2>2, <2>3, CompletingSame
<1>10. CASE Throw(t)
  <2>1. machines' = machines
    BY <1>10 DEF Throw
  <2>2. Arrived' = Arrived
    BY <1>3, <1>10, ThrowChanges, ArrivedSame
  <2> QED BY <1>4, <1>6, <2>1, <2>2, CompletingSame
<1> QED BY <1>7, <1>8, <1>9, <1>10

\* Save: the event is handled on top of what its process has handled, or the process ends.
LEMMA HistorySave ==
  ASSUME SentInv, SentInv', NEW t \in Threads, Save(t), NEW c, c = top[t]
  PROVE  /\ c \in DOMAIN Arrived /\ c \notin handled
         /\ handled' = handled \cup {c}
         /\ UNCHANGED <<Arrived, emitted>>
         /\ \/ /\ Process' = [k \in Keys |-> IF k = Arrived[c] THEN Append(Process[k], c)
                                             ELSE Process[k]]
               /\ Completing' = Completing
            \/ /\ Process' = [k \in Keys |-> IF k = Arrived[c] THEN <<>> ELSE Process[k]]
               /\ Completing' = Completing \cup {c}
<1>1. PICK m : m = calls[c].machine
  OBVIOUS
<1>2. TypeInv /\ Own
  BY DEF SentInv, DataInv
<1>3. /\ c \in DOMAIN calls /\ calls[c].place = "save"
      /\ UNCHANGED emitted
      /\ handled' = handled \cup {c}
      /\ CallChanged(c, "saved", calls[c].found, calls[c].out, calls[c].next)
      /\ \/ machines' = machines
         \/ \E data : MachineChanged(m, data, machines[m].completed, machines[m].events,
                                     machines[m].commands, machines[m].disposed)
  BY <1>1, <1>2, SaveStep
<1>4. c \notin handled
  BY <1>3 DEF SentInv, AllTold, Told
<1>5. Arrived' = Arrived /\ c \in DOMAIN Arrived /\ Arrived[c] = calls[c].key
  <2>1. Arrived' = Arrived
    BY <1>3, ArrivedSame DEF CallChanged
  <2> QED BY <1>3, <2>1 DEF Arrived
<1>6. \A d \in handled : d \in DOMAIN calls /\ d \in DOMAIN machines
  BY <1>2 DEF TypeInv, Typed, References, Own
<1>7. /\ m = c
      /\ \A d \in DOMAIN machines : machines'[d].completed = machines[d].completed
  BY <1>1, <1>2, <1>3 DEF MachineChanged, Own
<1>8. c \in DOMAIN machines
  BY <1>1, <1>2, SaveStep, <1>7
<1>9. /\ \A d \in handled : calls[d].machine = d
      /\ \A d \in handled' : calls'[d].machine = d
  BY <1>2, <1>6 DEF SentInv, DataInv, TypeInv, References, Own
<1>10. Completing' = IF machines[c].completed THEN Completing \cup {c} ELSE Completing
  BY <1>3, <1>6, <1>7, <1>8, <1>9 DEF Completing
<1>11. PICK key, rs, rs2 : key = calls[c].key /\ rs = rows /\ rs2 = rows'
  OBVIOUS
<1>12. OneRow(rs) /\ OneRow(rs2)
  BY <1>11 DEF SentInv, DataInv, OnePerKey, OneRow
<1>13. /\ \A k : k # NoKey /\ k # key => SameRows(k, rs, rs2)
       /\ key # NoKey => IF machines[c].completed THEN \A r \in rs2 : r.key # key
                         ELSE Follows(key, c)
  BY <1>11, SaveRows DEF SentInv
<1>14. ASSUME NEW k \in Keys, k # key
       PROVE  ProcessIn(k, rs2) = ProcessIn(k, rs)
  BY <1>12, <1>13, <1>14, ProcessSame, ProcessAssumption
<1>15. ASSUME key \in Keys
       PROVE  ProcessIn(key, rs2) = IF machines[c].completed THEN <<>>
                                    ELSE Append(ProcessIn(key, rs), c)
  <2>1. key # NoKey
    BY <1>15, ProcessAssumption
  <2>2. CASE machines[c].completed
    BY <1>12, <1>13, <2>1, <2>2, ProcessIs
  <2>3. CASE ~machines[c].completed
    <3>1. Follows(key, c)
      BY <1>13, <2>1, <2>3
    <3>2. PICK r \in rs2 :
            /\ r.key = key
            /\ \/ r.handled = <<c>> /\ \A s \in rs : s.key # key
               \/ \E s \in rs : s.key = key /\ r.handled = Append(s.handled, c)
      BY <1>11, <3>1 DEF Follows
    <3>3. ProcessIn(key, rs2) = r.handled
      BY <1>12, <2>1, <3>2, ProcessIs
    <3>4. CASE r.handled = <<c>> /\ \A s \in rs : s.key # key
      <4>1. ProcessIn(key, rs) = <<>>
        BY <1>12, <2>1, <3>4, ProcessIs
      <4>2. Append(<<>>, c) = <<c>>
        OBVIOUS
      <4> QED BY <2>3, <3>3, <3>4, <4>1, <4>2
    <3>5. CASE \E s \in rs : s.key = key /\ r.handled = Append(s.handled, c)
      <4>1. PICK s \in rs : s.key = key /\ r.handled = Append(s.handled, c)
        BY <3>5
      <4>2. ProcessIn(key, rs) = s.handled
        BY <1>12, <2>1, <4>1, ProcessIs
      <4> QED BY <2>3, <3>3, <4>1, <4>2
    <3> QED BY <3>2, <3>4, <3>5
  <2> QED BY <2>2, <2>3
<1>16. /\ Process = [k \in Keys |-> ProcessIn(k, rs)]
       /\ Process' = [k \in Keys |-> ProcessIn(k, rs2)]
  BY <1>11 DEF Process
<1>17. CASE machines[c].completed
  <2>1. Process' = [k \in Keys |-> IF k = key THEN <<>> ELSE Process[k]]
    BY <1>14, <1>15, <1>16, <1>17
  <2> QED BY <1>3, <1>4, <1>5, <1>10, <1>11, <1>17, <2>1
<1>18. CASE ~machines[c].completed
  <2>1. Process' = [k \in Keys |-> IF k = key THEN Append(Process[k], c) ELSE Process[k]]
    BY <1>14, <1>15, <1>16, <1>18
  <2> QED BY <1>3, <1>4, <1>5, <1>10, <1>11, <1>18, <2>1
<1> QED BY <1>17, <1>18

\* The substitution of ImplementsHistory.
LEMMA Substituted ==
  /\ Arrived = [c \in DOMAIN calls |-> calls[c].key]
  /\ Process = [k \in Keys |-> processOf(k)]
  /\ Completing = {c \in handled : machines[calls[c].machine].completed}
  /\ Arrived' = [c \in DOMAIN calls |-> calls[c].key]'
  /\ Process' = [k \in Keys |-> processOf(k)]'
  /\ Completing' = {c \in handled : machines[calls[c].machine].completed}'
BY DEF Arrived, Process, Completing, ProcessIn, processOf

\* Every step is one of ProcessHistory, or changes nothing it sees.
LEMMA HistoryNext ==
  ASSUME Partitioned, SentInv, SentInv', [Next]_vars
  PROVE  \/ UNCHANGED <<Arrived, Process, handled, Completing, emitted>>
         \/ History!Next
<1>1. CASE UNCHANGED vars
  <2>1. UNCHANGED <<rows, machines, calls, handled, emitted>>
    BY <1>1 DEF vars
  <2> QED BY <2>1 DEF Arrived, Process, Completing
<1>2. ASSUME NEW t \in Threads, NEW k \in Owned[t] \cup {NoKey}, Deliver(t, k)
      PROVE  History!Next
  <2>1. /\ Arrived' = Append(Arrived, k)
        /\ UNCHANGED <<Process, handled, Completing, emitted>>
    BY <1>2, HistoryArrive
  <2>2. k \in Keys \cup {NoKey}
    BY ProcessAssumption
  <2>3. History!Arrive(k)
    BY <2>1, Substituted DEF History!Arrive
  <2> QED BY <2>2, <2>3 DEF History!Next
<1>3. ASSUME NEW t \in Threads, Retrieve(t) \/ Handle(t) \/ Dispose(t) \/ Throw(t)
      PROVE  UNCHANGED <<Arrived, Process, handled, Completing, emitted>>
  BY <1>3, HistoryStutter
<1>4. ASSUME NEW t \in Threads, Save(t)
      PROVE  History!Next
  <2>1. PICK c : c = top[t]
    OBVIOUS
  <2>2. /\ c \in DOMAIN Arrived /\ c \notin handled
        /\ handled' = handled \cup {c}
        /\ UNCHANGED <<Arrived, emitted>>
        /\ \/ /\ Process' = [k \in Keys |-> IF k = Arrived[c] THEN Append(Process[k], c)
                                            ELSE Process[k]]
              /\ Completing' = Completing
           \/ /\ Process' = [k \in Keys |-> IF k = Arrived[c] THEN <<>> ELSE Process[k]]
              /\ Completing' = Completing \cup {c}
    BY <1>4, <2>1, HistorySave
  <2>3. History!Continue(c) \/ History!Complete(c)
    BY <2>2, Substituted DEF History!Continue, History!Complete, History!Handle
  <2> QED BY <2>2, <2>3, Substituted DEF History!Next
<1>5. ASSUME NEW t \in Threads,
             \/ CopyEvents(t) \/ PublishEvent(t) \/ EventPublished(t)
             \/ CopyCommands(t) \/ SendCommand(t) \/ CommandSent(t)
      PROVE  \/ UNCHANGED <<Arrived, Process, handled, Completing, emitted>>
             \/ History!Next
  <2>1. /\ UNCHANGED <<rows, machines, handled>>
        /\ DOMAIN calls' = DOMAIN calls
        /\ \A d \in DOMAIN calls : calls'[d].key = calls[d].key
        /\ \/ UNCHANGED emitted
           \/ \E new \in Message : /\ emitted' = Append(emitted, new)
                                   /\ new \notin Elements(emitted) /\ new[1] \in handled
    BY <1>5, ToldQueue DEF SentInv
  <2>2. UNCHANGED <<Arrived, Process, handled, Completing>>
    BY <2>1, ArrivedSame, CompletingSame DEF Process
  <2>3. ASSUME NEW new \in Message, emitted' = Append(emitted, new),
               new \notin Elements(emitted), new[1] \in handled
        PROVE  History!Next
    <3>1. emitted \in Seq(Message)
      BY DEF SentInv, DataInv, TypeInv, Typed
    <3>2. /\ Len(emitted') = Len(emitted) + 1
          /\ emitted'[Len(emitted) + 1] = new
      BY <2>3, <3>1
    <3>3. new \notin History!Elements(emitted)
      BY <2>3 DEF Elements, History!Elements
    <3>4. History!Emit
      BY <2>2, <2>3, <3>2, <3>3, Substituted DEF History!Emit
    <3> QED BY <3>4 DEF History!Next
  <2> QED BY <2>1, <2>2, <2>3
<1> QED BY <1>1, <1>2, <1>3, <1>4, <1>5 DEF Next, Execute

\* The first state.
LEMMA HistoryInit ==
  ASSUME Init
  PROVE  History!Init
<1>1. rows = {} /\ calls = <<>> /\ handled = {} /\ emitted = <<>>
  BY DEF Init
<1>2. DOMAIN calls = {}
  BY <1>1
<1>3. Arrived = <<>>
  BY <1>2 DEF Arrived
<1>4. Process = [k \in Keys |-> <<>>] /\ Completing = {}
  BY <1>1 DEF Process, ProcessIn, Completing
<1> QED BY <1>1, <1>3, <1>4, Substituted DEF History!Init

\* The machine implements ProcessHistory: an event is handled on top of all the events that
\* its process has handled before it, a completed process leaves nothing behind, and what
\* handling an event has to tell is told once, after the event was saved.
THEOREM HistoryImplemented ==
  ASSUME Partitioned
  PROVE  Spec => ImplementsHistory
<1>1. Init => SentInv /\ History!Init
  BY SentInit, HistoryInit
<1>2. SentInv /\ [Next]_vars => SentInv'
  BY SentNext
<1>3. SentInv /\ SentInv' /\ [Next]_vars =>
        [History!Next]_<<[c \in DOMAIN calls |-> calls[c].key],
                         [k \in Keys |-> processOf(k)],
                         handled,
                         {c \in handled : machines[calls[c].machine].completed},
                         emitted>>
  BY HistoryNext, Substituted
<1> QED BY <1>1, <1>2, <1>3, PTL DEF Spec, ImplementsHistory, History!Spec
=============================================================================
