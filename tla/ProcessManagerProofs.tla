-------------------------- MODULE ProcessManagerProofs --------------------------
(***************************************************************************)
(* Type correctness of ProcessManager, what each of its steps changes, and *)
(* the proof that every message a machine queues goes out before Execute   *)
(* returns, for any keys, queues and bounds: with a machine for each event *)
(* on any threads, and with one machine shared by the nested calls of a    *)
(* thread (OneUser).                                                       *)
(***************************************************************************)
EXTENDS ProcessManager, TLAPS

-----------------------------------------------------------------------------
(* The types.                                                              *)

MachineT == [data : Data, completed : BOOLEAN, events : Seq(Message), commands : Seq(Message),
             disposed : BOOLEAN]

CallT == [by : Threads, parent : Nat, key : Keys \cup {NoKey}, machine : Nat, place : Places,
          found : BOOLEAN, out : Seq(Message), next : Nat \ {0}]

\* Types that no relation between variables is needed for.
Typed ==
  /\ rows \in SUBSET Data
  /\ assigned \in Nat
  /\ machines \in Seq(MachineT)
  /\ calls \in Seq(CallT)
  /\ Len(calls) <= MaxCalls
  /\ top \in [Threads -> Nat]
  /\ handled \in SUBSET Nat
  /\ queued \in SUBSET Message
  /\ emitted \in Seq(Message)

\* Indices are of calls and machines there are.
References ==
  /\ \A c \in DOMAIN calls : /\ calls[c].machine \in DOMAIN machines
                             /\ calls[c].parent \in {0} \cup DOMAIN calls
  /\ \A t \in Threads : top[t] \in {0} \cup DOMAIN calls
  /\ handled \subseteq DOMAIN calls

\* Stored data has an identifier that was assigned, each its own; so has data that was
\* found, for as long as the machine has it.
Numbered ==
  /\ \A r \in rows : r.id \in 1..assigned
  /\ \A r, s \in rows : r.id = s.id => r = s
  /\ \A m \in DOMAIN machines : machines[m].data.id <= assigned
  /\ \A c \in DOMAIN calls :
       calls[c].found => \/ machines[calls[c].machine].disposed
                         \/ machines[calls[c].machine].data.id # 0

TypeInv == Typed /\ References /\ Numbered

-----------------------------------------------------------------------------
(* What a step does to the calls and the machines.                         *)

\* Call c, and no other, changes.
CallChanged(c, place, found, out, next) ==
  /\ calls' \in Seq(CallT)
  /\ Len(calls') = Len(calls)
  /\ DOMAIN calls' = DOMAIN calls
  /\ \A d \in DOMAIN calls : d # c => calls'[d] = calls[d]
  /\ calls'[c].by = calls[c].by
  /\ calls'[c].parent = calls[c].parent
  /\ calls'[c].key = calls[c].key
  /\ calls'[c].machine = calls[c].machine
  /\ calls'[c].place = place
  /\ calls'[c].found = found
  /\ calls'[c].out = out
  /\ calls'[c].next = next

\* Machine m, and no other, changes.
MachineChanged(m, data, completed, events, commands, disposed) ==
  /\ machines' \in Seq(MachineT)
  /\ Len(machines') = Len(machines)
  /\ DOMAIN machines' = DOMAIN machines
  /\ \A n \in DOMAIN machines : n # m => machines'[n] = machines[n]
  /\ machines'[m].data = data
  /\ machines'[m].completed = completed
  /\ machines'[m].events = events
  /\ machines'[m].commands = commands
  /\ machines'[m].disposed = disposed

\* The fields of a call.
LEMMA CallFields ==
  ASSUME calls \in Seq(CallT), NEW c \in DOMAIN calls
  PROVE  /\ c \in Nat \ {0} /\ calls[c] \in CallT
         /\ calls[c].by \in Threads /\ calls[c].parent \in Nat
         /\ calls[c].key \in Keys \cup {NoKey} /\ calls[c].machine \in Nat
         /\ calls[c].place \in Places /\ calls[c].found \in BOOLEAN
         /\ calls[c].out \in Seq(Message) /\ calls[c].next \in Nat \ {0}
<1>1. calls[c] \in CallT
  OBVIOUS
<1>2. c \in Nat \ {0}
  OBVIOUS
<1> QED BY <1>1, <1>2 DEF CallT

\* The fields of data.
LEMMA DataFields ==
  ASSUME NEW r \in Data
  PROVE  r.id \in Nat /\ r.key \in Keys \cup {NoKey} /\ r.handled \in Seq(Calls)
BY DEF Data

\* The fields of a machine.
LEMMA MachineFields ==
  ASSUME machines \in Seq(MachineT), NEW m \in DOMAIN machines
  PROVE  /\ m \in Nat \ {0} /\ machines[m] \in MachineT
         /\ machines[m].data \in Data /\ machines[m].completed \in BOOLEAN
         /\ machines[m].events \in Seq(Message) /\ machines[m].commands \in Seq(Message)
         /\ machines[m].disposed \in BOOLEAN
<1>1. machines[m] \in MachineT
  OBVIOUS
<1>2. m \in Nat \ {0}
  OBVIOUS
<1> QED BY <1>1, <1>2 DEF MachineT

\* A call that is replaced by one of the same event.
LEMMA CallReplaced ==
  ASSUME calls \in Seq(CallT), NEW c \in DOMAIN calls, NEW r \in CallT,
         calls' = [calls EXCEPT ![c] = r],
         r.by = calls[c].by, r.parent = calls[c].parent, r.key = calls[c].key,
         r.machine = calls[c].machine
  PROVE  CallChanged(c, r.place, r.found, r.out, r.next)
<1>1. /\ calls' \in Seq(CallT) /\ DOMAIN calls' = DOMAIN calls /\ Len(calls') = Len(calls)
      /\ \A d \in DOMAIN calls : d # c => calls'[d] = calls[d]
      /\ calls'[c] = r
  OBVIOUS
<1> QED BY <1>1 DEF CallChanged

\* A machine that is replaced.
LEMMA MachineReplaced ==
  ASSUME machines \in Seq(MachineT), NEW m \in DOMAIN machines, NEW r \in MachineT,
         machines' = [machines EXCEPT ![m] = r]
  PROVE  MachineChanged(m, r.data, r.completed, r.events, r.commands, r.disposed)
<1>1. /\ machines' \in Seq(MachineT) /\ DOMAIN machines' = DOMAIN machines
      /\ Len(machines') = Len(machines)
      /\ \A n \in DOMAIN machines : n # m => machines'[n] = machines[n]
      /\ machines'[m] = r
  OBVIOUS
<1> QED BY <1>1 DEF MachineChanged

\* The call moves to another place.
LEMMA GoToChanges ==
  ASSUME calls \in Seq(CallT), NEW c \in DOMAIN calls, NEW place \in Places,
         calls' = [calls EXCEPT ![c].place = place]
  PROVE  CallChanged(c, place, calls[c].found, calls[c].out, calls[c].next)
<1>1. calls[c] \in CallT
  BY CallFields
<1>2. PICK r : r = [calls[c] EXCEPT !.place = place]
  OBVIOUS
<1>3. r \in CallT
  BY <1>1, <1>2 DEF CallT
<1>4. /\ r.by = calls[c].by /\ r.parent = calls[c].parent /\ r.key = calls[c].key
      /\ r.machine = calls[c].machine /\ r.place = place /\ r.found = calls[c].found
      /\ r.out = calls[c].out /\ r.next = calls[c].next
  BY <1>1, <1>2 DEF CallT
<1>5. calls' = [calls EXCEPT ![c] = r]
  BY <1>2
<1>6. CallChanged(c, r.place, r.found, r.out, r.next)
  BY <1>3, <1>4, <1>5, CallReplaced
<1> QED BY <1>4, <1>6

\* The call finds its data.
LEMMA FoundChanges ==
  ASSUME calls \in Seq(CallT), NEW c \in DOMAIN calls, NEW place \in Places,
         calls' = [calls EXCEPT ![c].place = place, ![c].found = TRUE]
  PROVE  CallChanged(c, place, TRUE, calls[c].out, calls[c].next)
<1>1. calls[c] \in CallT
  BY CallFields
<1>2. PICK r : r = [calls[c] EXCEPT !.place = place, !.found = TRUE]
  OBVIOUS
<1>3. r \in CallT
  BY <1>1, <1>2 DEF CallT
<1>4. /\ r.by = calls[c].by /\ r.parent = calls[c].parent /\ r.key = calls[c].key
      /\ r.machine = calls[c].machine /\ r.place = place /\ r.found = TRUE
      /\ r.out = calls[c].out /\ r.next = calls[c].next
  BY <1>1, <1>2 DEF CallT
<1>5. calls' = [calls EXCEPT ![c] = r]
  BY <1>2
<1>6. CallChanged(c, r.place, r.found, r.out, r.next)
  BY <1>3, <1>4, <1>5, CallReplaced
<1> QED BY <1>4, <1>6

\* The call takes the copy of a queue.
LEMMA CopyChanges ==
  ASSUME calls \in Seq(CallT), NEW c \in DOMAIN calls, NEW place \in Places,
         NEW queue \in Seq(Message),
         calls' = [calls EXCEPT ![c].place = place, ![c].out = queue, ![c].next = 1]
  PROVE  CallChanged(c, place, calls[c].found, queue, 1)
<1>1. calls[c] \in CallT
  BY CallFields
<1>2. PICK r : r = [calls[c] EXCEPT !.place = place, !.out = queue, !.next = 1]
  OBVIOUS
<1>3. r \in CallT
  <2>1. PICK one \in Nat \ {0} : one = 1
    OBVIOUS
  <2>2. r = [calls[c] EXCEPT !.place = place, !.out = queue, !.next = one]
    BY <1>2, <2>1
  <2> QED BY <1>1, <2>2 DEF CallT
<1>4. /\ r.by = calls[c].by /\ r.parent = calls[c].parent /\ r.key = calls[c].key
      /\ r.machine = calls[c].machine /\ r.place = place /\ r.found = calls[c].found
      /\ r.out = queue /\ r.next = 1
  BY <1>1, <1>2 DEF CallT
<1>5. calls' = [calls EXCEPT ![c] = r]
  BY <1>2
<1>6. CallChanged(c, r.place, r.found, r.out, r.next)
  BY <1>3, <1>4, <1>5, CallReplaced
<1> QED BY <1>4, <1>6

\* The call goes on to the next message.
LEMMA EmittedChanges ==
  ASSUME calls \in Seq(CallT), NEW c \in DOMAIN calls, NEW place \in Places,
         calls' = [calls EXCEPT ![c].place = place, ![c].next = @ + 1]
  PROVE  CallChanged(c, place, calls[c].found, calls[c].out, calls[c].next + 1)
<1>1. calls[c] \in CallT
  BY CallFields
<1>2. PICK r : r = [calls[c] EXCEPT !.place = place, !.next = @ + 1]
  OBVIOUS
<1>3. calls[c].next + 1 \in Nat \ {0}
  BY CallFields
<1>4. r \in CallT
  BY <1>1, <1>2, <1>3 DEF CallT
<1>5. /\ r.by = calls[c].by /\ r.parent = calls[c].parent /\ r.key = calls[c].key
      /\ r.machine = calls[c].machine /\ r.place = place /\ r.found = calls[c].found
      /\ r.out = calls[c].out /\ r.next = calls[c].next + 1
  BY <1>1, <1>2 DEF CallT
<1>6. calls' = [calls EXCEPT ![c] = r]
  BY <1>2
<1>7. CallChanged(c, r.place, r.found, r.out, r.next)
  BY <1>4, <1>5, <1>6, CallReplaced
<1> QED BY <1>5, <1>7

\* The call ends.
LEMMA EndedChanges ==
  ASSUME calls \in Seq(CallT), NEW c \in DOMAIN calls, NEW place \in Places,
         calls' = [calls EXCEPT ![c] = Ended(@, place)]
  PROVE  CallChanged(c, place, FALSE, <<>>, 1)
<1>1. calls[c] \in CallT
  BY CallFields
<1>2. PICK r : r = Ended(calls[c], place)
  OBVIOUS
<1>3. r \in CallT
  <2>1. PICK one \in Nat \ {0} : one = 1
    OBVIOUS
  <2>2. PICK nothing \in Seq(Message) : nothing = <<>>
    <3>1. <<>> \in Seq(Message)
      OBVIOUS
    <3> QED BY <3>1, Zenon
  <2>3. r = [calls[c] EXCEPT !.place = place, !.found = FALSE, !.out = nothing, !.next = one]
    BY <1>2, <2>1, <2>2 DEF Ended
  <2>4. PICK no \in BOOLEAN : no = FALSE
    OBVIOUS
  <2>5. r = [calls[c] EXCEPT !.place = place, !.found = no, !.out = nothing, !.next = one]
    BY <2>3, <2>4
  <2>6. \A p \in Places, f \in BOOLEAN, s \in Seq(Message), n \in Nat \ {0} :
          [calls[c] EXCEPT !.place = p, !.found = f, !.out = s, !.next = n] \in CallT
    BY <1>1 DEF CallT
  <2> QED BY <2>1, <2>2, <2>4, <2>5, <2>6
<1>4. /\ r.by = calls[c].by /\ r.parent = calls[c].parent /\ r.key = calls[c].key
      /\ r.machine = calls[c].machine /\ r.place = place /\ r.found = FALSE
      /\ r.out = <<>> /\ r.next = 1
  BY <1>1, <1>2 DEF CallT, Ended
<1>5. calls' = [calls EXCEPT ![c] = r]
  BY <1>2
<1>6. CallChanged(c, r.place, r.found, r.out, r.next)
  BY <1>3, <1>4, <1>5, CallReplaced
<1> QED BY <1>4, <1>6

\* The machine is given data.
LEMMA DataChanges ==
  ASSUME machines \in Seq(MachineT), NEW m \in DOMAIN machines, NEW data \in Data,
         machines' = [machines EXCEPT ![m].data = data]
  PROVE  MachineChanged(m, data, machines[m].completed, machines[m].events,
                        machines[m].commands, machines[m].disposed)
<1>1. machines[m] \in MachineT
  BY MachineFields
<1>2. PICK r : r = [machines[m] EXCEPT !.data = data]
  OBVIOUS
<1>3. r \in MachineT
  BY <1>1, <1>2 DEF MachineT
<1>4. /\ r.data = data /\ r.completed = machines[m].completed /\ r.events = machines[m].events
      /\ r.commands = machines[m].commands /\ r.disposed = machines[m].disposed
  BY <1>1, <1>2 DEF MachineT
<1>5. machines' = [machines EXCEPT ![m] = r]
  BY <1>2
<1>6. MachineChanged(m, r.data, r.completed, r.events, r.commands, r.disposed)
  BY <1>3, <1>5, MachineReplaced
<1> QED BY <1>4, <1>6

\* The data of a new machine.
LEMMA NewData ==
  /\ NewMachine.data \in Data
  /\ NewMachine.data.id = 0 /\ NewMachine.data.key = NoKey /\ NewMachine.data.handled = <<>>
<1>1. NewMachine.data = [id |-> 0, key |-> NoKey, handled |-> <<>>]
  BY DEF NewMachine
<1>2. <<>> \in Seq(Calls)
  OBVIOUS
<1> QED BY <1>1, <1>2 DEF Data

\* A new machine has queued nothing and is not disposed.
LEMMA NewFields ==
  /\ NewMachine \in MachineT
  /\ NewMachine.completed = FALSE /\ NewMachine.events = <<>> /\ NewMachine.commands = <<>>
  /\ NewMachine.disposed = FALSE
<1>1. NewMachine = [data |-> NewMachine.data, completed |-> FALSE, events |-> <<>>,
                    commands |-> <<>>, disposed |-> FALSE]
  BY DEF NewMachine
<1>2. <<>> \in Seq(Message)
  OBVIOUS
<1>3. PICK data : data = NewMachine.data
  OBVIOUS
<1>4. data \in Data
  BY <1>3, NewData
<1>5. NewMachine = [data |-> data, completed |-> FALSE, events |-> <<>>,
                    commands |-> <<>>, disposed |-> FALSE]
  BY <1>1, <1>3
<1>6. PICK none \in Seq(Message) : none = <<>>
  BY <1>2, Zenon
<1>7. NewMachine = [data |-> data, completed |-> FALSE, events |-> none,
                    commands |-> none, disposed |-> FALSE]
  BY <1>5, <1>6
<1>8. NewMachine \in MachineT
  BY <1>4, <1>6, <1>7 DEF MachineT
<1> QED BY <1>1, <1>8

\* The machine is disposed.
LEMMA DisposedChanges ==
  ASSUME machines \in Seq(MachineT), NEW m \in DOMAIN machines,
         machines' = [machines EXCEPT ![m] = Disposed(@)]
  PROVE  MachineChanged(m, NewMachine.data, machines[m].completed, <<>>, <<>>, TRUE)
<1>1. machines[m].completed \in BOOLEAN
  BY MachineFields
<1>2. PICK r : r = Disposed(machines[m])
  OBVIOUS
<1>3. PICK new : new = NewMachine
  OBVIOUS
<1>4. new \in MachineT /\ new.events = <<>> /\ new.commands = <<>>
  BY <1>3, NewFields
<1>5. PICK done \in BOOLEAN : done = machines[m].completed
  BY <1>1, Zenon
<1>6. r = [new EXCEPT !.completed = done, !.disposed = TRUE]
  BY <1>2, <1>3, <1>5 DEF Disposed
<1>7. r \in MachineT
  BY <1>4, <1>6 DEF MachineT
<1>8. /\ r.data = new.data /\ r.completed = done /\ r.events = new.events
      /\ r.commands = new.commands /\ r.disposed = TRUE
  BY <1>4, <1>6 DEF MachineT
<1>9. machines' = [machines EXCEPT ![m] = r]
  BY <1>2
<1>10. MachineChanged(m, r.data, r.completed, r.events, r.commands, r.disposed)
  BY <1>7, <1>9, MachineReplaced
<1> QED BY <1>3, <1>4, <1>5, <1>8, <1>10

\* What the data becomes when the machine handles event c.
Extended(data, c) == [data EXCEPT !.handled = Append(@, c)]

\* Handling an event changes nothing else of the data.
LEMMA ExtendedFields ==
  ASSUME NEW data \in Data, NEW c \in Calls
  PROVE  /\ Extended(data, c) \in Data
         /\ Extended(data, c).id = data.id
         /\ Extended(data, c).key = data.key
         /\ Extended(data, c).handled = Append(data.handled, c)
<1>1. PICK s : s = Append(data.handled, c)
  OBVIOUS
<1>2. s \in Seq(Calls)
  BY <1>1 DEF Data
<1>3. Extended(data, c) = [data EXCEPT !.handled = s]
  BY <1>1 DEF Extended, Data
<1> QED BY <1>1, <1>2, <1>3 DEF Data

\* The machine handles an event.
LEMMA HandledChanges ==
  ASSUME machines \in Seq(MachineT), NEW m \in DOMAIN machines, NEW c \in Calls,
         NEW completes \in BOOLEAN, NEW events \in Seq(Message), NEW commands \in Seq(Message),
         machines' = [machines EXCEPT ![m] = Handling(@, c, completes, events, commands)]
  PROVE  MachineChanged(m, Extended(machines[m].data, c), machines[m].completed \/ completes,
                        machines[m].events \o events, machines[m].commands \o commands,
                        machines[m].disposed)
<1>1. PICK old : old = machines[m]
  OBVIOUS
<1>2. old \in MachineT /\ old.data \in Data /\ old.events \in Seq(Message)
      /\ old.commands \in Seq(Message) /\ old.completed \in BOOLEAN /\ old.disposed \in BOOLEAN
  BY <1>1, MachineFields
<1>3. PICK data : data = Extended(old.data, c)
  OBVIOUS
<1>4. PICK done : done = (old.completed \/ completes)
  OBVIOUS
<1>5. PICK es : es = old.events \o events
  OBVIOUS
<1>6. PICK cs : cs = old.commands \o commands
  OBVIOUS
<1>7. PICK r : r = [old EXCEPT !.data = data, !.completed = done, !.events = es, !.commands = cs]
  OBVIOUS
<1>8. data \in Data /\ done \in BOOLEAN /\ es \in Seq(Message) /\ cs \in Seq(Message)
  <2>1. data \in Data
    BY <1>2, <1>3, ExtendedFields
  <2>2. done \in BOOLEAN
    BY <1>4
  <2>3. es \in Seq(Message) /\ cs \in Seq(Message)
    BY <1>2, <1>5, <1>6
  <2> QED BY <2>1, <2>2, <2>3
<1>9. r \in MachineT
  BY <1>2, <1>7, <1>8 DEF MachineT
<1>10. /\ r.data = data /\ r.completed = done /\ r.events = es /\ r.commands = cs
       /\ r.disposed = old.disposed
  BY <1>2, <1>7 DEF MachineT
<1>11. machines' = [machines EXCEPT ![m] = r]
  <2>1. r = Handling(old, c, completes, events, commands)
    BY <1>3, <1>4, <1>5, <1>6, <1>7 DEF Extended, Handling
  <2> QED BY <2>1, <1>1
<1>12. MachineChanged(m, r.data, r.completed, r.events, r.commands, r.disposed)
  BY <1>9, <1>11, MachineReplaced
<1> QED BY <1>1, <1>3, <1>4, <1>5, <1>6, <1>10, <1>12

\* The container hands out a machine.
LEMMA ResolveChanges ==
  ASSUME machines \in Seq(MachineT), machines' = Resolve
  PROVE  /\ machines' \in Seq(MachineT)
         /\ Len(machines') \in DOMAIN machines'
         /\ \A m \in DOMAIN machines : m \in DOMAIN machines' /\ machines'[m] = machines[m]
         /\ \A m \in DOMAIN machines' : m \notin DOMAIN machines => machines'[m] = NewMachine
         /\ Lifestyle = "transient" => Len(machines') = Len(machines) + 1
<1>1. PICK new : new = NewMachine
  OBVIOUS
<1>2. new \in MachineT
  BY <1>1, NewFields
<1>3. CASE machines' = Append(machines, new)
  <2>1. machines' \in Seq(MachineT) /\ Len(machines') = Len(machines) + 1 /\ Len(machines) \in Nat
    BY <1>2, <1>3
  <2>2. \A m \in DOMAIN machines : m \in DOMAIN machines' /\ machines'[m] = machines[m]
    BY <1>3, <1>2
  <2>3. \A m \in DOMAIN machines' : m \notin DOMAIN machines => machines'[m] = new
    BY <1>3, <1>2
  <2>4. Len(machines') \in DOMAIN machines'
    BY <2>1
  <2> QED BY <1>1, <2>1, <2>2, <2>3, <2>4
<1>4. CASE machines' = machines /\ machines # <<>> /\ Lifestyle # "transient"
  <2>1. Len(machines) \in DOMAIN machines
    BY <1>4
  <2> QED BY <1>4, <2>1
<1> QED BY <1>1, <1>3, <1>4 DEF Resolve

\* An event arrives.
LEMMA DeliverChanges ==
  ASSUME Typed, NEW t \in Threads, NEW k \in Owned[t] \cup {NoKey}, Deliver(t, k)
  PROVE  /\ calls' \in Seq(CallT)
         /\ Len(calls') = Len(calls) + 1
         /\ Len(calls) + 1 \notin DOMAIN calls /\ Len(calls) + 1 \in Calls
         /\ DOMAIN calls' = DOMAIN calls \cup {Len(calls) + 1}
         /\ \A d \in DOMAIN calls : calls'[d] = calls[d]
         /\ calls'[Len(calls) + 1] =
              [by |-> t, parent |-> top[t], key |-> k, machine |-> Len(machines'),
               place |-> "retrieve", found |-> FALSE, out |-> <<>>, next |-> 1]
<1>1. PICK r : r = [by |-> t, parent |-> top[t], key |-> k, machine |-> Len(machines'),
                    place |-> "retrieve", found |-> FALSE, out |-> <<>>, next |-> 1]
  OBVIOUS
<1>2. calls' = Append(calls, r) /\ Len(calls) < MaxCalls
  BY <1>1 DEF Deliver
<1>3. PICK p \in Nat : p = top[t]
  BY Zenon DEF Typed
<1>4. k \in Keys \cup {NoKey}
  BY ProcessAssumption
<1>5. PICK n \in Nat : n = Len(machines')
  <2>1. machines' \in Seq(MachineT)
    BY ResolveChanges DEF Typed, Deliver
  <2>2. Len(machines') \in Nat
    BY <2>1
  <2> QED BY <2>2, Zenon
<1>6. PICK none \in Seq(Message) : none = <<>>
  <2>1. <<>> \in Seq(Message)
    OBVIOUS
  <2> QED BY <2>1, Zenon
<1>7. PICK one \in Nat \ {0} : one = 1
  OBVIOUS
<1>8. r = [by |-> t, parent |-> p, key |-> k, machine |-> n,
           place |-> "retrieve", found |-> FALSE, out |-> none, next |-> one]
  BY <1>1, <1>3, <1>5, <1>6, <1>7
<1>9. "retrieve" \in Places
  BY DEF Places
<1>10. r \in CallT
  BY <1>3, <1>4, <1>5, <1>6, <1>7, <1>8, <1>9 DEF CallT
<1>11. calls \in Seq(CallT)
  BY DEF Typed
<1>12. /\ calls' \in Seq(CallT) /\ Len(calls') = Len(calls) + 1
       /\ Len(calls) + 1 \notin DOMAIN calls
       /\ DOMAIN calls' = DOMAIN calls \cup {Len(calls) + 1}
       /\ \A d \in DOMAIN calls : calls'[d] = calls[d]
       /\ calls'[Len(calls) + 1] = r
  BY <1>2, <1>10, <1>11
<1>13. Len(calls) + 1 \in Calls
  BY <1>2, <1>11, ProcessAssumption DEF Calls
<1> QED BY <1>1, <1>12, <1>13

-----------------------------------------------------------------------------
(* What each action does, in those terms.                                  *)

\* The innermost call of a thread and its machine.
LEMMA Innermost ==
  ASSUME TypeInv, NEW t \in Threads, top[t] # 0, NEW c, c = top[t]
  PROVE  /\ c \in DOMAIN calls /\ calls[c].machine \in DOMAIN machines /\ c \in Calls
         /\ call(t) = calls[c] /\ machine(t) = machines[calls[c].machine]
<1>1. c \in DOMAIN calls
  BY DEF TypeInv, References
<1>2. calls[c].machine \in DOMAIN machines
  BY <1>1 DEF TypeInv, References
<1>3. c \in Calls
  BY <1>1, ProcessAssumption DEF TypeInv, Typed, Calls
<1> QED BY <1>1, <1>2, <1>3 DEF call, machine

\* Retrieve
LEMMA RetrieveStep ==
  ASSUME TypeInv, NEW t \in Threads, Retrieve(t), NEW c, c = top[t],
         NEW m, m = calls[c].machine
  PROVE  /\ c \in DOMAIN calls /\ m \in DOMAIN machines /\ calls[c].place = "retrieve"
         /\ UNCHANGED <<rows, assigned, top, handled, queued, emitted>>
         /\ \/ /\ machines' = machines
               /\ machines[m].disposed \/ \A r \in rows : calls[c].key # NoKey => r.key # calls[c].key
               /\ CallChanged(c, "handle", calls[c].found, calls[c].out, calls[c].next)
            \/ \E r \in rows :
                 /\ ~machines[m].disposed
                 /\ calls[c].key # NoKey /\ r.key = calls[c].key
                 /\ MachineChanged(m, r, machines[m].completed, machines[m].events,
                                   machines[m].commands, machines[m].disposed)
                 /\ CallChanged(c, "handle", TRUE, calls[c].out, calls[c].next)
<1>1. top[t] # 0 /\ call(t).place = "retrieve"
  BY DEF Retrieve, At
<1>2. /\ c \in DOMAIN calls /\ m \in DOMAIN machines
      /\ call(t) = calls[c] /\ machine(t) = machines[m]
  BY <1>1, Innermost
<1>3. calls \in Seq(CallT) /\ machines \in Seq(MachineT) /\ "handle" \in Places /\ rows \subseteq Data
  BY DEF TypeInv, Typed, Places
<1>4. UNCHANGED <<rows, assigned, top, handled, queued, emitted>>
  BY DEF Retrieve
<1>5. CASE /\ machines[m].disposed \/ Matching(calls[c].key) = {}
           /\ GoTo(t, "handle") /\ UNCHANGED machines
  <2>1. calls' = [calls EXCEPT ![c].place = "handle"]
    BY <1>5 DEF GoTo
  <2>2. CallChanged(c, "handle", calls[c].found, calls[c].out, calls[c].next)
    BY <2>1, <1>2, <1>3, GoToChanges
  <2>3. machines[m].disposed \/ \A r \in rows : calls[c].key # NoKey => r.key # calls[c].key
    BY <1>5 DEF Matching
  <2> QED BY <1>1, <1>2, <1>4, <1>5, <2>2, <2>3
<1>6. CASE /\ ~machines[m].disposed
           /\ \E r \in Matching(calls[c].key) :
                /\ machines' = [machines EXCEPT ![m].data = r]
                /\ calls' = [calls EXCEPT ![c].place = "handle", ![c].found = TRUE]
  <2>1. PICK r \in Matching(calls[c].key) :
                /\ machines' = [machines EXCEPT ![m].data = r]
                /\ calls' = [calls EXCEPT ![c].place = "handle", ![c].found = TRUE]
    BY <1>6
  <2>2. r \in rows /\ r \in Data /\ calls[c].key # NoKey /\ r.key = calls[c].key
    BY <2>1, <1>3 DEF Matching
  <2>3. MachineChanged(m, r, machines[m].completed, machines[m].events,
                       machines[m].commands, machines[m].disposed)
    BY <2>1, <2>2, <1>2, <1>3, DataChanges
  <2>4. CallChanged(c, "handle", TRUE, calls[c].out, calls[c].next)
    BY <2>1, <1>2, <1>3, FoundChanges
  <2> QED BY <1>1, <1>2, <1>4, <1>6, <2>2, <2>3, <2>4
<1> QED
  BY <1>1, <1>2, <1>5, <1>6 DEF Retrieve

\* The messages of one call and kind.
LEMMA MessagesFields ==
  ASSUME NEW c \in Calls, NEW kind \in {"event", "command"}, NEW n \in Nat
  PROVE  /\ Messages(c, kind, n) \in Seq(Message)
         /\ DOMAIN Messages(c, kind, n) = 1..n
         /\ \A i \in 1..n : Messages(c, kind, n)[i] = <<c, kind, i>>
<1>1. \A i \in 1..n : <<c, kind, i>> \in Message
  BY DEF Message
<1> QED BY <1>1 DEF Messages

\* Handle
LEMMA HandleStep ==
  ASSUME TypeInv, NEW t \in Threads, Handle(t), NEW c, c = top[t],
         NEW m, m = calls[c].machine
  PROVE  /\ c \in DOMAIN calls /\ m \in DOMAIN machines /\ calls[c].place = "handle"
         /\ ~machines[m].disposed
         /\ UNCHANGED <<rows, assigned, top, handled, emitted>>
         /\ \E completes \in BOOLEAN, e \in Nat, n \in Nat :
              /\ MachineChanged(m, Extended(machines[m].data, c), machines[m].completed \/ completes,
                                machines[m].events \o Messages(c, "event", e),
                                machines[m].commands \o Messages(c, "command", n),
                                machines[m].disposed)
              /\ queued' = queued \cup Elements(Messages(c, "event", e))
                                  \cup Elements(Messages(c, "command", n))
         /\ CallChanged(c, "save", calls[c].found, calls[c].out, calls[c].next)
<1>1. top[t] # 0 /\ call(t).place = "handle" /\ ~machine(t).disposed
  BY DEF Handle, At
<1>2. /\ c \in DOMAIN calls /\ m \in DOMAIN machines /\ c \in Calls
      /\ call(t) = calls[c] /\ machine(t) = machines[m]
  BY <1>1, Innermost
<1>3. calls \in Seq(CallT) /\ machines \in Seq(MachineT) /\ "save" \in Places
  BY DEF TypeInv, Typed, Places
<1>4. UNCHANGED <<rows, assigned, top, handled, emitted>>
  BY DEF Handle
<1>5. CallChanged(c, "save", calls[c].found, calls[c].out, calls[c].next)
  <2>1. calls' = [calls EXCEPT ![c].place = "save"]
    BY DEF Handle, GoTo
  <2> QED BY <2>1, <1>2, <1>3, GoToChanges
<1>6. PICK q \in Queues, completes \in BOOLEAN :
        /\ machines' = [machines EXCEPT ![m] =
                          Handling(@, c, completes, Messages(c, "event", q[1]),
                                   Messages(c, "command", q[2]))]
        /\ queued' = queued \cup Elements(Messages(c, "event", q[1]))
                            \cup Elements(Messages(c, "command", q[2]))
  BY <1>2 DEF Handle
<1>7. q[1] \in Nat /\ q[2] \in Nat
  BY ProcessAssumption
<1>8. Messages(c, "event", q[1]) \in Seq(Message) /\ Messages(c, "command", q[2]) \in Seq(Message)
  BY <1>2, <1>7, MessagesFields
<1>9. MachineChanged(m, Extended(machines[m].data, c), machines[m].completed \/ completes,
                     machines[m].events \o Messages(c, "event", q[1]),
                     machines[m].commands \o Messages(c, "command", q[2]),
                     machines[m].disposed)
  BY <1>2, <1>3, <1>6, <1>8, HandledChanges
<1> QED BY <1>1, <1>2, <1>4, <1>5, <1>6, <1>7, <1>9

\* Save
LEMMA SaveStep ==
  ASSUME TypeInv, NEW t \in Threads, Save(t), NEW c, c = top[t],
         NEW m, m = calls[c].machine
  PROVE  /\ c \in DOMAIN calls /\ m \in DOMAIN machines /\ calls[c].place = "save"
         /\ ~machines[m].disposed
         /\ UNCHANGED <<top, queued, emitted>>
         /\ handled' = handled \cup {c}
         /\ CallChanged(c, "saved", calls[c].found, calls[c].out, calls[c].next)
         /\ \/ /\ machines[m].completed
               /\ rows' = Without(machines[m].data.id)
               /\ UNCHANGED <<assigned, machines>>
            \/ \E data \in Data :
                 /\ ~machines[m].completed /\ ~calls[c].found
                 /\ data.id = assigned + 1
                 /\ data.key = IF calls[c].key = NoKey THEN machines[m].data.key ELSE calls[c].key
                 /\ data.handled = machines[m].data.handled
                 /\ assigned' = assigned + 1
                 /\ MachineChanged(m, data, machines[m].completed, machines[m].events,
                                   machines[m].commands, machines[m].disposed)
                 /\ rows' = rows \cup {data}
            \/ /\ ~machines[m].completed /\ calls[c].found
               /\ rows' = Without(machines[m].data.id) \cup {machines[m].data}
               /\ UNCHANGED <<assigned, machines>>
<1>1. top[t] # 0 /\ call(t).place = "save" /\ ~machine(t).disposed
  BY DEF Save, At
<1>2. /\ c \in DOMAIN calls /\ m \in DOMAIN machines /\ c \in Calls
      /\ call(t) = calls[c] /\ machine(t) = machines[m]
  BY <1>1, Innermost
<1>3. calls \in Seq(CallT) /\ machines \in Seq(MachineT) /\ "saved" \in Places /\ assigned \in Nat
  BY DEF TypeInv, Typed, Places
<1>4. UNCHANGED <<top, queued, emitted>> /\ handled' = handled \cup {c}
  BY DEF Save
<1>5. CallChanged(c, "saved", calls[c].found, calls[c].out, calls[c].next)
  <2>1. calls' = [calls EXCEPT ![c].place = "saved"]
    BY DEF Save, GoTo
  <2> QED BY <2>1, <1>2, <1>3, GoToChanges
<1>6. ASSUME Insert(t)
      PROVE  \E data \in Data :
                 /\ ~machines[m].completed /\ ~calls[c].found
                 /\ data.id = assigned + 1
                 /\ data.key = IF calls[c].key = NoKey THEN machines[m].data.key ELSE calls[c].key
                 /\ data.handled = machines[m].data.handled
                 /\ assigned' = assigned + 1
                 /\ MachineChanged(m, data, machines[m].completed, machines[m].events,
                                   machines[m].commands, machines[m].disposed)
                 /\ rows' = rows \cup {data}
  <2>1. PICK key : key = IF calls[c].key = NoKey THEN machines[m].data.key ELSE calls[c].key
    OBVIOUS
  <2>2. PICK old : old = machines[m].data
    OBVIOUS
  <2>3. PICK data : data = [old EXCEPT !.id = assigned + 1, !.key = key]
    OBVIOUS
  <2>4. old \in Data
    BY <2>2, <1>2, <1>3, MachineFields
  <2>5. key \in Keys \cup {NoKey}
    BY <2>1, <2>2, <2>4, <1>2, <1>3, CallFields, DataFields
  <2>6. data \in Data /\ data.id = assigned + 1 /\ data.key = key /\ data.handled = old.handled
    <3>1. PICK id \in Nat : id = assigned + 1
      BY <1>3
    <3>2. data = [old EXCEPT !.id = id, !.key = key]
      BY <2>3, <3>1
    <3>3. data \in Data /\ data.id = id /\ data.key = key /\ data.handled = old.handled
      BY <2>4, <2>5, <3>2 DEF Data
    <3> QED BY <3>1, <3>3
  <2>7. /\ ~machines[m].completed /\ ~calls[c].found /\ assigned' = assigned + 1
        /\ machines' = [machines EXCEPT ![m].data = data] /\ rows' = rows \cup {data}
    BY <1>2, <1>6, <2>1, <2>2, <2>3 DEF Insert
  <2>8. MachineChanged(m, data, machines[m].completed, machines[m].events,
                       machines[m].commands, machines[m].disposed)
    BY <1>2, <1>3, <2>6, <2>7, DataChanges
  <2> QED BY <2>1, <2>2, <2>6, <2>7, <2>8
<1>7. Delete(t) => machines[m].completed /\ rows' = Without(machines[m].data.id)
                    /\ UNCHANGED <<assigned, machines>>
  BY <1>2 DEF Delete
<1>8. Update(t) => /\ ~machines[m].completed /\ calls[c].found
                   /\ rows' = Without(machines[m].data.id) \cup {machines[m].data}
                   /\ UNCHANGED <<assigned, machines>>
  BY <1>2 DEF Update
<1>9. Delete(t) \/ Insert(t) \/ Update(t)
  BY DEF Save
<1> QED BY <1>1, <1>2, <1>4, <1>5, <1>6, <1>7, <1>8, <1>9

\* The steps that only look at the machine: copying a queue, and sending what was copied.
LEMMA QueueStep ==
  ASSUME TypeInv, NEW t \in Threads,
         \/ CopyEvents(t) \/ PublishEvent(t) \/ EventPublished(t)
         \/ CopyCommands(t) \/ SendCommand(t) \/ CommandSent(t),
         NEW c, c = top[t], NEW m, m = calls[c].machine
  PROVE  /\ c \in DOMAIN calls /\ m \in DOMAIN machines
         /\ UNCHANGED <<rows, assigned, machines, top, handled, queued>>
         /\ \/ /\ calls[c].place = "saved" /\ ~machines[m].disposed
               /\ CallChanged(c, "publish", calls[c].found, machines[m].events, 1)
               /\ UNCHANGED emitted
            \/ /\ calls[c].place = "publish" /\ calls[c].next > Len(calls[c].out)
               /\ ~machines[m].disposed
               /\ CallChanged(c, "send", calls[c].found, machines[m].commands, 1)
               /\ UNCHANGED emitted
            \/ \E from \in {"publish", "send"} :
                 /\ calls[c].place = from /\ calls[c].next <= Len(calls[c].out)
                 /\ CallChanged(c, IF from = "publish" THEN "publishing" ELSE "sending",
                                calls[c].found, calls[c].out, calls[c].next)
                 /\ emitted' = Append(emitted, calls[c].out[calls[c].next])
            \/ \E from \in {"publishing", "sending"} :
                 /\ calls[c].place = from
                 /\ CallChanged(c, IF from = "publishing" THEN "publish" ELSE "send",
                                calls[c].found, calls[c].out, calls[c].next + 1)
                 /\ UNCHANGED emitted
<1>1. top[t] # 0
  BY DEF CopyEvents, PublishEvent, EventPublished, CopyCommands, SendCommand, CommandSent, At
<1>2. /\ c \in DOMAIN calls /\ m \in DOMAIN machines
      /\ call(t) = calls[c] /\ machine(t) = machines[m]
  BY <1>1, Innermost
<1>3. /\ calls \in Seq(CallT) /\ machines \in Seq(MachineT)
      /\ machines[m].events \in Seq(Message) /\ machines[m].commands \in Seq(Message)
  <2>1. calls \in Seq(CallT) /\ machines \in Seq(MachineT)
    BY DEF TypeInv, Typed
  <2> QED BY <1>2, <2>1, MachineFields
<1>4. {"publish", "publishing", "send", "sending"} \subseteq Places
  BY DEF Places
<1>5. CASE CopyEvents(t)
  <2>1. /\ calls[c].place = "saved" /\ ~machines[m].disposed
        /\ calls' = [calls EXCEPT ![c].place = "publish", ![c].out = machines[m].events, ![c].next = 1]
        /\ UNCHANGED <<rows, assigned, machines, top, handled, queued, emitted>>
    BY <1>2, <1>5 DEF CopyEvents, Copy, At
  <2>2. PICK queue \in Seq(Message) : queue = machines[m].events
    BY <1>3, Zenon
  <2>3. calls' = [calls EXCEPT ![c].place = "publish", ![c].out = queue, ![c].next = 1]
    BY <2>1, <2>2
  <2>4. CallChanged(c, "publish", calls[c].found, queue, 1)
    BY <2>3, <1>2, <1>3, <1>4, CopyChanges
  <2> QED BY <1>2, <2>1, <2>2, <2>4
<1>6. CASE CopyCommands(t)
  <2>1. /\ calls[c].place = "publish" /\ ~machines[m].disposed
        /\ calls[c].next > Len(calls[c].out)
        /\ calls' = [calls EXCEPT ![c].place = "send", ![c].out = machines[m].commands, ![c].next = 1]
        /\ UNCHANGED <<rows, assigned, machines, top, handled, queued, emitted>>
    BY <1>2, <1>6 DEF CopyCommands, Copy, At, AllOut
  <2>2. PICK queue \in Seq(Message) : queue = machines[m].commands
    BY <1>3, Zenon
  <2>3. calls' = [calls EXCEPT ![c].place = "send", ![c].out = queue, ![c].next = 1]
    BY <2>1, <2>2
  <2>4. CallChanged(c, "send", calls[c].found, queue, 1)
    BY <2>3, <1>2, <1>3, <1>4, CopyChanges
  <2> QED BY <1>2, <2>1, <2>2, <2>4
<1>7. CASE PublishEvent(t) \/ SendCommand(t)
  <2>1. PICK from \in {"publish", "send"} :
          /\ calls[c].place = from /\ calls[c].next <= Len(calls[c].out)
          /\ calls' = [calls EXCEPT ![c].place = IF from = "publish" THEN "publishing" ELSE "sending"]
          /\ emitted' = Append(emitted, calls[c].out[calls[c].next])
          /\ UNCHANGED <<rows, assigned, machines, top, handled, queued>>
    BY <1>2, <1>7 DEF PublishEvent, SendCommand, Emit, At, GoTo
  <2>2. PICK place \in Places : place = IF from = "publish" THEN "publishing" ELSE "sending"
    BY <1>4
  <2>3. calls' = [calls EXCEPT ![c].place = place]
    BY <2>1, <2>2
  <2>4. CallChanged(c, place, calls[c].found, calls[c].out, calls[c].next)
    BY <2>3, <1>2, <1>3, GoToChanges
  <2> QED BY <1>2, <2>1, <2>2, <2>4
<1>8. CASE EventPublished(t) \/ CommandSent(t)
  <2>1. PICK from \in {"publishing", "sending"} :
          /\ calls[c].place = from
          /\ calls' = [calls EXCEPT ![c].place = IF from = "publishing" THEN "publish" ELSE "send",
                                    ![c].next = @ + 1]
          /\ UNCHANGED <<rows, assigned, machines, top, handled, queued, emitted>>
    BY <1>2, <1>8 DEF EventPublished, CommandSent, Emitted, At
  <2>2. PICK place \in Places : place = IF from = "publishing" THEN "publish" ELSE "send"
    BY <1>4
  <2>3. calls' = [calls EXCEPT ![c].place = place, ![c].next = @ + 1]
    BY <2>1, <2>2
  <2>4. CallChanged(c, place, calls[c].found, calls[c].out, calls[c].next + 1)
    BY <2>3, <1>2, <1>3, EmittedChanges
  <2> QED BY <1>2, <2>1, <2>2, <2>4
<1> QED BY <1>5, <1>6, <1>7, <1>8

\* Dispose
LEMMA DisposeStep ==
  ASSUME TypeInv, NEW t \in Threads, Dispose(t), NEW c, c = top[t],
         NEW m, m = calls[c].machine
  PROVE  /\ c \in DOMAIN calls /\ m \in DOMAIN machines /\ calls[c].place = "send"
         /\ calls[c].next > Len(calls[c].out)
         /\ CallChanged(c, "done", FALSE, <<>>, 1)
         /\ MachineChanged(m, NewMachine.data, machines[m].completed, <<>>, <<>>, TRUE)
         /\ top' = [top EXCEPT ![t] = calls[c].parent]
         /\ UNCHANGED <<rows, assigned, handled, queued, emitted>>
<1>1. top[t] # 0 /\ call(t).place = "send" /\ call(t).next > Len(call(t).out)
  BY DEF Dispose, At, AllOut
<1>2. /\ c \in DOMAIN calls /\ m \in DOMAIN machines
      /\ call(t) = calls[c] /\ machine(t) = machines[m]
  BY <1>1, Innermost
<1>3. calls \in Seq(CallT) /\ machines \in Seq(MachineT) /\ "done" \in Places
  BY DEF TypeInv, Typed, Places
<1>4. /\ calls' = [calls EXCEPT ![c] = Ended(@, "done")]
      /\ machines' = [machines EXCEPT ![m] = Disposed(@)]
      /\ top' = [top EXCEPT ![t] = calls[c].parent]
      /\ UNCHANGED <<rows, assigned, handled, queued, emitted>>
  BY <1>2 DEF Dispose
<1>5. CallChanged(c, "done", FALSE, <<>>, 1)
  BY <1>2, <1>3, <1>4, EndedChanges
<1>6. MachineChanged(m, NewMachine.data, machines[m].completed, <<>>, <<>>, TRUE)
  BY <1>2, <1>3, <1>4, DisposedChanges
<1> QED BY <1>1, <1>2, <1>4, <1>5, <1>6

\* Throw
LEMMA ThrowStep ==
  ASSUME TypeInv, NEW t \in Threads, Throw(t), NEW c, c = top[t]
  PROVE  /\ c \in DOMAIN calls
         /\ CallChanged(c, "threw", FALSE, <<>>, 1)
         /\ top' = [top EXCEPT ![t] = calls[c].parent]
         /\ UNCHANGED <<rows, assigned, machines, handled, queued, emitted>>
<1>1. c \in DOMAIN calls /\ call(t) = calls[c]
  BY Innermost DEF Throw
<1>2. calls \in Seq(CallT) /\ "threw" \in Places
  BY DEF TypeInv, Typed, Places
<1>3. /\ calls' = [calls EXCEPT ![c] = Ended(@, "threw")]
      /\ top' = [top EXCEPT ![t] = calls[c].parent]
      /\ UNCHANGED <<rows, assigned, machines, handled, queued, emitted>>
  BY <1>1 DEF Throw
<1>4. CallChanged(c, "threw", FALSE, <<>>, 1)
  BY <1>1, <1>2, <1>3, EndedChanges
<1> QED BY <1>1, <1>3, <1>4

\* What an exception leaves of the calls.
LEMMA ThrowChanges ==
  ASSUME TypeInv, NEW t \in Threads, Throw(t)
  PROVE  /\ calls' \in Seq(CallT) /\ Len(calls') = Len(calls) /\ DOMAIN calls' = DOMAIN calls
         /\ \A d \in DOMAIN calls :
              /\ calls'[d].parent = calls[d].parent /\ calls'[d].key = calls[d].key
              /\ calls'[d].machine = calls[d].machine
              /\ calls'[d].found => calls[d].found
              /\ calls'[d] = calls[d] \/ calls'[d].place = "threw"
<1>1. PICK c : c = top[t]
  OBVIOUS
<1>2. CallChanged(c, "threw", FALSE, <<>>, 1)
  BY <1>1, ThrowStep
<1> QED BY <1>2 DEF CallChanged

-----------------------------------------------------------------------------
(* Type correctness.                                                       *)

\* The first state.
LEMMA TypeInit ==
  ASSUME Init
  PROVE  TypeInv
<1>1. Len(<<>>) = 0 /\ DOMAIN <<>> = {} /\ MaxCalls \in Nat
  BY ProcessAssumption
<1>2. Typed
  <2>1. machines \in Seq(MachineT) /\ calls \in Seq(CallT) /\ emitted \in Seq(Message)
    BY DEF Init
  <2> QED BY <2>1, <1>1 DEF Init, Typed
<1>3. References
  BY <1>1 DEF Init, References
<1>4. Numbered
  BY <1>1 DEF Init, Numbered
<1> QED BY <1>2, <1>3, <1>4 DEF TypeInv

\* References are kept by a step that changes the innermost call, at most its own machine,
\* and leaves the thread where it is or returns to the parent.
LEMMA ReferencesKept ==
  ASSUME TypeInv, NEW t \in Threads, NEW c \in DOMAIN calls,
         NEW place, NEW found, NEW out, NEW next,
         CallChanged(c, place, found, out, next),
         DOMAIN machines' = DOMAIN machines,
         handled' \subseteq handled \cup {c},
         top' = top \/ top' = [top EXCEPT ![t] = calls[c].parent]
  PROVE  References' /\ top' \in [Threads -> Nat] /\ handled' \subseteq Nat
<1>1. /\ \A d \in DOMAIN calls : /\ calls[d].machine \in DOMAIN machines
                                 /\ calls[d].parent \in {0} \cup DOMAIN calls
                                 /\ d \in Nat
      /\ \A u \in Threads : top[u] \in {0} \cup DOMAIN calls
      /\ handled \subseteq DOMAIN calls /\ top \in [Threads -> Nat]
  BY DEF TypeInv, References, Typed
<1>2. DOMAIN calls' = DOMAIN calls
  BY DEF CallChanged
<1>3. \A d \in DOMAIN calls : /\ calls'[d].machine = calls[d].machine
                              /\ calls'[d].parent = calls[d].parent
  BY DEF CallChanged
<1>4. \A u \in Threads : top'[u] \in {0} \cup DOMAIN calls
  BY <1>1
<1>5. top' \in [Threads -> Nat]
  BY <1>1
<1>6. handled' \subseteq DOMAIN calls /\ handled' \subseteq Nat
  BY <1>1
<1> QED BY <1>1, <1>2, <1>3, <1>4, <1>5, <1>6 DEF References

\* A step that leaves the data alone.
LEMMA TypeMove ==
  ASSUME TypeInv, NEW t \in Threads, NEW c \in DOMAIN calls,
         NEW place, NEW found, NEW out, NEW next,
         CallChanged(c, place, found, out, next), found => calls[c].found,
         UNCHANGED <<rows, assigned, machines, top, handled, queued>>,
         emitted' \in Seq(Message)
  PROVE  TypeInv'
<1>1. References' /\ top' \in [Threads -> Nat] /\ handled' \subseteq Nat
  BY ReferencesKept
<1>2. Typed'
  BY <1>1 DEF TypeInv, Typed, CallChanged
<1>3. Numbered'
  <2>1. \A d \in DOMAIN calls : calls'[d].machine = calls[d].machine /\ (calls'[d].found => calls[d].found)
    BY DEF CallChanged
  <2>2. DOMAIN calls' = DOMAIN calls
    BY DEF CallChanged
  <2> QED BY <2>1, <2>2 DEF TypeInv, Numbered
<1> QED BY <1>1, <1>2, <1>3 DEF TypeInv

\* A step that changes the machine of the call.
LEMMA TypeChange ==
  ASSUME TypeInv, NEW t \in Threads, NEW c \in DOMAIN calls, NEW m \in DOMAIN machines,
         m = calls[c].machine,
         NEW place, NEW found, NEW out, NEW next,
         CallChanged(c, place, found, out, next),
         NEW data, NEW completed, NEW events, NEW commands, NEW disposed,
         MachineChanged(m, data, completed, events, commands, disposed),
         data.id \in Nat, data.id <= assigned',
         assigned' \in Nat, assigned <= assigned',
         \/ disposed = TRUE
         \/ data.id # 0
         \/ machines[m].data.id = 0 /\ ~machines[m].disposed /\ found = FALSE,
         rows' \in SUBSET Data,
         \A r \in rows' : r.id \in 1..assigned',
         \A r, s \in rows' : r.id = s.id => r = s,
         top' = top \/ top' = [top EXCEPT ![t] = calls[c].parent],
         handled' \subseteq handled \cup {c},
         queued' \in SUBSET Message, emitted' = emitted
  PROVE  TypeInv'
<1>1. References' /\ top' \in [Threads -> Nat] /\ handled' \subseteq Nat
  BY ReferencesKept DEF MachineChanged
<1>2. Typed'
  BY <1>1 DEF TypeInv, Typed, CallChanged, MachineChanged
<1>3. Numbered'
  <2>1. \A n \in DOMAIN machines' : machines'[n].data.id <= assigned'
    <3>1. \A n \in DOMAIN machines : machines[n].data.id <= assigned /\ machines[n].data.id \in Nat
      BY MachineFields, DataFields DEF TypeInv, Typed, Numbered
    <3>2. assigned \in Nat
      BY DEF TypeInv, Typed
    <3>3. DOMAIN machines' = DOMAIN machines /\ machines'[m].data = data
          /\ \A n \in DOMAIN machines : n # m => machines'[n] = machines[n]
      BY DEF MachineChanged
    <3>4. ASSUME NEW n \in DOMAIN machines
          PROVE  machines'[n].data.id <= assigned'
      <4>1. CASE n = m
        BY <4>1, <3>3
      <4>2. CASE n # m
        BY <4>2, <3>1, <3>2, <3>3
      <4> QED BY <4>1, <4>2
    <3> QED BY <3>3, <3>4
  <2>2. ASSUME NEW d \in DOMAIN calls', calls'[d].found
        PROVE  machines'[calls'[d].machine].disposed \/ machines'[calls'[d].machine].data.id # 0
    <3>1. d \in DOMAIN calls /\ calls'[d].machine = calls[d].machine /\ calls[d].machine \in DOMAIN machines
      BY <2>2 DEF CallChanged, TypeInv, References
    <3>2. machines'[m].disposed = disposed /\ machines'[m].data = data
      BY DEF MachineChanged
    <3>3. CASE calls[d].machine # m
      <4>1. machines'[calls[d].machine] = machines[calls[d].machine]
        BY <3>1, <3>3 DEF MachineChanged
      <4>2. calls[d].found
        BY <2>2, <3>1, <3>3 DEF CallChanged
      <4> QED BY <3>1, <4>1, <4>2 DEF TypeInv, Numbered
    <3>4. CASE calls[d].machine = m /\ (disposed = TRUE \/ data.id # 0)
      BY <3>1, <3>2, <3>4
    <3>5. CASE calls[d].machine = m /\ machines[m].data.id = 0 /\ ~machines[m].disposed /\ found = FALSE
      <4>1. d # c
        BY <2>2, <3>5 DEF CallChanged
      <4>2. calls[d].found
        BY <2>2, <3>1, <4>1 DEF CallChanged
      <4> QED BY <3>1, <3>5, <4>2 DEF TypeInv, Numbered
    <3> QED BY <3>3, <3>4, <3>5
  <2> QED BY <2>1, <2>2 DEF Numbered
<1> QED BY <1>1, <1>2, <1>3 DEF TypeInv

\* Retrieve
LEMMA TypeRetrieve ==
  ASSUME TypeInv, NEW t \in Threads, Retrieve(t)
  PROVE  TypeInv'
<1>1. PICK c : c = top[t]
  OBVIOUS
<1>2. PICK m : m = calls[c].machine
  OBVIOUS
<1>3. /\ c \in DOMAIN calls /\ m \in DOMAIN machines
      /\ UNCHANGED <<rows, assigned, top, handled, queued, emitted>>
  BY <1>1, <1>2, RetrieveStep
<1>4. rows \subseteq Data /\ assigned \in Nat /\ queued \in SUBSET Message /\ emitted \in Seq(Message)
  BY DEF TypeInv, Typed
<1>5. CASE /\ machines' = machines
           /\ CallChanged(c, "handle", calls[c].found, calls[c].out, calls[c].next)
  BY <1>3, <1>4, <1>5, TypeMove
<1>6. CASE \E r \in rows :
             /\ MachineChanged(m, r, machines[m].completed, machines[m].events,
                               machines[m].commands, machines[m].disposed)
             /\ CallChanged(c, "handle", TRUE, calls[c].out, calls[c].next)
  <2>1. PICK r \in rows :
             /\ MachineChanged(m, r, machines[m].completed, machines[m].events,
                               machines[m].commands, machines[m].disposed)
             /\ CallChanged(c, "handle", TRUE, calls[c].out, calls[c].next)
    BY <1>6
  <2>2. r.id \in 1..assigned
    BY DEF TypeInv, Numbered
  <2>3. r.id \in Nat /\ r.id <= assigned' /\ r.id # 0 /\ assigned' \in Nat /\ assigned <= assigned'
    BY <1>3, <1>4, <2>2
  <2>4. /\ rows' \in SUBSET Data
        /\ \A s \in rows' : s.id \in 1..assigned'
        /\ \A s, u \in rows' : s.id = u.id => s = u
    BY <1>3, <1>4 DEF TypeInv, Numbered
  <2>5. PICK out, next, completed, events, commands, disposed :
         /\ out = calls[c].out /\ next = calls[c].next
         /\ completed = machines[m].completed /\ disposed = machines[m].disposed
         /\ events = machines[m].events /\ commands = machines[m].commands
    OBVIOUS
  <2>6. CallChanged(c, "handle", TRUE, out, next)
    BY <2>1, <2>5
  <2>7. MachineChanged(m, r, completed, events, commands, disposed)
    BY <2>1, <2>5
  <2> QED BY <1>2, <1>3, <1>4, <2>3, <2>4, <2>6, <2>7, TypeChange
<1> QED BY <1>1, <1>2, <1>5, <1>6, RetrieveStep

\* Handle
LEMMA TypeHandle ==
  ASSUME TypeInv, NEW t \in Threads, Handle(t)
  PROVE  TypeInv'
<1>1. PICK c : c = top[t]
  OBVIOUS
<1>2. PICK m : m = calls[c].machine
  OBVIOUS
<1>3. /\ c \in DOMAIN calls /\ m \in DOMAIN machines /\ ~machines[m].disposed
      /\ UNCHANGED <<rows, assigned, top, handled, emitted>>
      /\ CallChanged(c, "save", calls[c].found, calls[c].out, calls[c].next)
  BY <1>1, <1>2, HandleStep
<1>4. PICK completes \in BOOLEAN, e \in Nat, n \in Nat :
              /\ MachineChanged(m, Extended(machines[m].data, c), machines[m].completed \/ completes,
                                machines[m].events \o Messages(c, "event", e),
                                machines[m].commands \o Messages(c, "command", n),
                                machines[m].disposed)
              /\ queued' = queued \cup Elements(Messages(c, "event", e))
                                  \cup Elements(Messages(c, "command", n))
  BY <1>1, <1>2, HandleStep
<1>5. c \in Calls
  BY <1>3, ProcessAssumption DEF TypeInv, Typed, Calls
<1>6. /\ machines[m].data \in Data /\ assigned \in Nat /\ machines[m].data.id <= assigned
      /\ rows \subseteq Data /\ queued \in SUBSET Message
      /\ (calls[c].found => machines[m].data.id # 0)
  BY <1>2, <1>3, MachineFields DEF TypeInv, Typed, Numbered
<1>7. PICK data : data = Extended(machines[m].data, c)
  OBVIOUS
<1>8. data.id = machines[m].data.id /\ data.id \in Nat /\ data.id <= assigned
  BY <1>5, <1>6, <1>7, ExtendedFields, DataFields
<1>9. queued' \in SUBSET Message
  <2>1. \A x \in Elements(Messages(c, "event", e)) : x \in Message
    BY <1>5, MessagesFields DEF Elements
  <2>2. \A x \in Elements(Messages(c, "command", n)) : x \in Message
    BY <1>5, MessagesFields DEF Elements
  <2> QED BY <1>4, <1>6, <2>1, <2>2
<1>10. /\ rows' \in SUBSET Data
       /\ \A r \in rows' : r.id \in 1..assigned'
       /\ \A r, s \in rows' : r.id = s.id => r = s
  BY <1>3, <1>6 DEF TypeInv, Numbered
<1>11. /\ data.id <= assigned' /\ assigned' \in Nat /\ assigned <= assigned'
       /\ top' = top /\ handled' \subseteq handled \cup {c} /\ emitted' = emitted
  BY <1>3, <1>6, <1>8
<1>12. PICK found, out, next, completed, events, commands, disposed :
         /\ found = calls[c].found /\ out = calls[c].out /\ next = calls[c].next
         /\ completed = (machines[m].completed \/ completes) /\ disposed = machines[m].disposed
         /\ events = machines[m].events \o Messages(c, "event", e)
         /\ commands = machines[m].commands \o Messages(c, "command", n)
  OBVIOUS
<1>13. MachineChanged(m, data, completed, events, commands, disposed)
  BY <1>4, <1>7, <1>12
<1>14. CallChanged(c, "save", found, out, next)
  BY <1>3, <1>12
<1>15. data.id # 0 \/ (machines[m].data.id = 0 /\ ~machines[m].disposed /\ found = FALSE)
  <2>1. calls[c].found \in BOOLEAN
    BY <1>3, CallFields DEF TypeInv, Typed
  <2> QED BY <2>1, <1>3, <1>6, <1>8, <1>12
<1> QED BY <1>2, <1>3, <1>8, <1>9, <1>10, <1>11, <1>13, <1>14, <1>15, TypeChange

\* Save
LEMMA TypeSave ==
  ASSUME TypeInv, NEW t \in Threads, Save(t)
  PROVE  TypeInv'
<1>1. PICK c : c = top[t]
  OBVIOUS
<1>2. PICK m : m = calls[c].machine
  OBVIOUS
<1>3. /\ c \in DOMAIN calls /\ m \in DOMAIN machines /\ ~machines[m].disposed
      /\ UNCHANGED <<top, queued, emitted>> /\ handled' = handled \cup {c}
      /\ CallChanged(c, "saved", calls[c].found, calls[c].out, calls[c].next)
  BY <1>1, <1>2, SaveStep
<1>4. /\ machines[m].data \in Data /\ assigned \in Nat /\ machines[m].data.id <= assigned
      /\ rows \subseteq Data /\ queued \in SUBSET Message
      /\ machines[m].data.id \in Nat
      /\ (calls[c].found => machines[m].data.id # 0)
  BY <1>2, <1>3, MachineFields, DataFields DEF TypeInv, Typed, Numbered
<1>5. /\ \A r \in rows : r.id \in 1..assigned
      /\ \A r, s \in rows : r.id = s.id => r = s
  BY DEF TypeInv, Numbered
<1>6. /\ queued' \in SUBSET Message /\ emitted' = emitted /\ top' = top
      /\ handled' \subseteq handled \cup {c}
  BY <1>3, <1>4
<1>7. ASSUME UNCHANGED <<assigned, machines>>, rows' \in SUBSET Data,
             \A r \in rows' : r.id \in 1..assigned,
             \A r, s \in rows' : r.id = s.id => r = s
      PROVE  TypeInv'
  <2>1. MachineChanged(m, machines[m].data, machines[m].completed, machines[m].events,
                       machines[m].commands, machines[m].disposed)
    BY <1>7 DEF MachineChanged, TypeInv, Typed
  <2>2. \/ machines[m].data.id # 0
        \/ machines[m].data.id = 0 /\ ~machines[m].disposed /\ calls[c].found = FALSE
    <3>1. calls[c].found \in BOOLEAN
      BY <1>3, CallFields DEF TypeInv, Typed
    <3> QED BY <3>1, <1>3, <1>4
  <2>3. machines[m].data.id <= assigned' /\ assigned' \in Nat /\ assigned <= assigned'
    BY <1>4, <1>7
  <2>4. \A r \in rows' : r.id \in 1..assigned'
    BY <1>7
  <2>5. PICK data : data = machines[m].data
    OBVIOUS
  <2>6. PICK found, out, next, completed, events, commands, disposed :
         /\ found = calls[c].found /\ out = calls[c].out /\ next = calls[c].next
         /\ completed = machines[m].completed /\ disposed = machines[m].disposed
         /\ events = machines[m].events /\ commands = machines[m].commands
    OBVIOUS
  <2>7. CallChanged(c, "saved", found, out, next)
    BY <1>3, <2>6
  <2>8. MachineChanged(m, data, completed, events, commands, disposed)
    BY <2>1, <2>5, <2>6
  <2>9. data.id \in Nat /\ data.id <= assigned'
    BY <1>4, <2>3, <2>5
  <2>10. data.id # 0 \/ (machines[m].data.id = 0 /\ ~machines[m].disposed /\ found = FALSE)
    BY <2>2, <2>5, <2>6
  <2> QED BY <1>2, <1>3, <1>6, <1>7, <2>3, <2>4, <2>7, <2>8, <2>9, <2>10, TypeChange
<1>8. CASE rows' = Without(machines[m].data.id) /\ UNCHANGED <<assigned, machines>>
  <2>1. rows' \subseteq rows
    BY <1>8 DEF Without
  <2> QED BY <1>4, <1>5, <1>7, <1>8, <2>1
<1>9. CASE /\ calls[c].found /\ UNCHANGED <<assigned, machines>>
           /\ rows' = Without(machines[m].data.id) \cup {machines[m].data}
  <2>1. \A r \in rows' : r = machines[m].data \/ (r \in rows /\ r.id # machines[m].data.id)
    BY <1>9 DEF Without
  <2>2. machines[m].data.id \in 1..assigned
    BY <1>4, <1>9
  <2>3. rows' \in SUBSET Data
    BY <1>4, <2>1
  <2>4. \A r \in rows' : r.id \in 1..assigned
    BY <1>5, <2>1, <2>2
  <2>5. \A r, s \in rows' : r.id = s.id => r = s
    BY <1>5, <2>1
  <2> QED BY <1>7, <1>9, <2>3, <2>4, <2>5
<1>10. CASE \E data \in Data :
                 /\ data.id = assigned + 1 /\ assigned' = assigned + 1
                 /\ MachineChanged(m, data, machines[m].completed, machines[m].events,
                                   machines[m].commands, machines[m].disposed)
                 /\ rows' = rows \cup {data}
  <2>1. PICK data \in Data :
                 /\ data.id = assigned + 1 /\ assigned' = assigned + 1
                 /\ MachineChanged(m, data, machines[m].completed, machines[m].events,
                                   machines[m].commands, machines[m].disposed)
                 /\ rows' = rows \cup {data}
    BY <1>10
  <2>2. /\ data.id \in Nat /\ data.id <= assigned' /\ assigned' \in Nat /\ assigned <= assigned'
        /\ data.id # 0
    BY <1>4, <2>1
  <2>3. rows' \in SUBSET Data
    BY <1>4, <2>1
  <2>4. \A r \in rows' : r.id \in 1..assigned'
    BY <1>4, <1>5, <2>1
  <2>5. \A r, s \in rows' : r.id = s.id => r = s
    BY <1>4, <1>5, <2>1
  <2>6. PICK found, out, next, completed, events, commands, disposed :
         /\ found = calls[c].found /\ out = calls[c].out /\ next = calls[c].next
         /\ completed = machines[m].completed /\ disposed = machines[m].disposed
         /\ events = machines[m].events /\ commands = machines[m].commands
    OBVIOUS
  <2>8. CallChanged(c, "saved", found, out, next)
    BY <1>3, <2>6
  <2>9. MachineChanged(m, data, completed, events, commands, disposed)
    BY <2>1, <2>6
  <2> QED BY <1>2, <1>3, <1>6, <2>1, <2>2, <2>3, <2>4, <2>5, <2>8, <2>9, TypeChange
<1>11. \/ rows' = Without(machines[m].data.id) /\ UNCHANGED <<assigned, machines>>
       \/ /\ calls[c].found /\ UNCHANGED <<assigned, machines>>
          /\ rows' = Without(machines[m].data.id) \cup {machines[m].data}
       \/ \E data \in Data :
                 /\ data.id = assigned + 1 /\ assigned' = assigned + 1
                 /\ MachineChanged(m, data, machines[m].completed, machines[m].events,
                                   machines[m].commands, machines[m].disposed)
                 /\ rows' = rows \cup {data}
  BY <1>1, <1>2, SaveStep
<1> QED BY <1>8, <1>9, <1>10, <1>11

\* Copying the queues and sending what was copied.
LEMMA TypeQueue ==
  ASSUME TypeInv, NEW t \in Threads,
         \/ CopyEvents(t) \/ PublishEvent(t) \/ EventPublished(t)
         \/ CopyCommands(t) \/ SendCommand(t) \/ CommandSent(t)
  PROVE  TypeInv'
<1>1. PICK c : c = top[t]
  OBVIOUS
<1>2. PICK m : m = calls[c].machine
  OBVIOUS
<1>3. c \in DOMAIN calls /\ UNCHANGED <<rows, assigned, machines, top, handled, queued>>
  BY <1>1, <1>2, QueueStep
<1>4. emitted \in Seq(Message) /\ calls \in Seq(CallT)
  BY DEF TypeInv, Typed
<1>5. PICK place, out, next : CallChanged(c, place, calls[c].found, out, next)
  BY <1>1, <1>2, QueueStep
<1>6. emitted' \in Seq(Message)
  <2>1. CASE UNCHANGED emitted
    BY <1>4, <2>1
  <2>2. CASE calls[c].next <= Len(calls[c].out) /\ emitted' = Append(emitted, calls[c].out[calls[c].next])
    <3>1. calls[c].out \in Seq(Message) /\ calls[c].next \in Nat \ {0}
      BY <1>3, <1>4, CallFields
    <3>2. calls[c].out[calls[c].next] \in Message
      BY <2>2, <3>1
    <3> QED BY <1>4, <2>2, <3>2
  <2> QED BY <1>1, <1>2, <2>1, <2>2, QueueStep
<1>7. PICK found : found = calls[c].found
  OBVIOUS
<1>8. CallChanged(c, place, found, out, next) /\ (found => calls[c].found)
  BY <1>5, <1>7
<1> QED BY <1>3, <1>6, <1>8, TypeMove

\* Dispose
LEMMA TypeDispose ==
  ASSUME TypeInv, NEW t \in Threads, Dispose(t)
  PROVE  TypeInv'
<1>1. PICK c : c = top[t]
  OBVIOUS
<1>2. PICK m : m = calls[c].machine
  OBVIOUS
<1>3. /\ c \in DOMAIN calls /\ m \in DOMAIN machines
      /\ CallChanged(c, "done", FALSE, <<>>, 1)
      /\ MachineChanged(m, NewMachine.data, machines[m].completed, <<>>, <<>>, TRUE)
      /\ top' = [top EXCEPT ![t] = calls[c].parent]
      /\ UNCHANGED <<rows, assigned, handled, queued, emitted>>
  BY <1>1, <1>2, DisposeStep
<1>4. PICK data, completed : data = NewMachine.data /\ completed = machines[m].completed
  OBVIOUS
<1>5. MachineChanged(m, data, completed, <<>>, <<>>, TRUE)
  BY <1>3, <1>4
<1>6. assigned \in Nat /\ rows \subseteq Data /\ queued \in SUBSET Message
  BY DEF TypeInv, Typed
<1>7. data.id \in Nat /\ data.id <= assigned' /\ assigned' \in Nat /\ assigned <= assigned'
  BY <1>3, <1>4, <1>6, NewData
<1>8. /\ rows' \in SUBSET Data
      /\ \A r \in rows' : r.id \in 1..assigned'
      /\ \A r, s \in rows' : r.id = s.id => r = s
  BY <1>3, <1>6 DEF TypeInv, Numbered
<1> QED BY <1>2, <1>3, <1>5, <1>6, <1>7, <1>8, TypeChange

\* Deliver
LEMMA TypeDeliver ==
  ASSUME TypeInv, NEW t \in Threads, NEW k \in Owned[t] \cup {NoKey}, Deliver(t, k)
  PROVE  TypeInv'
<1>1. Typed /\ calls \in Seq(CallT) /\ machines \in Seq(MachineT)
  BY DEF TypeInv, Typed
<1>2. /\ calls' \in Seq(CallT)
      /\ Len(calls') = Len(calls) + 1
      /\ Len(calls) + 1 \notin DOMAIN calls
      /\ DOMAIN calls' = DOMAIN calls \cup {Len(calls) + 1}
      /\ \A d \in DOMAIN calls : calls'[d] = calls[d]
      /\ calls'[Len(calls) + 1] =
           [by |-> t, parent |-> top[t], key |-> k, machine |-> Len(machines'),
            place |-> "retrieve", found |-> FALSE, out |-> <<>>, next |-> 1]
  BY <1>1, DeliverChanges
<1>3. /\ machines' \in Seq(MachineT)
      /\ Len(machines') \in DOMAIN machines'
      /\ \A m \in DOMAIN machines : m \in DOMAIN machines' /\ machines'[m] = machines[m]
      /\ \A m \in DOMAIN machines' : m \notin DOMAIN machines => machines'[m] = NewMachine
  BY <1>1, ResolveChanges DEF Deliver
<1>4. /\ calls'[Len(calls) + 1].parent = top[t]
      /\ calls'[Len(calls) + 1].machine = Len(machines')
      /\ ~calls'[Len(calls) + 1].found
  BY <1>2
<1>5. top' = [top EXCEPT ![t] = Len(calls) + 1] /\ Len(calls) < MaxCalls
      /\ UNCHANGED <<rows, assigned, handled, queued, emitted>>
  BY DEF Deliver
<1>6. /\ \A d \in DOMAIN calls : /\ calls[d].machine \in DOMAIN machines
                                 /\ calls[d].parent \in {0} \cup DOMAIN calls
      /\ \A u \in Threads : top[u] \in {0} \cup DOMAIN calls
      /\ handled \subseteq DOMAIN calls /\ top \in [Threads -> Nat]
  BY DEF TypeInv, References, Typed
<1>7. Len(calls) \in Nat /\ MaxCalls \in Nat
  BY <1>1, ProcessAssumption
<1>8. References'
  <2>1. \A d \in DOMAIN calls' : /\ calls'[d].machine \in DOMAIN machines'
                                 /\ calls'[d].parent \in {0} \cup DOMAIN calls'
    BY <1>2, <1>3, <1>4, <1>6
  <2>2. \A u \in Threads : top'[u] \in {0} \cup DOMAIN calls'
    BY <1>2, <1>5, <1>6
  <2>3. handled' \subseteq DOMAIN calls'
    BY <1>2, <1>5, <1>6
  <2> QED BY <2>1, <2>2, <2>3 DEF References
<1>9. Typed'
  <2>1. top' \in [Threads -> Nat]
    BY <1>5, <1>6, <1>7
  <2>2. Len(calls') <= MaxCalls
    BY <1>2, <1>5, <1>7
  <2> QED BY <1>1, <1>2, <1>3, <1>5, <2>1, <2>2 DEF Typed
<1>10. Numbered'
  <2>1. \A m \in DOMAIN machines : machines[m].data.id <= assigned
    BY DEF TypeInv, Numbered
  <2>2. NewMachine.data.id <= assigned
    BY NewData DEF TypeInv, Typed
  <2>3. \A m \in DOMAIN machines' : machines'[m].data.id <= assigned'
    BY <1>3, <1>5, <2>1, <2>2
  <2>4. ASSUME NEW d \in DOMAIN calls', calls'[d].found
        PROVE  machines'[calls'[d].machine].disposed \/ machines'[calls'[d].machine].data.id # 0
    <3>1. d \in DOMAIN calls /\ calls[d].found /\ calls'[d].machine = calls[d].machine
          /\ calls[d].machine \in DOMAIN machines
      BY <2>4, <1>2, <1>4, <1>6
    <3>2. machines[calls[d].machine].disposed \/ machines[calls[d].machine].data.id # 0
      BY <3>1 DEF TypeInv, Numbered
    <3> QED BY <3>1, <3>2, <1>3
  <2>5. /\ \A r \in rows' : r.id \in 1..assigned'
        /\ \A r, s \in rows' : r.id = s.id => r = s
    BY <1>5 DEF TypeInv, Numbered
  <2> QED BY <2>3, <2>4, <2>5 DEF Numbered
<1> QED BY <1>8, <1>9, <1>10 DEF TypeInv

\* Throw
LEMMA TypeThrow ==
  ASSUME TypeInv, NEW t \in Threads, Throw(t)
  PROVE  TypeInv'
<1>1. /\ calls' \in Seq(CallT) /\ Len(calls') = Len(calls) /\ DOMAIN calls' = DOMAIN calls
      /\ \A d \in DOMAIN calls :
           /\ calls'[d].parent = calls[d].parent /\ calls'[d].machine = calls[d].machine
           /\ calls'[d].found => calls[d].found
  BY ThrowChanges
<1>2. PICK c : c = top[t]
  OBVIOUS
<1>3. PICK p : p = calls[c].parent
  OBVIOUS
<1>4. /\ top' = [top EXCEPT ![t] = p] /\ p \in {0} \cup DOMAIN calls /\ p \in Nat
      /\ UNCHANGED <<rows, assigned, machines, handled, queued, emitted>>
  <2>1. c \in DOMAIN calls
    BY <1>2, ThrowStep
  <2>2. p \in {0} \cup DOMAIN calls
    BY <1>3, <2>1 DEF TypeInv, References
  <2>3. calls \in Seq(CallT)
    BY DEF TypeInv, Typed
  <2>4. p \in Nat
    BY <2>2, <2>3
  <2>5. /\ top' = [top EXCEPT ![t] = calls[c].parent]
        /\ UNCHANGED <<rows, assigned, machines, handled, queued, emitted>>
    BY <1>2, ThrowStep
  <2> QED BY <1>3, <2>2, <2>4, <2>5
<1>5. References'
  BY <1>1, <1>4 DEF TypeInv, References, Typed
<1>6. Typed'
  <2>1. top' \in [Threads -> Nat]
    BY <1>4 DEF TypeInv, Typed
  <2> QED BY <1>1, <1>4, <2>1 DEF TypeInv, Typed
<1>7. Numbered'
  BY <1>1, <1>4 DEF TypeInv, Numbered
<1> QED BY <1>5, <1>6, <1>7 DEF TypeInv

\* Every step keeps the types.
LEMMA TypeNext ==
  ASSUME TypeInv, [Next]_vars
  PROVE  TypeInv'
<1>1. CASE UNCHANGED vars
  BY <1>1 DEF vars, TypeInv, Typed, References, Numbered
<1>2. ASSUME NEW t \in Threads, NEW k \in Owned[t] \cup {NoKey}, Deliver(t, k)
      PROVE  TypeInv'
  BY <1>2, TypeDeliver
<1>3. ASSUME NEW t \in Threads, Execute(t)
      PROVE  TypeInv'
  BY <1>3, TypeRetrieve, TypeHandle, TypeSave, TypeQueue, TypeDispose DEF Execute
<1>4. ASSUME NEW t \in Threads, Throw(t)
      PROVE  TypeInv'
  BY <1>4, TypeThrow
<1> QED BY <1>1, <1>2, <1>3, <1>4 DEF Next

\* The types and the references make TypeOK.
LEMMA TypesImply ==
  ASSUME TypeInv
  PROVE  TypeOK
<1>1. calls \in Seq([by : Threads, parent : {0} \cup DOMAIN calls, key : Keys \cup {NoKey},
                     machine : DOMAIN machines, place : Places, found : BOOLEAN,
                     out : Seq(Message), next : Nat \ {0}])
  <2>1. PICK D : D = {0} \cup DOMAIN calls
    OBVIOUS
  <2>2. PICK E : E = DOMAIN machines
    OBVIOUS
  <2>3. ASSUME NEW c \in DOMAIN calls
        PROVE  calls[c] \in [by : Threads, parent : D, key : Keys \cup {NoKey},
                             machine : E, place : Places, found : BOOLEAN,
                             out : Seq(Message), next : Nat \ {0}]
    <3>1. calls[c] \in CallT
      BY CallFields DEF TypeInv, Typed
    <3>2. calls[c].machine \in E /\ calls[c].parent \in D
      BY <2>1, <2>2 DEF TypeInv, References
    <3> QED BY <3>1, <3>2 DEF CallT
  <2>4. calls \in Seq([by : Threads, parent : D, key : Keys \cup {NoKey},
                       machine : E, place : Places, found : BOOLEAN,
                       out : Seq(Message), next : Nat \ {0}])
    <3>1. PICK R : R = [by : Threads, parent : D, key : Keys \cup {NoKey},
                       machine : E, place : Places, found : BOOLEAN,
                       out : Seq(Message), next : Nat \ {0}]
      OBVIOUS
    <3>2. \A c \in DOMAIN calls : calls[c] \in R
      BY <2>3, <3>1
    <3>3. calls \in Seq(CallT)
      BY DEF TypeInv, Typed
    <3>4. calls \in Seq(R)
      BY <3>2, <3>3
    <3> QED BY <3>1, <3>4
  <2> QED BY <2>1, <2>2, <2>4
<1>2. machines \in Seq([data : Data, completed : BOOLEAN, events : Seq(Message),
                        commands : Seq(Message), disposed : BOOLEAN])
  BY DEF TypeInv, Typed, MachineT
<1>3. \A r, s \in rows : r.id \in 1..assigned /\ (r.id = s.id => r = s)
  BY DEF TypeInv, Numbered
<1>4. top \in [Threads -> {0} \cup DOMAIN calls]
  BY DEF TypeInv, Typed, References
<1>5. handled \in SUBSET DOMAIN calls
  BY DEF TypeInv, References
<1> QED BY <1>1, <1>2, <1>3, <1>4, <1>5 DEF TypeOK, TypeInv, Typed

\* The state of the executer is well typed and stored data has identifiers of its own,
\* with a machine for each event as with one for all events of a thread, whatever throws.
THEOREM TypeCorrect == Spec => []TypeOK
<1>1. Init => TypeInv
  BY TypeInit
<1>2. TypeInv /\ [Next]_vars => TypeInv'
  BY TypeNext
<1>3. TypeInv => TypeOK
  BY TypesImply
<1> QED BY <1>1, <1>2, <1>3, PTL DEF Spec

-----------------------------------------------------------------------------
(* Every message a machine queues goes out before Execute returns.         *)

\* Where message x is: in a queue of machine m, in the copy that its call has taken, or
\* among the messages sent.
Kept(x, place, out, m, sent) ==
  /\ place \notin {"retrieve", "handle"}
  /\ place \in {"save", "saved"} /\ x[2] = "event" => m.disposed \/ x \in Elements(m.events)
  /\ place \in {"save", "saved", "publish", "publishing"} /\ x[2] = "command"
       => m.disposed \/ x \in Elements(m.commands)
  /\ place \in {"publish", "publishing"} /\ x[2] = "event" => x \in Elements(out)
  /\ place \in {"send", "sending"} /\ x[2] = "command" => x \in Elements(out)
  /\ place \in {"send", "sending", "done"} /\ x[2] = "event" => x \in sent
  /\ place = "done" /\ x[2] = "command" => x \in sent

\* What comes before position next of the copy has been sent.
Gone(place, out, next, sent) ==
  \A i \in DOMAIN out :
    \/ place \in {"publish", "send"} /\ i < next
    \/ place \in {"publishing", "sending"} /\ i <= next
    => out[i] \in sent

AllKept ==
  \A x \in queued :
    /\ x[1] \in DOMAIN calls
    /\ Kept(x, calls[x[1]].place, calls[x[1]].out, machines[calls[x[1]].machine],
            Elements(emitted))

AllGone ==
  \A c \in DOMAIN calls :
    Gone(calls[c].place, calls[c].out, calls[c].next, Elements(emitted))

DeliveryInv == TypeInv /\ AllKept /\ AllGone

\* A machine that is not disposed has what it had in its queues.
Grown(m, n) ==
  \/ n.disposed
  \/ /\ ~m.disposed
     /\ Elements(m.events) \subseteq Elements(n.events)
     /\ Elements(m.commands) \subseteq Elements(n.commands)

\* What the messages of a call that does not change need of a step.
Undisturbed ==
  /\ DOMAIN machines \subseteq DOMAIN machines'
  /\ \A m \in DOMAIN machines : Grown(machines[m], machines'[m])
  /\ Elements(emitted) \subseteq Elements(emitted')

\* The messages of a call that does not change.
LEMMA KeptGrown ==
  ASSUME NEW x, NEW place, NEW out, NEW m, NEW n, NEW sent, NEW sent2,
         Kept(x, place, out, m, sent), Grown(m, n), sent \subseteq sent2
  PROVE  Kept(x, place, out, n, sent2)
BY Zenon DEF Kept, Grown

\* What has been sent of the copy of such a call.
LEMMA GoneGrown ==
  ASSUME NEW place, NEW out, NEW next, NEW sent, NEW sent2,
         Gone(place, out, next, sent), sent \subseteq sent2
  PROVE  Gone(place, out, next, sent2)
BY DEF Gone

\* A step of call c, for which its messages and its copy are looked at separately.
LEMMA DeliveryMove ==
  ASSUME DeliveryInv, TypeInv', NEW c \in DOMAIN calls,
         NEW place, NEW found, NEW out, NEW next,
         CallChanged(c, place, found, out, next), Undisturbed,
         \A x \in queued' : x \in queued \/ x[1] = c,
         \A x \in queued' : x[1] = c =>
           Kept(x, place, out, machines'[calls[c].machine], Elements(emitted')),
         Gone(place, out, next, Elements(emitted'))
  PROVE  DeliveryInv'
<1>1. /\ DOMAIN calls' = DOMAIN calls
      /\ \A d \in DOMAIN calls : d # c => calls'[d] = calls[d]
      /\ calls'[c].machine = calls[c].machine /\ calls'[c].place = place
      /\ calls'[c].out = out /\ calls'[c].next = next
  BY DEF CallChanged
<1>2. ASSUME NEW x \in queued'
      PROVE  /\ x[1] \in DOMAIN calls'
             /\ Kept(x, calls'[x[1]].place, calls'[x[1]].out, machines'[calls'[x[1]].machine],
                     Elements(emitted'))
  <2>1. CASE x[1] = c
    <3>1. Kept(x, place, out, machines'[calls[c].machine], Elements(emitted'))
      BY <2>1
    <3> QED BY <1>1, <2>1, <3>1
  <2>2. CASE x[1] # c
    <3>1. PICK d : d = x[1]
      OBVIOUS
    <3>2. /\ d \in DOMAIN calls
          /\ Kept(x, calls[d].place, calls[d].out, machines[calls[d].machine],
                  Elements(emitted))
      BY <2>2, <3>1 DEF DeliveryInv, AllKept
    <3>3. calls[d].machine \in DOMAIN machines
      BY <3>2 DEF DeliveryInv, TypeInv, References
    <3>4. /\ Grown(machines[calls[d].machine], machines'[calls[d].machine])
          /\ Elements(emitted) \subseteq Elements(emitted')
      BY <3>3 DEF Undisturbed
    <3>5. Kept(x, calls[d].place, calls[d].out, machines'[calls[d].machine],
               Elements(emitted'))
      BY <3>2, <3>4, KeptGrown
    <3>6. calls'[d] = calls[d]
      BY <1>1, <2>2, <3>1, <3>2
    <3> QED BY <1>1, <3>1, <3>2, <3>5, <3>6
  <2> QED BY <2>1, <2>2
<1>3. AllKept'
  BY <1>2 DEF AllKept
<1>4. ASSUME NEW d \in DOMAIN calls
      PROVE  Gone(calls'[d].place, calls'[d].out, calls'[d].next, Elements(emitted'))
  <2>1. CASE d = c
    BY <1>1, <2>1
  <2>2. CASE d # c
    <3>1. Gone(calls[d].place, calls[d].out, calls[d].next, Elements(emitted))
      BY DEF DeliveryInv, AllGone
    <3>2. Elements(emitted) \subseteq Elements(emitted')
      BY DEF Undisturbed
    <3>3. Gone(calls[d].place, calls[d].out, calls[d].next, Elements(emitted'))
      BY <3>1, <3>2, GoneGrown
    <3> QED BY <1>1, <2>2, <3>3
  <2> QED BY <2>1, <2>2
<1>5. AllGone'
  BY <1>1, <1>4 DEF AllGone
<1> QED BY <1>3, <1>5 DEF DeliveryInv

\* One more element.
LEMMA AppendElements ==
  ASSUME NEW S, NEW s \in Seq(S), NEW e \in S
  PROVE  Elements(Append(s, e)) = Elements(s) \cup {e}
<1>1. \A i \in DOMAIN s : i \in DOMAIN Append(s, e) /\ Append(s, e)[i] = s[i]
  OBVIOUS
<1>2. Len(s) + 1 \in DOMAIN Append(s, e) /\ Append(s, e)[Len(s) + 1] = e
  OBVIOUS
<1>3. \A i \in DOMAIN Append(s, e) : i \in DOMAIN s \/ i = Len(s) + 1
  OBVIOUS
<1> QED BY <1>1, <1>2, <1>3 DEF Elements

\* Two sequences, one after the other.
LEMMA ConcatElements ==
  ASSUME NEW S, NEW s \in Seq(S), NEW u \in Seq(S)
  PROVE  Elements(s \o u) = Elements(s) \cup Elements(u)
<1>1. \A i \in DOMAIN s : i \in DOMAIN (s \o u) /\ (s \o u)[i] = s[i]
  OBVIOUS
<1>2. \A i \in DOMAIN u : Len(s) + i \in DOMAIN (s \o u) /\ (s \o u)[Len(s) + i] = u[i]
  OBVIOUS
<1>3. ASSUME NEW i \in DOMAIN (s \o u), i \notin DOMAIN s
      PROVE  i - Len(s) \in DOMAIN u /\ (s \o u)[i] = u[i - Len(s)]
  BY <1>3
<1>4. \A i \in DOMAIN (s \o u) : (s \o u)[i] \in Elements(s) \cup Elements(u)
  <2>1. \A i \in DOMAIN s : s[i] \in Elements(s)
    BY DEF Elements
  <2>2. \A i \in DOMAIN u : u[i] \in Elements(u)
    BY DEF Elements
  <2> QED BY <1>1, <1>3, <2>1, <2>2
<1>5. Elements(s \o u) \subseteq Elements(s) \cup Elements(u)
  BY <1>4 DEF Elements
<1>6. Elements(s) \subseteq Elements(s \o u)
  BY <1>1 DEF Elements
<1>7. Elements(u) \subseteq Elements(s \o u)
  BY <1>2 DEF Elements
<1> QED BY <1>5, <1>6, <1>7

\* A step that does not touch the machines and takes back nothing that was sent.
LEMMA MachinesAlone ==
  ASSUME TypeInv, UNCHANGED machines, Elements(emitted) \subseteq Elements(emitted')
  PROVE  Undisturbed
<1>1. \A m \in DOMAIN machines : machines[m].disposed \in BOOLEAN
  BY MachineFields DEF TypeInv, Typed
<1> QED BY <1>1 DEF Undisturbed, Grown

\* A step that gives a machine other data, or marks it as completed.
LEMMA MachineData ==
  ASSUME TypeInv, UNCHANGED emitted, NEW m \in DOMAIN machines, NEW data, NEW completed,
         MachineChanged(m, data, completed, machines[m].events, machines[m].commands,
                        machines[m].disposed)
  PROVE  Undisturbed
<1>1. \A n \in DOMAIN machines : machines[n].disposed \in BOOLEAN
  BY MachineFields DEF TypeInv, Typed
<1> QED BY <1>1 DEF Undisturbed, Grown, MachineChanged

\* A step of call c that leaves it the messages it has, in the machine and in the copy.
LEMMA DeliveryPass ==
  ASSUME DeliveryInv, TypeInv', NEW c \in DOMAIN calls, NEW place, NEW found,
         CallChanged(c, place, found, calls[c].out, calls[c].next), Undisturbed,
         UNCHANGED <<queued, emitted>>,
         \/ calls[c].place = "retrieve" /\ place = "handle"
         \/ calls[c].place = "save" /\ place = "saved"
  PROVE  DeliveryInv'
<1>1. PICK out, next : out = calls[c].out /\ next = calls[c].next
  OBVIOUS
<1>2. CallChanged(c, place, found, out, next)
  BY <1>1
<1>3. ASSUME NEW x \in queued', x[1] = c
      PROVE  Kept(x, place, out, machines'[calls[c].machine], Elements(emitted'))
  <2>1. Kept(x, calls[c].place, calls[c].out, machines[calls[c].machine], Elements(emitted))
    BY <1>3 DEF DeliveryInv, AllKept
  <2>2. Grown(machines[calls[c].machine], machines'[calls[c].machine])
    BY DEF Undisturbed, DeliveryInv, TypeInv, References
  <2>3. calls[c].place = "save" /\ place = "saved"
    BY <2>1 DEF Kept
  <2>4. Kept(x, "save", out, machines'[calls[c].machine], Elements(emitted'))
    BY <1>1, <2>1, <2>2, <2>3, KeptGrown
  <2> QED BY <2>3, <2>4 DEF Kept
<1>4. Gone(place, out, next, Elements(emitted'))
  BY DEF Gone
<1> QED BY <1>2, <1>3, <1>4, DeliveryMove

\* Retrieve
LEMMA DeliveryRetrieve ==
  ASSUME DeliveryInv, TypeInv', NEW t \in Threads, Retrieve(t)
  PROVE  DeliveryInv'
<1>1. PICK c : c = top[t]
  OBVIOUS
<1>2. PICK m : m = calls[c].machine
  OBVIOUS
<1>3. TypeInv
  BY DEF DeliveryInv
<1>4. /\ c \in DOMAIN calls /\ m \in DOMAIN machines /\ calls[c].place = "retrieve"
      /\ UNCHANGED <<queued, emitted>>
  BY <1>1, <1>2, <1>3, RetrieveStep
<1>5. CASE /\ machines' = machines
           /\ CallChanged(c, "handle", calls[c].found, calls[c].out, calls[c].next)
  <2>1. Undisturbed
    BY <1>3, <1>4, <1>5, MachinesAlone
  <2>2. PICK found : found = calls[c].found
    OBVIOUS
  <2>3. CallChanged(c, "handle", found, calls[c].out, calls[c].next)
    BY <1>5, <2>2
  <2> QED BY <1>4, <2>1, <2>3, DeliveryPass
<1>6. CASE \E r \in rows :
             /\ MachineChanged(m, r, machines[m].completed, machines[m].events,
                               machines[m].commands, machines[m].disposed)
             /\ CallChanged(c, "handle", TRUE, calls[c].out, calls[c].next)
  <2>1. PICK r \in rows :
             /\ MachineChanged(m, r, machines[m].completed, machines[m].events,
                               machines[m].commands, machines[m].disposed)
             /\ CallChanged(c, "handle", TRUE, calls[c].out, calls[c].next)
    BY <1>6
  <2>2. PICK completed : completed = machines[m].completed
    OBVIOUS
  <2>3. MachineChanged(m, r, completed, machines[m].events,
                       machines[m].commands, machines[m].disposed)
    BY <2>1, <2>2
  <2>4. Undisturbed
    BY <1>3, <1>4, <2>3, MachineData
  <2> QED BY <1>4, <2>1, <2>4, DeliveryPass
<1> QED BY <1>1, <1>2, <1>3, <1>5, <1>6, RetrieveStep

\* Handle: what the call queues goes into the queues of the machine.
LEMMA DeliveryHandle ==
  ASSUME DeliveryInv, TypeInv', NEW t \in Threads, Handle(t)
  PROVE  DeliveryInv'
<1>1. PICK c : c = top[t]
  OBVIOUS
<1>2. PICK m : m = calls[c].machine
  OBVIOUS
<1>3. TypeInv
  BY DEF DeliveryInv
<1>4. /\ c \in DOMAIN calls /\ m \in DOMAIN machines /\ calls[c].place = "handle"
      /\ ~machines[m].disposed /\ UNCHANGED emitted
      /\ CallChanged(c, "save", calls[c].found, calls[c].out, calls[c].next)
  BY <1>1, <1>2, <1>3, HandleStep
<1>5. PICK completes \in BOOLEAN, e \in Nat, n \in Nat :
              /\ MachineChanged(m, Extended(machines[m].data, c), machines[m].completed \/ completes,
                                machines[m].events \o Messages(c, "event", e),
                                machines[m].commands \o Messages(c, "command", n),
                                machines[m].disposed)
              /\ queued' = queued \cup Elements(Messages(c, "event", e))
                                  \cup Elements(Messages(c, "command", n))
  BY <1>1, <1>2, <1>3, HandleStep
<1>6. c \in Calls
  BY <1>3, <1>4, ProcessAssumption DEF TypeInv, Typed, Calls
<1>7. PICK es \in Seq(Message), cs \in Seq(Message) :
        /\ es = Messages(c, "event", e) /\ cs = Messages(c, "command", n)
  BY <1>6, MessagesFields
<1>8. /\ \A x \in Elements(es) : x[1] = c /\ x[2] = "event"
      /\ \A x \in Elements(cs) : x[1] = c /\ x[2] = "command"
  BY <1>6, <1>7, MessagesFields DEF Elements
<1>9. machines[m].events \in Seq(Message) /\ machines[m].commands \in Seq(Message)
      /\ \A k \in DOMAIN machines : machines[k].disposed \in BOOLEAN
  BY <1>3, <1>4, MachineFields DEF TypeInv, Typed
<1>10. /\ Elements(machines'[m].events) = Elements(machines[m].events) \cup Elements(es)
       /\ Elements(machines'[m].commands) = Elements(machines[m].commands) \cup Elements(cs)
       /\ machines'[m].disposed = machines[m].disposed
       /\ DOMAIN machines' = DOMAIN machines
       /\ \A k \in DOMAIN machines : k # m => machines'[k] = machines[k]
  <2>1. machines'[m].events = machines[m].events \o es
    BY <1>5, <1>7 DEF MachineChanged
  <2>2. machines'[m].commands = machines[m].commands \o cs
    BY <1>5, <1>7 DEF MachineChanged
  <2>3. Elements(machines'[m].events) = Elements(machines[m].events) \cup Elements(es)
    BY <1>9, <2>1, ConcatElements
  <2>4. Elements(machines'[m].commands) = Elements(machines[m].commands) \cup Elements(cs)
    BY <1>9, <2>2, ConcatElements
  <2> QED BY <1>5, <2>3, <2>4 DEF MachineChanged
<1>11. Undisturbed
  <2>1. Grown(machines[m], machines'[m])
    BY <1>4, <1>10 DEF Grown
  <2>2. ASSUME NEW k \in DOMAIN machines
        PROVE  Grown(machines[k], machines'[k])
    BY <1>9, <1>10, <2>1 DEF Grown
  <2> QED BY <1>4, <1>10, <2>2 DEF Undisturbed
<1>12. PICK out, next, found : out = calls[c].out /\ next = calls[c].next /\ found = calls[c].found
  OBVIOUS
<1>13. CallChanged(c, "save", found, out, next)
  BY <1>4, <1>12
<1>14. \A x \in queued' : x \in queued \/ x \in Elements(es) \/ x \in Elements(cs)
  BY <1>5, <1>7
<1>15. ASSUME NEW x \in queued', x[1] = c
       PROVE  Kept(x, "save", out, machines'[calls[c].machine], Elements(emitted'))
  <2>1. x \notin queued
    BY <1>4, <1>15 DEF DeliveryInv, AllKept, Kept
  <2>2. CASE x \in Elements(es)
    BY <1>2, <1>8, <1>10, <2>2 DEF Kept
  <2>3. CASE x \in Elements(cs)
    BY <1>2, <1>8, <1>10, <2>3 DEF Kept
  <2> QED BY <1>14, <2>1, <2>2, <2>3
<1>16. Gone("save", out, next, Elements(emitted'))
  BY DEF Gone
<1>17. \A x \in queued' : x \in queued \/ x[1] = c
  BY <1>8, <1>14
<1> QED BY <1>4, <1>11, <1>13, <1>15, <1>16, <1>17, DeliveryMove

\* Save
LEMMA DeliverySave ==
  ASSUME DeliveryInv, TypeInv', NEW t \in Threads, Save(t)
  PROVE  DeliveryInv'
<1>1. PICK c : c = top[t]
  OBVIOUS
<1>2. PICK m : m = calls[c].machine
  OBVIOUS
<1>3. TypeInv
  BY DEF DeliveryInv
<1>4. /\ c \in DOMAIN calls /\ m \in DOMAIN machines /\ calls[c].place = "save"
      /\ UNCHANGED <<queued, emitted>>
      /\ CallChanged(c, "saved", calls[c].found, calls[c].out, calls[c].next)
  BY <1>1, <1>2, <1>3, SaveStep
<1>5. Undisturbed
  <2>1. CASE UNCHANGED machines
    BY <1>3, <1>4, <2>1, MachinesAlone
  <2>2. CASE \E data \in Data :
               MachineChanged(m, data, machines[m].completed, machines[m].events,
                              machines[m].commands, machines[m].disposed)
    <3>1. PICK completed : completed = machines[m].completed
      OBVIOUS
    <3>2. PICK data \in Data :
               MachineChanged(m, data, completed, machines[m].events,
                              machines[m].commands, machines[m].disposed)
      BY <2>2, <3>1
    <3> QED BY <1>3, <1>4, <3>2, MachineData
  <2> QED BY <1>1, <1>2, <1>3, <2>1, <2>2, SaveStep
<1>6. PICK found : found = calls[c].found
  OBVIOUS
<1>7. CallChanged(c, "saved", found, calls[c].out, calls[c].next)
  BY <1>4, <1>6
<1> QED BY <1>4, <1>5, <1>7, DeliveryPass

\* The queues are copied: the messages of the call are in the copy, and those of the copy
\* before have been sent.
LEMMA DeliveryCopy ==
  ASSUME DeliveryInv, TypeInv', NEW c \in DOMAIN calls, NEW m, m = calls[c].machine,
         NEW place, NEW found, NEW out, NEW next, CallChanged(c, place, found, out, next),
         next = 1, ~machines[m].disposed, UNCHANGED <<machines, queued, emitted>>,
         \/ /\ calls[c].place = "saved" /\ place = "publish" /\ out = machines[m].events
         \/ /\ calls[c].place = "publish" /\ calls[c].next > Len(calls[c].out)
            /\ place = "send" /\ out = machines[m].commands
  PROVE  DeliveryInv'
<1>1. Undisturbed
  BY MachinesAlone DEF DeliveryInv
<1>2. Gone(place, out, next, Elements(emitted'))
  <2>1. machines[m].events \in Seq(Message) /\ machines[m].commands \in Seq(Message)
    BY MachineFields DEF DeliveryInv, TypeInv, Typed, References
  <2>2. place \in {"publish", "send"} /\ \A i \in DOMAIN out : ~(i < next)
    BY <2>1
  <2> QED BY <2>2 DEF Gone
<1>3. ASSUME NEW x \in queued', x[1] = c
      PROVE  Kept(x, place, out, machines'[calls[c].machine], Elements(emitted'))
  <2>1. Kept(x, calls[c].place, calls[c].out, machines[m], Elements(emitted))
    BY <1>3 DEF DeliveryInv, AllKept
  <2>2. CASE calls[c].place = "saved"
    BY <2>1, <2>2 DEF Kept
  <2>3. CASE calls[c].place = "publish"
    <3>1. x[2] = "event" => x \in Elements(calls[c].out)
      BY <2>1, <2>3 DEF Kept
    <3>2. calls[c].out \in Seq(Message) /\ calls[c].next \in Nat
      BY CallFields DEF DeliveryInv, TypeInv, Typed
    <3>3. Gone("publish", calls[c].out, calls[c].next, Elements(emitted))
      BY <2>3 DEF DeliveryInv, AllGone
    <3>4. \A i \in DOMAIN calls[c].out : i < calls[c].next
      BY <2>3, <3>2
    <3>5. Elements(calls[c].out) \subseteq Elements(emitted)
      BY <3>3, <3>4 DEF Gone, Elements
    <3> QED BY <2>1, <2>3, <3>1, <3>5 DEF Kept
  <2> QED BY <2>2, <2>3
<1> QED BY <1>1, <1>2, <1>3, DeliveryMove

\* A message is sent, or the handlers that were told of it return.
LEMMA DeliverySend ==
  ASSUME DeliveryInv, TypeInv', NEW c \in DOMAIN calls,
         NEW place, NEW found, NEW out, NEW next, CallChanged(c, place, found, out, next),
         out = calls[c].out, UNCHANGED <<machines, queued>>,
         \/ calls[c].place = "publish" /\ place = "publishing"
         \/ calls[c].place = "publishing" /\ place = "publish"
         \/ calls[c].place = "send" /\ place = "sending"
         \/ calls[c].place = "sending" /\ place = "send",
         \/ /\ calls[c].place \in {"publish", "send"}
            /\ next = calls[c].next /\ next <= Len(out)
            /\ emitted' = Append(emitted, out[next])
         \/ /\ calls[c].place \in {"publishing", "sending"}
            /\ next = calls[c].next + 1
            /\ UNCHANGED emitted
  PROVE  DeliveryInv'
<1>1. /\ out \in Seq(Message) /\ calls[c].next \in Nat \ {0} /\ emitted \in Seq(Message)
  BY CallFields DEF DeliveryInv, TypeInv, Typed
<1>2. Gone(calls[c].place, out, calls[c].next, Elements(emitted))
  BY DEF DeliveryInv, AllGone
<1>3. ASSUME calls[c].place \in {"publish", "send"}
      PROVE  /\ Gone(place, out, next, Elements(emitted'))
             /\ Elements(emitted) \subseteq Elements(emitted')
  <2>1. next \in DOMAIN out /\ out[next] \in Message
    BY <1>1, <1>3
  <2>2. Elements(emitted') = Elements(emitted) \cup {out[next]}
    <3>1. emitted' = Append(emitted, out[next])
      BY <1>3
    <3>2. Elements(Append(emitted, out[next])) = Elements(emitted) \cup {out[next]}
      BY <1>1, <2>1, AppendElements
    <3> QED BY <3>1, <3>2
  <2>3. \A i \in DOMAIN out : i <= next => i < calls[c].next \/ i = next
    BY <1>1, <1>3
  <2>4. Gone(place, out, next, Elements(emitted'))
    BY <1>2, <1>3, <2>2, <2>3 DEF Gone
  <2> QED BY <2>2, <2>4
<1>4. ASSUME calls[c].place \in {"publishing", "sending"}
      PROVE  /\ Gone(place, out, next, Elements(emitted'))
             /\ Elements(emitted) \subseteq Elements(emitted')
  <2>1. \A i \in DOMAIN out : i < next => i <= calls[c].next
    BY <1>1, <1>4
  <2>2. Elements(emitted') = Elements(emitted)
    BY <1>4
  <2>3. Gone(place, out, next, Elements(emitted'))
    BY <1>2, <1>4, <2>1, <2>2 DEF Gone
  <2> QED BY <2>2, <2>3
<1>5. Gone(place, out, next, Elements(emitted')) /\ Elements(emitted) \subseteq Elements(emitted')
  BY <1>3, <1>4
<1>6. Undisturbed
  BY <1>5, MachinesAlone DEF DeliveryInv
<1>7. ASSUME NEW x \in queued', x[1] = c
      PROVE  Kept(x, place, out, machines'[calls[c].machine], Elements(emitted'))
  <2>1. Kept(x, calls[c].place, out, machines[calls[c].machine], Elements(emitted))
    BY <1>7 DEF DeliveryInv, AllKept
  <2> QED BY <1>5, <2>1 DEF Kept
<1> QED BY <1>5, <1>6, <1>7, DeliveryMove

\* The queue of events, the queue of commands.
LEMMA DeliveryQueue ==
  ASSUME DeliveryInv, TypeInv', NEW t \in Threads,
         \/ CopyEvents(t) \/ PublishEvent(t) \/ EventPublished(t)
         \/ CopyCommands(t) \/ SendCommand(t) \/ CommandSent(t)
  PROVE  DeliveryInv'
<1>1. PICK c : c = top[t]
  OBVIOUS
<1>2. PICK m : m = calls[c].machine
  OBVIOUS
<1>3. TypeInv
  BY DEF DeliveryInv
<1>4. c \in DOMAIN calls /\ m \in DOMAIN machines /\ UNCHANGED <<machines, queued>>
  BY <1>1, <1>2, <1>3, QueueStep
<1>5. PICK found : found = calls[c].found
  OBVIOUS
<1>6. CASE /\ calls[c].place = "saved" /\ ~machines[m].disposed
           /\ CallChanged(c, "publish", calls[c].found, machines[m].events, 1)
           /\ UNCHANGED emitted
  <2>1. PICK out, next : out = machines[m].events /\ next = 1
    OBVIOUS
  <2>2. CallChanged(c, "publish", found, out, next)
    BY <1>5, <1>6, <2>1
  <2> QED BY <1>2, <1>4, <1>6, <2>1, <2>2, DeliveryCopy
<1>7. CASE /\ calls[c].place = "publish" /\ calls[c].next > Len(calls[c].out)
           /\ ~machines[m].disposed
           /\ CallChanged(c, "send", calls[c].found, machines[m].commands, 1)
           /\ UNCHANGED emitted
  <2>1. PICK out, next : out = machines[m].commands /\ next = 1
    OBVIOUS
  <2>2. CallChanged(c, "send", found, out, next)
    BY <1>5, <1>7, <2>1
  <2> QED BY <1>2, <1>4, <1>7, <2>1, <2>2, DeliveryCopy
<1>8. CASE \E from \in {"publish", "send"} :
             /\ calls[c].place = from /\ calls[c].next <= Len(calls[c].out)
             /\ CallChanged(c, IF from = "publish" THEN "publishing" ELSE "sending",
                            calls[c].found, calls[c].out, calls[c].next)
             /\ emitted' = Append(emitted, calls[c].out[calls[c].next])
  <2>1. PICK out, next : out = calls[c].out /\ next = calls[c].next
    OBVIOUS
  <2>2. PICK place : place = IF calls[c].place = "publish" THEN "publishing" ELSE "sending"
    OBVIOUS
  <2>3. calls[c].place \in {"publish", "send"} /\ next <= Len(out)
        /\ CallChanged(c, place, found, out, next) /\ emitted' = Append(emitted, out[next])
    BY <1>5, <1>8, <2>1, <2>2
  <2>4. \/ calls[c].place = "publish" /\ place = "publishing"
        \/ calls[c].place = "send" /\ place = "sending"
    BY <2>2, <2>3
  <2> QED BY <1>4, <2>1, <2>3, <2>4, DeliverySend
<1>9. CASE \E from \in {"publishing", "sending"} :
             /\ calls[c].place = from
             /\ CallChanged(c, IF from = "publishing" THEN "publish" ELSE "send",
                            calls[c].found, calls[c].out, calls[c].next + 1)
             /\ UNCHANGED emitted
  <2>1. PICK out, next : out = calls[c].out /\ next = calls[c].next + 1
    OBVIOUS
  <2>2. PICK place : place = IF calls[c].place = "publishing" THEN "publish" ELSE "send"
    OBVIOUS
  <2>3. calls[c].place \in {"publishing", "sending"} /\ CallChanged(c, place, found, out, next)
        /\ UNCHANGED emitted
    BY <1>5, <1>9, <2>1, <2>2
  <2>4. \/ calls[c].place = "publishing" /\ place = "publish"
        \/ calls[c].place = "sending" /\ place = "send"
    BY <2>2, <2>3
  <2> QED BY <1>4, <2>1, <2>3, <2>4, DeliverySend
<1> QED BY <1>1, <1>2, <1>3, <1>6, <1>7, <1>8, <1>9, QueueStep

\* Dispose: the last command of the copy has been sent.
LEMMA DeliveryDispose ==
  ASSUME DeliveryInv, TypeInv', NEW t \in Threads, Dispose(t)
  PROVE  DeliveryInv'
<1>1. PICK c : c = top[t]
  OBVIOUS
<1>2. PICK m : m = calls[c].machine
  OBVIOUS
<1>3. TypeInv
  BY DEF DeliveryInv
<1>4. /\ c \in DOMAIN calls /\ m \in DOMAIN machines /\ calls[c].place = "send"
      /\ calls[c].next > Len(calls[c].out)
      /\ CallChanged(c, "done", FALSE, <<>>, 1)
      /\ MachineChanged(m, NewMachine.data, machines[m].completed, <<>>, <<>>, TRUE)
      /\ UNCHANGED <<queued, emitted>>
  BY <1>1, <1>2, <1>3, DisposeStep
<1>5. Undisturbed
  <2>1. \A n \in DOMAIN machines : machines[n].disposed \in BOOLEAN
    BY <1>3, MachineFields DEF TypeInv, Typed
  <2>2. /\ DOMAIN machines' = DOMAIN machines /\ machines'[m].disposed
        /\ \A n \in DOMAIN machines : n # m => machines'[n] = machines[n]
    BY <1>4 DEF MachineChanged
  <2> QED BY <1>4, <2>1, <2>2 DEF Undisturbed, Grown
<1>6. ASSUME NEW x \in queued', x[1] = c
      PROVE  Kept(x, "done", <<>>, machines'[calls[c].machine], Elements(emitted'))
  <2>1. Kept(x, "send", calls[c].out, machines[m], Elements(emitted))
    BY <1>2, <1>4, <1>6 DEF DeliveryInv, AllKept
  <2>2. Gone("send", calls[c].out, calls[c].next, Elements(emitted))
    BY <1>4 DEF DeliveryInv, AllGone
  <2>3. calls[c].out \in Seq(Message) /\ calls[c].next \in Nat
    BY <1>3, <1>4, CallFields DEF TypeInv, Typed
  <2>4. \A i \in DOMAIN calls[c].out : i < calls[c].next
    BY <1>4, <2>3
  <2>5. Elements(calls[c].out) \subseteq Elements(emitted)
    BY <2>2, <2>4 DEF Gone, Elements
  <2> QED BY <1>4, <2>1, <2>5 DEF Kept
<1>7. Gone("done", <<>>, 1, Elements(emitted'))
  BY DEF Gone
<1> QED BY <1>4, <1>5, <1>6, <1>7, DeliveryMove

\* Deliver: the new call has queued nothing.
LEMMA DeliveryDeliver ==
  ASSUME DeliveryInv, TypeInv', NEW t \in Threads, NEW k \in Owned[t] \cup {NoKey},
         Deliver(t, k)
  PROVE  DeliveryInv'
<1>1. PICK n : n = Len(calls) + 1
  OBVIOUS
<1>2. /\ n \notin DOMAIN calls /\ DOMAIN calls' = DOMAIN calls \cup {n}
      /\ \A d \in DOMAIN calls : calls'[d] = calls[d]
      /\ calls'[n].place = "retrieve"
  <2>1. Typed
    BY DEF DeliveryInv, TypeInv
  <2>2. /\ Len(calls) + 1 \notin DOMAIN calls
        /\ DOMAIN calls' = DOMAIN calls \cup {Len(calls) + 1}
        /\ \A d \in DOMAIN calls : calls'[d] = calls[d]
        /\ calls'[Len(calls) + 1] =
             [by |-> t, parent |-> top[t], key |-> k, machine |-> Len(machines'),
              place |-> "retrieve", found |-> FALSE, out |-> <<>>, next |-> 1]
    BY <2>1, DeliverChanges
  <2>3. calls'[Len(calls) + 1].place = "retrieve"
    BY <2>2
  <2> QED BY <1>1, <2>2, <2>3
<1>3. \A m \in DOMAIN machines : m \in DOMAIN machines' /\ machines'[m] = machines[m]
  BY ResolveChanges DEF DeliveryInv, TypeInv, Typed, Deliver
<1>4. UNCHANGED <<queued, emitted>>
  BY DEF Deliver
<1>5. Elements(emitted') = Elements(emitted)
  BY <1>4
<1>6. ASSUME NEW x \in queued'
      PROVE  /\ x[1] \in DOMAIN calls'
             /\ Kept(x, calls'[x[1]].place, calls'[x[1]].out, machines'[calls'[x[1]].machine],
                     Elements(emitted'))
  <2>1. PICK d : d = x[1]
    OBVIOUS
  <2>2. /\ d \in DOMAIN calls
        /\ Kept(x, calls[d].place, calls[d].out, machines[calls[d].machine],
                Elements(emitted))
    BY <1>4, <2>1 DEF DeliveryInv, AllKept
  <2>3. calls[d].machine \in DOMAIN machines
    BY <2>2 DEF DeliveryInv, TypeInv, References
  <2>4. calls'[d] = calls[d] /\ machines'[calls[d].machine] = machines[calls[d].machine]
    BY <1>2, <1>3, <2>2, <2>3
  <2> QED BY <1>2, <1>5, <2>1, <2>2, <2>4
<1>7. AllKept'
  BY <1>6 DEF AllKept
<1>8. ASSUME NEW d \in DOMAIN calls'
      PROVE  Gone(calls'[d].place, calls'[d].out, calls'[d].next, Elements(emitted'))
  <2>1. CASE d = n
    BY <1>2, <2>1 DEF Gone
  <2>2. CASE d \in DOMAIN calls
    <3>1. Gone(calls[d].place, calls[d].out, calls[d].next, Elements(emitted))
      BY <2>2 DEF DeliveryInv, AllGone
    <3> QED BY <1>2, <1>5, <2>2, <3>1
  <2> QED BY <1>2, <2>1, <2>2
<1>9. AllGone'
  BY <1>8 DEF AllGone
<1> QED BY <1>7, <1>9 DEF DeliveryInv

\* Throw: a call that threw owes nothing.
LEMMA DeliveryThrow ==
  ASSUME DeliveryInv, TypeInv', NEW t \in Threads, Throw(t)
  PROVE  DeliveryInv'
<1>1. /\ DOMAIN calls' = DOMAIN calls
      /\ \A d \in DOMAIN calls :
           /\ calls'[d].machine = calls[d].machine
           /\ calls'[d] = calls[d] \/ calls'[d].place = "threw"
  BY ThrowChanges DEF DeliveryInv, TypeInv, Typed
<1>2. UNCHANGED <<machines, queued, emitted>> /\ Elements(emitted') = Elements(emitted)
  BY DEF Throw
<1>3. ASSUME NEW x \in queued'
      PROVE  /\ x[1] \in DOMAIN calls'
             /\ Kept(x, calls'[x[1]].place, calls'[x[1]].out, machines'[calls'[x[1]].machine],
                     Elements(emitted'))
  <2>1. PICK d : d = x[1]
    OBVIOUS
  <2>2. /\ d \in DOMAIN calls
        /\ Kept(x, calls[d].place, calls[d].out, machines[calls[d].machine],
                Elements(emitted))
    BY <1>2, <2>1 DEF DeliveryInv, AllKept
  <2>3. CASE calls'[d] = calls[d]
    BY <1>1, <1>2, <2>1, <2>2, <2>3
  <2>4. CASE calls'[d].place = "threw"
    <3>1. Kept(x, "threw", calls'[d].out, machines'[calls'[d].machine], Elements(emitted'))
      BY DEF Kept
    <3> QED BY <1>1, <2>1, <2>2, <2>4, <3>1
  <2> QED BY <1>1, <2>2, <2>3, <2>4
<1>4. AllKept'
  BY <1>3 DEF AllKept
<1>5. ASSUME NEW d \in DOMAIN calls'
      PROVE  Gone(calls'[d].place, calls'[d].out, calls'[d].next, Elements(emitted'))
  <2>1. Gone(calls[d].place, calls[d].out, calls[d].next, Elements(emitted))
    BY <1>1 DEF DeliveryInv, AllGone
  <2>2. CASE calls'[d] = calls[d]
    BY <1>2, <2>1, <2>2
  <2>3. CASE calls'[d].place = "threw"
    BY <2>3 DEF Gone
  <2> QED BY <1>1, <2>2, <2>3
<1>6. AllGone'
  BY <1>5 DEF AllGone
<1> QED BY <1>4, <1>6 DEF DeliveryInv

\* Every step keeps the messages.
LEMMA DeliveryNext ==
  ASSUME DeliveryInv, [Next]_vars
  PROVE  DeliveryInv'
<1>1. TypeInv'
  BY TypeNext DEF DeliveryInv
<1>2. CASE UNCHANGED vars
  BY <1>1, <1>2 DEF vars, DeliveryInv, AllKept, AllGone
<1>3. ASSUME NEW t \in Threads, NEW k \in Owned[t] \cup {NoKey}, Deliver(t, k)
      PROVE  DeliveryInv'
  BY <1>1, <1>3, DeliveryDeliver
<1>4. ASSUME NEW t \in Threads, Execute(t)
      PROVE  DeliveryInv'
  BY <1>1, <1>4, DeliveryRetrieve, DeliveryHandle, DeliverySave, DeliveryQueue,
     DeliveryDispose DEF Execute
<1>5. ASSUME NEW t \in Threads, Throw(t)
      PROVE  DeliveryInv'
  BY <1>1, <1>5, DeliveryThrow
<1> QED BY <1>2, <1>3, <1>4, <1>5 DEF Next

\* When Execute returns, every message that the machine queued for the event was published
\* or sent, whatever exceptions the calls nested in it ended with. It holds with a machine
\* for each event, and with one machine that the nested calls of one thread share (OneUser):
\* one that a nested call has disposed makes Execute throw rather than return.
THEOREM MessagesGoOut == Spec => []AllEmitted
<1>1. Init => DeliveryInv
  <2>1. SUFFICES ASSUME Init
                 PROVE  DeliveryInv
    OBVIOUS
  <2>2. queued = {} /\ DOMAIN calls = {}
    BY <2>1 DEF Init
  <2>3. AllKept /\ AllGone
    BY <2>2 DEF AllKept, AllGone
  <2> QED BY <2>1, <2>3, TypeInit DEF DeliveryInv
<1>2. DeliveryInv /\ [Next]_vars => DeliveryInv'
  BY DeliveryNext
<1>3. DeliveryInv => AllEmitted
  <2>1. SUFFICES ASSUME DeliveryInv, NEW x \in queued, calls[x[1]].place = "done"
                 PROVE  x \in Elements(emitted)
    BY DEF AllEmitted
  <2>2. x[2] = "event" \/ x[2] = "command"
    BY <2>1 DEF DeliveryInv, TypeInv, Typed, Message
  <2> QED BY <2>1, <2>2 DEF DeliveryInv, AllKept, Kept
<1> QED BY <1>1, <1>2, <1>3, PTL DEF Spec

=============================================================================
