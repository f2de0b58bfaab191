----------------------------- MODULE ProcessManager -----------------------------
(***************************************************************************)
(* A type of state machine that handles events: StateMachineExecuter finds *)
(* the data of the process that an event belongs to, lets the machine      *)
(* handle it, saves the data, publishes the events and sends the commands  *)
(* that the machine queued, and disposes the machine.  Publishing and      *)
(* sending call handlers and consumers, so that another event for the      *)
(* machine may arrive before it is disposed.                               *)
(*                                                                         *)
(* The data is kept by an IReadModelRepository that does what its          *)
(* interface says, each operation by itself and by identifier.             *)
(*                                                                         *)
(* AddEvent, AddCommand and Dispose work on lists and fields of the        *)
(* machine without a lock, each in several steps. A machine built for each *)
(* event is used by one thread, which makes these steps with nothing in    *)
(* between. The one machine of a singleton is shared, and the module has   *)
(* it shared by the nested calls of one thread only.                       *)
(***************************************************************************)
EXTENDS Integers, Sequences, FiniteSets

CONSTANTS
  Keys,       \* the values that correlate events with data
  NoKey,      \* the key of an event that is not correlated
  Threads,    \* threads that publish events
  Owned,      \* Owned[t]: the keys of the events that reach the machine on thread t
  Lifestyle,  \* of the machine in the container
  Queues,     \* how many events and commands an event may make the machine queue
  MaxCalls    \* bound: events delivered to the machine

ASSUME ProcessAssumption ==
  /\ NoKey \notin Keys
  /\ 0 \notin Threads
  /\ Owned \in [Threads -> SUBSET Keys]
  /\ Lifestyle \in {"singleton", "transient"}
  /\ Queues \subseteq Nat \X Nat
  /\ MaxCalls \in Nat

\* A machine is used by one thread, so that Handle and Dispose are single steps.
ASSUME OneUser == Lifestyle = "singleton" => \A t, u \in Threads : t = u

VARIABLES
  rows,      \* the data in the repository, [id, key, handled]; `handled' stands for what
             \* the handled events made of it
  assigned,  \* identifiers CombGuid gave to data so far, numbered from 1
  machines,  \* the machines the container handed out
  calls,     \* the calls of Execute, one for each event, [by, parent, key, machine, place,
             \* found, out, next]: out is the copy of the queue being published or sent
  top,       \* the call each thread executes, innermost first, or 0
  handled,   \* history: the calls whose data the repository has taken
  queued,    \* history: the messages queued, <<call, kind, n>>
  emitted    \* history: the messages published or sent, in order

vars == <<rows, assigned, machines, calls, top, handled, queued, emitted>>

-----------------------------------------------------------------------------
Elements(s) == {s[i] : i \in DOMAIN s}

call(t) == calls[top[t]]

machine(t) == machines[call(t).machine]

At(t, place) == top[t] # 0 /\ call(t).place = place

GoTo(t, place) == calls' = [calls EXCEPT ![top[t]].place = place]

\* The constructor of StateMachine.
NewMachine == [data |-> [id |-> 0, key |-> NoKey, handled |-> <<>>], completed |-> FALSE,
               events |-> <<>>, commands |-> <<>>, disposed |-> FALSE]

\* Dispose empties the queues and sets them, the data and the correlations to null; it
\* leaves IsCompleted alone.
Disposed(m) == [NewMachine EXCEPT !.completed = m.completed, !.disposed = TRUE]

\* A call of Execute that has returned or thrown keeps none of its locals.
Ended(c, outcome) == [c EXCEPT !.place = outcome, !.found = FALSE, !.out = <<>>, !.next = 1]

-----------------------------------------------------------------------------
(* Execute.                                                                *)

\* ResolveAll: a transient machine is built for the event, a singleton once.
Resolve == IF Lifestyle = "transient" \/ machines = <<>> THEN Append(machines, NewMachine)
           ELSE machines

\* An event for the machine is published: by the application, or while a message of the
\* machine is being published or sent on this thread.
Deliver(t, k) ==
  /\ top[t] # 0 => call(t).place \in {"publishing", "sending"}
  /\ Len(calls) < MaxCalls
  /\ machines' = Resolve
  /\ calls' = Append(calls, [by |-> t, parent |-> top[t], key |-> k,
                             machine |-> Len(machines'), place |-> "retrieve",
                             found |-> FALSE, out |-> <<>>, next |-> 1])
  /\ top' = [top EXCEPT ![t] = Len(calls) + 1]
  /\ UNCHANGED <<rows, assigned, handled, queued, emitted>>

\* The data that the correlation of the event matches.
Matching(k) == {r \in rows : k # NoKey /\ r.key = k}

\* Fault: the data is looked for by an identifier that the event does not carry.
RetrieveNothing(t) ==
  /\ At(t, "retrieve")
  /\ GoTo(t, "handle")
  /\ UNCHANGED <<rows, assigned, machines, top, handled, queued, emitted>>

\* TryRetrieveStateMachineData. Without correlations, or without a match, the machine
\* keeps the data it has.
Retrieve(t) ==
  /\ At(t, "retrieve")
  /\ IF machine(t).disposed \/ Matching(call(t).key) = {}
       THEN GoTo(t, "handle") /\ UNCHANGED machines
       ELSE \E r \in Matching(call(t).key) :
              /\ machines' = [machines EXCEPT ![call(t).machine].data = r]
              /\ calls' = [calls EXCEPT ![top[t]].place = "handle", ![top[t]].found = TRUE]
  /\ UNCHANGED <<rows, assigned, top, handled, queued, emitted>>

Messages(c, kind, n) == [i \in 1..n |-> <<c, kind, i>>]

\* What machine m is when it has handled event c.
Handling(m, c, completes, events, commands) ==
  [m EXCEPT !.data.handled = Append(@, c), !.completed = @ \/ completes,
            !.events = @ \o events, !.commands = @ \o commands]

\* The machine handles the event: it changes its data, queues events and commands, and
\* may mark the process as completed.
Handle(t) ==
  /\ At(t, "handle")
  /\ ~machine(t).disposed
  /\ \E q \in Queues, completes \in BOOLEAN :
       LET events   == Messages(top[t], "event", q[1])
           commands == Messages(top[t], "command", q[2])
       IN  /\ machines' = [machines EXCEPT ![call(t).machine] =
                             Handling(@, top[t], completes, events, commands)]
           /\ queued' = queued \cup Elements(events) \cup Elements(commands)
  /\ GoTo(t, "save")
  /\ UNCHANGED <<rows, assigned, top, handled, emitted>>

-----------------------------------------------------------------------------
(* SaveOrDeleteStateMachineData.                                           *)

Without(id) == {r \in rows : r.id # id}

Delete(t) ==
  /\ machine(t).completed
  /\ rows' = Without(machine(t).data.id)
  /\ UNCHANGED <<assigned, machines>>

\* Fault: the correlated value is not passed on to the data.
InsertUncorrelated(t) ==
  LET data == [machine(t).data EXCEPT !.id = assigned + 1]
  IN  /\ ~machine(t).completed
      /\ ~call(t).found
      /\ assigned' = assigned + 1
      /\ machines' = [machines EXCEPT ![call(t).machine].data = data]
      /\ rows' = rows \cup {data}

\* The process starts: its data gets an identifier and the correlated value.
Insert(t) ==
  LET key  == IF call(t).key = NoKey THEN machine(t).data.key ELSE call(t).key
      data == [machine(t).data EXCEPT !.id = assigned + 1, !.key = key]
  IN  /\ ~machine(t).completed
      /\ ~call(t).found
      /\ assigned' = assigned + 1
      /\ machines' = [machines EXCEPT ![call(t).machine].data = data]
      /\ rows' = rows \cup {data}

\* Fault: the identifier of the data is not looked at.
UpdateAsNew(t) ==
  /\ ~machine(t).completed
  /\ call(t).found
  /\ rows' = rows \cup {machine(t).data}
  /\ UNCHANGED <<assigned, machines>>

Update(t) ==
  /\ ~machine(t).completed
  /\ call(t).found
  /\ rows' = Without(machine(t).data.id) \cup {machine(t).data}
  /\ UNCHANGED <<assigned, machines>>

\* The data of a disposed machine is null.
Save(t) ==
  /\ At(t, "save")
  /\ ~machine(t).disposed
  /\ Delete(t) \/ Insert(t) \/ Update(t)
  /\ handled' = handled \cup {top[t]}
  /\ GoTo(t, "saved")
  /\ UNCHANGED <<top, queued, emitted>>

-----------------------------------------------------------------------------
(* Publishing and sending what the machine queued.                         *)

\* The queue is copied; a disposed machine has none.
Copy(t, queue, place) ==
  /\ ~machine(t).disposed
  /\ calls' = [calls EXCEPT ![top[t]].place = place, ![top[t]].out = queue, ![top[t]].next = 1]
  /\ UNCHANGED <<rows, assigned, machines, top, handled, queued, emitted>>

Emit(t, during) ==
  /\ call(t).next <= Len(call(t).out)
  /\ emitted' = Append(emitted, call(t).out[call(t).next])
  /\ GoTo(t, during)
  /\ UNCHANGED <<rows, assigned, machines, top, handled, queued>>

Emitted(t, then) ==
  /\ calls' = [calls EXCEPT ![top[t]].place = then, ![top[t]].next = @ + 1]
  /\ UNCHANGED <<rows, assigned, machines, top, handled, queued, emitted>>

AllOut(t) == call(t).next > Len(call(t).out)

CopyEvents(t) == At(t, "saved") /\ Copy(t, machine(t).events, "publish")

PublishEvent(t)   == At(t, "publish") /\ Emit(t, "publishing")
EventPublished(t) == At(t, "publishing") /\ Emitted(t, "publish")

CopyCommands(t) == At(t, "publish") /\ AllOut(t) /\ Copy(t, machine(t).commands, "send")

SendCommand(t) == At(t, "send") /\ Emit(t, "sending")
CommandSent(t) == At(t, "sending") /\ Emitted(t, "send")

\* Fault: the machine is disposed when the first command is sent.
DisposeEarly(t) ==
  /\ At(t, "send")
  /\ machines' = [machines EXCEPT ![call(t).machine] = Disposed(@)]
  /\ calls' = [calls EXCEPT ![top[t]] = Ended(@, "done")]
  /\ top' = [top EXCEPT ![t] = call(t).parent]
  /\ UNCHANGED <<rows, assigned, handled, queued, emitted>>

\* The machine is disposed and Execute returns.
Dispose(t) ==
  /\ At(t, "send")
  /\ AllOut(t)
  /\ machines' = [machines EXCEPT ![call(t).machine] = Disposed(@)]
  /\ calls' = [calls EXCEPT ![top[t]] = Ended(@, "done")]
  /\ top' = [top EXCEPT ![t] = call(t).parent]
  /\ UNCHANGED <<rows, assigned, handled, queued, emitted>>

\* An exception, of the machine, of the repository, of a handler or a consumer that is told
\* of a message, or of the use of what Dispose has set to null. Execute catches nothing and
\* the machine is not disposed. The handler or consumer that the call is nested in may catch
\* it: the outer call goes on, or throws next.
Throw(t) ==
  /\ top[t] # 0
  /\ calls' = [calls EXCEPT ![top[t]] = Ended(@, "threw")]
  /\ top' = [top EXCEPT ![t] = call(t).parent]
  /\ UNCHANGED <<rows, assigned, machines, handled, queued, emitted>>

-----------------------------------------------------------------------------
Init ==
  /\ rows = {}
  /\ assigned = 0
  /\ machines = <<>>
  /\ calls = <<>>
  /\ top = [t \in Threads |-> 0]
  /\ handled = {}
  /\ queued = {}
  /\ emitted = <<>>

Execute(t) ==
  \/ Retrieve(t) \/ Handle(t) \/ Save(t)
  \/ CopyEvents(t) \/ PublishEvent(t) \/ EventPublished(t)
  \/ CopyCommands(t) \/ SendCommand(t) \/ CommandSent(t)
  \/ Dispose(t)

Next ==
  \E t \in Threads :
    \/ \E k \in Owned[t] \cup {NoKey} : Deliver(t, k)
    \/ Execute(t)
    \/ Throw(t)

Spec == Init /\ [][Next]_vars

-----------------------------------------------------------------------------
(* Properties.                                                             *)

Places == {"retrieve", "handle", "save", "saved", "publish", "publishing", "send", "sending",
           "done", "threw"}

Calls == 1..MaxCalls

Message == Calls \X {"event", "command"} \X Nat

Data == [id : Nat, key : Keys \cup {NoKey}, handled : Seq(Calls)]

\* Every variable has its type, and what is stored has an identifier of its own.
TypeOK ==
  /\ rows \in SUBSET Data
  /\ assigned \in Nat
  /\ \A r, s \in rows : r.id \in 1..assigned /\ (r.id = s.id => r = s)
  /\ machines \in Seq([data : Data, completed : BOOLEAN, events : Seq(Message),
                       commands : Seq(Message), disposed : BOOLEAN])
  /\ calls \in Seq([by : Threads, parent : {0} \cup DOMAIN calls, key : Keys \cup {NoKey},
                    machine : DOMAIN machines, place : Places, found : BOOLEAN,
                    out : Seq(Message), next : Nat \ {0}])
  /\ Len(calls) <= MaxCalls
  /\ top \in [Threads -> {0} \cup DOMAIN calls]
  /\ handled \in SUBSET DOMAIN calls
  /\ queued \in SUBSET Message
  /\ emitted \in Seq(Message)

\* A key has the data of one process at most, however its events nest: by the time a
\* message of a process can come back to it, its data is there to be found.
OnePerKey == \A r, s \in rows : r.key = s.key /\ r.key # NoKey => r = s

\* When Execute returns, every message that the machine queued for the event was published
\* or sent, whatever arrived for the machine in between.
AllEmitted ==
  \A m \in queued : calls[m[1]].place = "done" => m \in Elements(emitted)

\* The machine has its data when it handles an event (StateMachine.Data).
HasData == \A t \in Threads : At(t, "handle") => ~machine(t).disposed

\* What the repository holds for a key.
processOf(k) ==
  IF \E r \in rows : r.key = k THEN (CHOOSE r \in rows : r.key = k).handled ELSE <<>>

History == INSTANCE ProcessHistory WITH
             arrived <- [c \in DOMAIN calls |-> calls[c].key],
             process <- [k \in Keys |-> processOf(k)],
             completing <- {c \in handled : machines[calls[c].machine].completed}

\* Each event is handled on top of all the events its process has handled before it, a
\* completed process leaves nothing behind, and each message is published or sent once,
\* after the event that it answers was saved.
ImplementsHistory == History!Spec
=============================================================================
