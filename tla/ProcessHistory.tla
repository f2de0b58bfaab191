----------------------------- MODULE ProcessHistory -----------------------------
(***************************************************************************)
(* What state machines promise (StateMachine.cs, IBus.cs): a process is    *)
(* what the events of its key made of it, in the order they were handled,  *)
(* until one of them completes it; and what the handling of an event has   *)
(* to tell others is told once, when the process has been brought up to    *)
(* date.  An event of no key starts a process that no event can reach.     *)
(***************************************************************************)
EXTENDS Sequences, Naturals

CONSTANTS
  Keys,  \* the values that correlate events
  NoKey  \* the key of an event that is not correlated

VARIABLES
  arrived,     \* the keys of the events that have arrived; an event is its index here
  process,     \* the events that the process of each key has handled, in order
  handled,     \* the events handled
  completing,  \* those of them that completed the process they belong to
  emitted      \* the messages <<event, kind, n>> published or sent, in order

Init ==
  /\ arrived = <<>>
  /\ process = [k \in Keys |-> <<>>]
  /\ handled = {}
  /\ completing = {}
  /\ emitted = <<>>

Arrive(k) ==
  /\ arrived' = Append(arrived, k)
  /\ UNCHANGED <<process, handled, completing, emitted>>

Handle(e) ==
  /\ e \notin handled
  /\ handled' = handled \cup {e}
  /\ UNCHANGED <<arrived, emitted>>

\* The process of the event, if it has one, goes on.
Continue(e) ==
  /\ Handle(e)
  /\ process' = [k \in Keys |-> IF k = arrived[e] THEN Append(process[k], e) ELSE process[k]]
  /\ UNCHANGED completing

\* The process of the event is over.
Complete(e) ==
  /\ Handle(e)
  /\ process' = [k \in Keys |-> IF k = arrived[e] THEN <<>> ELSE process[k]]
  /\ completing' = completing \cup {e}

Elements(s) == {s[i] : i \in DOMAIN s}

Emit ==
  LET new == emitted'[Len(emitted) + 1]
  IN  /\ Len(emitted') = Len(emitted) + 1
      /\ emitted' = Append(emitted, new)
      /\ new \notin Elements(emitted)
      /\ new[1] \in handled
      /\ UNCHANGED <<arrived, process, handled, completing>>

Next ==
  \/ \E k \in Keys \cup {NoKey} : Arrive(k)
  \/ \E e \in DOMAIN arrived : Continue(e) \/ Complete(e)
  \/ Emit

Spec == Init /\ [][Next]_<<arrived, process, handled, completing, emitted>>
=============================================================================
