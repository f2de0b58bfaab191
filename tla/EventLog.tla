------------------------------ MODULE EventLog ------------------------------
(***************************************************************************)
(* What the command side of Halifax promises, without commands, threads,   *)
(* aggregates or the unit of work: one log of events tagged with the       *)
(* aggregate they belong to, opened by that aggregate's creation, to which *)
(* an event is added once and from which handlers receive each event at    *)
(* most once, the events of one aggregate in the order of the log.         *)
(***************************************************************************)
EXTENDS Integers, Sequences

CONSTANTS
  Ids,        \* aggregate identifiers
  Events,     \* events of the domain
  Creation    \* the entry that opens a stream, not one of Events

VARIABLES
  log,        \* sequence of [id, event]
  delivered   \* events the handlers have received

logVars == <<log, delivered>>

Entries  == [id : Ids, event : Events \cup {Creation}]
Open(id) == \E i \in DOMAIN log : log[i] = [id |-> id, event |-> Creation]
Holds(e) == \E i \in DOMAIN log : log[i].event = e

LogInit == log = <<>> /\ delivered = {}

CreateStream(id) ==
  /\ ~ Open(id)
  /\ log' = Append(log, [id |-> id, event |-> Creation])
  /\ UNCHANGED delivered

AddEvent(id, e) ==
  /\ Open(id)
  /\ ~ Holds(e)
  /\ log' = Append(log, [id |-> id, event |-> e])
  /\ UNCHANGED delivered

Deliver(e) ==
  /\ e \notin delivered
  /\ \E i \in DOMAIN log :
       /\ log[i].event = e
       /\ \A j \in DOMAIN log :
            (j > i /\ log[j].id = log[i].id) => log[j].event \notin delivered
  /\ delivered' = delivered \cup {e}
  /\ UNCHANGED log

LogNext ==
  \/ \E id \in Ids : CreateStream(id)
  \/ \E id \in Ids, e \in Events : AddEvent(id, e)
  \/ \E e \in Events : Deliver(e)

LogSpec == LogInit /\ [][LogNext]_logVars
=============================================================================
