------------------------- MODULE PipelineRefinement -------------------------
(***************************************************************************)
(* The command pipeline seen as an event log: a stored entry is a log      *)
(* entry of the stream it is filed under, and an event is delivered when   *)
(* a handler has been given it.                                            *)
(***************************************************************************)
EXTENDS CommandPipeline

LogEntry(entry) ==
  [id    |-> entry.src,
   event |-> IF events[entry.ev].kind = "created" THEN 0 ELSE entry.ev]

\* The domain events and snapshots of a bounded behaviour, by their index in `events'.
EventRefs == 1..(MaxCommands * (2 * MaxApplies + 1))

Log == INSTANCE EventLog WITH
         Events    <- EventRefs,
         Creation  <- 0,
         log       <- [i \in DOMAIN store |-> LogEntry(store[i])],
         delivered <- {p.ev : p \in published}

\* With an aggregate instance per command and one thread per aggregate, the pipeline
\* implements the event log: a stream is created once, an event is stored once, and the
\* handlers get each event at most once and in the order of its stream, even though
\* commands are refused and handlers throw half way.
ImplementsEventLog == Log!LogSpec
=============================================================================
