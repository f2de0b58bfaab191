-------------------------- MODULE MCCommandPipeline --------------------------
(* Instances of CommandPipeline for TLC: two threads, two or three ids.     *)
EXTENDS PipelineRefinement, TLC

CONSTANTS t1, t2, a, b

\* Threads and aggregates are interchangeable where all threads address all aggregates.
Interchangeable == Permutations(Threads) \cup Permutations(Ids)

\* Both threads address both aggregates.
SharedTargets == [t \in Threads |-> Ids]

\* Each aggregate has one thread that sends it commands.
PartitionedTargets == t1 :> {a} @@ t2 :> {b}

\* There, exchanging the threads together with their aggregates changes nothing.
Mirrored == {p \in Permutations(Threads \cup Ids) : (p[t1] = t2 <=> p[a] = b) /\ {p[t1], p[t2]} = Threads}
=============================================================================
