--------------------------- MODULE MCStoredAggregate ---------------------------
(* Instances of StoredAggregate for TLC.                                    *)
EXTENDS StoredAggregate, TLC

\* How many events the commands of a run raise, in the order they are sent.
ThreeCommands == <<0, 2, 1>>
TwoCommands == <<2, 1>>
NoEvents == <<0, 0, 0>>

Symmetry == Permutations(Threads) \cup Permutations(Ids)
=============================================================================
