-------------------------- MODULE ReadModelRepository --------------------------
(***************************************************************************)
(* InMemoryReadModelRepository of one type of model.  The models are       *)
(* objects, referred to by their index in a heap of the modules that       *)
(* extend this one; the repository keeps references to them in a           *)
(* ConcurrentBag, which may hold one object twice.                         *)
(*                                                                         *)
(* The bag is a static field of the class.  The container of the process   *)
(* builds one instance of the repository the first time it is asked for    *)
(* it; an instance of an earlier container, which the configuration of     *)
(* this one replaced, has yet to be finalized.                             *)
(***************************************************************************)
EXTENDS Integers, Sequences, FiniteSets, Bags, BagsExt

CONSTANT
  Null  \* of C#

VARIABLES
  storage,      \* the static field: Null or a bag of models
  constructed,  \* the container has built its instance
  abandoned     \* an instance of an earlier container is to be finalized

memory == <<storage, constructed, abandoned>>

-----------------------------------------------------------------------------
Dropped == storage = Null

Stored(m) == ~Dropped /\ BagIn(m, storage)

\* The constructor.
Construct ==
  /\ ~constructed
  /\ constructed' = TRUE
  /\ storage' = IF Dropped THEN EmptyBag ELSE storage
  /\ UNCHANGED abandoned

\* The finalizer of the earlier instance, at any time.
Finalize ==
  /\ abandoned
  /\ abandoned' = FALSE
  /\ storage' = Null
  /\ UNCHANGED constructed

\* Insert
Add(m) ==
  /\ ~Dropped
  /\ storage' = BagAdd(storage, m)
  /\ UNCHANGED <<constructed, abandoned>>

\* ConcurrentBag.TryTake removes some element, if there is one.
TryTake ==
  /\ ~Dropped
  /\ storage' \in IF storage = EmptyBag THEN {storage}
                  ELSE {BagRemove(storage, m) : m \in BagToSet(storage)}
  /\ UNCHANGED <<constructed, abandoned>>

RepositoryInit ==
  /\ storage = EmptyBag
  /\ constructed = FALSE
  /\ abandoned = TRUE
=============================================================================
