\* Two threads command two aggregates, each an object of its own; three commands, of no, two
\* and one events at most.
CONSTANTS
  Null = Null
  Ids = {a, b}
  Threads = {t1, t2}
  Lifestyle = "transient"
  Raises <- ThreeCommands

SPECIFICATION Spec
SYMMETRY Symmetry
INVARIANT TypeOK
INVARIANT CreationFirst
INVARIANT FiledUnderOwn
INVARIANT FiledInOrder
INVARIANT SavedBeforePublished
INVARIANT AckedDelivered
INVARIANT KeptIfAlone
CHECK_DEADLOCK FALSE
