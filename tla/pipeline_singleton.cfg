\* The default container: one aggregate instance for all ids and threads, although
\* each aggregate has one thread that sends it commands.
CONSTANTS
  t1 = t1
  t2 = t2
  a = a
  b = b
  NoId = NoId
  Ids = {a, b}
  Threads = {t1, t2}
  Targets <- PartitionedTargets
  Lifestyle = "singleton"
  SnapshotLevel = 5
  MaxCommands = 3
  MaxApplies = 1
SPECIFICATION Spec
INVARIANT CreationFirst
INVARIANT SavedBeforePublished
INVARIANT AckedDelivered
INVARIANT AckedVisible
SYMMETRY Mirrored
CHECK_DEADLOCK FALSE
