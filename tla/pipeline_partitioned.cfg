\* Transient aggregates, one thread for each aggregate.
CONSTANTS
  t1 = t1
  t2 = t2
  a = a
  b = b
  NoId = NoId
  Ids = {a, b}
  Threads = {t1, t2}
  Targets <- PartitionedTargets
  Lifestyle = "transient"
  SnapshotLevel = 0
  MaxCommands = 2
  MaxApplies = 2
SPECIFICATION Spec
INVARIANT HandlerSeesSource
INVARIANT StateIsItsHistory
PROPERTY ImplementsEventLog
CHECK_DEADLOCK FALSE
