\* Transient aggregates, two threads that address the same aggregates.
CONSTANTS
  t1 = t1
  t2 = t2
  a = a
  b = b
  NoId = NoId
  Ids = {a, b}
  Threads = {t1, t2}
  Targets <- SharedTargets
  Lifestyle = "transient"
  SnapshotLevel = 0
  MaxCommands = 3
  MaxApplies = 1
SPECIFICATION Spec
INVARIANT TypeOK
INVARIANT CreationFirst
INVARIANT SavedBeforePublished
INVARIANT AckedDelivered
INVARIANT AckedVisible
INVARIANT AckedFiledOnce
INVARIANT RefusedLeavesNoTrace
INVARIANT DeliveredOnce
INVARIANT StateIsItsHistory
SYMMETRY Interchangeable
CHECK_DEADLOCK FALSE
