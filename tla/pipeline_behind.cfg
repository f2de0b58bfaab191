\* Transient aggregates: two commands decide on the same history.
CONSTANTS
  t1 = t1
  t2 = t2
  a = a
  b = b
  NoId = NoId
  Ids = {a}
  Threads = {t1, t2}
  Targets <- SharedTargets
  Lifestyle = "transient"
  SnapshotLevel = 5
  MaxCommands = 2
  MaxApplies = 1
SPECIFICATION Spec
INVARIANT NotBehind
SYMMETRY Interchangeable
CHECK_DEADLOCK FALSE
