\* Two threads, a process each.
CONSTANTS
  t1 = t1
  t2 = t2
  a = a
  b = b
  Keys = {a, b}
  NoKey = NoKey
  Threads = {t1, t2}
  Owned <- ByThread
  Lifestyle = "transient"
  MaxCalls = 3
  Queues <- NoneOrBoth

SPECIFICATION Spec
SYMMETRY Exchange
INVARIANT TypeOK
INVARIANT OnePerKey
INVARIANT AllEmitted
PROPERTY ImplementsHistory
CHECK_DEADLOCK FALSE
