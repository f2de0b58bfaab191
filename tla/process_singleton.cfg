\* The machine as the configuration registers it, and two events on one thread.
CONSTANTS
  t1 = t1
  t2 = t2
  a = a
  b = b
  Keys = {a}
  NoKey = NoKey
  Threads = {t1}
  Owned <- OneThread
  Lifestyle = "singleton"
  MaxCalls = 2
  Queues <- Nothing

SPECIFICATION Spec
INVARIANT HasData
CHECK_DEADLOCK FALSE
