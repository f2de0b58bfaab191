\* The default container: two threads command two aggregates, which are one object.
CONSTANTS
  Null = Null
  Ids = {a, b}
  Threads = {t1, t2}
  Lifestyle = "singleton"
  Raises <- TwoCommands

SPECIFICATION Spec
INVARIANT FiledUnderOwn
CHECK_DEADLOCK FALSE
