\* One thread commands two aggregates, one after the other.
CONSTANTS
  Null = Null
  Ids = {a, b}
  Threads = {t1}
  Lifestyle = "transient"
  Raises <- NoEvents

SPECIFICATION Spec
INVARIANT AckedStored
CHECK_DEADLOCK FALSE
