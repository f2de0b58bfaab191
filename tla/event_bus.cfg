\* Two threads and two handlers; a call of up to two events, another by a second thread
\* or from inside a handler of the first.
CONSTANTS
  Threads = {t1, t2}
  Handlers = 2
  Sizes <- TwoCalls
  MaxHeld = 1
  Workers = {w1}

SPECIFICATION FairSpec
INVARIANT TypeOK
INVARIANT BatchInOrder
INVARIANT HeldSessionOpen
INVARIANT SessionsNotShared
INVARIANT ReturnedIsHandled
PROPERTY EventuallyHandled
CHECK_DEADLOCK FALSE
