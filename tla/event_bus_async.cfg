\* The asynchronous bus: two calls, two pool threads to run their tasks.
CONSTANTS
  Threads = {t1}
  Handlers = 1
  Sizes <- TwoCalls
  MaxHeld = 0
  Workers = {w1, w2}

SPECIFICATION AsyncSpec
PROPERTY EventuallyHandled
