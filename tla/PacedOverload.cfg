SPECIFICATION Spec
CONSTANTS
  Callers = {c1}
  Calls = 3
  Handshake = TRUE
  Rate = 2
  Window = 4
  Concurrent = 1
  QueueDepth = 2
  MaxRetries = 3
  Backoffs = {1}
  MaxTransit = 0
  Timeout = 0
CHECK_DEADLOCK FALSE
INVARIANT PacedGetsThrough
