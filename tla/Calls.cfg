SPECIFICATION FairSpec
CONSTANTS
  Callers = {c1}
  Calls = 3
  Handshake = TRUE
  Rate = 1
  Window = 2
  Concurrent = 1
  QueueDepth = 1
  MaxRetries = 1
  Backoffs = {1}
  MaxTransit = 1
  Timeout = 2
CHECK_DEADLOCK FALSE
INVARIANTS LimitsHonest RunsMatchOutcome
PROPERTIES RejectionExplained CallsEnd
