SPECIFICATION FairSpec
CONSTANTS
  HealthAttempts = 2
  MaxEvents = 3
  LogLimit = 2
  GracePolls = 2
CHECK_DEADLOCK FALSE
INVARIANTS SeriesStopsServer OutcomeHonest CleanExitHonest NothingUnseen
PROPERTY ProcessEnds
