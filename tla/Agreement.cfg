SPECIFICATION FairSpec
CONSTANTS
  NumGames = 2
  StepCounts = {1}
  PollBudget = 2
CHECK_DEADLOCK FALSE
INVARIANTS AgreedMeansIdentical NoContradiction DisputeIsReal
PROPERTY BothEnd
