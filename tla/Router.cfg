SPECIFICATION Spec
CONSTANTS
  SubGames = {1, 2}
  MaxStep = 1
  Bodies = {b1}
  AuxTypes = {"hint"}
  Correlations = {"c1"}
  Faults = {"WRONG_GAME"}
  Capacity = 2
CHECK_DEADLOCK FALSE
INVARIANTS NoEquivocation CommittedOrBounced ConsumedOnce ResendIsSafe
