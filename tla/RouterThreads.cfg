SPECIFICATION FairSpec
CONSTANTS
  SubGames = {1}
  MaxStep = 1
  Bodies = {"b1", "b2"}
  AuxTypes = {"hint"}
  Correlations = {}
  Faults = {}
  Capacity = 2
  Inputs <- MCInputs
  Threads = {t1, t2}
CHECK_DEADLOCK FALSE
INVARIANTS CoreNoEquivocation AckedNotLost
PROPERTY RevealReachesLoop
