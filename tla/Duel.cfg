SPECIFICATION DuelSpec
CONSTANTS
  Peers = {"thief", "police"}
  SubGames = {1, 2}
  MaxStep = 1
  Bodies = {"a", "b"}
  AuxTypes = {}
  Correlations = {}
  Faults = {}
  Capacity = 4
  MaxFaults = 1
INVARIANTS SameGame NothingRefused
PROPERTIES DuelEnds CompletesUndisturbed
