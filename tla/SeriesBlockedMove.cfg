SPECIFICATION Spec
CONSTANTS
  GridSize = 2
  ThiefStart <- MCStart
  SurvivalThreshold = 2
  NumGames = 2
  MaxTurns <- NoCap
INVARIANT BlockedMoveEndsInError
