SPECIFICATION Spec
CONSTANTS
  GridSize = 2
  ThiefStart <- MCStart
  SurvivalThreshold = 3
  NumGames = 2
  MaxTurns = 3
INVARIANTS SeriesInv SealedTrail HonestAnswer OutcomeJustified 
PROPERTIES ImplementsContract
