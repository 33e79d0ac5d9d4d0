SPECIFICATION LiveSpec
CONSTANTS
  GridSize = 2
  ThiefStart <- MCStart
  SurvivalThreshold = 2
  NumGames = 2
  MaxTurns <- NoCap
INVARIANTS ViewShowsGame BannerMatchesLog DefaultCapSuffices
PROPERTY Terminates
