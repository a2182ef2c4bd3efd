SPECIFICATION FairSpec
CHECK_DEADLOCK FALSE
CONSTANTS
  Budget = 2
  MaxLines = 1
  MaxAnswers = 2
  NumGames = 2
  MaxMoves = 2
  Earlier <- MCEarlier
INVARIANTS
  NothingCarriesOver
  PublishedIsOnDisk
  GateReadsOneCleanRun
  NoOrphans
PROPERTIES
  MatchEnds
