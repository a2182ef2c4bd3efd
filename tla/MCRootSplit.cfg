SPECIFICATION FairSpec
CONSTANTS
  Helpers = {h1, h2}
  NumMoves = 3
  Scores = {0, 1, 2}
  Lo = 0
  Hi = 2
  Quota = 1
  CanPanic = TRUE
  None = None
INVARIANTS
  VerdictHolds
  GateHolds
PROPERTIES
  SettledOnce
  PassReturns
