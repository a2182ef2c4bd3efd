SPECIFICATION Spec
CHECK_DEADLOCK FALSE
CONSTANTS
  NumWorkers = 3
  Workers = {0, 1, 2}
  Moves = {1, 2}
  RootMoves = {1, 2}
  DEPTH_MASK = 3
  GENERATION_MASK = 2
  COUNT_MASK = 3
  MIN_ITERATIONS = 2
  LEAD = 1
  Configs <- MCConfigs
  Skew <- MCSkew
INVARIANTS
  HintIsOwn
  BestIsRetained
  StatisticsAreOwn
  UsesOwnHints
  RetiresBehindALeader
  DeepestGoesOn
