SPECIFICATION SpecThreads
CONSTANTS
  Threads = {t1, t2, t3}
  Hashes = {p1, p2}
  None = None
  MaxSequence = 4
  LateClaim = FALSE
  Helpers = {h1, h2}
  Main = Main
  Batch = 2
  PollEvery = 4
  NodeLimit = 3
  Modes <- MCModes
  MaxNodes = 5
  MaxPasses = 2
SYMMETRY Symmetry
INVARIANTS
  NoMixedHit
  NodesAreCharged
  LimitsHold
