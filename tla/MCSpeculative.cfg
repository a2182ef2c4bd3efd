\* Safety and liveness together: one candidate in each of two searches.
SPECIFICATION FairSpec
CONSTANTS
  MaxSearches = 2
  MaxDepth = 1
  MaxFrames = 3
  Moves = {m1}
  None = None
INVARIANTS
  OneLateStore
PROPERTIES
  WholeWithinSearch
  TasksEnd
