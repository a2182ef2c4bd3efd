SPECIFICATION Spec
CONSTANTS
  MaxSearches = 2
  MaxDepth = 1
  MaxFrames = 2
  Moves = {m1}
  None = None
PROPERTY
  StoredIsWhole
