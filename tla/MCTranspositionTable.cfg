SPECIFICATION TableSpec
CONSTANTS
  Threads = {t1, t2}
  Last = 1
  Entries <- MCEntries
  TT_KEEP_DEPTH = 0
  TT_AGE_WEIGHT = 1
  Generations = 2
  MaxStores = 3
  Layouts <- MCLayouts
  MaxSearches = 1
  Nil = Nil
  p1 = p1
  p2 = p2
  m1 = m1
SYMMETRY Symmetry
INVARIANTS
  HitIsOwn
  HitWasStored
