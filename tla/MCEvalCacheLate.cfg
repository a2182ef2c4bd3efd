\* Payload stores may overtake the claim.
SPECIFICATION Spec
CONSTANTS
  Threads = {t1, t2}
  Hashes = {h1, h2}
  None = None
  MaxSequence = 4
  LateClaim = TRUE
INVARIANT
  NoMixedHit
