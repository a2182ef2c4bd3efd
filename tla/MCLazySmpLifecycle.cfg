\* Safety and liveness together, so that the clients are not made symmetric.
SPECIFICATION FairSpec
CONSTANTS
  Clients = {c1, c2, c3}
  Workers = {w0, w1}
  Main = w0
  MainStops = TRUE
  None = None
  MaxCalls = 4
INVARIANTS
  Exclusive
  ResetSticks
PROPERTIES
  StopNotErased
  MutationReturns
