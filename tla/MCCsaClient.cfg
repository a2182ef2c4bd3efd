\* Three attempts at most, two reconnects, games of at most three plies.
\* Safety and liveness together, so that the ids are not made symmetric.
SPECIFICATION FairSpec
CONSTANTS
  Ids = {g1, g2}
  None = None
  MaxGames = 3
  ReconnectLimit = 2
  MaxPlies = 3
INVARIANTS
  HandshakeBeforePlay
  Bounded
  RecordComplete
PROPERTIES
  ImplementsCsaBatch
  LateResultOnce
  GameEnds
