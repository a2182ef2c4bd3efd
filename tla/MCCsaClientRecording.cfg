\* A record write fails in the middle of a game of a loop.
SPECIFICATION Spec
CONSTANTS
  Ids = {g1}
  None = None
  MaxGames = 2
  ReconnectLimit = 1
  MaxPlies = 1
PROPERTIES
  RecordingFailureIsFinal
