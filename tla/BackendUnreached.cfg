CONSTANTS
  URL = {u1, u2}
  Localhost = localhost
  NoURL = nourl
  MaxAttempts = 2
  AnnouncesOnConnect = TRUE
  MaxMoves = 1
SPECIFICATION FairSpec
PROPERTIES
  ReconnectsAfterFailure
