CONSTANTS
  URL = {u1, u2}
  Localhost = localhost
  NoURL = nourl
  MaxAttempts = 5
  AnnouncesOnConnect = TRUE
  MaxMoves = 3
SPECIFICATION FairSpec
INVARIANTS
  TypeOK
  SkippedIsClient
  EndsOnlyOnStop
PROPERTIES
  SettledBackendIsReached
  StopEndsWatcher
