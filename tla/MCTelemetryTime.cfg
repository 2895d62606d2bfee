SPECIFICATION Spec
CONSTANTS
  Messages <- TimeMessages
  Modes <- ModeNames
  Batches <- TimeBatches
  QueueCap = 2
  AgeCap = 5
  Second = 1
  SEND_INTERVAL = 1
  AUTH_BACKOFF_CAP = 60
  AuthMax = 7
  LOST_THRESHOLD = 1
  POST_MAX = 2
  RESTART_SEC = 1
  BYPASS_GPS_GATE = FALSE
  Keys = {k1}
  NoKey = NoKey
  None = None
INVARIANT SilenceBounded
INVARIANT LagBounded
PROPERTY RateLimited
PROPERTY BackoffHonoured
PROPERTY BackoffRestarts
