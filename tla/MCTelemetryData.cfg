SPECIFICATION HealthyCloudSpec
CONSTANTS
  Messages <- DataMessages
  Modes <- ModeNames
  Batches <- DataBatches
  QueueCap = 2
  AgeCap = 0
  Second = 1
  SEND_INTERVAL = 1
  AUTH_BACKOFF_CAP = 2
  AuthMax = 2
  LOST_THRESHOLD = 1
  POST_MAX = 0
  RESTART_SEC = 0
  BYPASS_GPS_GATE = FALSE
  Keys = {k1}
  NoKey = NoKey
  None = None
INVARIANT TypeOK
INVARIANT PositionReported
 
PROPERTY KeepsTrying
PROPERTY AcceptedKeyRecovers
