SPECIFICATION FairSpec
CONSTANTS
  RESTART_SEC <- UnitRestartSec
  RETRY_SEC <- LoopSleep
  MaxPipelines = 3
INVARIANT OnePush
INVARIANT GcsOutageBounded
PROPERTY GcsVideoStays
PROPERTY CloudRetried
