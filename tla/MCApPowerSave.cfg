SPECIFICATION Spec
CONSTANTS
  UintMod = 8
  FrameMax = 3
  MgmtMax = 2
  PollMax = 2
INVARIANT CountersExact
INVARIANT AwakeServed
INVARIANT HeldWhileAsleep
INVARIANT HeldIsAnnounced
INVARIANT TriggerReachesFrames
INVARIANT PeriodClosed
