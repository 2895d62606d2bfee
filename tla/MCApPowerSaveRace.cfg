SPECIFICATION Spec
CONSTANTS
  UintMod = 8
  FrameMax = 3
  MgmtMax = 2
  PollMax = 2
INVARIANT ErrorHandlerOnEmpty
