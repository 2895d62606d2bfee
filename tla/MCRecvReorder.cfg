SPECIFICATION FairSpec
CONSTANTS
  SeqSpace = 12
  WinSize = 3
  WaitTime = 1
  MaxLoss = 0
  FirstFrame = 10
  LastFrame = 13
  None = None
INVARIANT InOrder
INVARIANT NoStrandedFrame
INVARIANT BufferOK
INVARIANT GapWaitBounded
PROPERTY ImplementsReorderBuffer
PROPERTY HeldFramesGoUp
