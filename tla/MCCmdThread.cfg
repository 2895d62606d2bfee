SPECIFICATION FairSpec
CONSTANTS
  Callers = {p1, p2}
  Cmds = {c1, c2, c3}
  SemaMax = 1
  None = None
INVARIANT TypeOK
INVARIANT ContextAlive
INVARIANT CommandAlive
INVARIANT NoLostWakeup
PROPERTY StopEnds
