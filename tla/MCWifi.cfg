SPECIFICATION FairSpec
CONSTANTS
  ProbeMax <- Attempts
PROPERTY ServingIsLeftAlone
PROPERTY AccessPointRecovers
PROPERTY HalfUpEnds
