SPECIFICATION Spec
CONSTANTS
  Profiles <- TwoProfiles
  MaxVersion = 2
  MaxEvents = 5
  NoFile = NoFile
INVARIANT TypeOK
INVARIANT HonestSummary
INVARIANT UpdateComplete
PROPERTY UpdateWithinProfile
CHECK_DEADLOCK FALSE
