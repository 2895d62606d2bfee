SPECIFICATION FairSpec
CONSTANTS
  Words <- AllWords
  MaxArgs = 2
  ProfileFiles <- Files
  CANONICAL_MODULES <- AllModules
CHECK_DEADLOCK FALSE
PROPERTY ParserTerminates
