SPECIFICATION Spec
CONSTANTS
  Words <- AllWords
  MaxArgs = 4
  ProfileFiles <- Files
  CANONICAL_MODULES <- AllModules
CHECK_DEADLOCK FALSE
INVARIANT SelectionCanonical
INVARIANT DryRunHarmless
