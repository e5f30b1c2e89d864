SPECIFICATION FairSpec
CONSTANTS
  Options <- MCOptions
  MAXNS = 3
  MaxStarts = 3
INVARIANTS
  EveryResolverOnce
  QuietWhenFree
  OneResult
PROPERTIES
  Ends
CHECK_DEADLOCK FALSE
