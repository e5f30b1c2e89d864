SPECIFICATION Spec
CONSTANTS
  Options <- TwoAddresses
  MAXNS = 3
  MaxStarts = 2
INVARIANT
  OneOutcome
CHECK_DEADLOCK FALSE
