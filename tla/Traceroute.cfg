SPECIFICATION FairSpec
CONSTANTS
  Options <- MCOptions
  FirstHop = 1
  MaxHops = 4
  GapLimit = 2
  LastDitch = 255
  TcpAck = 1
  Window = 2
  MaxRuns = 2
INVARIANTS
  OneVerdict
  Balanced
  EndsAtTarget
PROPERTIES
  Ends
CHECK_DEADLOCK FALSE
