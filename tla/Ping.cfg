SPECIFICATION FairSpec
CHECK_DEADLOCK FALSE
CONSTANTS
  Tests <- MCTests
  MaxPkts = 3
  SeqMod = 4
  Life = 3
  MaxStarts = 3
INVARIANTS
  IdleIsQuiet
  ReportedOnce
  ReportedOnceOnly
PROPERTIES
  AnsweredIsNotLost
  Ends
