SPECIFICATION FairSpec
CONSTANTS
  Daemons = {"eperd", "eooqd"}
  MaxFaults = 4
  MaxRestarts = 1
INVARIANTS
  WaitHonoured
  OneInstance
PROPERTIES
  Reconnects
  Restarted
