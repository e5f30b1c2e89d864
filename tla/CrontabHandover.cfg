SPECIFICATION CrontabFairSpec
CONSTANTS
  MaxInstall = 3
  MaxFail = 2
INVARIANTS
  NoUpdateLost
PROPERTIES
  NoticeSuffices
  HourlyRepairs
CHECK_DEADLOCK FALSE
