SPECIFICATION Spec
CONSTANTS
  wider = wider
  wide = wide
  narrow = narrow
  untested = untested
  unknown = unknown
  Lines <- MCLines
  Interval <- MCInterval
  StartTime <- MCStartTime
  Param <- MCParam
  Loads <- MCLoads
  Programs <- MCPrograms
  Slack = 1
  MaxLate = 2
  ClockSteps = TRUE
  MaxTime = 8
INVARIANTS
  Armed
  NoCycleTwice
  NoCycleSkipped
PROPERTIES
  OnlyScheduledRuns
