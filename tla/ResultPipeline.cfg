SPECIFICATION PipelineFairSpec
CONSTANTS
  MaxLine = 3
  MaxPeriod = 1
  MaxPost = 2
  MaxFiles = 2
  MaxPurge = 1
  MaxFail = 1
INVARIANTS
  NoResultVanishes
  DuplicatesNeedFailure
PROPERTIES
  Delivered
