SPECIFICATION OneoffSpec
CONSTANTS
  MaxLine = 3
  MaxCrash = 2
INVARIANTS
  AtMostOnce
  NoLineVanishes
PROPERTIES
  ReadInOrder
  QueuedIsRead
CHECK_DEADLOCK FALSE
