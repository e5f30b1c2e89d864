SPECIFICATION FairSpec
CONSTANTS
  MaxBusy = 1
  MaxLine = 4
  Kind <- KindLive
  Stuck = {}
  Rounds = 2
  MaxPost = 2
  Frame = 1
  QueueIdEmpty = TRUE
  MaxCrash = 0
PROPERTIES
  ResultsDelivered
  QueueDrains
