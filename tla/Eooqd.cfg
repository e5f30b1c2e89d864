SPECIFICATION Spec
CONSTANTS
  MaxBusy = 2
  MaxLine = 6
  Kind <- KindSafety
  Stuck = {5}
  Rounds = 2
  MaxPost = 2
  Frame = 1
  QueueIdEmpty = FALSE
  MaxCrash = 1
INVARIANTS
  SlotAvailable
  NoResultLost
PROPERTIES
  BarrierSeparates
  ImplementsService
