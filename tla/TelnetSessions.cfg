SPECIFICATION Spec
CONSTANTS
  Sessions = {s1, s2}
  NoSession = NoSession
  Dirs = {d1, d2}
  MaxTable = 2
  MaxTotal = 2
INVARIANTS
  OpenForAtlasSession
  RootIsOneTable
PROPERTIES
  OldSessionEnds
