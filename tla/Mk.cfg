SPECIFICATION FairSpec
CONSTANTS
  p1 = p1
  p2 = p2
  p3 = p3
  Proc <- All
  Scenes <- MkScenes
INVARIANTS
  TypeOK
  MadeRight
  UmaskRestored
PROPERTIES
  Terminates
CHECK_DEADLOCK FALSE
