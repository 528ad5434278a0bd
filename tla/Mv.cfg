SPECIFICATION FairSpec
CONSTANTS
  p1 = p1
  p2 = p2
  Proc <- Both
  Scenes <- MoveScenes
  Creator = TRUE
INVARIANTS
  TypeOK
  DataSafe
PROPERTIES
  NoClobber
  Terminates
CHECK_DEADLOCK FALSE
