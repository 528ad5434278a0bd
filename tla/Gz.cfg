SPECIFICATION FairSpec
CONSTANTS
  Scenes <- AllScenes
  MaxIno = 7
  MaxFaults = 2
  MaxOthers = 2
INVARIANTS
  TypeOK
  FilesKept
  ResultRight
PROPERTIES
  Terminates
CHECK_DEADLOCK FALSE
