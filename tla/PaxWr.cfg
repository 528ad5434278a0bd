SPECIFICATION FairSpec
CONSTANTS
  BLKMULT = 2
  MAXBLK = 6
  FILEBLK = 4
  MaxVol = 3
  Scenes <- AllScenes
INVARIANTS
  TypeOK
  ArchiveRight
PROPERTIES
  FailStops
  Terminates
CHECK_DEADLOCK FALSE
