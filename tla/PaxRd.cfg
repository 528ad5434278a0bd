SPECIFICATION Spec
CONSTANTS
  BLKMULT = 2
  MAXBLK = 8
  FILEBLK = 4
  DEVBLK = 4
  FSBLK = 4
  NULLCNT = 2
  Scenes <- AllScenes
INVARIANTS
  TypeOK
  ReadRight
  InPlace
PROPERTIES
  Terminates
CHECK_DEADLOCK FALSE
