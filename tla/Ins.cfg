SPECIFICATION Spec
CONSTANTS
  p1 = p1
  p2 = p2
  Proc <- Both
  Scenes <- InstallScenes
INVARIANTS
  TypeOK
  ExitsRight
PROPERTIES
  Replaces
CHECK_DEADLOCK FALSE
