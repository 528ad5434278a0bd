SPECIFICATION FairSpec
CONSTANTS
  Paths <- MCPaths
  Inodes <- MCInodes
  Now <- MCNow
  Scenes <- All1
  Faults = 1
INVARIANTS
  TypeOK
  Placed
  Attributes
PROPERTIES
  Terminates
CHECK_DEADLOCK FALSE
