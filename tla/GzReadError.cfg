SPECIFICATION Spec
CONSTANTS
  Scenes <- OneZip
  MaxIno = 3
  MaxFaults = 1
  MaxOthers = 0
INVARIANTS
  OutputGood
CHECK_DEADLOCK FALSE
