SPECIFICATION FairSpec
CONSTANTS
  NUL = NUL
  SP = SP
  NL = NL
  Stale = Stale
  a = a
  A = A
  Byte <- MCByte
  Inputs <- MCInputs
  OldFiles <- MCOldFiles
  Options <- MCOptions
  MaxErrors = 1
INVARIANTS
  TypeOK
  BuffersFit
  CopyExact
PROPERTIES
  Terminates
CHECK_DEADLOCK FALSE
