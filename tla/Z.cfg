SPECIFICATION Spec
CONSTANTS
  Width = 2
  BITS = 5
  LeastBits = 4
  CHECK_GAP = 4
  Shift = 4
  InMax = 40
  Num = 5
  Names <- MCNames
  ZNames <- MCZNames
  Jobs <- MCJobs
INVARIANTS
  TypeOK
  Kept
  ResultRight
