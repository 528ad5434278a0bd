SPECIFICATION Spec
CONSTANTS
  Paths <- MCPaths
  Inodes <- MCInodes
  Now <- MCNow
  Goal <- MCGoal
  Text <- MCText
  Rooted <- MCRooted
  Doubles <- MCDoubles
  Slash <- MCSlash
  Usage = 64
  Jobs <- MCJobs
INVARIANTS
  TypeOK
  Kept
  ResultRight
