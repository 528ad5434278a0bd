SPECIFICATION Spec
CONSTANTS
  CharOrder <- MCCharOrder
  PathMax = 6
  NameSz = 4
  PrefixSz = 5
  Short = 3
  Long = 4
  UidSz = 2
  NameHash <- MCNameHash
  Scenes <- MCScenes
INVARIANTS
  TypeOK
  ComesBack
  Chosen
