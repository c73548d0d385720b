SPECIFICATION Spec
CONSTANTS
  Keys = {1, 2}
  Values = {a, b}
  Tombstone = Tombstone
  Torn = Torn
  KeyLen = 1
  ValueLen = 2
  MinGarbage = 20
  MinRatio = 30
  OrderedRename = TRUE
  MaxEntries = 3
  MaxUnsynced = 3
CONSTRAINT Bounded
SYMMETRY ValueSymmetry
INVARIANTS
  TypeOK
  KeydirExact
  GarbageExact
PROPERTIES
  CompactionReclaims
  ImplementsKV
