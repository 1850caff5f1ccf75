SPECIFICATION Spec
CONSTANTS
  w1 = w1
  w2 = w2
  Workers <- MCWorkers
  FileCount = 2
  Size <- MCSize
  PartBlocks = 2
  MaxRetries = 1
  Foreign = {2}
INVARIANTS
  TypeOK
  NotStoredAgain
  StreamIsAligned
  NoSilentLeftover
PROPERTIES
  KeepsContract
  EveryRunEnds
