SPECIFICATION StorageSpec
CONSTANTS
  v1 = v1
  v2 = v2
  Containers = {c1, c2}
  Keys = {a, b, d}
  Vals = {v1, v2}
  Allowed = {v1}
  Batches <- SomeBatches
  Absent = Absent
  BlocksPerChunk = 2
  MaxBlocks = 4
  Words <- AnyWord
  Threads = {t1, t2}
  Ptrs = {p1, p2, p3, p4}
  Heap = Heap
  Nowhere = Nowhere
  NotLive = NotLive
SYMMETRY Symmetry
INVARIANTS
  ListIntact
  NoAliasing
  StatisticsAgree
  OwnBlocksOnly
  IndexSound
  AnswersLikeMap
PROPERTIES
  ImplementsBlockPool
  OrderKept
