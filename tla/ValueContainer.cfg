SPECIFICATION Spec
CONSTANTS
  a = a
  odd = odd
  v1 = v1
  v2 = v2
  s1 = s1
  WordNames = {a}
  OddNames = {odd}
  EmptyName = EmptyName
  Vals = {v1, v2}
  Empty = Empty
  Mangled = Mangled
  Ids = {s1}
  NoId = NoId
  Types = {"msg"}
  Packets <- SomePackets
  MsgDocs <- SomeDocs
  Batches <- SomeBatches
  Updates <- SomeUpdates
  MaxUnits = 2
  Rounded <- MCRounded
  Stripped <- MCStripped
  NoHeader = NoHeader
  NoData = NoData
  NoRaw = NoRaw
  NoIndex = NoIndex
  None = None
INVARIANTS
  RemovedStaysGone
  WritesReadBack
  LazyForwardsReceived
  CopyNormalises
