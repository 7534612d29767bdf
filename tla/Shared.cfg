SPECIFICATION SharedSpec
CONSTANTS
  FirstId = FirstId
  FirstType = FirstType
  Missing = Missing
  Items <- TwoItems
  Viewers = {v}
  Senders = {s}
  Setters = {w}
  SourceIds = {i1}
  TargetIds = {i2}
  Types = {t}
  MaxWrites = 3
  Recorders = {r1, r2}
  Latencies = {1, 2}
  ReservoirSize = 2
  UINT64_MAX = 9
  MaxSamples = 4
  MaxChanges = 1
  RcuValues = {x, y}
  RcuThreads = {t1, t2}
  Addresses = {a1, a2, a3}
  Nil = Nil
  MaxCalls = 3
  Readers = {r}
  Writers = {w1, w2}
  Collectors = {k1, k2}
  Objs = {o1, o2}
  NoObj = NoObj
  MaxEpoch = 5
  MaxDepth = 1
  Callers = {c1, c2}
  Callbacks = {k, f}
  Throwing = {f}
  Labels = {"id"}
  Inputs <- BuilderInputs
  INT32_MAX = 1
  INT64_MAX = 3
  MaxMessaging = 5
  Idents = {"a", "q", "e"}
  Reads <- MCReads
  Payloads <- OnePayload
  Refused = Refused
SYMMETRY Symmetry
INVARIANTS
  TypedCarriesIds
  TotalsExact
  PercentilesHonest
  SwapsHonest
  DeletedExactlyOnce
  CallbacksServed
  ReplyReaches
CHECK_DEADLOCK FALSE
