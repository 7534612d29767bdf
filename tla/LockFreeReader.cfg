SPECIFICATION FairSpec
CONSTANTS
  Writers = {w}
  RefWriters = {w}
  Keys = {a, b}
  Vals = {v}
  Null = Null
  Absent = Absent
  NoThread = NoThread
  NoKey = NoKey
  MaxPast = 3
  Manual = {m}
  Background = Background
  Stoppers = {s1, s2}
INVARIANTS
  SnapshotConsistent
  LoneRefreshHolds
  LastStopJoins
PROPERTIES
  StopReturns
  EventuallyFresh
