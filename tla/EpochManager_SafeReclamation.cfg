SPECIFICATION Spec
CONSTANTS
  Readers = {r1}
  Writers = {w1}
  Collectors = {c1}
  Objs = {o1}
  NoObj = NoObj
  MaxEpoch = 5
  MaxDepth = 1
INVARIANT SafeReclamation
