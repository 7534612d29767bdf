SPECIFICATION RacesSpec
CONSTANTS
  FirstId = FirstId
  FirstType = FirstType
  Missing = Missing
  Items <- TwoItems
  Viewers = {v1, v2}
  Senders = {}
  Setters = {}
  SourceIds = {}
  TargetIds = {}
  Types = {}
  MaxWrites = 0
INVARIANT IndexComplete
