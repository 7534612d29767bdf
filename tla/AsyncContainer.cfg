SPECIFICATION FairSpec
CONSTANTS
  v = v
  Tasks = {t1, t2}
  Pending = FALSE
  MaxGuards = 1
  Thrown = Thrown
  None = None
  Versions <- MCVersions
  Blank = Blank
  Size <- MCSize
  ChunkSize = 2
  Mixes <- MCMixes
  Builds = {TRUE, FALSE}
  NoFile = NoFile
  MaxSets = 1
  MaxCrashes = 1
INVARIANTS
  NoMisuse
  FileRoundTrip
  ProgressExact
  StreamFaithful
PROPERTY EveryCallCompletes
