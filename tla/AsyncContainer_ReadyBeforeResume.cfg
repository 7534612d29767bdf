SPECIFICATION Spec
CONSTANTS
  v = v
  Tasks = {t1}
  Pending = TRUE
  MaxGuards = 0
  Thrown = Thrown
  None = None
  Versions <- MCVersions
  Blank = Blank
  Size <- MCSize
  ChunkSize = 2
  Mixes = {{"serialize"}}
  Builds = {TRUE}
  NoFile = NoFile
  MaxSets = 0
  MaxCrashes = 0
INVARIANT ReadyBeforeResume
