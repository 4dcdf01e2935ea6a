SPECIFICATION FairSpec
CONSTANTS
  ws = ws
  d1 = d1
  d2 = d2
  st = st
  src = src
  other = other
  script = script
  a = a
  b = b
  internal = internal
  Dirs = {ws, d1, d2, st}
  Workspace = ws
  State = st
  Files = {src, other, script}
  Registrable = {src, script}
  Script = script
  New = New
  Names = {a, b, internal}
  MaxMoves = 3
  Internal = internal
  Layouts <- MCLayouts
  Plain <- PlainLayouts
  MaxOutput = 3
  PipeSize = 1
  ReadSize = 2
  MaxPrinted = 5
  Faults = {"kill", "hang", "slow"}
  NoResult = NoResult
CHECK_DEADLOCK FALSE
INVARIANTS
  BackendTypes
  SourcesHeld
  StateHeld
  SiblingsWritable
  OutputTold
PROPERTIES
  ExecuteEnds
