SPECIFICATION Spec
CONSTANTS
  e1 = e1
  e2 = e2
  in = in
  out = out
  Runs = {e1, e2}
  Paths = {in, out}
  Sizes = {1}
  MaxArtifacts = 2
  MaxFileBytes = 1
  MaxTotalBytes = 2
  MaxWrites = 3
  User = User
  NoRun = NoRun
  NoFile = NoFile
  NoRecord = NoRecord
  Faults = {"kill", "crash", "add", "edit"}
CHECK_DEADLOCK FALSE
SYMMETRY RunSymmetry
INVARIANTS
  ArtifactsAttributed
  DigestMatches
  QuotaHeld
  RecordsExact
VIEW LiveState
