SPECIFICATION Spec
VIEW View
SYMMETRY Alike
CONSTANTS
  orders = orders
  c = c
  d = d
  users = users
  Paths = {orders, users}
  Versions = {1, 2, 3}
  Content <- ContentOf
  Rows <- RowsOf
  Distinct <- DistinctOf
  Gaps <- GapsOf
  Claims = {c, d}
  Causal = {d}
  Selections <- TwoSelections
  Forms <- FormsOf
  Times = {1, 2}
  MaxSources = 2
  MaxRuns = 1
  Missing = Missing
  NoItem = NoItem
  NoRun = NoRun
CHECK_DEADLOCK FALSE
INVARIANTS
  ValidatedMeans
  ValidatedOnRegisteredData
  ValidatedClean
  ReinspectClears
