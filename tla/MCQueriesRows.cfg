SPECIFICATION Spec
CONSTANTS
  q1 = q1
  Queries = {q1}
  RowLimit = 3
  SpillRows = 1
  MaxFileBytes = 2
  MaxTotalBytes = 3
  MaxRows = 4
  MaxBytes = 1
  MaxEdits = 0
  MaxCalls = 0
  NoRecord = NoRecord
  s1 = s1
  s2 = s2
  SourceIds = {s1, s2}
  ViewNames <- MCViewNames
  Texts = {}
  Budget = 16
  CellChars = 4
  Limit = 2
  MaxColumns = 3
  MinCell = 1
  ScalarBytes = 5
  NameBytes = 2
  MetadataBytes = 3
  Results = {}
  Faults = {}
CHECK_DEADLOCK FALSE
INVARIANTS
  ResultWhole
