SPECIFICATION FairSpec
CONSTANTS
  q1 = q1
  Queries = {q1}
  RowLimit = 1
  SpillRows = 2
  MaxFileBytes = 1
  MaxTotalBytes = 2
  MaxRows = 4
  MaxBytes = 2
  MaxEdits = 1
  MaxCalls = 2
  NoRecord = NoRecord
  s1 = s1
  s2 = s2
  SourceIds = {s1, s2}
  ViewNames <- MCViewNames
  Texts <- MCTexts
  Budget = 16
  CellChars = 4
  Limit = 2
  MaxColumns = 3
  MinCell = 1
  ScalarBytes = 5
  NameBytes = 2
  MetadataBytes = 3
  Results <- MCResults
  Faults = {"edit", "bind", "add"}
CHECK_DEADLOCK FALSE
INVARIANTS
  TypeOK
  QuotaHeld
  QueriesAccounted
  ResultWhole
  QueriesAsChecked
  PreviewsFit
PROPERTIES
  QueriesEnd
