SPECIFICATION Spec
CONSTANTS
  w1 = w1
  w2 = w2
  w3 = w3
  i1 = i1
  i2 = i2
  v1 = v1
  v2 = v2
  Writers = {w1, w2, w3}
  Ids = {i1, i2}
  Payloads = {v1, v2}
  Absent = Absent
  Torn = Torn
  Faults = {"dirsync"}
SYMMETRY WriterSymmetry
INVARIANTS
  NoTornRecord
  CreateOnce
PROPERTIES
  AddedSurvives
  ImplementsStore
