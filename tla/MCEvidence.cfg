SPECIFICATION Spec
CONSTANTS
  s = s
  t = t
  e = e
  f = f
  a = a
  i = i
  j = j
  k = k
  Sources = {s}
  Execs = {e, f}
  Arts = {a}
  Ids = {i, j, k}
  NoExec = NoExec
  NoRecord = NoRecord
SYMMETRY IdSymmetry
CHECK_DEADLOCK FALSE
INVARIANTS
  Grounded
  CycleCheckIdle
  ChainReal
