SPECIFICATION FairSpec
CONSTANTS
  i = i
  j = j
  k = k
  ItemIds = {i, j, k}
  Depth = 3
CHECK_DEADLOCK FALSE
INVARIANTS
  Exact
PROPERTIES
  Ends
