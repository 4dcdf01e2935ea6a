SPECIFICATION Spec
CONSTANTS
  a1 = a1
  a2 = a2
  a3 = a3
  p1 = p1
  p2 = p2
  shop = shop
  q1 = q1
  s1 = s1
  s2 = s2
  Actors = {a1, a2, a3}
  Processes = {p1, p2}
  ProcessOf <- MCProcessOf
  SessionIds = {s1, s2}
  Roots = {shop, q1}
  Parents <- MCParents
  CloseStatuses = {"completed", "cancelled"}
  NoActor = NoActor
  NoSession = NoSession
  NoRoot = NoRoot
  NoStatus = NoStatus
  Faults = {"crash", "kill", "cleanup"}
SYMMETRY SessionSymmetry
INVARIANTS
  NoOverlap
  OperationIsolation
  CloseDrains
  SoleExecution
PROPERTIES
  TerminalStays
  ImplementsLease
