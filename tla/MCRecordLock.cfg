SPECIFICATION FairSpec
CONSTANTS
  t1 = t1
  t2 = t2
  t3 = t3
  t4 = t4
  p1 = p1
  p2 = p2
  Threads = {t1, t2, t3, t4}
  Processes = {p1, p2}
  NoThread = NoThread
  ProcessOf <- MCProcessOf
PROPERTIES
  AttemptsEnd
  ImplementsMutex
