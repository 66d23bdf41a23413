SPECIFICATION Spec
CONSTANTS
  t1 = t1  t2 = t2  r1 = r1  r2 = r2
  Task = {t1}
  Worker = {w1, w2}
  Clar = {c1}
  None = None
  Root <- SharedRoot
  MaxConcurrentTasks = 2
  MaxResume = 1
  MaxDispatch = 2
  MaxInFlight = 1
  MaxCont = 1
  MaxNet = 2
  Ops = {"removeWorker", "assign"}
  Faults = {"crash", "lose", "dispatch", "stale", "restart", "reregister"}
SYMMETRY FullSymmetry
INVARIANT TypeOK
 
CHECK_DEADLOCK FALSE
