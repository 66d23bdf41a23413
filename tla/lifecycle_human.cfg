SPECIFICATION Spec
CONSTANTS
  t1 = t1  t2 = t2  r1 = r1  r2 = r2
  Task = {t1}
  Worker = {w1, w2}
  Clar = {c1, c2}
  None = None
  Root <- SharedRoot
  MaxConcurrentTasks = 2
  MaxResume = 1
  MaxDispatch = 1
  MaxInFlight = 1
  MaxCont = 1
  MaxNet = 1
  Ops = {"clarify", "delete", "handoff", "result"}
  Faults = {"lose"}
SYMMETRY FullSymmetry
INVARIANTS BlockedAwaitsAnswer PendingClarificationIsCurrent
CHECK_DEADLOCK FALSE
