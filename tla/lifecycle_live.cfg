SPECIFICATION FairSpec
CONSTANTS
  t1 = t1  t2 = t2  r1 = r1  r2 = r2
  Task = {t1, t2}
  Worker = {w1, w2}
  Clar = {c1}
  None = None
  Root <- OwnRoots
  MaxConcurrentTasks = 2
  MaxResume = 1
  MaxDispatch = 2
  MaxInFlight = 2
  MaxCont = 1
  MaxNet = 6
  Ops = {"patch"}
  Faults = {}
INVARIANTS AssignedHasCarrier ExecutedOnce
PROPERTY EveryTaskSettles
CHECK_DEADLOCK FALSE
