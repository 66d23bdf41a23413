SPECIFICATION FairSpec
CONSTANTS
  Session = {s1}
  MaxCalls = 3
  Task = {t1}
  None = None
  MaxRetries = 1
  MaxRuns = 3
  MaxFailures = 1
  Ops = {"delete","ask","bind"}
  Faults = {"starting", "reading", "error", "cleanup"}
INVARIANTS IntakeTypeOK ManifestsReachTheirRun TasksAreClaimed
PROPERTIES ImplementsLock EveryCallEnds PruneSparesOpenTasks
CHECK_DEADLOCK FALSE
