SPECIFICATION FairSpec
CONSTANTS
  Worker = {w1}
  Task = {t1}
  None = None
  Reuse = TRUE
  MinPerRole = 0
  MaxPerRole = 1
  KnowsChild = TRUE
  MaxFaults = 1
  Faults = {"late", "port", "config", "exit", "crash", "stop"}
INVARIANT RegisteredIsOnline
PROPERTY DemandIsServed
CHECK_DEADLOCK FALSE
