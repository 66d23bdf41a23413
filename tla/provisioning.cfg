SPECIFICATION Spec
CONSTANTS
  Worker = {w1, w2, w3}
  Task = {}
  None = None
  Reuse = FALSE
  MinPerRole = 1
  MaxPerRole = 1
  KnowsChild = FALSE
  MaxFaults = 1
  Faults = {"late", "slow", "launch", "terminate", "delete"}
SYMMETRY WorkerSymmetry
INVARIANTS ProvTypeOK WithinMaxPlusOne LeaksAreMissed
PROPERTY RetiredStaysRetired
CHECK_DEADLOCK FALSE
