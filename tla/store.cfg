SPECIFICATION FairSpec
CONSTANTS
  Update = {u1, u2, u3}
  None = None
  MaxStarts = 3
  Faults = {"crash", "write", "read"}
INVARIANTS CompletedSavesAreStored
PROPERTIES ImplementsRegister EveryUpdateIsStored
CHECK_DEADLOCK FALSE
