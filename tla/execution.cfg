SPECIFICATION FairSpec
CONSTANTS
  MaxNotes = 1
  MaxProbes = 1
  MaxFaults = 1
INVARIANTS ExecutionTypeOK ResultHasCause NothingSkipped
PROPERTY ExecutionEnds
CHECK_DEADLOCK FALSE
