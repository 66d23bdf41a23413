SPECIFICATION FairSpec
CONSTANTS
  r1 = r1
  Issue = {i1}
  Pull = {p1}
  Roles <- OneRole
  MaxPerSweep = 1
  MaxPerDay = 1
  HardLimit = 1
  TotalLimit = 2
  FirstSweepDryRun = TRUE
  MaxTime = 2
  MaxFaults = 1
  Faults = {"fetch", "write", "crash", "read"}
INVARIANTS SweepTypeOK AttemptsAreBounded CreatedWithinBudget
CHECK_DEADLOCK FALSE
PROPERTIES SweepsGoOn EveryUpdateIsSeen
