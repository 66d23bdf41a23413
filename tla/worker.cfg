SPECIFICATION FairSpec
CONSTANTS
  i1 = i1
  i2 = i2
  none = none
  Id <- Ids
  Requested <- SetOrNot
  Tick = {k1, k2}
  main = main
  FailureLimit = 3
  MaxOutages = 1
  MaxFaults = 2
INVARIANTS SessionTypeOK SilenceHasCause ReportsAsRegistered StopLeavesNoIdentity
 
CHECK_DEADLOCK FALSE
