SPECIFICATION FairSpec
CONSTANTS
  p1 = p1
  p2 = p2
  Comment = {}
  Write = {w1}
  Section = {}
  Pass <- Passes
  boot = boot
  MaxRetries = 1
  MaxFaults = 2
INVARIANTS DeliveryTypeOK  RepliesAreBounded
 
CHECK_DEADLOCK FALSE
