CONSTANTS
  Capacity = 1
  Policies <- AllPolicies
  DrainPolicies <- Either
  Caps <- TwoOrNone
  Stoppers = {"event"}
  MaxItems = 2
  MaxInterrupts = 0
SPECIFICATION FairSpec
PROPERTIES
  StopFinishes
CHECK_DEADLOCK FALSE
