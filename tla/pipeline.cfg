CONSTANTS
  Capacity = 1
  Policies = {"block", "drop_oldest"}
  DrainPolicies <- Either
  Caps <- TwoOrNone
  Stoppers = {"event", "duration", "request", "interrupt", "error"}
  MaxItems = 3
  MaxInterrupts = 1
SPECIFICATION FairSpec
INVARIANTS
  EventsSettled
PROPERTIES
  ResultIsFinal
  RunEnds
CHECK_DEADLOCK FALSE
