CONSTANTS
  p1 = p1
  p2 = p2
  c1 = c1
  Producers <- TwoProducers
  Consumers <- OneConsumer
  Capacity = 2
  Policies <- AllPolicies
  TimedPut <- Either
  TimedGet <- Either
  MaxItems = 3
SPECIFICATION FairSpec
INVARIANTS
  CountersBalance
  NothingLostOrOvertaken
  NothingLeftBehind
  NoLostWakeup
PROPERTY CallsReturn
CHECK_DEADLOCK FALSE
