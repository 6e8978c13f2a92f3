CONSTANTS
  p1 = p1
  p2 = p2
  n1 = n1
  n2 = n2
  k1 = k1
  None = None
  Pids <- TwoPids
  Names = {n1}
  Ticks = {k1}
  Parents <- OnePid
  Paces <- BothPaces
  MaxLifetime = 2
  DupWindow = 1
  MaxTime = 9
  MaxEvents = 4
SPECIFICATION Spec
INVARIANTS
  TimelinesSound
  IncarnationsKeptApart
  DisjointInOrder
PROPERTY PruneKeepsAnswers
CHECK_DEADLOCK FALSE
