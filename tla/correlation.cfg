CONSTANTS
  hub = hub
  a = a
  b = b
  f = f
  r1 = r1
  r2 = r2
  r3 = r3
  access = access
  control = control
  hiding = hiding
  None = None
  NoTactic = NoTactic
  Pids = {hub, a, b}
  Names = {}
  Ticks = {}
  Parents = {hub, a, b}
  ParentsOf <- Trees
  Named = {f}
  Things = {f}
  ImageOf <- Images
  Hubs = {hub}
  Kinds = {"wrote", "injected"}
  External = {}
  TraitsOf <- Traits
  MaxLifetime = 9
  DupWindow = 2
  Paces <- BothPaces
  MaxTime = 4
  MaxEvents = 3
  MaxBucket = 9
  Second = 1
  MaxDepth = 3
  Rules = {r1, r2, r3}
  LevelOf <- RuleLevels
  TacticOf <- RuleTactics
  Terminal = {control}
  AnchorMinLevel = 10
  MinStages = 2
  MinTactics = 2
  Horizon = 3
  Findings <- SomeFindings
SPECIFICATION CSpec
INVARIANTS
  IndexExact
  WalkIsCausal
  IncidentsDisjoint
  AlertsSound
PROPERTY NothingForgotten
CHECK_DEADLOCK FALSE
