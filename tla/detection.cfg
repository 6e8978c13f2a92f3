CONSTANTS
  a1 = a1
  v1 = v1
  v2 = v2
  noisy = noisy
  strong = strong
  rare = rare
  sequence = sequence
  windowed = windowed
  None = None
  Actors <- OneActor
  Shapes <- TwoStepShapes
  Lateness = 1
  MaxTime = 5
  MaxEvents = 4
  NumSteps = 2
  MaxSpan = 2
  MaxPartials = 2
  Window = 2
  Count = 2
  Distinct = TRUE
  MaxWindow = 3
  Rules <- AllRules
  Level <- MCLevel
  Threshold = 75
  HalfLife = 2
  Decayed <- MCDecayed
  SequenceId = sequence
  WindowId = windowed
  Behavioral <- BehavioralRules
  Strength <- MCStrength
  Ttl = 2
  Retention = 2
SPECIFICATION Spec
INVARIANTS
  MatchesSound
  OccurrencesFire
  FiresExactly
  OncePerHalfLife
  OneAlertPerTtl
PROPERTY QuietBetweenBreaches
CHECK_DEADLOCK FALSE
