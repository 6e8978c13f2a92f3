CONSTANTS
  a1 = a1
  a2 = a2
  Alerts <- TwoAlerts
  MaxAttempts = 2
  Faults = {"sync", "spool", "corrupt"}
  MaxMade = 2
  MaxCrashes = 2
  MaxRequeues = 2
  MaxFaults = 4
SPECIFICATION Spec
SYMMETRY AlertSymmetry
INVARIANT NoDuplicateLines
PROPERTY ImplementsOutbox
