CONSTANTS
  a1 = a1
  a2 = a2
  Alerts <- TwoAlerts
  MaxAttempts = 2
  Faults <- AllFaults
  MaxMade = 2
  MaxCrashes = 1
  MaxRequeues = 1
  MaxFaults = 3
SPECIFICATION FairSpec
INVARIANTS
  DeliveredInFile
  RowsSound
  ClaimsStaySound
PROPERTIES
  EveryAlertSettles
