-------------------------- MODULE MCAlertDelivery --------------------------
(* Instances of AlertDelivery for TLC.                                     *)
EXTENDS AlertDelivery, TLC

CONSTANTS a1, a2

OneAlert == {a1}
TwoAlerts == {a1, a2}
AlertSymmetry == Permutations({a1, a2})

AllFaults == FaultKinds
=============================================================================
