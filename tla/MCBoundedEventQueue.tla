------------------------ MODULE MCBoundedEventQueue ------------------------
(* An instance of BoundedEventQueue for TLC.                               *)
EXTENDS BoundedEventQueue

CONSTANTS p1, p2, c1

TwoProducers == {p1, p2}
OneConsumer == {c1}
AllPolicies == {"block", "drop_newest", "drop_oldest"}
Either == {TRUE, FALSE}
=============================================================================
