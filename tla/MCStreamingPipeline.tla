------------------------ MODULE MCStreamingPipeline ------------------------
(* Instances of StreamingPipeline for TLC.                                 *)
EXTENDS StreamingPipeline

AllPolicies == {"block", "drop_newest", "drop_oldest"}
Either == {TRUE, FALSE}
(* max_events = 2, or none.                                                *)
TwoOrNone == {2, MaxItems + 1}
=============================================================================
