--------------------------- MODULE MCCorrelation ---------------------------
(* Instances of Correlation for TLC.                                       *)
EXTENDS Correlation

CONSTANTS hub, a, b, f, r1, r2, r3, access, control, hiding

(* A file that is b's image: what a writes there, b runs.                  *)
Images == (hub :> None) @@ (a :> None) @@ (b :> f)
Traits == (hub :> {}) @@ (a :> {"initial_access"}) @@ (b :> {"user_writable"})

(* Events come from a, a child of the hub, and b, a child of either.        *)
Trees == (hub :> {}) @@ (a :> {hub}) @@ (b :> {hub, a})

(* A terminal tactic at anchor level, and two that are not.                *)
RuleLevels == (r1 :> 13) @@ (r2 :> 8) @@ (r3 :> 8)
RuleTactics == (r1 :> control) @@ (r2 :> access) @@ (r3 :> hiding)

(* No detection, one that opens nothing, or two that do on one event.      *)
SomeFindings == {<<>>, <<r3>>, <<r1, r2>>}

InOrderPace == [gap |-> 1, horizon |-> 4]
AnyOrder == [gap |-> -3, horizon |-> 3]
BothPaces == {InOrderPace, AnyOrder}
=============================================================================
