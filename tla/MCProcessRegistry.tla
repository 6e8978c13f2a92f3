------------------------- MODULE MCProcessRegistry -------------------------
(* Instances of ProcessRegistry for TLC.                                   *)
EXTENDS ProcessRegistry, TLC

CONSTANTS p1, p2, n1, n2, k1

OnePid == {p1}
TwoPids == {p1, p2}

(* A short stream in any order, and a longer one in order.                 *)
Disordered == [gap |-> -4, horizon |-> 4]
Ordered == [gap |-> 2, horizon |-> 9]

BothPaces == {Disordered, Ordered}
=============================================================================
