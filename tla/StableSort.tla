----------------------------- MODULE StableSort -----------------------------
(***************************************************************************)
(* What sorted() and list.sort of Python do: positions put in the order of *)
(* their keys, tuples of numbers of one length, and of equal keys the       *)
(* earlier position first.                                                 *)
(***************************************************************************)
EXTENDS Integers, Sequences, FiniteSets

(* The order of tuples.                                                    *)
Before(a, b) ==
  \E i \in DOMAIN a : a[i] < b[i] /\ \A j \in 1 .. i - 1 : a[j] = b[j]

(* The positions in S that come before i.                                  *)
Ahead(S, key, i) ==
  {j \in S : Before(key[j], key[i]) \/ (key[j] = key[i] /\ j < i)}

(* The one that is k-th of S, and all of them in order.                     *)
Nth(S, key, k) == CHOOSE i \in S : Cardinality(Ahead(S, key, i)) = k - 1
InOrder(S, key) == [k \in 1 .. Cardinality(S) |-> Nth(S, key, k)]
=============================================================================
