---------------------------- MODULE AlertOutbox ----------------------------
(***************************************************************************)
(* What alert delivery promises its user, with no process, no buffer and   *)
(* no crash in sight: an alert that was accepted is owed to the reader of  *)
(* alerts.ndjson; it is published there at most once; it is settled as     *)
(* delivered only after it was published; one that was given up on may be  *)
(* asked for again, and may still be published.                            *)
(***************************************************************************)
EXTENDS Naturals, Sequences, SequencesExt

CONSTANT Alerts     \* alert ids

VARIABLES
  fate,   \* "absent", "pending", "delivered" or "dead", for each alert
  log     \* the alert ids in alerts.ndjson, in file order

outVars == <<fate, log>>

OutInit ==
  /\ fate = [a \in Alerts |-> "absent"]
  /\ log = <<>>

Become(a, f) == fate' = [fate EXCEPT ![a] = f] /\ UNCHANGED log

Accept(a) == fate[a] = "absent" /\ Become(a, "pending")

Publish(a) ==
  /\ fate[a] \in {"pending", "dead"}
  /\ a \notin ToSet(log)
  /\ log' = Append(log, a)
  /\ UNCHANGED fate

Settle(a) ==
  /\ fate[a] \in {"pending", "dead"}
  /\ a \in ToSet(log)
  /\ Become(a, "delivered")

GiveUp(S) ==
  /\ S # {}
  /\ \A a \in S : fate[a] = "pending"
  /\ fate' = [a \in Alerts |-> IF a \in S THEN "dead" ELSE fate[a]]
  /\ UNCHANGED log

Reopen(a) == fate[a] = "dead" /\ Become(a, "pending")

OutNext ==
  \/ \E a \in Alerts : Accept(a) \/ Publish(a) \/ Settle(a) \/ Reopen(a)
  \/ \E S \in SUBSET Alerts : GiveUp(S)

OutSpec == OutInit /\ [][OutNext]_outVars
=============================================================================
