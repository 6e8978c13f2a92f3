----------------------------- MODULE ProcessIds -----------------------------
(***************************************************************************)
(* What names a process in provenance/: derive_node_id hashes its PID and  *)
(* start time, so a node id is that pair.                                  *)
(***************************************************************************)
EXTENDS Integers

CONSTANT Pids    (* process ids                                            *)

NodeId == Pids \X Int
=============================================================================
