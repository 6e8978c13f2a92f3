----------------------------- MODULE GraphEdges -----------------------------
(***************************************************************************)
(* The vocabulary of provenance/graph.py: nodes, edges, and the way        *)
(* information flows along each kind of edge. A process node is the node   *)
(* id the registry gives an incarnation, its PID and start; any other node *)
(* is a thing. Two events alike in everything and stamped alike are one:   *)
(* an edge is its kind, ends and time.                                     *)
(***************************************************************************)
EXTENDS ProcessIds

CONSTANT
  Things         (* files, sockets, keys, domains and scripts               *)

Node == NodeId \cup Things
IsProcess(n) == n \notin Things

(* EdgeKind: towards the target, towards the source, or crossed by no walk. *)
FlowsToTarget == {"forked", "wrote", "renamed", "deleted", "set_value",
                  "created_key", "deleted_key", "injected"}
FlowsToSource == {"executed", "loaded"}
Leaves == {"connected_to", "ran_as", "resolved", "accessed", "ran_script"}

Edge == [kind : FlowsToTarget \cup FlowsToSource \cup Leaves,
         src : NodeId, dst : Node, ts : Int]

(* actor_of: what is detected on a creation is about the process created.   *)
Actor(e) == IF e.kind = "forked" THEN e.dst ELSE e.src
=============================================================================
