-------------------------- MODULE ProvenanceGraph --------------------------
(***************************************************************************)
(* provenance/graph.py, builder.py and boundary.py: the graph events draw. *)
(* An event becomes one edge between the process that caused it, which the *)
(* registry resolves or infers, and the thing or process it acted on.      *)
(* Backward and forward walks follow information flow through time, up to  *)
(* the hubs every process descends from.                                   *)
(*                                                                         *)
(* The image name a report carries is that of its PID, so labels, and what *)
(* counts as a hub, are read off the PID.                                  *)
(***************************************************************************)
EXTENDS GraphEdges, ProcessRegistry, TLC

CONSTANTS
  ParentsOf,     (* the parents an event of a PID may report; no events for *)
                 (* a PID that has none                                     *)
  Named,         (* what an event acts on: things, or None if it fails to   *)
                 (* say                                                     *)
  ImageOf,       (* the executable of a PID, a thing or None                *)
  Hubs,          (* PIDs whose image is a boundary process                  *)
  Kinds,         (* the edge kinds the events of an instance draw           *)
  MaxBucket,     (* max_edges_per_node                                      *)
  Second,        (* ticks in the whole second the walk buckets time by      *)
  MaxDepth       (* max_depth of a walk                                     *)

VARIABLES graph,  (* nodes, edges and _adjacency                            *)
          drawn   (* what apply returned: the edge of the last event        *)

graphVars == <<vars, graph, drawn>>

CrossProcess == {"accessed", "injected"}
IsHub(n) == IsProcess(n) /\ n[1] \in Hubs

ASSUME GraphAssumption ==
  /\ None \notin Edge \cup Node
  /\ ParentsOf \in [Pids -> SUBSET (Parents \cup {None})] /\ Named \subseteq Things \cup {None}
  /\ ImageOf \in [Pids -> Things \cup {None}] /\ Hubs \subseteq Pids
  /\ Kinds \subseteq (FlowsToTarget \cup FlowsToSource \cup Leaves) \ {"forked", "executed"}
  /\ MaxBucket \in Nat /\ MaxDepth \in Nat /\ Second \in Nat \ {0}
-----------------------------------------------------------------------------
Empty == [nodes |-> {}, edges |-> {}, bucket |-> <<>>]

Bucket(g, n) == IF n \in DOMAIN g.bucket THEN g.bucket[n] ELSE <<>>

(* g with the bucket s at n.                                                *)
WithBucket(g, n, s) ==
  [g EXCEPT !.bucket = [m \in DOMAIN @ \cup {n} |-> IF m = n THEN s ELSE @[m]]]

(* upsert_node.                                                             *)
WithNode(g, n) == WithBucket([g EXCEPT !.nodes = @ \cup {n}], n, Bucket(g, n))

(* A full bucket takes no more.                                             *)
Indexed(g, n, e) ==
  WithBucket(g, n, IF Len(Bucket(g, n)) < MaxBucket THEN Append(Bucket(g, n), e)
                   ELSE Bucket(g, n))

(* add_edge: a replayed edge is the one already there.                      *)
WithEdge(g, e) ==
  IF e \in g.edges THEN g
  ELSE Indexed(Indexed([g EXCEPT !.edges = @ \cup {e}], e.src, e), e.dst, e)

(* The edges of a list that are among these, in its order.                  *)
Among(s, those) == Kept(s, {i \in DOMAIN s : s[i] \in those})

(* incident_edges.                                                          *)
IncidentEdges(g, n) == Among(Bucket(g, n), g.edges)

(* Mutant of PrunedGraph: the buckets keep what the edges lost.             *)
PrunedGraphStaleIndex(g, before) ==
  [g EXCEPT !.edges = {e \in @ : e.ts >= before}]

(* prune: the edges older than before, and the nodes that leaves without    *)
(* one, or that never had one.                                              *)
PrunedGraph(g, before) ==
  LET stale == {e \in g.edges : e.ts < before}
      kept(n) == Among(g.bucket[n], g.edges \ stale)
      gone == {n \in DOMAIN g.bucket : kept(n) = <<>>}
  IN  IF stale = {} THEN g
      ELSE [nodes |-> g.nodes \ gone, edges |-> g.edges \ stale,
            bucket |-> [n \in DOMAIN g.bucket \ gone |-> kept(n)]]
-----------------------------------------------------------------------------
(* registry.get: the newest incarnation that started then.                  *)
IncarnationAt(tls, n) ==
  LET tl == tls[n[1]] IN tl[Bisect(tl, n[2])]

(* _ensure_process_node: an unseen process comes with a fork edge from its  *)
(* parent, dated at the first sighting.                                     *)
Ensured(g, tls, ids, n) ==
  LET parent == IncarnationAt(tls, n).parentNode
  IN  IF n \in g.nodes THEN g
      ELSE IF parent \in ids
           THEN WithEdge(WithNode(WithNode(g, n), parent),
                         [kind |-> "forked", src |-> parent, dst |-> n, ts |-> n[2]])
           ELSE WithNode(g, n)

(* What an event leaves: the registry's part, the graph and the edge drawn. *)
Drew(tls, new, g, e) == [timelines |-> tls, new |-> new, graph |-> g, edge |-> e]

(* apply, for the families that act on a thing (None: the event names none). *)
Acted(kind, p, t, thing, par) ==
  LET seen == Seen(timeline, p, t, None, par)
      g == Ensured(graph, seen.timelines, known \cup seen.new, seen.node)
      e == [kind |-> kind, src |-> seen.node, dst |-> thing, ts |-> t]
  IN  IF thing = None THEN Drew(seen.timelines, seen.new, g, None)
      ELSE Drew(seen.timelines, seen.new, WithEdge(WithNode(g, thing), e), e)

(* _apply_cross_process: both ends are resolved at t.                       *)
Crossed(kind, p, q, t, par) ==
  LET seen == Seen(timeline, p, t, None, par)
      target == Seen(seen.timelines, q, t, None, None)
      ids == known \cup seen.new \cup target.new
      g == Ensured(Ensured(graph, seen.timelines, ids, seen.node),
                   target.timelines, ids, target.node)
      e == [kind |-> kind, src |-> seen.node, dst |-> target.node, ts |-> t]
  IN  Drew(target.timelines, seen.new \cup target.new, WithEdge(g, e), e)

LastOf(s) == IF s = <<>> THEN None ELSE s[Len(s)]

(* _apply_process_create, of an incarnation of p that is linked to parent:  *)
(* a creation already drawn hands back its fork edge, if it has one.        *)
Created(n, parent, p, t, ids) ==
  LET g == WithNode(graph, n)
      executed == Among(IncidentEdges(g, n), {e \in g.edges : e.kind = "executed" /\ e.src = n})
      forked == Among(IncidentEdges(g, n), {e \in g.edges : e.kind = "forked" /\ e.dst = n})
      linked == IF parent \in ids THEN WithNode(g, parent) ELSE g
      image == IF ImageOf[p] = None THEN linked
               ELSE WithEdge(WithNode(linked, ImageOf[p]),
                             [kind |-> "executed", src |-> n, dst |-> ImageOf[p], ts |-> t])
      e == [kind |-> "forked", src |-> parent, dst |-> n, ts |-> t]
  IN  IF executed \o forked # <<>> THEN [graph |-> g, edge |-> LastOf(forked)]
      ELSE IF parent = None THEN [graph |-> image, edge |-> None]
      ELSE [graph |-> WithEdge(image, e), edge |-> e]
-----------------------------------------------------------------------------
GraphInit == Init /\ graph = Empty /\ drawn = None

Record(t, result) ==
  /\ Observe(t)
  /\ timeline' = result.timelines
  /\ known' = known \cup result.new
  /\ graph' = result.graph
  /\ drawn' = result.edge
  /\ UNCHANGED reports

(* A creation report: the incarnation is the first it is a repeat of, or    *)
(* the one it starts.                                                       *)
Create(p, t, par) ==
  LET same == {i \in DOMAIN timeline[p] : SameCreation(timeline[p][i], t, None, par)}
      i == IF same # {} THEN CHOOSE j \in same : \A m \in same : j <= m
           ELSE Bisect(timeline[p], t) + 1
  IN  /\ ObserveStart(p, t, None, None, par)
      /\ LET inc == timeline'[p][i]
             made == Created(<<p, inc.start>>, inc.parentNode, p, t, known')
         IN graph' = made.graph /\ drawn' = made.edge

Act(kind, p, t, thing, par) == Record(t, Acted(kind, p, t, thing, par))
Cross(kind, p, q, t, par) == Record(t, Crossed(kind, p, q, t, par))
Stop(p, t) == ObserveStop(p, t) /\ drawn' = None /\ UNCHANGED graph

Event(t) ==
  \E p \in Pids :
    \/ Stop(p, t)
    \/ \E par \in ParentsOf[p] \ {p} :
         \/ Create(p, t, par)
         \/ \E kind \in Kinds \ CrossProcess, thing \in Named :
              Act(kind, p, t, thing, par)
         \/ \E kind \in Kinds \cap CrossProcess, q \in {q \in Pids \ {p} : ParentsOf[q] # {}} :
              Cross(kind, p, q, t, par)

PruneGraph(before) ==
  /\ Prune(before)
  /\ graph' = PrunedGraph(graph, before)
  /\ drawn' = None
=============================================================================
