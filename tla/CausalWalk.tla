----------------------------- MODULE CausalWalk -----------------------------
(***************************************************************************)
(* The walks of provenance/graph.py, and tree_root of enrichment.py: what  *)
(* led to a process, what it led to, and the entry point of its tree.      *)
(***************************************************************************)
EXTENDS ProvenanceGraph

(* The node information came from, along e into n, and where it went.       *)
Upstream(e, n) ==
  IF e.kind \in FlowsToTarget /\ e.dst = n THEN e.src
  ELSE IF e.kind \in FlowsToSource /\ e.src = n THEN e.dst ELSE None
Downstream(e, n) ==
  IF e.kind \in FlowsToTarget /\ e.src = n THEN e.dst
  ELSE IF e.kind \in FlowsToSource /\ e.dst = n THEN e.src ELSE None

(* Mutant of WalkEdge: a node is left at the end of its second.             *)
WalkEdgeLate(g, n, depth, w, e) ==
  LET other == Upstream(e, n)
      state == <<other, e.ts \div Second>>
      walked == [w EXCEPT !.edges = @ \cup {e}, !.nodes = @ \cup ({other} \cap g.nodes)]
  IN  IF other \in g.nodes /\ IsHub(other)
      THEN [walked EXCEPT !.hubs = @ \cup {other}]
      ELSE IF state \in w.seen THEN walked
      ELSE [walked EXCEPT !.seen = @ \cup {state},
                          !.queue = Append(@, <<other, e.ts + Second, depth + 1>>)]

(* One edge of backward's inner loop. A state is a node and a whole second. *)
WalkEdge(g, n, depth, w, e) ==
  LET other == Upstream(e, n)
      state == <<other, e.ts \div Second>>
      walked == [w EXCEPT !.edges = @ \cup {e}, !.nodes = @ \cup ({other} \cap g.nodes)]
  IN  IF other \in g.nodes /\ IsHub(other)
      THEN [walked EXCEPT !.hubs = @ \cup {other}]
      ELSE IF state \in w.seen THEN walked
      ELSE [walked EXCEPT !.seen = @ \cup {state},
                          !.queue = Append(@, <<other, e.ts, depth + 1>>)]

(* The edges information came to n along, in the order n lists them.        *)
Into(g, floor, n, bound) ==
  Among(Bucket(g, n),
        {e \in g.edges : Upstream(e, n) # None /\ floor <= e.ts /\ e.ts <= bound})

(* One turn of backward's loop: the first in the queue, if any, is opened.  *)
WalkNode(g, floor, w) ==
  LET n == Head(w.queue)[1]
      depth == Head(w.queue)[3]
      open == Into(g, floor, n, Head(w.queue)[2])
      walk[i \in 0 .. Len(open)] ==
        IF i = 0 THEN [w EXCEPT !.queue = Tail(@)] ELSE WalkEdge(g, n, depth, walk[i - 1], open[i])
  IN  IF w.queue = <<>> THEN w
      ELSE IF depth >= MaxDepth THEN [w EXCEPT !.queue = Tail(@)] ELSE walk[Len(open)]

(* Breadth first, until no state is left to open: each is queued once, and  *)
(* an edge makes at most one, so there are no more turns than these.        *)
WalkBack(g, floor, start) ==
  LET turns == Cardinality(g.edges) + 1
      walk[i \in 0 .. turns] ==
        IF i = 0 THEN start ELSE WalkNode(g, floor, walk[i - 1])
  IN  walk[turns]

(* backward. max_edges, 2000, is out of an instance's reach.                *)
Backward(g, start, t, floor) ==
  WalkBack(g, floor, [queue |-> <<<<start, t, 0>>>>, seen |-> {}, edges |-> {},
                      nodes |-> {start} \cap g.nodes, hubs |-> {}])

(* One edge of forward_processes' inner loop: a process is entered once,    *)
(* with the bound it is first found at.                                     *)
ReachEdge(g, n, w, e) ==
  LET next == Downstream(e, n)
  IN  IF \/ next \notin g.nodes
         \/ IsProcess(next) /\ (next \in w.reached \/ IsHub(next))
      THEN w
      ELSE [reached |-> w.reached \cup (IF IsProcess(next) THEN {next} ELSE {}),
            queue |-> Append(w.queue, <<next, e.ts>>)]

(* The edges information went from n along, in the order n lists them.      *)
OutOf(g, n, bound) ==
  Among(Bucket(g, n), {e \in g.edges : Downstream(e, n) # None /\ bound <= e.ts})

(* One turn of forward's loop: s, a node and its bound, is opened.          *)
ReachNode(g, w, s) ==
  LET open == OutOf(g, s[1], s[2])
      walk[i \in 0 .. Len(open)] ==
        IF i = 0 THEN w ELSE ReachEdge(g, s[1], walk[i - 1], open[i])
  IN  walk[Len(open)]

(* The turns for all that was found at one depth. They queue the next: the  *)
(* queue holds one depth behind the other.                                  *)
ReachDepth(g, w) ==
  LET walk[i \in 0 .. Len(w.queue)] ==
        IF i = 0 THEN [w EXCEPT !.queue = <<>>] ELSE ReachNode(g, walk[i - 1], w.queue[i])
  IN  walk[Len(w.queue)]

(* forward_processes. max_nodes, 500, is out of reach too.                  *)
Forward(g, start, t) ==
  LET walk[depth \in 0 .. MaxDepth] ==
        IF depth = 0 THEN [queue |-> <<<<start, t>>>>, reached |-> {start}]
        ELSE ReachDepth(g, walk[depth - 1])
  IN  walk[MaxDepth].reached

(* The parent link of a process that is known.                              *)
ParentOf(n) == IF n \in known THEN IncarnationAt(timeline, n).parentNode ELSE None

(* ancestors, nearest first: the parent links that are still resolvable, up *)
(* to its max_depth.                                                        *)
Ancestors(n) ==
  LET up[i \in 0 .. 16] ==
        IF i = 0 THEN <<>>
        ELSE LET chain == up[i - 1]
                 parent == ParentOf(IF chain = <<>> THEN n ELSE LastOf(chain))
             IN  IF parent \notin known \ ({n} \cup Range(chain)) THEN chain
                 ELSE Append(chain, parent)
  IN  up[16]

(* tree_root: the topmost ancestor below a hub, of a process that is known. *)
TreeRoot(n) ==
  LET up == Ancestors(n)
      below == {i \in DOMAIN up : \A j \in 1 .. i : ~IsHub(up[j])}
  IN  IF below = {} THEN n ELSE up[Max(below)]
-----------------------------------------------------------------------------
(* What it means to precede: a state is a node and the time by which it     *)
(* mattered, and the causes are all that s0 leads back to, over so many     *)
(* edges at most, without passing a hub.                                    *)
Opens(g, s0, s) == s = s0 \/ s[1] \notin g.nodes \/ ~IsHub(s[1])
Preceding(g, floor, s) ==
  {<<Upstream(e, s[1]), e.ts>> : e \in
     {e \in g.edges : Upstream(e, s[1]) # None /\ floor <= e.ts /\ e.ts <= s[2]}}
Further(g, floor, s0, S) ==
  S \cup UNION {Preceding(g, floor, s) : s \in {s \in S : Opens(g, s0, s)}}

Causes(g, floor, s0, edges) ==
  LET reach[i \in 0 .. edges] == IF i = 0 THEN {s0} ELSE Further(g, floor, s0, reach[i - 1])
  IN  reach[edges]

(* What it means to follow, by the same measure.                            *)
Following(g, s) ==
  {<<Downstream(e, s[1]), e.ts>> : e \in
     {e \in g.edges : Downstream(e, s[1]) # None /\ s[2] <= e.ts}}
FurtherOn(g, s0, S) == S \cup UNION {Following(g, s) : s \in {s \in S : Opens(g, s0, s)}}

Effects(g, s0, edges) ==
  LET reach[i \in 0 .. edges] == IF i = 0 THEN {s0} ELSE FurtherOn(g, s0, reach[i - 1])
  IN  reach[edges]
=============================================================================
