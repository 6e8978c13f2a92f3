---------------------------- MODULE Correlation ----------------------------
(***************************************************************************)
(* How detection_run.py, factory.py and provenance/ put one event through: *)
(* the registry and the graph record it, its detections are tagged on the  *)
(* edge it drew, and each tag is correlated over what the walks from that  *)
(* edge reach. prune drops what is older than a time from all of it.       *)
(* Which rules match an event is left open; DetectionRun has the matching. *)
(***************************************************************************)
EXTENDS CausalWalk, IncidentTracker

CONSTANTS
  Findings,      (* what the rules of an instance may find in an event      *)
  TraitsOf,      (* what is known of the image and command line of a PID    *)
  External       (* the things that are sockets at public addresses         *)

VARIABLES
  todo,          (* the tags of the last event still to be correlated       *)
  fresh          (* history: each event so far was the latest and drew an   *)
                 (* edge of its own time, if one; none was late, and none   *)
                 (* reported a creation again                               *)

correlationVars == <<graphVars, trackerVars, todo, fresh>>

ASSUME CorrelationAssumption ==
  /\ Findings \subseteq Seq(Rules) /\ External \subseteq Things
  /\ TraitsOf \in [Pids -> SUBSET {"initial_access", "user_writable", "obfuscated"}]

CorrelationTypeOK ==
  /\ timeline \in [Pids -> Seq(Incarnation)] /\ known \subseteq NodeId
  /\ graph.edges \subseteq Edge /\ graph.nodes \subseteq Node
  /\ drawn \in graph.edges \cup {None}
  /\ TrackerTypeOK
  /\ todo \in Seq(Rules) /\ (todo # <<>> => drawn # None)
  /\ fresh \in BOOLEAN

CInit == GraphInit /\ TrackerInit /\ todo = <<>> /\ fresh = TRUE
-----------------------------------------------------------------------------
TagOf(e, r) == [edge |-> e, rule |-> r]

(* on_tag's causal scope, of the processes the graph or the registry knows: *)
(* what led to the actor of the edge, and everything its tree's entry point *)
(* led to.                                                                  *)
ScopeOf(e) ==
  LET walk == Backward(graph, Actor(e), e.ts, e.ts - Horizon)
      entry == TreeRoot(Actor(e))
      led == IF Actor(e) \in known /\ ~IsHub(entry)
             THEN Forward(graph, entry, e.ts - Horizon) ELSE {}
  IN  {Actor(e)} \cup {n \in graph.nodes \cup known :
                        IsProcess(n) /\ n \in (walk.nodes \ walk.hubs) \cup led}

(* _external_connection.                                                    *)
Connects(n) ==
  \E i \in DOMAIN IncidentEdges(graph, n) :
    LET e == IncidentEdges(graph, n)[i]
    IN  e.kind = "connected_to" /\ e.src = n /\ e.dst \in External \cap graph.nodes

(* _place_root and the context factors of _score: the earliest detection in *)
(* an incident says where it is rooted.                                     *)
Context(inc) ==
  LET tags == Collected(inc)
      first == CHOOSE t \in tags : \A u \in tags : t.edge.ts <= u.edge.ts
      traits == UNION {TraitsOf[n[1]] : n \in inc.scope \cap known}
      rooted == /\ tags # {} /\ Actor(first.edge) \in known
                /\ "initial_access" \in TraitsOf[TreeRoot(Actor(first.edge))[1]]
  IN  (IF rooted THEN 100 ELSE 0)
        + (IF "user_writable" \in traits THEN 80 ELSE 0)
        + (IF \E n \in inc.scope : Connects(n) THEN 70 ELSE 0)
        + (IF "obfuscated" \in traits THEN 50 ELSE 0)

(* process_event, up to the tags on the edge: no edge, nothing to tag.      *)
ProcessEvent(t) ==
  /\ todo = <<>>
  /\ Event(t)
  /\ fresh' = (fresh /\ t >= clock /\ (drawn' # None => drawn'.ts = t))
  /\ \E found \in Findings :
       /\ todo' = IF drawn' = None THEN <<>> ELSE found
       /\ Attach({TagOf(drawn', todo'[i]) : i \in DOMAIN todo'})

(* The next tag of the event is correlated.                                 *)
Correlate ==
  LET tag == TagOf(drawn, Head(todo))
      scope == ScopeOf(drawn)
  IN  /\ todo # <<>>
      /\ todo' = Tail(todo)
      /\ UNCHANGED <<graphVars, fresh>>
      /\ \/ Ignore(tag, scope)
         \/ Open(tag, scope, Context(Opened(scope, tag.edge.ts)))
         \/ \E keep \in Oldest(scope) :
              Join(keep, tag, scope, Context(Merged(keep, scope, tag.edge.ts)))

(* DetectionContext.prune.                                                  *)
PruneAll(before) ==
  /\ todo = <<>>
  /\ PruneGraph(before)
  /\ PruneIncidents(before)
  /\ UNCHANGED <<todo, fresh>>

CNext ==
  \/ Correlate
  \/ \E t \in Times : ProcessEvent(t) \/ PruneAll(t)

CSpec == CInit /\ [][CNext]_correlationVars
-----------------------------------------------------------------------------
(* All of the state is typed, and the adjacency index and the edges agree,  *)
(* whatever was pruned: a live edge is found from both its ends, and no     *)
(* walk meets a dead one.                                                   *)
IndexExact ==
  /\ CorrelationTypeOK
  /\ \A e \in graph.edges : \A n \in {e.src, e.dst} :
       e \in {Bucket(graph, n)[i] : i \in DOMAIN Bucket(graph, n)}
  /\ \A n \in DOMAIN graph.bucket : \A i \in DOMAIN graph.bucket[n] :
       graph.bucket[n][i] \in graph.edges

(* The walk from an event's actor reaches all that led to it, "everything   *)
(* that causally precedes", up to the depth it is allowed, and nothing      *)
(* else: no future, no sibling below a hub, whatever the order in which the *)
(* queue visits them and whatever a second visit to a node would open.      *)
WalkIsCausal ==
  drawn # None =>
    LET s0 == <<Actor(drawn), drawn.ts>>
        floor == drawn.ts - Horizon
    IN  Backward(graph, s0[1], s0[2], floor).nodes
          = {s[1] : s \in Causes(graph, floor, s0, MaxDepth)} \cap graph.nodes

(* No two alerts of an ordered stream share an id (the spool would take the *)
(* second for a repeat). And once an event is through, every tactic seen    *)
(* among an open incident's processes has been in one of its alerts:        *)
(* nothing material waits for the next detection, however scopes grew and   *)
(* merged.                                                                  *)
AlertsSound ==
  fresh =>
    /\ AlertIdsUnique
    /\ todo = <<>> =>
         \A i \in DOMAIN incidents :
           TacticsOf({t \in tagged : /\ Actor(t.edge) \in incidents[i].scope
                                      /\ t.edge.ts >= incidents[i].opened - Horizon})
             \subseteq incidents[i].tactics

(* An incident ends in one of two ways: whole, in the one it is merged      *)
(* into, or quiet, with no detection of its processes left since the time   *)
(* prune goes by. "Close and forget incidents with no activity since".      *)
EndsWholeOrQuiet ==
  \A i \in DOMAIN incidents \ DOMAIN incidents' :
    \/ \E j \in DOMAIN incidents' : incidents[i].scope \subseteq incidents'[j].scope
    \/ \A t \in tagged' : Actor(t.edge) \notin incidents[i].scope
NothingForgotten == [][fresh => EndsWholeOrQuiet]_correlationVars

(* The activity of an incident that is merged into another counts for that  *)
(* one: prune closes "incidents with no activity since".                    *)
ActivityKept ==
  [][\A i \in DOMAIN incidents \ DOMAIN incidents', j \in DOMAIN incidents' :
       incidents[i].scope \subseteq incidents'[j].scope
         => incidents[i].last <= incidents'[j].last]_correlationVars
=============================================================================
