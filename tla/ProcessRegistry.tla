-------------------------- MODULE ProcessRegistry --------------------------
(***************************************************************************)
(* provenance/identity.py: which process an event belongs to. Each PID has *)
(* a timeline of incarnations, each live over [start, end); an event is    *)
(* resolved to the latest one started by then, if it was still live. Ends  *)
(* are mostly inferred from successors, starts of unseen processes from    *)
(* the first event that names them, and events come late and twice.        *)
(*                                                                         *)
(* One host: (host_id, pid) is the key and no step touches two hosts. Time *)
(* counts the microseconds of the code, where inference steps back by one. *)
(* A node id is the pair of PID and start time it is the hash of.          *)
(* _by_node_id always yields the newest timeline entry of its id, so that  *)
(* the set of its keys is all there is to keep of it.                      *)
(***************************************************************************)
EXTENDS ProcessIds, FiniteSets, Sequences, SequencesExt

CONSTANTS
  Names,         (* image names                                             *)
  Ticks,         (* OS creation tokens (start_time_ticks)                   *)
  Parents,       (* parent PIDs a report may carry                          *)
  None,          (* an absent field                                         *)
  MaxLifetime,   (* max_lifetime                                            *)
  DupWindow,     (* DUPLICATE_START_WINDOW                                  *)
  Paces,         (* how a stream may run, see pace                          *)
  MaxTime,       (* bound: event timestamps are 1 .. MaxTime                *)
  MaxEvents      (* bound: events and prunes observed                       *)

ASSUME RegistryAssumption ==
  /\ Parents \subseteq Pids
  /\ None \notin Int \cup Names \cup Ticks \cup Pids
  /\ MaxLifetime \in Nat /\ DupWindow \in Nat
  /\ Paces \subseteq [gap : Int, horizon : 0 .. MaxTime]
  /\ MaxTime \in Nat /\ MaxEvents \in Nat

VARIABLES
  pace,       (* an event is stamped at least pace.gap after the latest one *)
              (* (negative: it may be late) and at most pace.horizon        *)
  timeline,   (* _timeline: the incarnations of each PID, by start time     *)
  known,      (* the keys of _by_node_id                                    *)
  clock,      (* timestamp of the latest event                              *)
  steps,      (* events and prunes so far                                   *)
  reports     (* history: creation reports that carried ticks               *)

vars == <<pace, timeline, known, clock, steps, reports>>

Times == 1 .. MaxTime

Incarnation ==
  [start : Int, end : Int \cup {None}, name : Names \cup {None},
   ticks : Ticks \cup {None}, parent : Pids \cup {None},
   parentNode : NodeId \cup {None}, inferred : BOOLEAN, endObserved : BOOLEAN]

TypeOK ==
  /\ pace \in Paces
  /\ timeline \in [Pids -> Seq(Incarnation)]
  /\ known \subseteq NodeId
  /\ clock \in 0 .. MaxTime
  /\ steps \in 0 .. MaxEvents
  /\ reports \subseteq Pids \X Times \X Ticks

Init ==
  /\ pace \in Paces
  /\ timeline = [p \in Pids |-> <<>>]
  /\ known = {}
  /\ clock = 0 /\ steps = 0
  /\ reports = {}
-----------------------------------------------------------------------------
(* Mutant of Bisect: bisect_left.                                           *)
BisectLeft(tl, t) == Cardinality({i \in DOMAIN tl : tl[i].start < t})

(* bisect_right over the start times of a timeline.                         *)
Bisect(tl, t) == Cardinality({i \in DOMAIN tl : tl[i].start <= t})

Covers(inc, t) ==
  /\ inc.start <= t
  /\ IF inc.end # None THEN t < inc.end ELSE t - inc.start <= MaxLifetime

(* resolve: the position of the incarnation live at t, or 0.                *)
Resolve(tl, t) ==
  LET i == Bisect(tl, t) IN IF i > 0 /\ Covers(tl[i], t) THEN i ELSE 0

(* Mutant of Inserted: a late arrival is not bounded by its successor.      *)
InsertedUnbounded(tl, inc) ==
  LET i == Bisect(tl, inc.start)
      shut == IF i > 0 /\ tl[i].end = None
              THEN [tl EXCEPT ![i].end = inc.start] ELSE tl
  IN  InsertAt(shut, i + 1, inc)

(* Mutant of Inserted: an open predecessor stays open.                      *)
InsertedBeside(tl, inc) ==
  LET i == Bisect(tl, inc.start)
      new == IF i < Len(tl) THEN [inc EXCEPT !.end = tl[i + 1].start] ELSE inc
  IN  InsertAt(tl, i + 1, new)

(* _insert: an open predecessor ends where the new incarnation starts, and  *)
(* a late arrival ends where its successor starts.                          *)
Inserted(tl, inc) ==
  LET i == Bisect(tl, inc.start)
      shut == IF i > 0 /\ tl[i].end = None
              THEN [tl EXCEPT ![i].end = inc.start] ELSE tl
      new == IF i < Len(tl) THEN [inc EXCEPT !.end = tl[i + 1].start] ELSE inc
  IN  InsertAt(shut, i + 1, new)

(* A process first seen at t by a report naming it n, with parent par.      *)
Placeholder(t, n, par, node) ==
  [start |-> t - 1, end |-> None, name |-> n, ticks |-> None, parent |-> par,
   parentNode |-> node, inferred |-> TRUE, endObserved |-> FALSE]

(* The parent par of a process that started at t, in timelines tls: the     *)
(* timelines with the parent inferred if need be, and the parent's node id. *)
Linked(tls, par, t) ==
  IF par = None THEN [timelines |-> tls, node |-> None, new |-> {}]
  ELSE LET i == Resolve(tls[par], t)
       IN  IF i # 0
           THEN [timelines |-> tls, node |-> <<par, tls[par][i].start>>, new |-> {}]
           ELSE [timelines |-> [tls EXCEPT ![par] =
                                  Inserted(@, Placeholder(t, None, None, None))],
                 node |-> <<par, t - 1>>, new |-> {<<par, t - 1>>}]

(* The process p that an event at t names: the one that is live, or one     *)
(* inferred from the event, with its parent.                                *)
Seen(tls, p, t, n, par) ==
  LET i == Resolve(tls[p], t)
      link == Linked(tls, par, t - 1)
  IN  IF i # 0
      THEN [timelines |-> tls, node |-> <<p, tls[p][i].start>>, new |-> {}]
      ELSE [timelines |-> [link.timelines EXCEPT ![p] =
                             Inserted(@, Placeholder(t, n, par, link.node))],
            node |-> <<p, t - 1>>, new |-> link.new \cup {<<p, t - 1>>}]

(* An event stamped t is observed.                                          *)
Observe(t) ==
  /\ steps < MaxEvents
  /\ t >= clock + pace.gap /\ t <= pace.horizon
  /\ clock' = IF t > clock THEN t ELSE clock
  /\ steps' = steps + 1
  /\ UNCHANGED pace
-----------------------------------------------------------------------------
Agree(x, y) == x = None \/ y = None \/ x = y
Distance(s, t) == IF s < t THEN t - s ELSE s - t

(* _same_creation: inc was created by an earlier report of this creation.   *)
SameCreation(inc, t, n, par) ==
  /\ ~inc.inferred
  /\ Distance(inc.start, t) <= DupWindow
  /\ Agree(inc.parent, par)
  /\ Agree(inc.name, n)

Or(x, y) == IF x = None THEN y ELSE x

(* _fill_missing: the parent link is not among what is filled in.           *)
FillMissing(inc, n, k, par) ==
  [inc EXCEPT !.name = Or(@, n), !.ticks = Or(@, k), !.parent = Or(@, par)]

(* observe_start: the first matching report is completed, otherwise a new   *)
(* incarnation is linked to its parent and inserted.                        *)
ObserveStart(p, t, n, k, par) ==
  LET same == {i \in DOMAIN timeline[p] : SameCreation(timeline[p][i], t, n, par)}
      link == Linked(timeline, par, t)
      inc == [start |-> t, end |-> None, name |-> n, ticks |-> k, parent |-> par,
              parentNode |-> link.node, inferred |-> FALSE, endObserved |-> FALSE]
  IN  /\ Observe(t)
      /\ reports' = reports \cup (IF k = None THEN {} ELSE {<<p, t, k>>})
      /\ IF same # {}
         THEN /\ \E i \in same :
                   /\ \A j \in same : i <= j
                   /\ timeline' = [timeline EXCEPT ![p][i] = FillMissing(@, n, k, par)]
              /\ UNCHANGED known
         ELSE /\ timeline' = [link.timelines EXCEPT ![p] = Inserted(@, inc)]
              /\ known' = known \cup link.new \cup {<<p, t>>}

(* observe_context, and with no parent observe_reference: an event at t of  *)
(* a process nobody saw start. One that resolves changes nothing.           *)
ObserveContext(p, t, n, par) ==
  LET seen == Seen(timeline, p, t, n, par)
  IN  /\ Observe(t)
      /\ timeline' = seen.timelines
      /\ known' = known \cup seen.new
      /\ UNCHANGED reports

(* observe_stop of a process that is known to be live at t.                 *)
ObserveStop(p, t) ==
  LET i == Resolve(timeline[p], t)
  IN  /\ i # 0
      /\ Observe(t)
      /\ timeline' = [timeline EXCEPT ![p][i] =
                        [@ EXCEPT !.end = t, !.endObserved = TRUE]]
      /\ UNCHANGED <<known, reports>>

(* Mutant of Expiry: the age of an open incarnation is its start.           *)
ExpiryByAge(inc) == IF inc.end # None THEN inc.end ELSE inc.start

Expiry(inc) == IF inc.end # None THEN inc.end ELSE inc.start + MaxLifetime

(* A timeline with the entries at these positions only, in their order.     *)
Kept(tl, S) ==
  [k \in 1 .. Cardinality(S) |-> tl[CHOOSE i \in S : Cardinality({j \in S : j <= i}) = k]]

(* prune(before): an expired incarnation takes its node id with it.         *)
Prune(before) ==
  LET Expired(inc) == Expiry(inc) < before
  IN  /\ steps < MaxEvents
      /\ before <= clock
      /\ steps' = steps + 1
      /\ timeline' = [p \in Pids |->
                        Kept(timeline[p], {i \in DOMAIN timeline[p] : ~Expired(timeline[p][i])})]
      /\ known' = known \ {id \in known :
                             \E i \in DOMAIN timeline[id[1]] :
                               /\ timeline[id[1]][i].start = id[2]
                               /\ Expired(timeline[id[1]][i])}
      /\ UNCHANGED <<pace, clock, reports>>

Next ==
  \E t \in Times :
    \/ Prune(t)
    \/ \E p \in Pids :
         \/ ObserveStop(p, t)
         \/ \E n \in Names \cup {None}, par \in (Parents \ {p}) \cup {None} :
              \/ ObserveContext(p, t, n, par)
              \/ \E k \in Ticks \cup {None} : ObserveStart(p, t, n, k, par)

Spec == Init /\ [][Next]_vars
-----------------------------------------------------------------------------
(* What an event of p stamped t is attributed to now.                       *)
Answer(p, t) ==
  LET i == Resolve(timeline[p], t)
  IN  IF i = 0 THEN None ELSE <<p, timeline[p][i].start, timeline[p][i].name>>

(* PID-reuse safety: an event is never attributed to an incarnation when    *)
(* the PID is known to have been reused since, in whatever order starts,    *)
(* stops, inferences and prunes came: bisect needs the order it relies on.  *)
ReuseSafe ==
  \A p \in Pids, t \in Times :
    LET i == Resolve(timeline[p], t)
    IN  i # 0 => \A j \in DOMAIN timeline[p] :
                   ~(timeline[p][i].start < timeline[p][j].start /\ timeline[p][j].start <= t)

(* "The OS cannot have two live processes with one PID": only the newest    *)
(* incarnation of a PID is open, late arrivals included.                    *)
OneOpenPerPid ==
  \A p \in Pids : \A i \in DOMAIN timeline[p] :
    timeline[p][i].end = None => i = Len(timeline[p])

(* The token a kill recommendation names is never invented and never the    *)
(* token of another process: it was reported for this PID at this creation, *)
(* to within the window in which two reports are one.                       *)
TicksAreGenuine ==
  \A p \in Pids : \A i \in DOMAIN timeline[p] :
    LET inc == timeline[p][i]
    IN  inc.ticks # None =>
          /\ ~inc.inferred
          /\ \E t \in Times : /\ <<p, t, inc.ticks>> \in reports
                              /\ Distance(t, inc.start) <= DupWindow

(* "PID-reuse safe": neither an event nor a kill token of one process is    *)
(* ever given to another that had or will have its PID.                     *)
IncarnationsKeptApart == ReuseSafe /\ TicksAreGenuine

(* Parent links are PID-reuse-safe too: a parent is never linked to a child *)
(* that started before it.                                                  *)
ParentStartsFirst ==
  \A p \in Pids : \A i \in DOMAIN timeline[p] :
    LET inc == timeline[p][i]
    IN  inc.parentNode # None =>
          inc.parentNode[1] = inc.parent /\ inc.parentNode[2] <= inc.start

(* What a timeline is at any time: typed, open only at its end, and linked  *)
(* only to parents that were there.                                         *)
TimelinesSound == TypeOK /\ OneOpenPerPid /\ ParentStartsFirst

(* "Two processes that reused the same PID occupy disjoint intervals, so    *)
(* they can never be confused."                                             *)
IntervalsDisjoint ==
  \A p \in Pids : \A i, j \in DOMAIN timeline[p] :
    i < j /\ timeline[p][i].start < timeline[p][j].start
      => timeline[p][i].end # None /\ timeline[p][i].end <= timeline[p][j].start

(* They do at least when events come in order, each later than what is      *)
(* inferred from the one before: an ended process is never mistaken for the *)
(* one that has its PID now, across inferred starts, stops and prunes.      *)
InOrder == pace.gap > 1
DisjointInOrder == InOrder => IntervalsDisjoint

(* Pruning is invisible to the events still to come: it neither forgets     *)
(* their process nor uncovers an earlier one with its PID.                  *)
PruneKeepsAnswers ==
  [][InOrder /\ (\E p \in Pids : Len(timeline'[p]) < Len(timeline[p])) =>
       \A p \in Pids, t \in clock .. MaxTime : Answer(p, t)' = Answer(p, t)]_vars
=============================================================================
