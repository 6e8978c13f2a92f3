-------------------------- MODULE IncidentTracker --------------------------
(***************************************************************************)
(* provenance/incident.py and tagging.py: detections become incidents. A   *)
(* tag comes with its causal scope, the processes its graph walks reach. A *)
(* scope that touches open incidents merges them and joins; otherwise an   *)
(* anchor with enough behind it opens one. An alert is emitted when an     *)
(* incident opens and when it gains a tactic or rises a severity band.     *)
(*                                                                         *)
(* The walks are those of the module CausalWalk; here a scope is any set   *)
(* of processes with the actor in it. One host. Scores are in thousandths. *)
(***************************************************************************)
EXTENDS GraphEdges, FiniteSets, Sequences, FiniteSetsExt

CONSTANTS
  Rules,           (* rules whose matches become tags                       *)
  LevelOf,         (* their levels, 0 to 16                                 *)
  TacticOf,        (* their ATT&CK tactics, or NoTactic                     *)
  NoTactic,
  Terminal,        (* TERMINAL_TACTICS                                      *)
  AnchorMinLevel, MinStages, MinTactics, Horizon

ASSUME TrackerAssumption ==
  /\ LevelOf \in [Rules -> 0 .. 16]
  /\ NoTactic \notin Terminal
  /\ AnchorMinLevel \in Nat /\ MinStages \in Nat /\ MinTactics \in Nat
  /\ Horizon \in Nat

VARIABLES
  tagged,      (* the tags on the graph's edges                             *)
  incidents,   (* the open incidents, by id                                 *)
  byNode,      (* _by_node: the incident of a process                       *)
  alerts       (* history: the incident alerts emitted, in order            *)

trackerVars == <<tagged, incidents, byNode, alerts>>

Tag == [edge : Edge, rule : Rules]
Tactics == {TacticOf[r] : r \in Rules} \ {NoTactic}
Bands == 0 .. 2                     (* medium, high, critical               *)
IncidentId == Edge \X Rules
Incident == [scope : SUBSET Node, opened : Int, last : Int, revision : Nat,
             tactics : SUBSET Tactics, band : Bands]
Alert == [id : IncidentId, revision : Nat, tactics : SUBSET Tactics, band : Bands]

TrackerTypeOK ==
  /\ tagged \subseteq Tag
  /\ incidents \in [DOMAIN incidents -> Incident] /\ DOMAIN incidents \subseteq IncidentId
  /\ byNode \in [DOMAIN byNode -> IncidentId] /\ DOMAIN byNode \subseteq Node
  /\ alerts \in Seq(Alert)

TrackerInit ==
  /\ tagged = {}
  /\ incidents = [i \in {} |-> {}]
  /\ byNode = [n \in {} |-> {}]
  /\ alerts = <<>>
-----------------------------------------------------------------------------
(* is_anchor.                                                               *)
IsAnchor(r) == LevelOf[r] >= AnchorMinLevel /\ TacticOf[r] \in Terminal

(* The tags a scope holds within a window, and the stages they make.        *)
Within(scope, floor, bound) ==
  {t \in tagged : Actor(t.edge) \in scope /\ floor <= t.edge.ts /\ t.edge.ts <= bound}
Stages(tags) == {<<t.rule, Actor(t.edge)>> : t \in tags}
TacticsOf(tags) == {TacticOf[t.rule] : t \in tags} \ {NoTactic}

(* _collect_stages of an incident.                                          *)
Collected(inc) == Within(inc.scope, inc.opened - Horizon, inc.last)

Greatest(S) == IF S = {} THEN 0 ELSE Max(S)

(* _score, given what the context factors add up to.                        *)
Score(tags, context) ==
  (450 * Greatest({LevelOf[t.rule] : t \in tags}) + 8) \div 16
    + 60 * Min({Cardinality(TacticsOf(tags)), 5})
    + Min({context, 250})

Band(score) == IF score >= 750 THEN 2 ELSE IF score >= 550 THEN 1 ELSE 0

(* Mutant of Material: a new tactic alone is not worth an alert.            *)
MaterialIfWorse(inc, tactics, band) == inc.revision = 0 \/ band > inc.band

(* Whether what an incident holds now is more than its last alert said.     *)
Material(inc, tactics, band) ==
  inc.revision = 0 \/ ~(tactics \subseteq inc.tactics) \/ band > inc.band

Emits(inc, context) ==
  Material(inc, TacticsOf(Collected(inc)), Band(Score(Collected(inc), context)))

(* _refresh: an alert takes up a revision and is remembered for the next.   *)
Refreshed(inc, context) ==
  IF Emits(inc, context)
  THEN [inc EXCEPT !.revision = @ + 1, !.tactics = TacticsOf(Collected(inc)),
                   !.band = Band(Score(Collected(inc), context))]
  ELSE inc

(* Mutant of Touching: one of the incidents that a scope touches.           *)
TouchingOne(scope) ==
  LET ids == {byNode[n] : n \in scope \cap DOMAIN byNode} \cap DOMAIN incidents
  IN  IF ids = {} THEN {} ELSE {CHOOSE i \in ids : TRUE}

(* _touching.                                                               *)
Touching(scope) == {byNode[n] : n \in scope \cap DOMAIN byNode} \cap DOMAIN incidents

(* The incident that keep becomes once it has the others and the scope.     *)
Merged(keep, scope, ts) ==
  [incidents[keep] EXCEPT
     !.scope = @ \cup scope \cup UNION {incidents[i].scope : i \in Touching(scope)},
     !.last = IF ts > @ THEN ts ELSE @]

(* _merge, _absorb and _refresh: inc, under id, takes the place of whatever *)
(* the scope touched.                                                       *)
Replaced(id, inc, scope, context) ==
  LET new == Refreshed(inc, context)
      gone == Touching(scope) \ {id}
  IN  /\ incidents' = [i \in (DOMAIN incidents \ gone) \cup {id} |->
                         IF i = id THEN new ELSE incidents[i]]
      /\ byNode' = [n \in DOMAIN byNode \cup inc.scope |->
                      IF n \in inc.scope THEN id ELSE byNode[n]]
      /\ alerts' = IF ~Emits(inc, context) THEN alerts
                   ELSE Append(alerts, [id |-> id, revision |-> new.revision,
                                        tactics |-> new.tactics, band |-> new.band])

(* The oldest that a scope touches: of those opened at once, the one with   *)
(* the smaller id, whichever that is.                                       *)
Oldest(scope) ==
  {i \in Touching(scope) :
     \A j \in Touching(scope) : incidents[i].opened <= incidents[j].opened}

Join(keep, tag, scope, context) ==
  /\ Replaced(keep, Merged(keep, scope, tag.edge.ts), scope, context)
  /\ UNCHANGED tagged

EnoughFor(scope, ts) ==
  LET tags == Within(scope, ts - Horizon, ts)
  IN  /\ Cardinality(Stages(tags)) >= MinStages
      /\ Cardinality(TacticsOf(tags)) >= MinTactics

Opened(scope, ts) ==
  [scope |-> scope, opened |-> ts, last |-> ts, revision |-> 0, tactics |-> {}, band |-> 0]

Open(tag, scope, context) ==
  /\ Touching(scope) = {}
  /\ IsAnchor(tag.rule) /\ EnoughFor(scope, tag.edge.ts)
  /\ Replaced(<<tag.edge, tag.rule>>, Opened(scope, tag.edge.ts), scope, context)
  /\ UNCHANGED tagged

Ignore(tag, scope) ==
  /\ Touching(scope) = {}
  /\ ~(IsAnchor(tag.rule) /\ EnoughFor(scope, tag.edge.ts))
  /\ UNCHANGED trackerVars

(* on_tag, whatever the context factors add up to.                          *)
OnTag(tag, scope, context) ==
  \/ \E keep \in Oldest(scope) : Join(keep, tag, scope, context)
  \/ Open(tag, scope, context)
  \/ Ignore(tag, scope)

(* edge.tags.extend: all the tags of an event, before any is correlated.    *)
Attach(tags) ==
  /\ tagged' = tagged \cup tags
  /\ UNCHANGED <<incidents, byNode, alerts>>

(* Mutant of Forgotten: an incident goes by its age.                        *)
ForgottenByAge(before) == {i \in DOMAIN incidents : incidents[i].opened < before}

Forgotten(before) == {i \in DOMAIN incidents : incidents[i].last < before}

(* prune, with the tags of the edges the graph forgets.                     *)
PruneIncidents(before) ==
  LET gone == Forgotten(before)
  IN  /\ incidents' = [i \in DOMAIN incidents \ gone |-> incidents[i]]
      /\ byNode' = [n \in {m \in DOMAIN byNode : byNode[m] \notin gone} |-> byNode[n]]
      /\ tagged' = {t \in tagged : t.edge.ts >= before}
      /\ UNCHANGED alerts

TrackerNext ==
  \/ \E tags \in SUBSET Tag : Attach(tags)
  \/ \E tag \in tagged, scope \in SUBSET Node, context \in Nat :
       Actor(tag.edge) \in scope /\ OnTag(tag, scope, context)
  \/ \E before \in Int : PruneIncidents(before)

TrackerSpec == TrackerInit /\ [][TrackerNext]_trackerVars
-----------------------------------------------------------------------------
(* The index of processes and the incidents agree: every process of an open *)
(* incident is found, under that incident, and none is found under a closed *)
(* or a merged one. _touching would not find what it should join otherwise. *)
ByNodeExact ==
  /\ \A i \in DOMAIN incidents : \A n \in incidents[i].scope :
       n \in DOMAIN byNode /\ byNode[n] = i
  /\ \A n \in DOMAIN byNode :
       byNode[n] \in DOMAIN incidents /\ n \in incidents[byNode[n]].scope

(* No process is in two open incidents: one attack is one incident, however *)
(* its detections arrived and whatever was merged or closed before.         *)
IncidentsDisjoint ==
  \A i, j \in DOMAIN incidents :
    i # j => incidents[i].scope \cap incidents[j].scope = {}

(* Every emission is distinct: no two alerts have one id and one revision,  *)
(* across merges and the incidents closed by prune.                         *)
AlertIdsUnique ==
  \A i, j \in DOMAIN alerts :
    i # j => <<alerts[i].id, alerts[i].revision>> # <<alerts[j].id, alerts[j].revision>>
=============================================================================
