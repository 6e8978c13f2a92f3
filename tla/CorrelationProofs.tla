------------------------- MODULE CorrelationProofs -------------------------
(***************************************************************************)
(* Registry, graph and incidents together, for all PIDs, rules and events. *)
(*                                                                         *)
(* The graph only ever grows by nodes and edges that are entered in the    *)
(* buckets (Extends) and shrinks by edges that leave them (PruneIndexes).  *)
(* In a stream that is fresh, the edge being correlated is the latest, so  *)
(* that an incident which takes it in collects everything tagged among its *)
(* processes so far: what it has not reported it reports now (Told). And   *)
(* the edge an alert is named after cannot come back to open a second      *)
(* incident: at its time its actor is in one, and later it is too old      *)
(* (Standing).                                                             *)
(*                                                                         *)
(* A walk queues a state for no edge twice, so it ends (Spare). All it     *)
(* knows led to where it started (Causal); and going breadth first it      *)
(* opens what is less deep before it may drop what is too deep (Deepens),  *)
(* so that it misses nothing of what is in reach.                          *)
(* Forward, what is queued at a depth follows over that many edges at most *)
(* (Tells, LedOf). With both, and the entry point of a tree an ancestor    *)
(* (Line), an incident takes in only what is related to a detection, and   *)
(* no hub but the actor itself (IncidentsTakeInOnlyRelated).               *)
(***************************************************************************)
EXTENDS Correlation, ProcessRegistryProofs

(* The actor of the edge that opened an incident stays in its scope.        *)
Anchored == \A i \in DOMAIN incidents : Actor(i[1]) \in incidents[i].scope

TrackerInv == TrackerTypeOK /\ ByNodeExact /\ Anchored

(* What an alert reports is of its type, whatever was collected.            *)
LEMMA ReportTypes ==
  ASSUME TrackerTypeOK, NEW inc \in Incident, NEW context \in Nat
  PROVE  /\ TacticsOf(Collected(inc)) \in SUBSET Tactics
         /\ \A score : Band(score) \in Bands
<1>1. Collected(inc) \subseteq tagged
  BY DEF Collected, Within
<1>2. \A t \in tagged : t.rule \in Rules
  BY DEF TrackerTypeOK, Tag
<1>3. TacticsOf(Collected(inc)) \in SUBSET Tactics
  BY <1>1, <1>2 DEF TacticsOf, Tactics
<1>4. \A score : Band(score) \in Bands
  BY DEF Band, Bands
<1> QED BY <1>3, <1>4

(* A refresh keeps the scope and the times of an incident, and its type;    *)
(* either it emits, under the next revision, or there was nothing to tell.  *)
LEMMA RefreshKeeps ==
  ASSUME TrackerTypeOK, NEW inc \in Incident, NEW context \in Nat
  PROVE  LET new == Refreshed(inc, context)
         IN  /\ new \in Incident
             /\ new.scope = inc.scope /\ new.opened = inc.opened /\ new.last = inc.last
             /\ TacticsOf(Collected(inc)) \subseteq new.tactics
             /\ Emits(inc, context) => new.revision = inc.revision + 1
             /\ ~ Emits(inc, context) => new = inc
<1> DEFINE T == TacticsOf(Collected(inc))
           B == Band(Score(Collected(inc), context))
           told == [inc EXCEPT !.revision = @ + 1, !.tactics = T, !.band = B]
           new == Refreshed(inc, context)
<1>1. T \in SUBSET Tactics /\ B \in Bands
  BY ReportTypes
<1>2. ~ Emits(inc, context) => T \subseteq inc.tactics
  BY DEF Emits, Material
<1>3. TacticsOf(Collected(inc)) = T
  OBVIOUS
<1>4. new = IF Emits(inc, context) THEN told ELSE inc
  BY DEF Refreshed
<1> HIDE DEF T, B, new
<1>5. /\ told \in Incident /\ told.scope = inc.scope /\ told.opened = inc.opened
      /\ told.last = inc.last /\ told.tactics = T /\ told.revision = inc.revision + 1
  <2>1. inc.revision + 1 \in Nat
    BY DEF Incident
  <2> QED BY <1>1, <2>1 DEF Incident
<1> HIDE DEF told
<1> QED BY <1>2, <1>3, <1>4, <1>5 DEF new

(* One incident taking the place of all that a scope touches, whatever id   *)
(* it takes that was one of them or was free, keeps the index exact.        *)
LEMMA TakesPlace ==
  ASSUME TrackerInv, NEW id \in IncidentId, NEW inc \in Incident,
         NEW scope \in SUBSET Node, NEW context \in Nat,
         id \in Touching(scope) \/ (Touching(scope) = {} /\ id \notin DOMAIN incidents),
         inc.scope = scope \cup UNION {incidents[i].scope : i \in Touching(scope)},
         Actor(id[1]) \in inc.scope,
         Replaced(id, inc, scope, context), UNCHANGED tagged
  PROVE  TrackerInv'
<1> DEFINE new == Refreshed(inc, context)
           gone == Touching(scope) \ {id}
           ids == (DOMAIN incidents \ gone) \cup {id}
<1>1. new \in Incident /\ new.scope = inc.scope
  BY RefreshKeeps DEF TrackerInv
<1>2. Touching(scope) \subseteq DOMAIN incidents
  BY DEF Touching
<1>3. incidents' = [i \in ids |-> IF i = id THEN new ELSE incidents[i]]
  BY DEF Replaced
<1>4. byNode' = [n \in DOMAIN byNode \cup inc.scope |->
                   IF n \in inc.scope THEN id ELSE byNode[n]]
  BY DEF Replaced
<1> HIDE DEF new
<1>5. \A i \in ids \ {id} : i \in DOMAIN incidents /\ i \notin Touching(scope)
  OBVIOUS
<1>6. \A i \in ids \ {id} : incidents[i].scope \cap inc.scope = {}
  <2> SUFFICES ASSUME NEW i \in ids \ {id}, NEW n \in incidents[i].scope, n \in inc.scope
               PROVE  FALSE
    OBVIOUS
  <2>1. n \in DOMAIN byNode /\ byNode[n] = i
    BY <1>5 DEF TrackerInv, ByNodeExact
  <2>2. CASE n \in scope
    BY <1>5, <2>1, <2>2 DEF Touching
  <2>3. CASE n \notin scope
    <3>1. PICK j \in Touching(scope) : n \in incidents[j].scope
      BY <2>3
    <3>2. byNode[n] = j
      BY <3>1, <1>2 DEF TrackerInv, ByNodeExact
    <3> QED BY <3>1, <3>2, <2>1, <1>5
  <2> QED BY <2>2, <2>3
<1>7. ByNodeExact'
  <2>1. ASSUME NEW i \in ids, NEW n \in incidents'[i].scope
        PROVE  n \in DOMAIN byNode' /\ byNode'[n] = i
    <3>1. CASE i = id
      BY <3>1, <2>1, <1>1, <1>3, <1>4
    <3>2. CASE i # id
      <4>1. incidents'[i] = incidents[i] /\ i \in DOMAIN incidents
        BY <3>2, <1>3, <1>5
      <4>2. n \in DOMAIN byNode /\ byNode[n] = i
        BY <4>1, <2>1 DEF TrackerInv, ByNodeExact
      <4>3. n \notin inc.scope
        BY <1>6, <2>1, <4>1, <3>2
      <4> QED BY <4>2, <4>3, <1>4
    <3> QED BY <3>1, <3>2
  <2>2. ASSUME NEW n \in DOMAIN byNode \cup inc.scope
        PROVE  byNode'[n] \in ids /\ n \in incidents'[byNode'[n]].scope
    <3>1. CASE n \in inc.scope
      BY <3>1, <1>1, <1>3, <1>4
    <3>2. CASE n \notin inc.scope
      <4>1. byNode'[n] = byNode[n] /\ n \in DOMAIN byNode
        BY <3>2, <1>4, <2>2
      <4>2. byNode[n] \in DOMAIN incidents /\ n \in incidents[byNode[n]].scope
        BY <4>1 DEF TrackerInv, ByNodeExact
      <4>3. byNode[n] \notin Touching(scope) /\ byNode[n] # id
        <5>1. byNode[n] \notin Touching(scope)
          BY <4>2, <3>2
        <5> QED BY <5>1, <4>2
      <4> QED BY <4>1, <4>2, <4>3, <1>3
    <3> QED BY <3>1, <3>2
  <2>3. DOMAIN incidents' = ids /\ DOMAIN byNode' = DOMAIN byNode \cup inc.scope
    BY <1>3, <1>4
  <2> QED BY <2>1, <2>2, <2>3 DEF ByNodeExact
<1>8. Anchored'
  <2> SUFFICES ASSUME NEW i \in ids PROVE Actor(i[1]) \in incidents'[i].scope
    BY <1>3 DEF Anchored
  <2>1. CASE i = id
    BY <2>1, <1>1, <1>3
  <2>2. CASE i # id
    BY <2>2, <1>3, <1>5 DEF TrackerInv, Anchored
  <2> QED BY <2>1, <2>2
<1>9. TrackerTypeOK'
  <2>1. tagged' \subseteq Tag
    BY DEF TrackerInv, TrackerTypeOK
  <2>2. incidents' \in [DOMAIN incidents' -> Incident] /\ DOMAIN incidents' \subseteq IncidentId
    BY <1>1, <1>3 DEF TrackerInv, TrackerTypeOK
  <2>3. byNode' \in [DOMAIN byNode' -> IncidentId] /\ DOMAIN byNode' \subseteq Node
    <3>1. inc.scope \subseteq Node
      BY DEF Incident
    <3> QED BY <3>1, <1>4 DEF TrackerInv, TrackerTypeOK
  <2>4. alerts' \in Seq(Alert)
    <3>1. [id |-> id, revision |-> new.revision, tactics |-> new.tactics,
           band |-> new.band] \in Alert
      BY <1>1 DEF Incident, Alert
    <3>2. alerts \in Seq(Alert)
      BY DEF TrackerInv, TrackerTypeOK
    <3>3. alerts' = IF ~Emits(inc, context) THEN alerts
                    ELSE Append(alerts, [id |-> id, revision |-> new.revision,
                                         tactics |-> new.tactics, band |-> new.band])
      BY DEF Replaced, new
    <3> QED BY <3>1, <3>2, <3>3
  <2> QED BY <2>1, <2>2, <2>3, <2>4 DEF TrackerTypeOK
<1> QED BY <1>7, <1>8, <1>9 DEF TrackerInv

(* Joining: the oldest incident takes the place of all that are touched.    *)
LEMMA JoinReplaces ==
  ASSUME TrackerInv, NEW tag \in Tag, NEW scope \in SUBSET Node, NEW keep \in Oldest(scope)
  PROVE  LET inc == Merged(keep, scope, tag.edge.ts)
         IN  /\ keep \in Touching(scope) /\ keep \in DOMAIN incidents
             /\ keep \in IncidentId /\ inc \in Incident
             /\ inc.scope = scope \cup UNION {incidents[i].scope : i \in Touching(scope)}
             /\ Actor(keep[1]) \in inc.scope
             /\ inc.opened = incidents[keep].opened /\ inc.revision = incidents[keep].revision
             /\ inc.last = IF tag.edge.ts > incidents[keep].last THEN tag.edge.ts
                           ELSE incidents[keep].last
<1> DEFINE inc == Merged(keep, scope, tag.edge.ts)
<1>1. tag.edge.ts \in Int
  BY DEF Tag, Edge
<1>2. keep \in Touching(scope) /\ Touching(scope) \subseteq DOMAIN incidents
  BY DEF Oldest, Touching
<1>3. keep \in IncidentId /\ incidents[keep] \in Incident
  BY <1>2 DEF TrackerInv, TrackerTypeOK
<1>4. UNION {incidents[i].scope : i \in Touching(scope)} \subseteq Node
  BY <1>2 DEF TrackerInv, TrackerTypeOK, Incident
<1>5. inc \in Incident
  BY <1>1, <1>3, <1>4 DEF Merged, Incident
<1>6. inc.scope = scope \cup UNION {incidents[i].scope : i \in Touching(scope)}
  <2>1. inc.scope = incidents[keep].scope \cup scope
                      \cup UNION {incidents[i].scope : i \in Touching(scope)}
    BY <1>3 DEF Merged, Incident
  <2> QED BY <2>1, <1>2
<1>7. Actor(keep[1]) \in inc.scope
  BY <1>2, <1>6 DEF TrackerInv, Anchored
<1>8. /\ inc.opened = incidents[keep].opened /\ inc.revision = incidents[keep].revision
      /\ inc.last = IF tag.edge.ts > incidents[keep].last THEN tag.edge.ts
                    ELSE incidents[keep].last
  BY <1>3 DEF Merged, Incident
<1> QED BY <1>2, <1>3, <1>5, <1>6, <1>7, <1>8

(* Opening: the id is not in use, or its incident would be touched.         *)
LEMMA OpenReplaces ==
  ASSUME TrackerInv, NEW tag \in Tag, NEW scope \in SUBSET Node,
         Actor(tag.edge) \in scope, Touching(scope) = {}
  PROVE  LET id == <<tag.edge, tag.rule>>
             inc == Opened(scope, tag.edge.ts)
         IN  /\ id \in IncidentId /\ id \notin DOMAIN incidents /\ inc \in Incident
             /\ inc.scope = scope \cup UNION {incidents[i].scope : i \in Touching(scope)}
             /\ Actor(id[1]) \in inc.scope
<1> DEFINE id == <<tag.edge, tag.rule>>
           inc == Opened(scope, tag.edge.ts)
<1>1. tag.edge.ts \in Int
  BY DEF Tag, Edge
<1>2. id \in IncidentId
  BY DEF Tag, IncidentId
<1>3. inc \in Incident /\ inc.scope = scope
  BY <1>1 DEF Opened, Incident, Bands
<1>4. id \notin DOMAIN incidents
  <2> SUFFICES ASSUME id \in DOMAIN incidents PROVE FALSE
    OBVIOUS
  <2>1. Actor(tag.edge) \in incidents[id].scope
    BY DEF TrackerInv, Anchored
  <2>2. Actor(tag.edge) \in DOMAIN byNode /\ byNode[Actor(tag.edge)] = id
    BY <2>1 DEF TrackerInv, ByNodeExact
  <2> QED BY <2>2 DEF Touching
<1> QED BY <1>2, <1>3, <1>4

(* on_tag keeps the index exact.                                            *)
LEMMA OnTagKeeps ==
  ASSUME TrackerInv, NEW tag \in Tag, NEW scope \in SUBSET Node, NEW context \in Nat,
         Actor(tag.edge) \in scope, OnTag(tag, scope, context)
  PROVE  TrackerInv'
<1>1. CASE \E keep \in Oldest(scope) : Join(keep, tag, scope, context)
  <2>1. PICK keep \in Oldest(scope) : Join(keep, tag, scope, context)
    BY <1>1
  <2> DEFINE inc == Merged(keep, scope, tag.edge.ts)
  <2>2. /\ keep \in Touching(scope) /\ keep \in IncidentId /\ inc \in Incident
        /\ inc.scope = scope \cup UNION {incidents[i].scope : i \in Touching(scope)}
        /\ Actor(keep[1]) \in inc.scope
    BY JoinReplaces
  <2>3. Replaced(keep, inc, scope, context) /\ UNCHANGED tagged
    BY <2>1 DEF Join
  <2> HIDE DEF inc
  <2> QED BY <2>2, <2>3, TakesPlace
<1>2. CASE Open(tag, scope, context)
  <2> DEFINE id == <<tag.edge, tag.rule>>
             inc == Opened(scope, tag.edge.ts)
  <2>1. Touching(scope) = {} /\ Replaced(id, inc, scope, context) /\ UNCHANGED tagged
    BY <1>2 DEF Open
  <2>2. /\ id \in IncidentId /\ id \notin DOMAIN incidents /\ inc \in Incident
        /\ inc.scope = scope \cup UNION {incidents[i].scope : i \in Touching(scope)}
        /\ Actor(id[1]) \in inc.scope
    BY <2>1, OpenReplaces
  <2> HIDE DEF id, inc
  <2> QED BY <2>1, <2>2, TakesPlace
<1>3. CASE Ignore(tag, scope)
  BY <1>3 DEF Ignore, trackerVars, TrackerInv, TrackerTypeOK, ByNodeExact, Anchored
<1> QED BY <1>1, <1>2, <1>3 DEF OnTag

(* An incident that on_tag ends is in the one that took its place.           *)
LEMMA OnTagEndsWhole ==
  ASSUME TrackerInv, NEW tag \in Tag, NEW scope \in SUBSET Node, NEW context \in Nat,
         Actor(tag.edge) \in scope, OnTag(tag, scope, context),
         NEW i \in DOMAIN incidents \ DOMAIN incidents'
  PROVE  \E j \in DOMAIN incidents' : incidents[i].scope \subseteq incidents'[j].scope
<1>1. CASE \E keep \in Oldest(scope) : Join(keep, tag, scope, context)
  <2>1. PICK keep \in Oldest(scope) : Join(keep, tag, scope, context)
    BY <1>1
  <2> DEFINE inc == Merged(keep, scope, tag.edge.ts)
  <2>2. /\ inc \in Incident
        /\ inc.scope = scope \cup UNION {incidents[j].scope : j \in Touching(scope)}
    BY JoinReplaces
  <2>3. incidents' = [j \in (DOMAIN incidents \ (Touching(scope) \ {keep})) \cup {keep} |->
                        IF j = keep THEN Refreshed(inc, context) ELSE incidents[j]]
    BY <2>1 DEF Join, Replaced
  <2> HIDE DEF inc
  <2>4. Refreshed(inc, context).scope = inc.scope
    BY <2>2, RefreshKeeps DEF TrackerInv
  <2>5. i \in Touching(scope)
    BY <2>3
  <2>6. incidents'[keep].scope = inc.scope /\ keep \in DOMAIN incidents'
    BY <2>3, <2>4
  <2> QED BY <2>2, <2>5, <2>6
<1>2. CASE Open(tag, scope, context)
  <2>1. DOMAIN incidents' = (DOMAIN incidents \ (Touching(scope) \ {<<tag.edge, tag.rule>>}))
                              \cup {<<tag.edge, tag.rule>>}
    BY <1>2 DEF Open, Replaced
  <2> QED BY <1>2, <2>1 DEF Open
<1>3. CASE Ignore(tag, scope)
  BY <1>3 DEF Ignore, trackerVars
<1> QED BY <1>1, <1>2, <1>3 DEF OnTag

(* prune takes an incident and its entries in the index together.           *)
LEMMA PruneIncidentsKeeps ==
  ASSUME TrackerInv, NEW before \in Int, PruneIncidents(before)
  PROVE  TrackerInv'
<1> DEFINE gone == Forgotten(before)
           kept == {n \in DOMAIN byNode : byNode[n] \notin gone}
<1>1. /\ incidents' = [i \in DOMAIN incidents \ gone |-> incidents[i]]
      /\ byNode' = [n \in kept |-> byNode[n]]
      /\ tagged' \subseteq tagged /\ alerts' = alerts
  BY DEF PruneIncidents
<1> HIDE DEF gone
<1>2. TrackerTypeOK'
  BY <1>1 DEF TrackerInv, TrackerTypeOK
<1>3. ByNodeExact'
  BY <1>1 DEF TrackerInv, ByNodeExact
<1>4. Anchored'
  BY <1>1 DEF TrackerInv, Anchored
<1> QED BY <1>2, <1>3, <1>4 DEF TrackerInv

(* At first there are no incidents and no index.                            *)
LEMMA TrackerInitially == TrackerInit => TrackerInv
<1> SUFFICES ASSUME TrackerInit PROVE TrackerInv
  OBVIOUS
<1>1. DOMAIN incidents = {} /\ DOMAIN byNode = {} /\ tagged = {} /\ alerts = <<>>
  BY DEF TrackerInit
<1>2. incidents \in [DOMAIN incidents -> Incident] /\ byNode \in [DOMAIN byNode -> IncidentId]
  BY <1>1 DEF TrackerInit
<1> QED BY <1>1, <1>2 DEF TrackerInv, TrackerTypeOK, ByNodeExact, Anchored

(* Every step of the tracker.                                               *)
LEMMA TrackerStepwise == TrackerInv /\ [TrackerNext]_trackerVars => TrackerInv'
<1> SUFFICES ASSUME TrackerInv, [TrackerNext]_trackerVars PROVE TrackerInv'
  OBVIOUS
<1>1. ASSUME NEW tags \in SUBSET Tag, Attach(tags) PROVE TrackerInv'
  BY <1>1 DEF Attach, TrackerInv, TrackerTypeOK, ByNodeExact, Anchored
<1>2. ASSUME NEW tag \in tagged, NEW scope \in SUBSET Node, NEW context \in Nat,
             Actor(tag.edge) \in scope, OnTag(tag, scope, context)
      PROVE  TrackerInv'
  <2>1. tag \in Tag
    BY DEF TrackerInv, TrackerTypeOK
  <2> QED BY <1>2, <2>1, OnTagKeeps
<1>3. ASSUME NEW before \in Int, PruneIncidents(before) PROVE TrackerInv'
  BY <1>3, PruneIncidentsKeeps
<1>4. CASE UNCHANGED trackerVars
  BY <1>4 DEF trackerVars, TrackerInv, TrackerTypeOK, ByNodeExact, Anchored
<1> QED BY <1>1, <1>2, <1>3, <1>4 DEF TrackerNext

(* The tracker's state is of its type and its index of processes is exact,  *)
(* in every order of tags, merges and prunes.                               *)
THEOREM IndexIsExact == TrackerSpec => [](TrackerTypeOK /\ ByNodeExact)
<1>1. TrackerInv => TrackerTypeOK /\ ByNodeExact
  BY DEF TrackerInv
<1> QED BY <1>1, TrackerInitially, TrackerStepwise, PTL DEF TrackerSpec

(* No process is ever in two open incidents, for all rules and scopes.      *)
THEOREM ScopesDisjoint == TrackerSpec => []IncidentsDisjoint
<1>1. TrackerInv => IncidentsDisjoint
  BY DEF TrackerInv, ByNodeExact, IncidentsDisjoint
<1> QED BY <1>1, TrackerInitially, TrackerStepwise, PTL DEF TrackerSpec
-----------------------------------------------------------------------------
(* The members of a set of numbers up to i.                                 *)
Below(S, i) == {m \in S : m <= i}

(* Two members of a set of numbers with as many members up to each are one. *)
LEMMA RankTells ==
  ASSUME NEW n \in Nat, NEW S \in SUBSET (1 .. n), NEW i \in S, NEW j \in S,
         Cardinality(Below(S, i)) = Cardinality(Below(S, j))
  PROVE  i = j
<1>1. IsFiniteSet(1 .. n)
  BY UpTo
<1>2. IsFiniteSet(S)
  BY <1>1, FS_Subset
<1>3. \A m \in S : m \in Int
  OBVIOUS
<1>4. ASSUME NEW a \in S, NEW b \in S, a < b, Cardinality(Below(S, a)) = Cardinality(Below(S, b))
      PROVE  FALSE
  <2>1. Below(S, a) \subseteq Below(S, b)
    <3> SUFFICES ASSUME NEW m \in Below(S, a) PROVE m \in Below(S, b)
      OBVIOUS
    <3>1. m \in S /\ m <= a /\ m \in Int /\ a \in Int /\ b \in Int
      BY <1>3 DEF Below
    <3>2. m <= b
      BY <1>4, <3>1
    <3> QED BY <3>1, <3>2 DEF Below
  <2>2a. Below(S, b) \in SUBSET S
    BY DEF Below
  <2>2. IsFiniteSet(Below(S, b))
    BY <1>2, <2>2a, FS_Subset
  <2>3. b \in Below(S, b) /\ b \notin Below(S, a)
    BY <1>3, <1>4 DEF Below
  <2>4. Below(S, a) = Below(S, b)
    BY <1>4, <2>1, <2>2, FS_Subset
  <2> QED BY <2>3, <2>4
<1> QED BY <1>3, <1>4

(* What is kept of a sequence is what stands at the kept positions.         *)
LEMMA KeptHolds ==
  ASSUME NEW E, NEW tl \in Seq(E), NEW S \in SUBSET DOMAIN tl
  PROVE  /\ Kept(tl, S) \in Seq(E)
         /\ Len(Kept(tl, S)) = Cardinality(S) /\ Cardinality(S) \in Nat
         /\ Cardinality(S) <= Len(tl)
         /\ \A k \in DOMAIN Kept(tl, S) : \E i \in S : Kept(tl, S)[k] = tl[i]
         /\ \A i \in S : \E k \in DOMAIN Kept(tl, S) : Kept(tl, S)[k] = tl[i]
<1> DEFINE Rank(i) == Cardinality(Below(S, i))
           n == Cardinality(S)
           pos(k) == CHOOSE i \in S : Rank(i) = k
           new == Kept(tl, S)
           m == Len(tl)
<1>1. m \in Nat /\ DOMAIN tl = 1 .. m /\ \A i \in 1 .. m : tl[i] \in E
  OBVIOUS
<1> HIDE DEF m
<1>2. IsFiniteSet(1 .. m) /\ Cardinality(1 .. m) = m
  BY <1>1, UpTo
<1>3. S \in SUBSET (1 .. m)
  BY <1>1
<1>4. IsFiniteSet(S) /\ n <= m
  BY <1>2, <1>3, FS_Subset
<1>5. n \in Nat
  BY <1>4, FS_CardinalityType
<1>6. \A k \in 1 .. n : pos(k) \in S /\ Rank(pos(k)) = k
  <2>1. ASSUME NEW k \in 1 .. n PROVE \E i \in S : Rank(i) = k
    BY <1>1, <1>3, Ranks DEF Below
  <2> HIDE DEF Rank, n
  <2>2. QED BY <2>1
<1>7. \A i \in S : Rank(i) \in 1 .. n
  <2> SUFFICES ASSUME NEW i \in S PROVE Rank(i) \in 1 .. n
    OBVIOUS
  <2> DEFINE R == Below(S, i)
  <2>1. R \subseteq S /\ i \in R
    BY <1>3 DEF Below
  <2> HIDE DEF R
  <2>2. IsFiniteSet(R) /\ Cardinality(R) <= n
    BY <1>4, <2>1, FS_Subset
  <2>3. Cardinality(R) \in Nat /\ Cardinality(R) # 0
    BY <2>1, <2>2, FS_CardinalityType, FS_EmptySet
  <2>4. Cardinality(R) \in 1 .. n
    BY <1>5, <2>2, <2>3
  <2> QED BY <2>4 DEF R
<1>8. \A i \in S : pos(Rank(i)) = i
  <2> SUFFICES ASSUME NEW i \in S PROVE pos(Rank(i)) = i
    OBVIOUS
  <2> DEFINE j == pos(Rank(i))
  <2>1. j \in S /\ Rank(j) = Rank(i)
    <3> HIDE DEF Rank, n, pos
    <3> QED BY <1>6, <1>7
  <2> HIDE DEF j
  <2>2. j = i
    BY <1>1, <1>3, <2>1, RankTells
  <2> QED BY <2>2 DEF j
<1>9. new = [k \in 1 .. n |-> tl[pos(k)]]
  BY DEF Kept, Below
<1> HIDE DEF Rank, n, pos, new
<1>10. new \in Seq(E) /\ DOMAIN new = 1 .. n /\ Len(new) = n
  <2>1. \A k \in 1 .. n : tl[pos(k)] \in E
    BY <1>1, <1>3, <1>6
  <2> QED BY <1>5, <1>9, <2>1
<1>11. \A k \in 1 .. n : \E i \in S : new[k] = tl[i]
  BY <1>6, <1>9
<1>12. \A i \in S : \E k \in 1 .. n : new[k] = tl[i]
  BY <1>7, <1>8, <1>9
<1> QED BY <1>4, <1>5, <1>10, <1>11, <1>12 DEF new, n, m
-----------------------------------------------------------------------------
(* The graphs there are, by type. There are ever finitely many edges.       *)
FiniteEdges == {E \in SUBSET Edge : IsFiniteSet(E)}
Graph == [nodes : SUBSET Node, edges : FiniteEdges,
          bucket : UNION {[D -> Seq(Edge)] : D \in SUBSET Node}]

(* No bucket holds an edge that is gone.                                    *)
Live(g) == \A n \in DOMAIN g.bucket : \A i \in DOMAIN g.bucket[n] : g.bucket[n][i] \in g.edges

(* Every edge is found from both its ends.                                  *)
Listed(g) ==
  \A e \in g.edges : \A n \in {e.src, e.dst} : \E i \in DOMAIN Bucket(g, n) : Bucket(g, n)[i] = e

(* No bucket is full.                                                       *)
Roomy(g) == \A n \in DOMAIN g.bucket : Len(g.bucket[n]) < MaxBucket

(* h is g with nodes and edges added by upsert_node and add_edge.           *)
Extends(g, h) ==
  /\ h \in Graph /\ g.edges \subseteq h.edges
  /\ Live(g) => Live(h)
  /\ Roomy(h) => Roomy(g) /\ (Listed(g) => Listed(h))

(* The fields of a graph.                                                   *)
LEMMA GraphParts ==
  ASSUME NEW g \in Graph
  PROVE  /\ g.nodes \in SUBSET Node /\ g.edges \in SUBSET Edge /\ IsFiniteSet(g.edges)
         /\ DOMAIN g.bucket \in SUBSET Node
         /\ \A n \in DOMAIN g.bucket : g.bucket[n] \in Seq(Edge)
         /\ \A n : Bucket(g, n) \in Seq(Edge)
<1>1. PICK D \in SUBSET Node : g.bucket \in [D -> Seq(Edge)]
  BY DEF Graph
<1>2. <<>> \in Seq(Edge)
  OBVIOUS
<1> QED BY <1>1, <1>2 DEF Graph, FiniteEdges, Bucket

(* Setting one bucket leaves the others as they were.                       *)
LEMMA BucketSet ==
  ASSUME NEW g \in Graph, NEW n \in Node, NEW s \in Seq(Edge)
  PROVE  LET h == WithBucket(g, n, s)
         IN  /\ h \in Graph /\ h.nodes = g.nodes /\ h.edges = g.edges
             /\ DOMAIN h.bucket = DOMAIN g.bucket \cup {n}
             /\ \A m : Bucket(h, m) = IF m = n THEN s ELSE Bucket(g, m)
<1> DEFINE h == WithBucket(g, n, s)
           b == [m \in DOMAIN g.bucket \cup {n} |-> IF m = n THEN s ELSE g.bucket[m]]
<1>1. h = [g EXCEPT !.bucket = b]
  BY DEF WithBucket
<1>2. b \in [DOMAIN g.bucket \cup {n} -> Seq(Edge)] /\ DOMAIN g.bucket \cup {n} \in SUBSET Node
  BY GraphParts
<1>3. DOMAIN b = DOMAIN g.bucket \cup {n}
  OBVIOUS
<1>4. \A m : (IF m \in DOMAIN b THEN b[m] ELSE <<>>) = IF m = n THEN s ELSE Bucket(g, m)
  BY DEF Bucket
<1> HIDE DEF b
<1>5. h \in Graph /\ h.nodes = g.nodes /\ h.edges = g.edges /\ h.bucket = b
  BY <1>1, <1>2 DEF Graph
<1> HIDE DEF h
<1>6. \A m : Bucket(h, m) = IF m = n THEN s ELSE Bucket(g, m)
  BY <1>4, <1>5 DEF Bucket
<1> QED BY <1>3, <1>5, <1>6 DEF h

(* What is in a bucket, by node.                                            *)
LEMMA LiveBuckets ==
  ASSUME NEW g \in Graph
  PROVE  Live(g) <=> \A n : \A i \in DOMAIN Bucket(g, n) : Bucket(g, n)[i] \in g.edges
<1>1. DOMAIN << >> = {}
  OBVIOUS
<1> QED BY <1>1 DEF Live, Bucket

(* A bucket no longer than the cap, by node.                                *)
LEMMA RoomInBuckets ==
  ASSUME NEW g \in Graph
  PROVE  Roomy(g) <=> \A n \in DOMAIN g.bucket : Len(Bucket(g, n)) < MaxBucket
  BY DEF Roomy, Bucket

(* Extending twice is extending.                                            *)
LEMMA ExtendsOn ==
  ASSUME NEW f, NEW g, NEW h, Extends(f, g), Extends(g, h)
  PROVE  Extends(f, h)
  BY DEF Extends

(* Leaving a graph as it is extends it.                                     *)
LEMMA ExtendsItself ==
  ASSUME NEW g \in Graph
  PROVE  Extends(g, g)
  BY DEF Extends

(* upsert_node gives a node a bucket and touches no other.                  *)
LEMMA NodeAdded ==
  ASSUME NEW g \in Graph, NEW n \in Node
  PROVE  Extends(g, WithNode(g, n))
<1> DEFINE f == [g EXCEPT !.nodes = @ \cup {n}]
           h == WithBucket(f, n, Bucket(g, n))
<1>1. f \in Graph /\ f.edges = g.edges /\ f.bucket = g.bucket
  BY GraphParts DEF Graph
<1>2. \A m : Bucket(f, m) = Bucket(g, m)
  BY <1>1 DEF Bucket
<1>3. Bucket(g, n) \in Seq(Edge)
  BY GraphParts
<1> HIDE DEF f
<1>4. /\ h \in Graph /\ h.edges = g.edges /\ DOMAIN h.bucket = DOMAIN g.bucket \cup {n}
      /\ \A m : Bucket(h, m) = Bucket(g, m)
  BY <1>1, <1>2, <1>3, BucketSet
<1> HIDE DEF h
<1>5. Live(g) => Live(h)
  BY <1>4, LiveBuckets
<1>6. Roomy(h) => Roomy(g)
  BY <1>4, RoomInBuckets
<1>7. Listed(g) => Listed(h)
  BY <1>4 DEF Listed
<1>8. WithNode(g, n) = h
  BY DEF WithNode, h, f
<1> QED BY <1>4, <1>5, <1>6, <1>7, <1>8 DEF Extends

(* h is g with one more entry in a bucket, if that has room.                *)
Entered(g, h, n, e) ==
  /\ h \in Graph /\ h.nodes = g.nodes /\ h.edges = g.edges
  /\ DOMAIN h.bucket = DOMAIN g.bucket \cup {n}
  /\ \A m : \A i \in DOMAIN Bucket(g, m) :
       i \in DOMAIN Bucket(h, m) /\ Bucket(h, m)[i] = Bucket(g, m)[i]
  /\ \A m : \A i \in DOMAIN Bucket(h, m) :
       Bucket(h, m)[i] = e \/ (i \in DOMAIN Bucket(g, m) /\ Bucket(h, m)[i] = Bucket(g, m)[i])
  /\ \A m : Len(Bucket(g, m)) <= Len(Bucket(h, m))
  /\ Len(Bucket(h, n)) < MaxBucket => \E i \in DOMAIN Bucket(h, n) : Bucket(h, n)[i] = e

(* An edge goes to the end of a bucket, or is not listed there.             *)
LEMMA EntryAdded ==
  ASSUME NEW g \in Graph, NEW n \in Node, NEW e \in Edge
  PROVE  Entered(g, Indexed(g, n, e), n, e)
<1> DEFINE s == Bucket(g, n)
           t == IF Len(s) < MaxBucket THEN Append(s, e) ELSE s
           h == WithBucket(g, n, t)
<1>1. /\ s \in Seq(Edge) /\ Len(s) \in Nat /\ DOMAIN s = 1 .. Len(s)
      /\ \A m : Bucket(g, m) \in Seq(Edge)
  BY GraphParts
<1>2. MaxBucket \in Nat
  BY GraphAssumption
<1>3. /\ Append(s, e) \in Seq(Edge) /\ Len(Append(s, e)) = Len(s) + 1
      /\ DOMAIN Append(s, e) = 1 .. Len(s) + 1
      /\ \A i \in 1 .. Len(s) + 1 : Append(s, e)[i] = IF i = Len(s) + 1 THEN e ELSE s[i]
  <2> HIDE DEF s
  <2> QED BY <1>1, AppendProperties
<1> HIDE DEF s
<1>4. /\ t \in Seq(Edge) /\ Len(s) <= Len(t)
      /\ \A i \in DOMAIN s : i \in DOMAIN t /\ t[i] = s[i]
      /\ \A i \in DOMAIN t : t[i] = e \/ (i \in DOMAIN s /\ t[i] = s[i])
      /\ Len(t) < MaxBucket => \E i \in DOMAIN t : t[i] = e
  <2>1. CASE Len(s) < MaxBucket
    <3>1. Len(s) + 1 \in DOMAIN t /\ t[Len(s) + 1] = e
      BY <1>1, <1>3, <2>1
    <3> QED BY <1>1, <1>3, <2>1, <3>1
  <2>2. CASE ~ (Len(s) < MaxBucket)
    BY <1>1, <1>2, <2>2
  <2> QED BY <2>1, <2>2
<1> HIDE DEF t
<1>5. /\ h \in Graph /\ h.nodes = g.nodes /\ h.edges = g.edges
      /\ DOMAIN h.bucket = DOMAIN g.bucket \cup {n}
      /\ \A m : Bucket(h, m) = IF m = n THEN t ELSE Bucket(g, m)
  BY <1>4, BucketSet
<1>6. Indexed(g, n, e) = h
  BY DEF Indexed, h, t, s
<1> HIDE DEF h
<1>7. \A m : Len(Bucket(g, m)) \in Nat
  BY <1>1
<1>8. s = Bucket(g, n)
  BY DEF s
<1> QED BY <1>4, <1>5, <1>6, <1>7, <1>8 DEF Entered

(* add_edge: an edge that is new is entered at both its ends.               *)
LEMMA EdgeAdded ==
  ASSUME NEW g \in Graph, NEW e \in Edge
  PROVE  Extends(g, WithEdge(g, e)) /\ e \in WithEdge(g, e).edges
<1>0. e.src \in Node /\ e.dst \in Node
  BY DEF Edge, Node
<1>1. CASE e \in g.edges
  BY <1>1, ExtendsItself DEF WithEdge
<1>2. CASE e \notin g.edges
  <2> DEFINE f == [g EXCEPT !.edges = @ \cup {e}]
             k == Indexed(f, e.src, e)
             h == Indexed(k, e.dst, e)
  <2>0. g.edges \cup {e} \in FiniteEdges
    <3>1. IsFiniteSet(g.edges \cup {e})
      BY GraphParts, FS_AddElement
    <3> QED BY <3>1, GraphParts DEF FiniteEdges
  <2>1. f \in Graph /\ f.edges = g.edges \cup {e} /\ f.bucket = g.bucket
    BY <2>0 DEF Graph
  <2>2. \A m : Bucket(f, m) = Bucket(g, m)
    BY <2>1 DEF Bucket
  <2> HIDE DEF f
  <2>3. Entered(f, k, e.src, e)
    BY <1>0, <2>1, EntryAdded
  <2>4. k \in Graph
    BY <2>3 DEF Entered
  <2> HIDE DEF k
  <2>5. Entered(k, h, e.dst, e)
    BY <1>0, <2>4, EntryAdded
  <2> HIDE DEF h
  <2>6. /\ h \in Graph
        /\ h.edges = g.edges \cup {e} /\ DOMAIN h.bucket = DOMAIN g.bucket \cup {e.src, e.dst}
    <3>1. k.edges = f.edges /\ DOMAIN k.bucket = DOMAIN f.bucket \cup {e.src}
      BY <2>3 DEF Entered
    <3>2. h \in Graph /\ h.edges = k.edges /\ DOMAIN h.bucket = DOMAIN k.bucket \cup {e.dst}
      BY <2>5 DEF Entered
    <3> QED BY <2>1, <3>1, <3>2
  <2>7. Live(g) => Live(h)
    <3> SUFFICES ASSUME Live(g), NEW n, NEW i \in DOMAIN Bucket(h, n)
                 PROVE  Bucket(h, n)[i] \in h.edges
      BY <2>6, LiveBuckets
    <3>1. \/ Bucket(h, n)[i] = e
          \/ i \in DOMAIN Bucket(g, n) /\ Bucket(h, n)[i] = Bucket(g, n)[i]
      <4>1. Bucket(h, n)[i] = e \/ (i \in DOMAIN Bucket(k, n) /\ Bucket(h, n)[i] = Bucket(k, n)[i])
        BY <2>5 DEF Entered
      <4>2. i \in DOMAIN Bucket(k, n) =>
              Bucket(k, n)[i] = e \/ (i \in DOMAIN Bucket(g, n) /\ Bucket(k, n)[i] = Bucket(g, n)[i])
        BY <2>2, <2>3 DEF Entered
      <4> QED BY <4>1, <4>2
    <3> QED BY <3>1, <2>6, LiveBuckets
  <2>8. \A m : Len(Bucket(g, m)) \in Nat /\ Len(Bucket(k, m)) \in Nat /\ Len(Bucket(h, m)) \in Nat
    <3>1. \A m : Bucket(g, m) \in Seq(Edge) /\ Bucket(k, m) \in Seq(Edge) /\ Bucket(h, m) \in Seq(Edge)
      BY <2>4, <2>6, GraphParts
    <3> QED BY <3>1
  <2>9. \A m : Len(Bucket(g, m)) <= Len(Bucket(k, m)) /\ Len(Bucket(k, m)) <= Len(Bucket(h, m))
    BY <2>2, <2>3, <2>5 DEF Entered
  <2>10. MaxBucket \in Nat
    BY GraphAssumption
  <2>11. ASSUME Roomy(h) PROVE Roomy(g) /\ (Listed(g) => Listed(h))
    <3>1. \A n \in DOMAIN h.bucket : Len(Bucket(h, n)) < MaxBucket
      BY <2>6, <2>11, RoomInBuckets
    <3>2. Roomy(g)
      <4>1. \A n \in DOMAIN g.bucket : Len(Bucket(g, n)) < MaxBucket
        BY <3>1, <2>6, <2>8, <2>9, <2>10
      <4> QED BY <4>1, RoomInBuckets
    <3>3. \E i \in DOMAIN Bucket(h, e.dst) : Bucket(h, e.dst)[i] = e
      BY <3>1, <2>5, <2>6 DEF Entered
    <3>4. \E i \in DOMAIN Bucket(h, e.src) : Bucket(h, e.src)[i] = e
      <4>1. Len(Bucket(h, e.src)) < MaxBucket
        BY <3>1, <2>6
      <4>2. Len(Bucket(k, e.src)) < MaxBucket
        BY <4>1, <2>8, <2>9, <2>10
      <4>3. PICK i \in DOMAIN Bucket(k, e.src) : Bucket(k, e.src)[i] = e
        BY <4>2, <2>3 DEF Entered
      <4> QED BY <4>3, <2>5 DEF Entered
    <3>5. ASSUME Listed(g), NEW d \in h.edges, NEW n \in {d.src, d.dst}
          PROVE  \E i \in DOMAIN Bucket(h, n) : Bucket(h, n)[i] = d
      <4>1. CASE d = e
        BY <3>3, <3>4, <3>5, <4>1
      <4>2. CASE d # e
        <5>1. d \in g.edges
          BY <2>6, <3>5, <4>2
        <5>2. PICK i \in DOMAIN Bucket(g, n) : Bucket(g, n)[i] = d
          BY <5>1, <3>5 DEF Listed
        <5>3. i \in DOMAIN Bucket(k, n) /\ Bucket(k, n)[i] = d
          BY <5>2, <2>2, <2>3 DEF Entered
        <5> QED BY <5>3, <2>5 DEF Entered
      <4> QED BY <4>1, <4>2
    <3> QED BY <3>2, <3>5 DEF Listed
  <2>12. WithEdge(g, e) = h
    BY <1>2 DEF WithEdge, h, k, f
  <2>13. Extends(g, h)
    BY <2>6, <2>7, <2>11 DEF Extends
  <2> QED BY <2>6, <2>12, <2>13
<1> QED BY <1>1, <1>2

(* What a list holds of a set of edges.                                     *)
LEMMA AmongHolds ==
  ASSUME NEW s \in Seq(Edge), NEW those
  PROVE  /\ Among(s, those) \in Seq(Edge)
         /\ \A k \in DOMAIN Among(s, those) :
              Among(s, those)[k] \in those /\ \E i \in DOMAIN s : Among(s, those)[k] = s[i]
         /\ \A i \in DOMAIN s : s[i] \in those =>
              \E k \in DOMAIN Among(s, those) : Among(s, those)[k] = s[i]
         /\ Len(Among(s, those)) <= Len(s)
<1> DEFINE S == {i \in DOMAIN s : s[i] \in those}
<1>1. S \in SUBSET DOMAIN s /\ \A i \in DOMAIN s : i \in S <=> s[i] \in those
  OBVIOUS
<1>2. Among(s, those) = Kept(s, S)
  BY DEF Among
<1> HIDE DEF S
<1>3. /\ Kept(s, S) \in Seq(Edge)
      /\ Len(Kept(s, S)) = Cardinality(S) /\ Cardinality(S) \in Nat /\ Cardinality(S) <= Len(s)
      /\ \A k \in DOMAIN Kept(s, S) : \E i \in S : Kept(s, S)[k] = s[i]
      /\ \A i \in S : \E k \in DOMAIN Kept(s, S) : Kept(s, S)[k] = s[i]
  BY <1>1, KeptHolds
<1> HIDE DEF Kept
<1> QED BY <1>1, <1>2, <1>3

(* prune drops the same edges from the edges and from every bucket.         *)
LEMMA PruneIndexes ==
  ASSUME NEW g \in Graph, NEW before
  PROVE  LET h == PrunedGraph(g, before)
         IN  /\ h \in Graph /\ h.edges \subseteq g.edges
             /\ Live(g) => Live(h)
             /\ Listed(g) => Listed(h)
<1> DEFINE stale == {e \in g.edges : e.ts < before}
           live == g.edges \ stale
           kept(n) == Among(g.bucket[n], live)
           gone == {n \in DOMAIN g.bucket : kept(n) = <<>>}
           D == DOMAIN g.bucket \ gone
           h == [nodes |-> g.nodes \ gone, edges |-> live, bucket |-> [n \in D |-> kept(n)]]
<1>1. CASE stale = {}
  BY <1>1 DEF PrunedGraph
<1>2. CASE stale # {}
  <2>1. PrunedGraph(g, before) = h
    BY <1>2 DEF PrunedGraph
  <2>2. live \in SUBSET g.edges /\ live \in SUBSET Edge
    BY GraphParts
  <2> HIDE DEF live
  <2>3. \A n \in DOMAIN g.bucket : g.bucket[n] \in Seq(Edge)
    BY GraphParts
  <2>4. ASSUME NEW n \in DOMAIN g.bucket
        PROVE  /\ kept(n) \in Seq(Edge)
               /\ \A k \in DOMAIN kept(n) :
                    kept(n)[k] \in live /\ \E i \in DOMAIN g.bucket[n] : kept(n)[k] = g.bucket[n][i]
               /\ \A i \in DOMAIN g.bucket[n] : g.bucket[n][i] \in live =>
                    \E k \in DOMAIN kept(n) : kept(n)[k] = g.bucket[n][i]
    BY <2>3, AmongHolds
  <2> HIDE DEF kept
  <2>5. D \in SUBSET Node /\ g.nodes \ gone \in SUBSET Node
    BY GraphParts
  <2>6. D \in SUBSET DOMAIN g.bucket
    OBVIOUS
  <2>7. \A n \in DOMAIN g.bucket : n \notin D => kept(n) = <<>>
    OBVIOUS
  <2> HIDE DEF gone, D
  <2>8. h \in Graph
    <3>1. [n \in D |-> kept(n)] \in [D -> Seq(Edge)]
      BY <2>4, <2>6
    <3>2. live \in FiniteEdges
      <4>1. IsFiniteSet(g.edges)
        BY GraphParts
      <4>2. IsFiniteSet(live)
        BY <2>2, <4>1, FS_Subset
      <4> QED BY <2>2, <4>2 DEF FiniteEdges
    <3> QED BY <2>5, <3>1, <3>2 DEF Graph
  <2>9. h.edges = live /\ h.bucket = [n \in D |-> kept(n)]
    OBVIOUS
  <2> HIDE DEF h
  <2>10. Live(h)
    BY <2>4, <2>6, <2>9 DEF Live
  <2>11. ASSUME Listed(g), NEW e \in live, NEW n \in {e.src, e.dst}
         PROVE  \E i \in DOMAIN Bucket(h, n) : Bucket(h, n)[i] = e
    <3>1. PICK i \in DOMAIN Bucket(g, n) : Bucket(g, n)[i] = e
      BY <2>2, <2>11 DEF Listed
    <3>2. n \in DOMAIN g.bucket /\ Bucket(g, n) = g.bucket[n]
      <4>1. DOMAIN << >> = {}
        OBVIOUS
      <4> QED BY <3>1, <4>1 DEF Bucket
    <3>3. PICK k \in DOMAIN kept(n) : kept(n)[k] = e
      BY <2>4, <3>1, <3>2
    <3>4. n \in D
      <4>1. DOMAIN << >> = {}
        OBVIOUS
      <4> QED BY <2>7, <3>2, <3>3, <4>1
    <3>5. Bucket(h, n) = kept(n)
      BY <2>9, <3>4 DEF Bucket
    <3> QED BY <3>3, <3>5
  <2>12. Listed(g) => Listed(h)
    BY <2>9, <2>11 DEF Listed
  <2> QED BY <2>1, <2>2, <2>8, <2>9, <2>10, <2>12
<1> QED BY <1>1, <1>2
-----------------------------------------------------------------------------
(* A node id is a node, made of a PID and a time.                           *)
LEMMA ProcessesAreNodes == NodeId \subseteq Node /\ \A n \in NodeId : n[1] \in Pids /\ n[2] \in Int
  BY DEF NodeId, Node

(* Who an event is attributed to is a process.                              *)
LEMMA SeenIsProcess ==
  ASSUME NEW tls, NEW reps, AllSound(tls, reps), NEW p \in Pids, NEW t \in Int,
         NEW n, NEW par
  PROVE  Seen(tls, p, t, n, par).node \in NodeId
<1> DEFINE i == Resolve(tls[p], t)
           link == Linked(tls, par, t - 1)
<1>1. CASE i # 0
  <2>1. Seen(tls, p, t, n, par).node = <<p, tls[p][i].start>>
    BY <1>1 DEF Seen
  <2>2. tls[p] \in Seq(Incarnation) /\ SortedSeq(tls[p])
    BY DEF AllSound, Sound
  <2>3. i \in DOMAIN tls[p]
    BY <1>1, <2>2, Resolved
  <2>4. tls[p][i].start \in Int
    BY <2>2, <2>3, Entries
  <2> QED BY <2>1, <2>4 DEF NodeId
<1>2. CASE i = 0
  <2>1. Seen(tls, p, t, n, par).node = <<p, t - 1>>
    BY <1>2 DEF Seen
  <2> QED BY <2>1 DEF NodeId
<1> QED BY <1>1, <1>2

(* An edge between processes or to a thing is an edge.                      *)
LEMMA EdgeTypes ==
  ASSUME NEW kind \in FlowsToTarget \cup FlowsToSource \cup Leaves,
         NEW src \in NodeId, NEW dst \in Node, NEW ts \in Int
  PROVE  [kind |-> kind, src |-> src, dst |-> dst, ts |-> ts] \in Edge
  BY DEF Edge

(* _ensure_process_node.                                                    *)
LEMMA EnsuredExtends ==
  ASSUME NEW g \in Graph, NEW tls, NEW ids \in SUBSET NodeId, NEW n \in NodeId
  PROVE  Extends(g, Ensured(g, tls, ids, n))
<1> DEFINE parent == IncarnationAt(tls, n).parentNode
           g1 == WithNode(g, n)
           g2 == WithNode(g1, parent)
           e == [kind |-> "forked", src |-> parent, dst |-> n, ts |-> n[2]]
           g3 == WithEdge(g2, e)
<1>1. n \in Node /\ n[2] \in Int
  BY ProcessesAreNodes
<1>2. Extends(g, g1) /\ g1 \in Graph
  <2>1. Extends(g, g1)
    BY <1>1, NodeAdded
  <2> QED BY <2>1 DEF Extends
<1>3. CASE n \in g.nodes
  BY <1>3, ExtendsItself DEF Ensured
<1>4. CASE n \notin g.nodes /\ parent \notin ids
  BY <1>2, <1>4 DEF Ensured
<1>5. CASE n \notin g.nodes /\ parent \in ids
  <2>1. Ensured(g, tls, ids, n) = g3
    BY <1>5 DEF Ensured
  <2> HIDE DEF parent
  <2>2. parent \in NodeId /\ parent \in Node
    BY <1>5, ProcessesAreNodes
  <2>3. e \in Edge
    <3>1. "forked" \in FlowsToTarget
      BY DEF FlowsToTarget
    <3> QED BY <1>1, <2>2, <3>1, EdgeTypes
  <2> HIDE DEF e, g1
  <2>4. Extends(g1, g2)
    BY <1>2, <2>2, NodeAdded
  <2>5. g2 \in Graph
    BY <2>4 DEF Extends
  <2> HIDE DEF g2
  <2>6. Extends(g2, g3)
    BY <2>3, <2>5, EdgeAdded
  <2> HIDE DEF g3
  <2> QED BY <1>2, <2>1, <2>4, <2>6, ExtendsOn
<1> QED BY <1>3, <1>4, <1>5

(* What apply leaves is what it may leave.                                  *)
Legal(result) ==
  /\ AllSound(result.timelines, reports) /\ result.new \in SUBSET NodeId
  /\ Extends(graph, result.graph) /\ result.edge \in result.graph.edges \cup {None}

(* apply, for an event that acts on a thing.                                *)
LEMMA ActedIsLegal ==
  ASSUME IInv, graph \in Graph, NEW kind \in Kinds, NEW p \in Pids, NEW t \in Times,
         NEW thing \in Named, NEW par \in Pids \cup {None}
  PROVE  Legal(Acted(kind, p, t, thing, par))
<1> DEFINE seen == Seen(timeline, p, t, None, par)
           g == Ensured(graph, seen.timelines, known \cup seen.new, seen.node)
           e == [kind |-> kind, src |-> seen.node, dst |-> thing, ts |-> t]
           g1 == WithNode(g, thing)
           g2 == WithEdge(g1, e)
<1>1. t \in Int
  BY DEF Times
<1>2. AllSound(seen.timelines, reports) /\ seen.new \in SUBSET NodeId
  BY <1>1, SeenIsSound DEF IInv
<1>3. seen.node \in NodeId
  BY <1>1, SeenIsProcess DEF IInv
<1>4. known \cup seen.new \in SUBSET NodeId
  BY <1>2 DEF IInv, TypeOK
<1>5. Acted(kind, p, t, thing, par) =
        IF thing = None THEN Drew(seen.timelines, seen.new, g, None)
        ELSE Drew(seen.timelines, seen.new, g2, e)
  BY DEF Acted
<1> HIDE DEF seen
<1>6. Extends(graph, g)
  BY <1>3, <1>4, EnsuredExtends
<1>7. g \in Graph
  BY <1>6 DEF Extends
<1> HIDE DEF g
<1>8. CASE thing = None
  BY <1>2, <1>5, <1>6, <1>8 DEF Legal, Drew
<1>9. CASE thing # None
  <2>1. thing \in Node
    BY <1>9, GraphAssumption DEF Node
  <2>2. e \in Edge
    <3>1. kind \in FlowsToTarget \cup FlowsToSource \cup Leaves
      BY GraphAssumption
    <3> QED BY <1>1, <1>3, <2>1, <3>1, EdgeTypes
  <2> HIDE DEF e
  <2>3. Extends(g, g1)
    BY <1>7, <2>1, NodeAdded
  <2>4. g1 \in Graph
    BY <2>3 DEF Extends
  <2> HIDE DEF g1
  <2>5. Extends(g1, g2) /\ e \in g2.edges
    BY <2>2, <2>4, EdgeAdded
  <2> HIDE DEF g2
  <2>6. Extends(graph, g2)
    BY <1>6, <2>3, <2>5, ExtendsOn
  <2> QED BY <1>2, <1>5, <1>9, <2>5, <2>6 DEF Legal, Drew
<1> QED BY <1>8, <1>9

(* _apply_cross_process, with both ends resolved or inferred.               *)
LEMMA CrossedIsLegal ==
  ASSUME IInv, graph \in Graph, NEW kind \in Kinds, NEW p \in Pids, NEW q \in Pids,
         NEW t \in Times, NEW par \in Pids \cup {None}
  PROVE  Legal(Crossed(kind, p, q, t, par))
<1> DEFINE seen == Seen(timeline, p, t, None, par)
           target == Seen(seen.timelines, q, t, None, None)
           ids == known \cup seen.new \cup target.new
           g1 == Ensured(graph, seen.timelines, ids, seen.node)
           g2 == Ensured(g1, target.timelines, ids, target.node)
           e == [kind |-> kind, src |-> seen.node, dst |-> target.node, ts |-> t]
           g3 == WithEdge(g2, e)
<1>1. t \in Int
  BY DEF Times
<1>2. AllSound(seen.timelines, reports) /\ seen.new \in SUBSET NodeId
  BY <1>1, SeenIsSound DEF IInv
<1>3. seen.node \in NodeId
  BY <1>1, SeenIsProcess DEF IInv
<1>4. Crossed(kind, p, q, t, par) = Drew(target.timelines, seen.new \cup target.new, g3, e)
  BY DEF Crossed
<1> HIDE DEF seen
<1>5. AllSound(target.timelines, reports) /\ target.new \in SUBSET NodeId
  BY <1>1, <1>2, SeenIsSound
<1>6. target.node \in NodeId
  BY <1>1, <1>2, SeenIsProcess
<1> HIDE DEF target
<1>7. ids \in SUBSET NodeId
  BY <1>2, <1>5 DEF IInv, TypeOK
<1> HIDE DEF ids
<1>8. Extends(graph, g1)
  BY <1>3, <1>7, EnsuredExtends
<1>9. g1 \in Graph
  BY <1>8 DEF Extends
<1> HIDE DEF g1
<1>10. Extends(g1, g2)
  BY <1>6, <1>7, <1>9, EnsuredExtends
<1>11. g2 \in Graph
  BY <1>10 DEF Extends
<1> HIDE DEF g2
<1>12. e \in Edge
  <2>1. kind \in FlowsToTarget \cup FlowsToSource \cup Leaves
    BY GraphAssumption
  <2>2. target.node \in Node
    BY <1>6, ProcessesAreNodes
  <2> QED BY <1>1, <1>3, <2>1, <2>2, EdgeTypes
<1> HIDE DEF e
<1>13. Extends(g2, g3) /\ e \in g3.edges
  BY <1>11, <1>12, EdgeAdded
<1> HIDE DEF g3
<1>14. Extends(graph, g3)
  BY <1>8, <1>10, <1>13, ExtendsOn
<1> QED BY <1>2, <1>4, <1>5, <1>13, <1>14 DEF Legal, Drew

(* _apply_process_create.                                                   *)
LEMMA CreatedExtends ==
  ASSUME graph \in Graph, NEW n \in NodeId, NEW parent \in NodeId \cup {None}, NEW p \in Pids,
         NEW t \in Times, NEW ids \in SUBSET NodeId
  PROVE  LET made == Created(n, parent, p, t, ids)
         IN  Extends(graph, made.graph) /\ made.edge \in made.graph.edges \cup {None}
<1> DEFINE g == WithNode(graph, n)
           executed == Among(IncidentEdges(g, n), {e \in g.edges : e.kind = "executed" /\ e.src = n})
           forked == Among(IncidentEdges(g, n), {e \in g.edges : e.kind = "forked" /\ e.dst = n})
           linked == IF parent \in ids THEN WithNode(g, parent) ELSE g
           run == [kind |-> "executed", src |-> n, dst |-> ImageOf[p], ts |-> t]
           named == WithNode(linked, ImageOf[p])
           image == IF ImageOf[p] = None THEN linked ELSE WithEdge(named, run)
           e == [kind |-> "forked", src |-> parent, dst |-> n, ts |-> t]
           made == Created(n, parent, p, t, ids)
           drew == WithEdge(image, e)
<1>1. t \in Int /\ n \in Node
  BY ProcessesAreNodes DEF Times
<1>2. "forked" \in FlowsToTarget /\ "executed" \in FlowsToSource
  BY DEF FlowsToTarget, FlowsToSource
<1>3. made = IF executed \o forked # <<>> THEN [graph |-> g, edge |-> LastOf(forked)]
             ELSE IF parent = None THEN [graph |-> image, edge |-> None]
             ELSE [graph |-> drew, edge |-> e]
  BY DEF Created
<1> HIDE DEF made
<1>4. Extends(graph, g)
  BY <1>1, NodeAdded
<1>5. g \in Graph
  BY <1>4 DEF Extends
<1> HIDE DEF g
<1>6. LastOf(forked) \in g.edges \cup {None}
  <2>1. IncidentEdges(g, n) \in Seq(Edge)
    <3>1. Bucket(g, n) \in Seq(Edge)
      BY <1>5, GraphParts
    <3> QED BY <3>1, AmongHolds DEF IncidentEdges
  <2>2. forked \in Seq(Edge) /\ \A k \in DOMAIN forked : forked[k] \in g.edges
    BY <2>1, AmongHolds
  <2> HIDE DEF forked
  <2>3. CASE forked = <<>>
    BY <2>3 DEF LastOf
  <2>4. CASE forked # <<>>
    <3>1. Len(forked) \in DOMAIN forked
      BY <2>2, <2>4
    <3> QED BY <2>2, <2>4, <3>1 DEF LastOf
  <2> QED BY <2>3, <2>4
<1> HIDE DEF forked, executed
<1>7. Extends(g, linked)
  BY <1>5, ProcessesAreNodes, NodeAdded, ExtendsItself
<1>8. linked \in Graph
  BY <1>7 DEF Extends
<1> HIDE DEF linked
<1>9. Extends(linked, image)
  <2>1. CASE ImageOf[p] = None
    BY <1>8, <2>1, ExtendsItself
  <2>2. CASE ImageOf[p] # None
    <3>1. ImageOf[p] \in Node
      BY <2>2, GraphAssumption DEF Node
    <3>2. run \in Edge
      BY <1>1, <1>2, <3>1, EdgeTypes
    <3> HIDE DEF run
    <3>3. Extends(linked, named)
      BY <1>8, <3>1, NodeAdded
    <3>4. named \in Graph
      BY <3>3 DEF Extends
    <3> HIDE DEF named
    <3>5. Extends(named, WithEdge(named, run))
      BY <3>2, <3>4, EdgeAdded
    <3>6. image = WithEdge(named, run)
      BY <2>2
    <3> HIDE DEF image
    <3> QED BY <3>3, <3>5, <3>6, ExtendsOn
  <2> QED BY <2>1, <2>2
<1>10. image \in Graph
  BY <1>9 DEF Extends
<1> HIDE DEF image
<1>11. Extends(graph, image)
  BY <1>4, <1>7, <1>9, ExtendsOn
<1>12. ASSUME executed \o forked # <<>>
       PROVE  Extends(graph, made.graph) /\ made.edge \in made.graph.edges \cup {None}
  <2>1. made.graph = g /\ made.edge = LastOf(forked)
    BY <1>3, <1>12
  <2> QED BY <1>4, <1>6, <2>1
<1>13. ASSUME executed \o forked = <<>>, parent = None
       PROVE  Extends(graph, made.graph) /\ made.edge \in made.graph.edges \cup {None}
  <2>1. made.graph = image /\ made.edge = None
    BY <1>3, <1>13
  <2> QED BY <1>11, <2>1
<1>14. ASSUME executed \o forked = <<>>, parent # None
       PROVE  Extends(graph, made.graph) /\ made.edge \in made.graph.edges \cup {None}
  <2>1. e \in Edge
    BY <1>1, <1>2, <1>14, EdgeTypes
  <2>2. Extends(image, drew) /\ e \in drew.edges
    BY <1>10, <2>1, EdgeAdded
  <2>3. Extends(graph, drew)
    BY <1>11, <2>2, ExtendsOn
  <2> HIDE DEF drew, e
  <2>4. made.graph = drew /\ made.edge = e
    BY <1>3, <1>14
  <2> QED BY <2>2, <2>3, <2>4
<1>15. Extends(graph, made.graph) /\ made.edge \in made.graph.edges \cup {None}
  BY <1>12, <1>13, <1>14
<1> QED BY <1>15 DEF made

(* A timeline that takes an incarnation is one longer.                      *)
LEMMA InsertedLonger ==
  ASSUME NEW tl \in Seq(Incarnation), SortedSeq(tl), NEW inc \in Incarnation
  PROVE  DOMAIN Inserted(tl, inc) = 1 .. Len(tl) + 1
<1> DEFINE i == Bisect(tl, inc.start)
           shut == IF i > 0 /\ tl[i].end = None
                   THEN [tl EXCEPT ![i].end = inc.start] ELSE tl
           new == IF i < Len(tl) THEN [inc EXCEPT !.end = tl[i + 1].start] ELSE inc
<1>1. /\ Len(tl) \in Nat /\ DOMAIN tl = 1 .. Len(tl) /\ inc.start \in Int
      /\ \A j \in DOMAIN tl : tl[j] \in Incarnation /\ tl[j].start \in Int
  BY Entries, Fields
<1>2. i \in 0 .. Len(tl)
  BY <1>1, BisectSplits
<1>3. Inserted(tl, inc) = InsertAt(shut, i + 1, new)
  BY DEF Inserted
<1> HIDE DEF i
<1>4. shut \in Seq(Incarnation) /\ Len(shut) = Len(tl)
  <2>1. CASE i > 0 /\ tl[i].end = None
    <3> DEFINE e == [tl[i] EXCEPT !.end = inc.start]
    <3>1. i \in DOMAIN tl /\ tl[i] \in Incarnation
      BY <1>1, <1>2, <2>1
    <3>2. e \in Incarnation
      BY <1>1, <3>1 DEF Incarnation
    <3>3. shut = [tl EXCEPT ![i] = e]
      BY <2>1
    <3> HIDE DEF e, shut
    <3> QED BY <1>1, <3>1, <3>2, <3>3
  <2>2. CASE ~ (i > 0 /\ tl[i].end = None)
    BY <2>2
  <2> QED BY <2>1, <2>2
<1>5. new \in Incarnation
  <2>1. CASE i < Len(tl)
    <3>1. tl[i + 1].start \in Int
      BY <1>1, <1>2, <2>1
    <3> QED BY <2>1, <3>1 DEF Incarnation
  <2>2. CASE ~ (i < Len(tl))
    BY <2>2
  <2> QED BY <2>1, <2>2
<1> HIDE DEF shut, new
<1>6. i + 1 \in 1 .. Len(shut) + 1
  BY <1>1, <1>2, <1>4
<1> QED BY <1>3, <1>4, <1>5, <1>6, InsertAtFacts

(* A creation report names an incarnation that is there.                    *)
LEMMA CreateKeeps ==
  ASSUME IInv, graph \in Graph, NEW p \in Pids, NEW t \in Times,
         NEW par \in ParentsOf[p] \ {p}, Create(p, t, par)
  PROVE  /\ IInv' /\ Observe(t)
         /\ Extends(graph, graph') /\ drawn' \in graph'.edges \cup {None}
<1> DEFINE same == {i \in DOMAIN timeline[p] : SameCreation(timeline[p][i], t, None, par)}
           i == IF same # {} THEN CHOOSE j \in same : \A m \in same : j <= m
                ELSE Bisect(timeline[p], t) + 1
           link == Linked(timeline, par, t)
           inc == [start |-> t, end |-> None, name |-> None, ticks |-> None, parent |-> par,
                   parentNode |-> link.node, inferred |-> FALSE, endObserved |-> FALSE]
           old == timeline'[p][i]
           made == Created(<<p, old.start>>, old.parentNode, p, t, known')
<1>1. par \in (Parents \ {p}) \cup {None} /\ par \in Pids \cup {None} /\ p # par /\ t \in Int
  BY GraphAssumption, RegistryAssumption DEF Times
<1>2. ObserveStart(p, t, None, None, par) /\ graph' = made.graph /\ drawn' = made.edge
  BY DEF Create
<1>3. IInv' /\ Observe(t)
  BY <1>1, <1>2, StartKeeps DEF ObserveStart
<1>4. timeline[p] \in Seq(Incarnation) /\ SortedSeq(timeline[p])
  BY DEF IInv, AllSound, Sound
<1>5. timeline'[p] \in Seq(Incarnation) /\ known' \in SUBSET NodeId
  BY <1>3 DEF IInv, TypeOK
<1>6. i \in DOMAIN timeline'[p]
  <2>1. CASE same # {}
    <3>1. PICK j \in same : timeline' = [timeline EXCEPT ![p][j] = FillMissing(@, None, None, par)]
      BY <1>2, <2>1 DEF ObserveStart
    <3>2. DOMAIN timeline'[p] = DOMAIN timeline[p]
      BY <3>1 DEF IInv, TypeOK
    <3>3. same \in SUBSET Nat
      BY <1>4
    <3>4. \E m \in same : \A n \in same : m <= n
      BY <2>1, <3>3, Least
    <3>5. i \in same
      <4> HIDE DEF same
      <4> QED BY <2>1, <3>4
    <3> QED BY <3>2, <3>5
  <2>2. CASE same = {}
    <3>1. timeline' = [link.timelines EXCEPT ![p] = Inserted(@, inc)]
      BY <1>2, <2>2 DEF ObserveStart
    <3>2. AllSound(link.timelines, reports) /\ link.node \in NodeId \cup {None}
      BY <1>1, LinkedIsSound DEF IInv
    <3>3. link.timelines[p] = timeline[p]
      BY <1>1 DEF Linked, IInv, TypeOK
    <3> HIDE DEF link
    <3>4. inc \in Incarnation
      BY <1>1, <3>2 DEF Incarnation
    <3> HIDE DEF inc
    <3>5. timeline'[p] = Inserted(timeline[p], inc)
      BY <3>1, <3>2, <3>3 DEF AllSound
    <3>6. DOMAIN timeline'[p] = 1 .. Len(timeline[p]) + 1
      BY <1>4, <3>4, <3>5, InsertedLonger
    <3>7. Bisect(timeline[p], t) \in 0 .. Len(timeline[p]) /\ Len(timeline[p]) \in Nat
      BY <1>1, <1>4, BisectSplits, Entries
    <3> QED BY <2>2, <3>6, <3>7
  <2> QED BY <2>1, <2>2
<1> HIDE DEF i
<1>7. old \in Incarnation
  BY <1>5, <1>6
<1> HIDE DEF old
<1>8. <<p, old.start>> \in NodeId /\ old.parentNode \in NodeId \cup {None}
  BY <1>7 DEF Incarnation, NodeId
<1>9. ASSUME NEW ids, ids = known'
      PROVE  LET m == Created(<<p, old.start>>, old.parentNode, p, t, ids)
             IN  Extends(graph, m.graph) /\ m.edge \in m.graph.edges \cup {None}
  BY <1>5, <1>8, <1>9, CreatedExtends
<1>10. Extends(graph, made.graph) /\ made.edge \in made.graph.edges \cup {None}
  BY <1>9
<1> HIDE DEF made
<1> QED BY <1>2, <1>3, <1>10

(* An event extends the graph, and is recorded at its time.                 *)
LEMMA EventExtends ==
  ASSUME IInv, graph \in Graph, NEW t \in Times, Event(t)
  PROVE  /\ IInv' /\ Observe(t)
         /\ Extends(graph, graph') /\ drawn' \in graph'.edges \cup {None}
<1>1. PICK p \in Pids :
        \/ Stop(p, t)
        \/ \E par \in ParentsOf[p] \ {p} :
             \/ Create(p, t, par)
             \/ \E kind \in Kinds \ CrossProcess, thing \in Named :
                  Act(kind, p, t, thing, par)
             \/ \E kind \in Kinds \cap CrossProcess, q \in {q \in Pids \ {p} : ParentsOf[q] # {}} :
                  Cross(kind, p, q, t, par)
  BY DEF Event
<1>2. ASSUME NEW result, Legal(result), Record(t, result)
      PROVE  /\ IInv' /\ Observe(t)
             /\ Extends(graph, graph') /\ drawn' \in graph'.edges \cup {None}
  <2>1. /\ Observe(t) /\ timeline' = result.timelines /\ known' = known \cup result.new
        /\ graph' = result.graph /\ drawn' = result.edge /\ reports' = reports
    BY <1>2 DEF Record
  <2>2. pace' \in Paces /\ clock' \in 0 .. MaxTime /\ steps' \in 0 .. MaxEvents
    BY <2>1, Observing DEF IInv
  <2>3. AllSound(timeline', reports')
    BY <1>2, <2>1 DEF Legal
  <2>4. IInv'
    BY <1>2, <2>1, <2>2, <2>3 DEF Legal, IInv, TypeOK, AllSound
  <2> QED BY <1>2, <2>1, <2>4 DEF Legal
<1>3. \A par \in ParentsOf[p] : par \in Pids \cup {None}
  BY GraphAssumption, RegistryAssumption
<1>4. CASE Stop(p, t)
  <2>1. IInv' /\ Observe(t)
    BY <1>4, StopKeeps DEF Stop, ObserveStop
  <2> QED BY <1>4, <2>1, ExtendsItself DEF Stop
<1>5. ASSUME NEW par \in ParentsOf[p] \ {p}, NEW kind \in Kinds, NEW thing \in Named,
             Act(kind, p, t, thing, par)
      PROVE  /\ IInv' /\ Observe(t)
             /\ Extends(graph, graph') /\ drawn' \in graph'.edges \cup {None}
  <2>1. Legal(Acted(kind, p, t, thing, par))
    BY <1>3, ActedIsLegal
  <2>2. Record(t, Acted(kind, p, t, thing, par))
    BY <1>5 DEF Act
  <2> HIDE DEF Acted
  <2> QED BY <1>2, <2>1, <2>2
<1>6. ASSUME NEW par \in ParentsOf[p] \ {p}, NEW kind \in Kinds, NEW q \in Pids,
             Cross(kind, p, q, t, par)
      PROVE  /\ IInv' /\ Observe(t)
             /\ Extends(graph, graph') /\ drawn' \in graph'.edges \cup {None}
  <2>1. Legal(Crossed(kind, p, q, t, par))
    BY <1>3, CrossedIsLegal
  <2>2. Record(t, Crossed(kind, p, q, t, par))
    BY <1>6 DEF Cross
  <2> QED BY <1>2, <2>1, <2>2
<1>7. ASSUME NEW par \in ParentsOf[p] \ {p}, Create(p, t, par)
      PROVE  /\ IInv' /\ Observe(t)
             /\ Extends(graph, graph') /\ drawn' \in graph'.edges \cup {None}
  BY <1>7, CreateKeeps
<1> QED BY <1>1, <1>4, <1>5, <1>6, <1>7
-----------------------------------------------------------------------------
(* Everything tagged, opened and alerted so far is of the past.             *)
Dated ==
  /\ todo # <<>> => drawn.ts = clock
  /\ \A t \in tagged : t.edge.ts <= clock
  /\ \A i \in DOMAIN incidents :
       /\ i[1].ts = incidents[i].opened
       /\ incidents[i].opened <= incidents[i].last /\ incidents[i].last <= clock

(* An incident has reported a tag, if it is recent enough to be collected.  *)
Told(i, t) ==
  /\ t.edge.ts <= incidents[i].last
  /\ t.edge.ts >= incidents[i].opened - Horizon =>
       TacticOf[t.rule] \in incidents[i].tactics \cup {NoTactic}

(* Every incident has reported its tags, but for those of the edge that is  *)
(* being correlated.                                                        *)
AllTold ==
  \A i \in DOMAIN incidents, t \in tagged :
    Actor(t.edge) \in incidents[i].scope /\ (todo # <<>> => t.edge # drawn) => Told(i, t)

(* What an alert of now was about is in an incident, and an open incident   *)
(* is past all its alerts.                                                  *)
Standing(a) ==
  /\ \/ a.id[1].ts < clock
     \/ \E i \in DOMAIN incidents : /\ Actor(a.id[1]) \in incidents[i].scope
                                     /\ a.id[1].ts <= incidents[i].last
  /\ a.id \in DOMAIN incidents => a.revision <= incidents[a.id].revision
Remembered == \A k \in DOMAIN alerts : Standing(alerts[k])

(* What holds of a fresh stream.                                            *)
FreshInv == Dated /\ AllTold /\ Remembered /\ AlertIdsUnique

(* The inductive invariant: the graph and the registry and the tracker are  *)
(* sound, no walk meets an edge that is gone, and a fresh stream is told.   *)
CInv ==
  /\ IInv /\ TrackerInv
  /\ graph \in Graph /\ Live(graph)
  /\ drawn \in graph.edges \cup {None}
  /\ todo \in Seq(Rules) /\ (todo # <<>> => drawn # None)
  /\ fresh \in BOOLEAN /\ (fresh => FreshInv)

(* The times that are compared.                                             *)
LEMMA Comparable ==
  ASSUME CInv
  PROVE  /\ clock \in Int
         /\ \A t \in tagged : t \in Tag /\ t.edge \in Edge /\ t.edge.ts \in Int /\ t.rule \in Rules
         /\ \A i \in DOMAIN incidents :
              /\ i \in IncidentId /\ i[1].ts \in Int /\ incidents[i] \in Incident
              /\ incidents[i].opened \in Int /\ incidents[i].last \in Int
              /\ incidents[i].revision \in Nat
         /\ \A k \in DOMAIN alerts : /\ alerts[k] \in Alert /\ alerts[k].id[1].ts \in Int
                                      /\ alerts[k].revision \in Nat
<1>1. clock \in Int
  BY RegistryAssumption DEF CInv, IInv, TypeOK
<1>2. \A t \in tagged : t \in Tag /\ t.edge \in Edge /\ t.edge.ts \in Int /\ t.rule \in Rules
  BY DEF CInv, TrackerInv, TrackerTypeOK, Tag, Edge
<1>3. \A i \in IncidentId : i[1].ts \in Int
  BY DEF IncidentId, Edge
<1>4. \A i \in DOMAIN incidents : i \in IncidentId /\ incidents[i] \in Incident
  BY DEF CInv, TrackerInv, TrackerTypeOK
<1>5. \A i \in DOMAIN incidents : /\ incidents[i].opened \in Int /\ incidents[i].last \in Int
                                  /\ incidents[i].revision \in Nat
  BY <1>4 DEF Incident
<1>6. \A k \in DOMAIN alerts : alerts[k] \in Alert
  BY DEF CInv, TrackerInv, TrackerTypeOK
<1>7. \A a \in Alert : a.id \in IncidentId /\ a.revision \in Nat
  BY DEF Alert
<1> QED BY <1>1, <1>2, <1>3, <1>4, <1>5, <1>6, <1>7

(* The tag to be correlated, and its scope.                                 *)
LEMMA ScopeTypes ==
  ASSUME CInv, Correlate
  PROVE  LET tag == TagOf(drawn, Head(todo))
             scope == ScopeOf(drawn)
         IN  /\ tag \in Tag /\ tag.edge = drawn
             /\ scope \in SUBSET Node /\ Actor(tag.edge) \in scope
<1>1. drawn \in Edge
  BY GraphParts DEF CInv, Correlate
<1>2. Head(todo) \in Rules
  BY DEF CInv, Correlate
<1>3. Actor(drawn) \in Node
  BY <1>1 DEF Actor, Edge, Node
<1>4. graph.nodes \cup known \subseteq Node
  BY GraphParts, ProcessesAreNodes DEF CInv, IInv, TypeOK
<1>5. ScopeOf(drawn) \in SUBSET Node /\ Actor(drawn) \in ScopeOf(drawn)
  BY <1>3, <1>4 DEF ScopeOf
<1> QED BY <1>1, <1>2, <1>5 DEF TagOf, Tag

(* What the context factors add up to is never negative.                    *)
LEMMA ContextType == \A inc : Context(inc) \in Nat
  BY DEF Context

(* Correlating the next tag is an on_tag of the tracker.                    *)
LEMMA CorrelateIsOnTag ==
  ASSUME CInv, Correlate
  PROVE  \E context \in Nat : OnTag(TagOf(drawn, Head(todo)), ScopeOf(drawn), context)
<1> DEFINE tag == TagOf(drawn, Head(todo))
           scope == ScopeOf(drawn)
<1>1. \/ Ignore(tag, scope)
      \/ Open(tag, scope, Context(Opened(scope, tag.edge.ts)))
      \/ \E keep \in Oldest(scope) :
           Join(keep, tag, scope, Context(Merged(keep, scope, tag.edge.ts)))
  BY DEF Correlate
<1> HIDE DEF tag, scope
<1>2. CASE Ignore(tag, scope)
  <2>1. OnTag(tag, scope, 0)
    BY <1>2 DEF OnTag
  <2> QED BY <2>1 DEF tag, scope
<1>3. CASE Open(tag, scope, Context(Opened(scope, tag.edge.ts)))
  <2> DEFINE context == Context(Opened(scope, tag.edge.ts))
  <2>1. OnTag(tag, scope, context)
    BY <1>3 DEF OnTag
  <2>2. context \in Nat
    BY ContextType
  <2> HIDE DEF context
  <2> QED BY <2>1, <2>2 DEF tag, scope
<1>4. CASE \E keep \in Oldest(scope) :
             Join(keep, tag, scope, Context(Merged(keep, scope, tag.edge.ts)))
  <2>1. PICK keep \in Oldest(scope) :
               Join(keep, tag, scope, Context(Merged(keep, scope, tag.edge.ts)))
    BY <1>4
  <2> DEFINE context == Context(Merged(keep, scope, tag.edge.ts))
  <2>2. OnTag(tag, scope, context)
    BY <2>1 DEF OnTag
  <2>3. context \in Nat
    BY ContextType
  <2> HIDE DEF context
  <2> QED BY <2>2, <2>3 DEF tag, scope
<1> QED BY <1>1, <1>2, <1>3, <1>4

(* The incident that takes the place of all a scope touches has reported    *)
(* everything in it, and the alert it emits is a new one.                   *)
LEMMA ReplacedIsTold ==
  ASSUME CInv, FreshInv, todo # <<>>,
         NEW id \in IncidentId, NEW inc \in Incident,
         NEW scope \in SUBSET Node, NEW context \in Nat, Actor(drawn) \in scope,
         id \in Touching(scope) \/ (Touching(scope) = {} /\ id \notin DOMAIN incidents),
         inc.scope = scope \cup UNION {incidents[i].scope : i \in Touching(scope)},
         Actor(id[1]) \in inc.scope,
         id[1].ts = inc.opened, inc.opened <= clock, inc.last = clock,
         \A k \in DOMAIN alerts : alerts[k].id = id => alerts[k].revision <= inc.revision,
         Replaced(id, inc, scope, context), UNCHANGED <<tagged, clock, drawn>>
  PROVE  FreshInv'
<1> DEFINE new == Refreshed(inc, context)
           gone == Touching(scope) \ {id}
           ids == (DOMAIN incidents \ gone) \cup {id}
           alert == [id |-> id, revision |-> new.revision,
                     tactics |-> new.tactics, band |-> new.band]
<1>1. /\ new \in Incident
      /\ new.scope = inc.scope /\ new.opened = inc.opened /\ new.last = inc.last
      /\ TacticsOf(Collected(inc)) \subseteq new.tactics
      /\ Emits(inc, context) => new.revision = inc.revision + 1
      /\ ~ Emits(inc, context) => new = inc
  BY RefreshKeeps DEF CInv, TrackerInv
<1>2. incidents' = [i \in ids |-> IF i = id THEN new ELSE incidents[i]]
  BY DEF Replaced
<1>3. alerts' = IF ~ Emits(inc, context) THEN alerts ELSE Append(alerts, alert)
  BY DEF Replaced
<1>4. inc.revision \in Nat /\ inc.opened \in Int /\ inc.last \in Int /\ inc.tactics \in SUBSET Tactics
  BY DEF Incident
<1>5. Touching(scope) \subseteq DOMAIN incidents
  BY DEF Touching
<1>6. clock \in Int /\ clock' = clock /\ tagged' = tagged /\ drawn' = drawn
  BY Comparable
<1> HIDE DEF new, alert
<1>7. \A i \in ids : i # id =>
        i \in DOMAIN incidents /\ i \notin Touching(scope) /\ incidents'[i] = incidents[i]
  BY <1>2
<1>8. incidents'[id] = new /\ id \in ids /\ DOMAIN incidents' = ids
  BY <1>2
<1>9. new.revision \in Nat /\ inc.revision <= new.revision
  BY <1>1, <1>4
<1> HIDE DEF ids, gone
<1>10. Dated'
  <2>1. \A t \in tagged : t.edge.ts <= clock
    BY DEF FreshInv, Dated
  <2>2. ASSUME NEW i \in ids
        PROVE  /\ i[1].ts = incidents'[i].opened
               /\ incidents'[i].opened <= incidents'[i].last /\ incidents'[i].last <= clock
    <3>1. CASE i = id
      BY <1>1, <1>4, <1>6, <1>8, <3>1
    <3>2. CASE i # id
      BY <1>7, <3>2 DEF FreshInv, Dated
    <3> QED BY <3>1, <3>2
  <2>3. drawn.ts = clock
    BY DEF FreshInv, Dated
  <2> QED BY <1>6, <1>8, <2>1, <2>2, <2>3 DEF Dated
<1>11. AllTold'
  <2> SUFFICES ASSUME NEW i \in ids, NEW t \in tagged, Actor(t.edge) \in incidents'[i].scope
               PROVE  /\ t.edge.ts <= incidents'[i].last
                      /\ t.edge.ts >= incidents'[i].opened - Horizon =>
                           TacticOf[t.rule] \in incidents'[i].tactics \cup {NoTactic}
    BY <1>6, <1>8 DEF AllTold, Told
  <2>1. CASE i = id
    <3>1. t.edge.ts <= clock /\ Actor(t.edge) \in inc.scope
      BY <1>1, <1>8, <2>1 DEF FreshInv, Dated
    <3>2. ASSUME t.edge.ts >= inc.opened - Horizon, TacticOf[t.rule] # NoTactic
          PROVE  TacticOf[t.rule] \in new.tactics
      <4>1. Horizon \in Nat /\ t.edge.ts \in Int
        BY TrackerAssumption, Comparable
      <4>2. inc.opened - Horizon <= t.edge.ts
        BY <1>4, <3>2, <4>1
      <4>3. t \in Collected(inc)
        BY <3>1, <4>2 DEF Collected, Within
      <4>4. TacticOf[t.rule] \in TacticsOf(Collected(inc))
        BY <3>2, <4>3 DEF TacticsOf
      <4> QED BY <1>1, <4>4
    <3> QED BY <1>1, <1>8, <2>1, <3>1, <3>2
  <2>2. CASE i # id
    <3>1. i \in DOMAIN incidents /\ i \notin Touching(scope) /\ incidents'[i] = incidents[i]
      BY <1>7, <2>2
    <3>2. t.edge # drawn
      <4> SUFFICES ASSUME t.edge = drawn PROVE FALSE
        OBVIOUS
      <4>1. Actor(drawn) \in DOMAIN byNode /\ byNode[Actor(drawn)] = i
        BY <3>1 DEF CInv, TrackerInv, ByNodeExact
      <4> QED BY <3>1, <4>1 DEF Touching
    <3>3. Told(i, t)
      BY <3>1, <3>2 DEF FreshInv, AllTold
    <3> QED BY <3>1, <3>3 DEF Told
  <2> QED BY <2>1, <2>2
<1>12. ASSUME NEW k \in DOMAIN alerts
       PROVE  /\ \/ alerts[k].id[1].ts < clock
                 \/ \E i \in ids : /\ Actor(alerts[k].id[1]) \in incidents'[i].scope
                                   /\ alerts[k].id[1].ts <= incidents'[i].last
              /\ alerts[k].id \in ids => alerts[k].revision <= incidents'[alerts[k].id].revision
  <2> DEFINE a == alerts[k]
  <2>1. a.id[1].ts \in Int /\ a.revision \in Nat
    BY Comparable
  <2>2. Standing(a)
    BY DEF FreshInv, Remembered
  <2>3. ASSUME NEW i \in DOMAIN incidents, Actor(a.id[1]) \in incidents[i].scope,
               a.id[1].ts <= incidents[i].last
        PROVE  \E j \in ids : /\ Actor(a.id[1]) \in incidents'[j].scope
                             /\ a.id[1].ts <= incidents'[j].last
    <3>1. CASE i \in Touching(scope)
      <4>1. Actor(a.id[1]) \in inc.scope
        BY <2>3, <3>1
      <4>2. incidents[i].last <= clock /\ incidents[i].last \in Int
        BY Comparable DEF FreshInv, Dated
      <4>3. a.id[1].ts <= clock
        BY <1>6, <2>1, <2>3, <4>2
      <4> QED BY <1>1, <1>8, <4>1, <4>3
    <3>2. CASE i \notin Touching(scope)
      <4>1. i \in ids /\ i # id
        BY <3>2 DEF ids, gone
      <4> QED BY <1>7, <2>3, <4>1
    <3> QED BY <3>1, <3>2
  <2>4. ASSUME a.id \in ids PROVE a.revision <= incidents'[a.id].revision
    <3>1. CASE a.id = id
      BY <1>4, <1>8, <1>9, <2>1, <3>1
    <3>2. CASE a.id # id
      BY <1>7, <2>2, <2>4, <3>2 DEF Standing
    <3> QED BY <3>1, <3>2
  <2> QED BY <2>2, <2>3, <2>4 DEF Standing
<1>13. CASE ~ Emits(inc, context)
  <2>1. alerts' = alerts
    BY <1>3, <1>13
  <2>2. Remembered'
    BY <1>6, <1>8, <1>12, <2>1 DEF Remembered, Standing
  <2>3. AlertIdsUnique'
    BY <2>1 DEF FreshInv, AlertIdsUnique
  <2> QED BY <1>10, <1>11, <2>2, <2>3 DEF FreshInv
<1>14. CASE Emits(inc, context)
  <2> DEFINE n == Len(alerts)
  <2>1. alerts \in Seq(Alert) /\ n \in Nat /\ DOMAIN alerts = 1 .. n
    BY DEF CInv, TrackerInv, TrackerTypeOK
  <2>2. alert \in Alert /\ alert.id = id /\ alert.revision = inc.revision + 1 /\ alert.revision = new.revision
    BY <1>1, <1>14 DEF Incident, Alert, alert
  <2>3. /\ DOMAIN alerts' = 1 .. n + 1 /\ alerts'[n + 1] = alert
        /\ \A k \in 1 .. n : alerts'[k] = alerts[k]
    BY <1>3, <1>14, <2>1, <2>2, AppendProperties
  <2> HIDE DEF n
  <2>4. Remembered'
    <3>1. ASSUME NEW k \in 1 .. n + 1
          PROVE  /\ \/ alerts'[k].id[1].ts < clock
                    \/ \E i \in ids : /\ Actor(alerts'[k].id[1]) \in incidents'[i].scope
                                      /\ alerts'[k].id[1].ts <= incidents'[i].last
                 /\ alerts'[k].id \in ids => alerts'[k].revision <= incidents'[alerts'[k].id].revision
      <4>1. CASE k = n + 1
        BY <1>1, <1>8, <1>9, <2>2, <2>3, <4>1
      <4>2. CASE k # n + 1
        <5>1. k \in DOMAIN alerts /\ alerts'[k] = alerts[k]
          BY <2>1, <2>3, <4>2
        <5> QED BY <1>12, <5>1
      <4> QED BY <4>1, <4>2
    <3> QED BY <1>6, <1>8, <2>3, <3>1 DEF Remembered, Standing
  <2>5. AlertIdsUnique'
    <3>1. ASSUME NEW k \in 1 .. n
          PROVE  <<alerts[k].id, alerts[k].revision>> # <<alert.id, alert.revision>>
      <4>1. alerts[k].id = id => alerts[k].revision <= inc.revision
        BY <2>1
      <4>2. alerts[k].revision \in Nat
        BY <2>1, Comparable
      <4> QED BY <1>4, <2>2, <4>1, <4>2
    <3>2. ASSUME NEW i \in 1 .. n + 1, NEW j \in 1 .. n + 1, i # j
          PROVE  <<alerts'[i].id, alerts'[i].revision>> # <<alerts'[j].id, alerts'[j].revision>>
      <4>1. CASE i \in 1 .. n /\ j \in 1 .. n
        BY <2>1, <2>3, <3>2, <4>1 DEF FreshInv, AlertIdsUnique
      <4>2. CASE i = n + 1 /\ j \in 1 .. n
        BY <2>3, <3>1, <4>2
      <4>3. CASE i \in 1 .. n /\ j = n + 1
        BY <2>3, <3>1, <4>3
      <4> QED BY <2>1, <3>2, <4>1, <4>2, <4>3
    <3> QED BY <2>3, <3>2 DEF AlertIdsUnique
  <2> QED BY <1>10, <1>11, <2>4, <2>5 DEF FreshInv
<1> QED BY <1>13, <1>14

(* A tag that is correlated at the time of the latest event is told.        *)
LEMMA OnTagTells ==
  ASSUME CInv, FreshInv, todo # <<>>, NEW tag \in Tag, tag.edge = drawn,
         NEW scope \in SUBSET Node, Actor(tag.edge) \in scope,
         NEW context \in Nat, OnTag(tag, scope, context), UNCHANGED <<clock, drawn>>
  PROVE  FreshInv'
<1>1. TrackerInv /\ drawn.ts = clock /\ clock \in Int
  BY Comparable DEF CInv, FreshInv, Dated
<1>2. CASE \E keep \in Oldest(scope) : Join(keep, tag, scope, context)
  <2>1. PICK keep \in Oldest(scope) : Join(keep, tag, scope, context)
    BY <1>2
  <2> DEFINE inc == Merged(keep, scope, tag.edge.ts)
  <2>2. /\ keep \in Touching(scope) /\ keep \in DOMAIN incidents
        /\ keep \in IncidentId /\ inc \in Incident
        /\ inc.scope = scope \cup UNION {incidents[i].scope : i \in Touching(scope)}
        /\ Actor(keep[1]) \in inc.scope
        /\ inc.opened = incidents[keep].opened /\ inc.revision = incidents[keep].revision
        /\ inc.last = IF tag.edge.ts > incidents[keep].last THEN tag.edge.ts
                      ELSE incidents[keep].last
    BY <1>1, JoinReplaces
  <2>3. Replaced(keep, inc, scope, context) /\ UNCHANGED tagged
    BY <2>1 DEF Join
  <2> HIDE DEF inc
  <2>4. /\ keep[1].ts = incidents[keep].opened /\ incidents[keep].opened \in Int
        /\ incidents[keep].opened <= incidents[keep].last
        /\ incidents[keep].last <= clock /\ incidents[keep].last \in Int
    BY <2>2, Comparable DEF FreshInv, Dated
  <2>5. keep[1].ts = inc.opened /\ inc.opened <= clock /\ inc.last = clock
    BY <1>1, <2>2, <2>4
  <2>6. \A k \in DOMAIN alerts : alerts[k].id = keep => alerts[k].revision <= inc.revision
    BY <2>2 DEF FreshInv, Remembered, Standing
  <2> QED BY <2>2, <2>3, <2>5, <2>6, ReplacedIsTold
<1>3. CASE Open(tag, scope, context)
  <2> DEFINE id == <<tag.edge, tag.rule>>
             inc == Opened(scope, tag.edge.ts)
  <2>1. Touching(scope) = {} /\ Replaced(id, inc, scope, context) /\ UNCHANGED tagged
    BY <1>3 DEF Open
  <2>2. /\ id \in IncidentId /\ id \notin DOMAIN incidents /\ inc \in Incident
        /\ inc.scope = scope \cup UNION {incidents[i].scope : i \in Touching(scope)}
        /\ Actor(id[1]) \in inc.scope
    BY <1>1, <2>1, OpenReplaces
  <2>3. id[1] = drawn /\ id[1].ts = inc.opened /\ inc.opened <= clock /\ inc.last = clock
    BY <1>1 DEF Opened
  <2> HIDE DEF id, inc
  <2>4. ASSUME NEW k \in DOMAIN alerts, alerts[k].id = id PROVE FALSE
    <3>1. Standing(alerts[k])
      BY DEF FreshInv, Remembered
    <3>2. ~ (alerts[k].id[1].ts < clock)
      BY <1>1, <2>3, <2>4
    <3>3. PICK i \in DOMAIN incidents : Actor(drawn) \in incidents[i].scope
      BY <2>3, <2>4, <3>1, <3>2 DEF Standing
    <3>4. Actor(drawn) \in DOMAIN byNode /\ byNode[Actor(drawn)] = i
      BY <1>1, <3>3 DEF TrackerInv, ByNodeExact
    <3> QED BY <2>1, <3>4 DEF Touching
  <2> QED BY <2>1, <2>2, <2>3, <2>4, ReplacedIsTold
<1>4. CASE Ignore(tag, scope)
  <2>1. Touching(scope) = {} /\ UNCHANGED trackerVars
    BY <1>4 DEF Ignore
  <2>2. UNCHANGED <<tagged, incidents, byNode, alerts>>
    BY <2>1 DEF trackerVars
  <2>3. \A i \in DOMAIN incidents : Actor(drawn) \notin incidents[i].scope
    <3> SUFFICES ASSUME NEW i \in DOMAIN incidents, Actor(drawn) \in incidents[i].scope
                 PROVE  FALSE
      OBVIOUS
    <3>1. Actor(drawn) \in DOMAIN byNode /\ byNode[Actor(drawn)] = i
      BY <1>1 DEF TrackerInv, ByNodeExact
    <3> QED BY <2>1, <3>1 DEF Touching
  <2>4. Dated'
    BY <1>1, <2>2 DEF FreshInv, Dated
  <2>5. AllTold'
    <3> SUFFICES ASSUME NEW i \in DOMAIN incidents, NEW t \in tagged,
                        Actor(t.edge) \in incidents[i].scope
                 PROVE  Told(i, t)
      BY <2>2 DEF AllTold, Told
    <3> QED BY <2>3 DEF FreshInv, AllTold
  <2>6. Remembered' /\ AlertIdsUnique'
    BY <2>2 DEF FreshInv, Remembered, Standing, AlertIdsUnique
  <2> QED BY <2>4, <2>5, <2>6 DEF FreshInv
<1> QED BY <1>2, <1>3, <1>4 DEF OnTag

(* Correlating one tag.                                                     *)
LEMMA CorrelateKeeps ==
  ASSUME CInv, Correlate
  PROVE  CInv'
<1> DEFINE tag == TagOf(drawn, Head(todo))
           scope == ScopeOf(drawn)
<1>1. /\ todo # <<>> /\ todo' = Tail(todo) /\ fresh' = fresh
      /\ UNCHANGED <<pace, timeline, known, clock, steps, reports, graph, drawn>>
  BY DEF Correlate, graphVars, vars
<1>2. tag \in Tag /\ tag.edge = drawn /\ scope \in SUBSET Node /\ Actor(tag.edge) \in scope
  BY ScopeTypes
<1>3. PICK context \in Nat : OnTag(tag, scope, context)
  BY CorrelateIsOnTag
<1> HIDE DEF tag, scope
<1>4. TrackerInv'
  BY <1>2, <1>3, OnTagKeeps DEF CInv
<1>5. fresh => FreshInv'
  BY <1>1, <1>2, <1>3, OnTagTells DEF CInv
<1>6. IInv'
  BY <1>1 DEF CInv, IInv, TypeOK, AllSound
<1>7. todo' \in Seq(Rules)
  BY <1>1 DEF CInv
<1> QED BY <1>1, <1>4, <1>5, <1>6, <1>7 DEF CInv, Live

(* Recording an event and tagging its edge.                                 *)
LEMMA ProcessEventKeeps ==
  ASSUME CInv, NEW t \in Times, ProcessEvent(t)
  PROVE  CInv'
<1>1. /\ todo = <<>> /\ Event(t)
      /\ fresh' = (fresh /\ t >= clock /\ (drawn' # None => drawn'.ts = t))
  BY DEF ProcessEvent
<1>2. PICK found \in Findings :
        /\ todo' = IF drawn' = None THEN <<>> ELSE found
        /\ Attach({TagOf(drawn', todo'[i]) : i \in DOMAIN todo'})
  BY DEF ProcessEvent
<1> DEFINE new == {TagOf(drawn', todo'[i]) : i \in DOMAIN todo'}
<1>3. /\ IInv' /\ Observe(t)
      /\ Extends(graph, graph') /\ drawn' \in graph'.edges \cup {None}
  BY <1>1, EventExtends DEF CInv
<1>4. graph' \in Graph /\ Live(graph')
  BY <1>3 DEF CInv, Extends
<1>5. todo' \in Seq(Rules) /\ (todo' # <<>> => drawn' # None)
  <2>1. found \in Seq(Rules) /\ <<>> \in Seq(Rules)
    BY CorrelationAssumption
  <2> QED BY <1>2, <2>1
<1>6. tagged' = tagged \cup new /\ UNCHANGED <<incidents, byNode, alerts>>
  BY <1>2 DEF Attach
<1>7. \A u \in new : u \in Tag /\ u.edge = drawn' /\ todo' # <<>>
  <2> SUFFICES ASSUME NEW i \in DOMAIN todo'
               PROVE  /\ TagOf(drawn', todo'[i]) \in Tag
                      /\ TagOf(drawn', todo'[i]).edge = drawn' /\ todo' # <<>>
    OBVIOUS
  <2>1. todo' # <<>> /\ todo'[i] \in Rules
    BY <1>5
  <2>2. drawn' \in Edge
    <3>1. graph'.edges \subseteq Edge
      BY <1>4, GraphParts
    <3> QED BY <1>3, <1>5, <2>1, <3>1
  <2> QED BY <2>1, <2>2 DEF TagOf, Tag
<1> HIDE DEF new
<1>8. TrackerInv'
  <2>1. tagged' \subseteq Tag
    BY <1>6, <1>7 DEF CInv, TrackerInv, TrackerTypeOK
  <2> QED BY <1>6, <2>1 DEF CInv, TrackerInv, TrackerTypeOK, ByNodeExact, Anchored
<1>9. ASSUME fresh' PROVE FreshInv'
  <2>1. fresh /\ t >= clock /\ (drawn' # None => drawn'.ts = t)
    BY <1>1, <1>9 DEF CInv
  <2>2. FreshInv
    BY <2>1 DEF CInv
  <2>3. clock \in Int /\ t \in Int /\ clock' = t /\ clock <= clock'
    BY <1>3, <2>1, Comparable DEF Observe, Times
  <2>4. Dated'
    <3>1. todo' # <<>> => drawn'.ts = clock'
      BY <1>5, <2>1, <2>3
    <3>2. ASSUME NEW u \in tagged' PROVE u.edge.ts <= clock'
      <4>1. CASE u \in tagged
        BY <2>2, <2>3, <4>1, Comparable DEF FreshInv, Dated
      <4>2. CASE u \in new
        <5>1. u.edge.ts = clock'
          BY <1>7, <3>1, <4>2
        <5> QED BY <2>3, <5>1
      <4> QED BY <1>6, <4>1, <4>2
    <3>3. ASSUME NEW i \in DOMAIN incidents
          PROVE  /\ i[1].ts = incidents[i].opened
                 /\ incidents[i].opened <= incidents[i].last /\ incidents[i].last <= clock'
      BY <2>2, <2>3, Comparable DEF FreshInv, Dated
    <3> QED BY <1>6, <3>1, <3>2, <3>3 DEF Dated
  <2>5. AllTold'
    <3> SUFFICES ASSUME NEW i \in DOMAIN incidents, NEW u \in tagged',
                        Actor(u.edge) \in incidents[i].scope, todo' # <<>> => u.edge # drawn'
                 PROVE  Told(i, u)
      BY <1>6 DEF AllTold, Told
    <3>1. u \in tagged
      BY <1>6, <1>7
    <3> QED BY <1>1, <2>2, <3>1 DEF FreshInv, AllTold
  <2>6. Remembered'
    <3> SUFFICES ASSUME NEW k \in DOMAIN alerts
                 PROVE  /\ \/ alerts[k].id[1].ts < clock'
                           \/ \E i \in DOMAIN incidents :
                                /\ Actor(alerts[k].id[1]) \in incidents[i].scope
                                /\ alerts[k].id[1].ts <= incidents[i].last
                        /\ alerts[k].id \in DOMAIN incidents =>
                             alerts[k].revision <= incidents[alerts[k].id].revision
      BY <1>6 DEF Remembered, Standing
    <3>1. Standing(alerts[k])
      BY <2>2 DEF FreshInv, Remembered
    <3>2. alerts[k].id[1].ts \in Int
      BY Comparable
    <3> QED BY <2>3, <3>1, <3>2 DEF Standing
  <2>7. AlertIdsUnique'
    BY <1>6, <2>2 DEF FreshInv, AlertIdsUnique
  <2> QED BY <2>4, <2>5, <2>6, <2>7 DEF FreshInv
<1>10. fresh' \in BOOLEAN
  BY <1>1
<1> QED BY <1>3, <1>4, <1>5, <1>8, <1>9, <1>10 DEF CInv

(* What prune forgets had gone quiet.                                       *)
LEMMA PruneAllKeeps ==
  ASSUME CInv, NEW before \in Times, PruneAll(before)
  PROVE  CInv'
<1> DEFINE gone == Forgotten(before)
           kept == {n \in DOMAIN byNode : byNode[n] \notin gone}
<1>1. /\ todo = <<>> /\ Prune(before) /\ graph' = PrunedGraph(graph, before) /\ drawn' = None
      /\ PruneIncidents(before) /\ todo' = todo /\ fresh' = fresh
  BY DEF PruneAll, PruneGraph
<1>2. IInv' /\ clock' = clock /\ before <= clock
  BY <1>1, PruneKeeps DEF CInv, Prune
<1>3. graph' \in Graph /\ Live(graph')
  BY <1>1, PruneIndexes DEF CInv
<1>4. /\ incidents' = [i \in DOMAIN incidents \ gone |-> incidents[i]]
      /\ byNode' = [n \in kept |-> byNode[n]]
      /\ tagged' \subseteq tagged /\ alerts' = alerts
  BY <1>1 DEF PruneIncidents
<1>5. \A i \in gone : i \in DOMAIN incidents /\ incidents[i].last < before
  BY DEF Forgotten
<1> HIDE DEF gone, kept
<1>6. TrackerInv'
  BY <1>1, PruneIncidentsKeeps DEF CInv, Times
<1>7. ASSUME fresh PROVE FreshInv'
  <2>1. FreshInv
    BY <1>7 DEF CInv
  <2>2. Dated'
    BY <1>1, <1>2, <1>4, <2>1 DEF FreshInv, Dated
  <2>3. AllTold'
    <3> SUFFICES ASSUME NEW i \in DOMAIN incidents \ gone, NEW t \in tagged,
                        Actor(t.edge) \in incidents[i].scope
                 PROVE  Told(i, t) /\ incidents'[i] = incidents[i]
      BY <1>4 DEF AllTold, Told
    <3> QED BY <1>1, <1>4, <2>1 DEF FreshInv, AllTold
  <2>4. Remembered'
    <3> SUFFICES ASSUME NEW k \in DOMAIN alerts
                 PROVE  /\ \/ alerts[k].id[1].ts < clock
                           \/ \E i \in DOMAIN incidents' :
                                /\ Actor(alerts[k].id[1]) \in incidents'[i].scope
                                /\ alerts[k].id[1].ts <= incidents'[i].last
                        /\ alerts[k].id \in DOMAIN incidents' =>
                             alerts[k].revision <= incidents'[alerts[k].id].revision
      BY <1>2, <1>4 DEF Remembered, Standing
    <3>1. Standing(alerts[k])
      BY <2>1 DEF FreshInv, Remembered
    <3>2. alerts[k].id[1].ts \in Int /\ clock \in Int /\ before \in Int
      BY Comparable DEF Times
    <3>3. ASSUME NEW i \in DOMAIN incidents, Actor(alerts[k].id[1]) \in incidents[i].scope,
                 alerts[k].id[1].ts <= incidents[i].last
          PROVE  \/ alerts[k].id[1].ts < clock
                 \/ \E j \in DOMAIN incidents' :
                      /\ Actor(alerts[k].id[1]) \in incidents'[j].scope
                      /\ alerts[k].id[1].ts <= incidents'[j].last
      <4>1. CASE i \in gone
        <5>1. incidents[i].last < before /\ incidents[i].last \in Int
          BY <1>5, <4>1, Comparable
        <5> QED BY <1>2, <3>2, <3>3, <5>1
      <4>2. CASE i \notin gone
        BY <1>4, <3>3, <4>2
      <4> QED BY <4>1, <4>2
    <3> QED BY <1>4, <3>1, <3>3 DEF Standing
  <2>5. AlertIdsUnique'
    BY <1>4, <2>1 DEF FreshInv, AlertIdsUnique
  <2> QED BY <2>2, <2>3, <2>4, <2>5 DEF FreshInv
<1> QED BY <1>1, <1>2, <1>3, <1>6, <1>7 DEF CInv

(* At first nothing is recorded, so nothing is left to tell.                *)
LEMMA CInitially == CInit => CInv
<1> SUFFICES ASSUME CInit PROVE CInv
  OBVIOUS
<1>1. Init /\ graph = Empty /\ drawn = None /\ TrackerInit /\ todo = <<>> /\ fresh = TRUE
  BY DEF CInit, GraphInit
<1>2. IInv /\ TrackerInv
  BY <1>1, InitSound, TrackerInitially
<1>3. graph \in Graph /\ Live(graph)
  <2>1. DOMAIN << >> = {} /\ << >> \in [{} -> Seq(Edge)]
    OBVIOUS
  <2>2. << >> \in UNION {[D -> Seq(Edge)] : D \in SUBSET Node}
    BY <2>1
  <2>3. {} \in FiniteEdges
    BY FS_EmptySet DEF FiniteEdges
  <2> QED BY <1>1, <2>1, <2>2, <2>3 DEF Empty, Graph, Live
<1>4. /\ tagged = {} /\ DOMAIN incidents = {} /\ DOMAIN alerts = {}
  BY <1>1 DEF TrackerInit
<1>5. FreshInv
  BY <1>1, <1>4 DEF FreshInv, Dated, AllTold, Remembered, AlertIdsUnique
<1> QED BY <1>1, <1>2, <1>3, <1>5 DEF CInv

(* A step that changes nothing.                                             *)
LEMMA CUnchanged == CInv /\ UNCHANGED correlationVars => CInv'
<1> SUFFICES ASSUME CInv, UNCHANGED correlationVars PROVE CInv'
  OBVIOUS
<1>1. UNCHANGED <<pace, timeline, known, clock, steps, reports, graph, drawn,
                  tagged, incidents, byNode, alerts, todo, fresh>>
  BY DEF correlationVars, graphVars, vars, trackerVars
<1>2. IInv'
  BY <1>1 DEF CInv, IInv, TypeOK, AllSound
<1>3. TrackerInv'
  BY <1>1 DEF CInv, TrackerInv, TrackerTypeOK, ByNodeExact, Anchored
<1>4. fresh => FreshInv'
  BY <1>1 DEF CInv, FreshInv, Dated, AllTold, Told, Remembered, Standing, AlertIdsUnique
<1> QED BY <1>1, <1>2, <1>3, <1>4 DEF CInv, Live

(* Every step.                                                              *)
LEMMA CStepwise == CInv /\ [CNext]_correlationVars => CInv'
<1> SUFFICES ASSUME CInv, [CNext]_correlationVars PROVE CInv'
  OBVIOUS
<1>1. CASE Correlate
  BY <1>1, CorrelateKeeps
<1>2. ASSUME NEW t \in Times, ProcessEvent(t) PROVE CInv'
  BY <1>2, ProcessEventKeeps
<1>3. ASSUME NEW t \in Times, PruneAll(t) PROVE CInv'
  BY <1>3, PruneAllKeeps
<1>4. CASE UNCHANGED correlationVars
  BY <1>4, CUnchanged
<1> QED BY <1>1, <1>2, <1>3, <1>4 DEF CNext

(* The invariant, of every run.                                             *)
LEMMA CInvHolds == CSpec => []CInv
  BY CInitially, CStepwise, PTL DEF CSpec
-----------------------------------------------------------------------------
(* No process is ever in two open incidents of a whole run: registry, graph,*)
(* walks and tracker together, whatever events come, in whatever order.     *)
THEOREM OneIncidentPerProcess == CSpec => []IncidentsDisjoint
<1>1. CInv => IncidentsDisjoint
  BY DEF CInv, TrackerInv, ByNodeExact, IncidentsDisjoint
<1> QED BY <1>1, CInvHolds, PTL

(* The invariant includes the types.                                        *)
LEMMA Typed == CInv => CorrelationTypeOK
<1> SUFFICES ASSUME CInv PROVE CorrelationTypeOK
  OBVIOUS
<1>1. graph.edges \subseteq Edge /\ graph.nodes \subseteq Node
  BY GraphParts DEF CInv
<1> QED BY <1>1 DEF CInv, IInv, TypeOK, TrackerInv, CorrelationTypeOK

(* No walk ever meets an edge that prune dropped: the adjacency index holds *)
(* live edges only, and all of the state is of its type.                    *)
THEOREM NoStaleEdge == CSpec => [](CorrelationTypeOK /\ Live(graph))
<1>1. CInv => CorrelationTypeOK /\ Live(graph)
  BY Typed DEF CInv
<1> QED BY <1>1, CInvHolds, PTL

(* With room in every bucket a step keeps every edge listed at both ends.   *)
LEMMA ListedStays ==
  ASSUME CInv, Listed(graph), [CNext]_correlationVars, Roomy(graph')
  PROVE  Listed(graph')
<1>1. ASSUME NEW t \in Times, ProcessEvent(t) PROVE Listed(graph')
  <2>1. Extends(graph, graph')
    BY <1>1, EventExtends DEF ProcessEvent, CInv
  <2> QED BY <2>1 DEF Extends
<1>2. ASSUME NEW t \in Times, PruneAll(t) PROVE Listed(graph')
  BY <1>2, PruneIndexes DEF PruneAll, PruneGraph, CInv
<1>3. CASE Correlate
  <2>1. graph' = graph
    BY <1>3 DEF Correlate, graphVars
  <2> QED BY <2>1
<1>4. CASE UNCHANGED correlationVars
  <2>1. graph' = graph
    BY <1>4 DEF correlationVars, graphVars
  <2> QED BY <2>1
<1> QED BY <1>1, <1>2, <1>3, <1>4 DEF CNext

(* As long as no bucket is full the index is exact, whatever was pruned.    *)
THEOREM IndexIsExactBelowTheCap == CSpec /\ []Roomy(graph) => []IndexExact
<1>1. CInit => Listed(graph)
  BY DEF CInit, GraphInit, Empty, Listed
<1>2. CInv /\ Listed(graph) /\ [CNext]_correlationVars /\ Roomy(graph)' => Listed(graph)'
  <2> SUFFICES ASSUME CInv, Listed(graph), [CNext]_correlationVars, Roomy(graph)'
               PROVE  Listed(graph)'
    OBVIOUS
  <2>1. ASSUME NEW g, g = graph' PROVE Roomy(g) = Roomy(graph)' /\ Listed(g) = Listed(graph)'
    BY <2>1 DEF Roomy, Listed, Bucket
  <2> QED BY <2>1, ListedStays DEF Roomy, Listed, Bucket
<1>3. CInv /\ Listed(graph) => IndexExact
  <2> SUFFICES ASSUME CInv, Listed(graph) PROVE IndexExact
    OBVIOUS
  <2>1. ASSUME NEW e \in graph.edges, NEW n \in {e.src, e.dst}
        PROVE  e \in {Bucket(graph, n)[i] : i \in DOMAIN Bucket(graph, n)}
    BY DEF Listed
  <2> QED BY <2>1, Typed DEF IndexExact, CInv, Live
<1> QED BY <1>1, <1>2, <1>3, CInvHolds, PTL DEF CSpec

(* In a fresh stream no two alerts share an id, and after every event each  *)
(* open incident has reported every tactic seen among its processes.        *)
THEOREM EverythingMaterialIsTold == CSpec => []AlertsSound
<1>1. CInv => AlertsSound
  <2> SUFFICES ASSUME CInv, fresh,
                      todo = <<>>, NEW i \in DOMAIN incidents,
                      NEW t \in {t \in tagged : /\ Actor(t.edge) \in incidents[i].scope
                                               /\ t.edge.ts >= incidents[i].opened - Horizon},
                      TacticOf[t.rule] # NoTactic
               PROVE  TacticOf[t.rule] \in incidents[i].tactics
    BY DEF AlertsSound, TacticsOf, CInv, FreshInv
  <2>1. Told(i, t)
    BY DEF CInv, FreshInv, AllTold
  <2> QED BY <2>1 DEF Told
<1> QED BY <1>1, CInvHolds, PTL

(* In a fresh stream an incident ends only in the incident that takes all   *)
(* of it, or once its processes have been quiet since the time pruned by.   *)
THEOREM IncidentsEndWholeOrQuiet == CSpec => NothingForgotten
<1>1. CInv /\ [CNext]_correlationVars => [fresh => EndsWholeOrQuiet]_correlationVars
  <2> SUFFICES ASSUME CInv, CNext, fresh, NEW i \in DOMAIN incidents \ DOMAIN incidents'
               PROVE  \/ \E j \in DOMAIN incidents' : incidents[i].scope \subseteq incidents'[j].scope
                      \/ \A t \in tagged' : Actor(t.edge) \notin incidents[i].scope
    BY DEF EndsWholeOrQuiet
  <2>1. CASE Correlate
    <3> DEFINE tag == TagOf(drawn, Head(todo))
               scope == ScopeOf(drawn)
    <3>1. tag \in Tag /\ scope \in SUBSET Node /\ Actor(tag.edge) \in scope
      BY <2>1, ScopeTypes
    <3>2. PICK context \in Nat : OnTag(tag, scope, context)
      BY <2>1, CorrelateIsOnTag
    <3> HIDE DEF tag, scope
    <3> QED BY <3>1, <3>2, OnTagEndsWhole DEF CInv
  <2>2. ASSUME NEW t \in Times, ProcessEvent(t) PROVE FALSE
    BY <2>2 DEF ProcessEvent, Attach
  <2>3. ASSUME NEW before \in Times, PruneAll(before), NEW t \in tagged',
               Actor(t.edge) \in incidents[i].scope
        PROVE  FALSE
    <3>1. todo = <<>> /\ PruneIncidents(before)
      BY <2>3 DEF PruneAll
    <3>2. t \in tagged /\ t.edge.ts >= before
      BY <2>3, <3>1 DEF PruneIncidents
    <3>3. incidents[i].last < before
      BY <3>1 DEF PruneIncidents, Forgotten
    <3>4. t.edge.ts <= incidents[i].last
      BY <2>3, <3>1, <3>2 DEF CInv, FreshInv, AllTold, Told
    <3>5. t.edge.ts \in Int /\ incidents[i].last \in Int /\ before \in Int
      BY <3>2, Comparable DEF Times
    <3> QED BY <3>2, <3>3, <3>4, <3>5
  <2> QED BY <2>1, <2>2, <2>3 DEF CNext
<1> QED BY <1>1, CInvHolds, PTL DEF CSpec, NothingForgotten
-----------------------------------------------------------------------------
(* n steps from start, the i-th made by G[i].                               *)
Steps(f, n, start, G) == f[0] = start /\ \A i \in 1 .. n : f[i] = G[i][f[i - 1]]
Stays(G, n, V) == \A i \in 1 .. n : \A v \in V : G[i][v] \in V

(* They can be taken.                                                       *)
LEMMA StepsTaken ==
  ASSUME NEW n \in Nat, NEW V, NEW start \in V, NEW G, Stays(G, n, V)
  PROVE  \E f \in [0 .. n -> V] : Steps(f, n, start, G)
<1>0. \A i \in 1 .. n : \A v \in V : G[i][v] \in V
  BY DEF Stays
<1> DEFINE Taken(m) == \E f \in [0 .. m -> V] :
                         f[0] = start /\ \A i \in 1 .. m : f[i] = G[i][f[i - 1]]
           T == {m \in 0 .. n : ~ Taken(m)}
<1>1. T = {}
  <2> SUFFICES ASSUME T # {} PROVE FALSE
    OBVIOUS
  <2>1. PICK m \in T : \A k \in T : m <= k
    <3>1. T \in SUBSET Nat
      OBVIOUS
    <3> HIDE DEF T
    <3> QED BY <3>1, Least
  <2>2. m \in 0 .. n /\ ~ Taken(m)
    OBVIOUS
  <2>3. CASE m = 0
    <3> DEFINE h == [i \in 0 .. 0 |-> start]
    <3>1. h \in [0 .. 0 -> V] /\ h[0] = start /\ 1 .. 0 = {}
      OBVIOUS
    <3> HIDE DEF h
    <3>2. Taken(0)
      BY <3>1
    <3> QED BY <2>2, <2>3, <3>2
  <2>4. CASE m # 0
    <3>1. m - 1 \in 0 .. n /\ m - 1 \notin T
      <4>1. m - 1 \in 0 .. n /\ ~ (m <= m - 1)
        BY <2>2, <2>4
      <4> HIDE DEF T
      <4> QED BY <2>1, <4>1
    <3>2. PICK f \in [0 .. m - 1 -> V] :
            f[0] = start /\ \A i \in 1 .. m - 1 : f[i] = G[i][f[i - 1]]
      BY <3>1
    <3> DEFINE h == [i \in 0 .. m |-> IF i = m THEN G[m][f[m - 1]] ELSE f[i]]
    <3>3. f[m - 1] \in V /\ G[m][f[m - 1]] \in V
      BY <1>0, <2>2, <2>4, <3>2
    <3>4. h \in [0 .. m -> V]
      BY <2>2, <3>2, <3>3
    <3>5. h[0] = start /\ \A i \in 1 .. m : h[i] = G[i][h[i - 1]]
      BY <2>2, <2>4, <3>2
    <3>6. Taken(m)
      BY <3>4, <3>5
    <3> QED BY <2>2, <3>6
  <2> QED BY <2>3, <2>4
<1>2. Taken(n)
  BY <1>1
<1> QED BY <1>2 DEF Steps

(* What each step keeps holds after all of them.                            *)
LEMMA StepsKeep ==
  ASSUME NEW n \in Nat, NEW f, NEW Y, f[0] \in Y[0],
         \A i \in 1 .. n : f[i - 1] \in Y[i - 1] => f[i] \in Y[i]
  PROVE  \A i \in 0 .. n : f[i] \in Y[i]
<1> DEFINE T == {m \in 0 .. n : f[m] \notin Y[m]}
<1>1. T = {}
  <2> SUFFICES ASSUME T # {} PROVE FALSE
    OBVIOUS
  <2>1. PICK m \in T : \A k \in T : m <= k
    <3>1. T \in SUBSET Nat
      OBVIOUS
    <3> HIDE DEF T
    <3> QED BY <3>1, Least
  <2>2. m \in 1 .. n /\ m - 1 \in 0 .. n /\ ~ (m <= m - 1)
    OBVIOUS
  <2>3. f[m - 1] \in Y[m - 1]
    BY <2>1, <2>2
  <2> QED BY <2>2, <2>3
<1> QED BY <1>1
-----------------------------------------------------------------------------
(* The states of a walk, as they are remembered and as they wait to be      *)
(* opened at some depth, and the walks there are, by type.                  *)
Stamp == Node \X Int
State == Node \X Int \X Nat
Walk == [queue : Seq(State), seen : SUBSET Stamp, edges : SUBSET Edge,
         nodes : SUBSET Node, hubs : SUBSET Node]

(* What a walk goes back to over e, if it goes over it at all.              *)
Source(e) == IF e.kind \in FlowsToTarget THEN e.src ELSE e.dst

LEMMA UpstreamIs ==
  ASSUME NEW e \in Edge, NEW n, Upstream(e, n) # None
  PROVE  /\ Upstream(e, n) = Source(e) /\ Source(e) \in Node
         /\ n \in {e.src, e.dst} /\ n \in Node /\ e.ts \in Int
<1>1. e.src \in Node /\ e.dst \in Node /\ e.ts \in Int
  BY DEF Edge, Node
<1>2. FlowsToTarget \cap FlowsToSource = {}
  BY DEF FlowsToTarget, FlowsToSource
<1> QED BY <1>1, <1>2 DEF Upstream, Source

(* The second of a time.                                                    *)
LEMMA SecondIs == \A t \in Int : t \div Second \in Int
<1>1. Second \in Nat \ {0}
  BY GraphAssumption
<1> QED BY <1>1

(* The marks edges leave: each leaves one.                                  *)
Marks(g) == {<<Source(e), e.ts \div Second>> : e \in g.edges}

LEMMA MarksFewer ==
  ASSUME NEW g \in Graph, NEW S \in SUBSET Marks(g)
  PROVE  /\ Cardinality(g.edges) \in Nat
         /\ IsFiniteSet(S) /\ Cardinality(S) \in Nat /\ Cardinality(S) <= Cardinality(g.edges)
<1> DEFINE f == [e \in g.edges |-> <<Source(e), e.ts \div Second>>]
<1>1. IsFiniteSet(g.edges)
  BY GraphParts
<1>2. Cardinality(g.edges) \in Nat
  BY <1>1, FS_CardinalityType
<1>3. f \in Surjection(g.edges, Marks(g))
  BY DEF Surjection, Marks
<1> HIDE DEF f
<1>4. IsFiniteSet(Marks(g)) /\ Cardinality(Marks(g)) <= Cardinality(g.edges)
  BY <1>1, <1>3, FS_Surjection
<1>5. Cardinality(Marks(g)) \in Nat
  BY <1>4, FS_CardinalityType
<1>6. IsFiniteSet(S) /\ Cardinality(S) <= Cardinality(Marks(g))
  BY <1>4, FS_Subset
<1>7. Cardinality(S) \in Nat
  BY <1>6, FS_CardinalityType
<1> QED BY <1>2, <1>4, <1>5, <1>6, <1>7
-----------------------------------------------------------------------------
(* reach is what s0 leads back to, over as many edges at most as its index. *)
ReachOf(reach, g, floor, s0) ==
  /\ reach \in [0 .. MaxDepth -> SUBSET Stamp] /\ reach[0] = {s0}
  /\ \A i \in 1 .. MaxDepth : reach[i] = Further(g, floor, s0, reach[i - 1])

(* What precedes a state is a state.                                        *)
LEMMA PrecedingTypes ==
  ASSUME NEW g \in Graph, NEW floor, NEW s0 \in Stamp, NEW s \in Stamp
  PROVE  Preceding(g, floor, s) \in SUBSET Stamp
<1>1. \A e \in g.edges : e \in Edge
  BY GraphParts
<1>2. ASSUME NEW e \in g.edges, Upstream(e, s[1]) # None
      PROVE  <<Upstream(e, s[1]), e.ts>> \in Stamp
  BY <1>1, <1>2, UpstreamIs DEF Stamp
<1> QED BY <1>2 DEF Preceding

LEMMA FurtherTypes ==
  ASSUME NEW g \in Graph, NEW floor, NEW s0 \in Stamp, NEW S \in SUBSET Stamp
  PROVE  Further(g, floor, s0, S) \in SUBSET Stamp
<1>1. \A s \in S : Preceding(g, floor, s) \in SUBSET Stamp
  BY PrecedingTypes
<1> QED BY <1>1 DEF Further

(* The causes are what is reached last.                                     *)
LEMMA CausesAre ==
  ASSUME NEW g \in Graph, NEW floor, NEW s0 \in Stamp
  PROVE  \E reach : /\ ReachOf(reach, g, floor, s0)
                    /\ Causes(g, floor, s0, MaxDepth) = reach[MaxDepth]
<1> DEFINE n == MaxDepth
           V == SUBSET Stamp
           G == [i \in 1 .. n |-> [S \in V |-> Further(g, floor, s0, S)]]
           Is(f) == f = [i \in 0 .. n |-> IF i = 0 THEN {s0} ELSE Further(g, floor, s0, f[i - 1])]
           reach == CHOOSE f : Is(f)
<1>1. n \in Nat
  BY GraphAssumption
<1>2. \A S \in V : Further(g, floor, s0, S) \in V
  BY FurtherTypes
<1>3. {s0} \in V
  OBVIOUS
<1>4. Causes(g, floor, s0, MaxDepth) = reach[n]
  BY DEF Causes
<1> HIDE DEF n, V
<1>5. Stays(G, n, V) /\ \A i \in 1 .. n : \A S \in V : G[i][S] = Further(g, floor, s0, S)
  BY <1>2 DEF Stays
<1> HIDE DEF G
<1>6. PICK f \in [0 .. n -> V] : Steps(f, n, {s0}, G)
  BY <1>1, <1>3, <1>5, StepsTaken
<1>7. \A i \in 1 .. n : f[i - 1] \in V /\ f[i] = Further(g, floor, s0, f[i - 1])
  BY <1>1, <1>5, <1>6 DEF Steps
<1>8. Is(f)
  <2>1. \A i \in 0 .. n : i # 0 => i \in 1 .. n
    BY <1>1
  <2>2. f[0] = {s0}
    BY <1>6 DEF Steps
  <2> QED BY <1>6, <1>7, <2>1, <2>2
<1>9. Is(reach)
  BY <1>8
<1> HIDE DEF reach
<1>10. reach[0] = {s0} /\ \A i \in 1 .. n : reach[i] = Further(g, floor, s0, reach[i - 1])
  <2>1. \A i \in 0 .. n : reach[i] = IF i = 0 THEN {s0} ELSE Further(g, floor, s0, reach[i - 1])
    BY <1>9, Zenon
  <2>2. 0 \in 0 .. n /\ \A i \in 1 .. n : i \in 0 .. n /\ i # 0
    BY <1>1
  <2> QED BY <2>1, <2>2, Zenon
<1>11. reach \in [0 .. n -> V]
  <2> DEFINE Y == [i \in 0 .. n |-> V]
  <2>1. reach[0] \in Y[0] /\ \A i \in 1 .. n : reach[i - 1] \in Y[i - 1] => reach[i] \in Y[i]
    BY <1>1, <1>2, <1>3, <1>10
  <2>2. \A i \in 0 .. n : reach[i] \in Y[i]
    <3> HIDE DEF Y
    <3> QED BY <1>1, <2>1, StepsKeep
  <2>3. \A i \in 0 .. n : reach[i] \in V
    BY <2>2
  <2>4. reach = [i \in 0 .. n |-> reach[i]]
    BY <1>9
  <2> QED BY <2>3, <2>4
<1> QED BY <1>4, <1>10, <1>11 DEF ReachOf, n, V

(* What is reached stays reached.                                           *)
LEMMA ReachGrows ==
  ASSUME NEW g, NEW floor, NEW s0, NEW reach, ReachOf(reach, g, floor, s0),
         NEW k \in 0 .. MaxDepth
  PROVE  reach[k] \subseteq reach[MaxDepth]
<1> DEFINE Y == [i \in 0 .. MaxDepth |-> {S \in SUBSET Stamp : i >= k => reach[k] \subseteq S}]
<1>1. MaxDepth \in Nat
  BY GraphAssumption
<1>2. /\ reach \in [0 .. MaxDepth -> SUBSET Stamp]
      /\ \A i \in 1 .. MaxDepth : reach[i - 1] \subseteq reach[i]
  BY DEF ReachOf, Further
<1>3. reach[0] \in Y[0]
  BY <1>1, <1>2
<1>4. ASSUME NEW i \in 1 .. MaxDepth, reach[i - 1] \in Y[i - 1] PROVE reach[i] \in Y[i]
  <2>1. i \in 0 .. MaxDepth /\ i - 1 \in 0 .. MaxDepth /\ reach[i - 1] \subseteq reach[i]
    BY <1>1, <1>2
  <2>2. i >= k => k = i \/ i - 1 >= k
    BY <1>1
  <2>3. i - 1 >= k => reach[k] \subseteq reach[i - 1]
    BY <1>4, <2>1
  <2>4. i >= k => reach[k] \subseteq reach[i]
    BY <2>1, <2>2, <2>3
  <2> QED BY <1>2, <2>1, <2>4
<1>5. \A i \in 0 .. MaxDepth : reach[i] \in Y[i]
  <2> HIDE DEF Y
  <2> QED BY <1>1, <1>3, <1>4, StepsKeep
<1>6. MaxDepth \in 0 .. MaxDepth /\ MaxDepth >= k
  BY <1>1
<1> QED BY <1>5, <1>6
-----------------------------------------------------------------------------
HubIn(g, n) == n \in g.nodes /\ IsHub(n)
Before(e, n) == <<Upstream(e, n), e.ts>>
Mark(s) == <<s[1], s[2] \div Second>>
Popped(w) == [w EXCEPT !.queue = Tail(@)]

LEMMA WalkParts ==
  ASSUME NEW w \in Walk
  PROVE  /\ w.queue \in Seq(State) /\ w.seen \in SUBSET Stamp /\ w.edges \in SUBSET Edge
         /\ w.nodes \in SUBSET Node /\ w.hubs \in SUBSET Node
  BY DEF Walk

(* v is w after an edge back to s was walked, at this depth.                *)
WentBack(g, w, v, s, depth) ==
  /\ v \in Walk /\ v.nodes = w.nodes \cup ({s[1]} \cap g.nodes)
  /\ v.hubs = w.hubs \cup (IF HubIn(g, s[1]) THEN {s[1]} ELSE {})
  /\ \/ /\ HubIn(g, s[1]) \/ Mark(s) \in w.seen
        /\ v.queue = w.queue /\ v.seen = w.seen
     \/ /\ ~ HubIn(g, s[1]) /\ Mark(s) \notin w.seen
        /\ v.queue = Append(w.queue, <<s[1], s[2], depth + 1>>)
        /\ v.seen = w.seen \cup {Mark(s)}

(* One edge.                                                                *)
LEMMA EdgeWalked ==
  ASSUME NEW g \in Graph, NEW n, NEW depth \in Nat, NEW w \in Walk,
         NEW e \in g.edges, Upstream(e, n) # None
  PROVE  /\ Before(e, n) \in Stamp
         /\ WentBack(g, w, WalkEdge(g, n, depth, w, e), Before(e, n), depth)
<1> DEFINE m == Upstream(e, n)
           t == e.ts
           mark == <<m, t \div Second>>
           walked == [w EXCEPT !.edges = @ \cup {e}, !.nodes = @ \cup ({m} \cap g.nodes)]
           stopped == [walked EXCEPT !.hubs = @ \cup {m}]
           item == <<m, t, depth + 1>>
           queued == [walked EXCEPT !.seen = @ \cup {mark}, !.queue = Append(@, item)]
<1>1. e \in Edge /\ g.nodes \in SUBSET Node
  BY GraphParts
<1>2. m \in Node /\ t \in Int
  BY <1>1, UpstreamIs
<1>3. WalkEdge(g, n, depth, w, e) =
        IF m \in g.nodes /\ IsHub(m) THEN stopped ELSE IF mark \in w.seen THEN walked ELSE queued
  BY DEF WalkEdge
<1>4. Before(e, n) = <<m, t>> /\ Mark(<<m, t>>) = mark
  BY DEF Before, Mark
<1>5. t \div Second \in Int
  BY <1>2, SecondIs
<1> HIDE DEF m, t
<1>6. mark \in Stamp /\ item \in State /\ <<m, t>> \in Stamp
  BY <1>2, <1>5 DEF Stamp, State
<1> HIDE DEF mark, item
<1>7. walked \in Walk /\ walked.queue = w.queue /\ walked.seen = w.seen
      /\ walked.nodes = w.nodes \cup ({m} \cap g.nodes) /\ walked.hubs = w.hubs
  BY <1>1 DEF Walk
<1> HIDE DEF walked
<1>8. stopped \in Walk /\ stopped.queue = w.queue /\ stopped.seen = w.seen
      /\ stopped.nodes = walked.nodes /\ stopped.hubs = w.hubs \cup {m}
  BY <1>2, <1>7 DEF Walk
<1>9. Append(w.queue, item) \in Seq(State)
  BY <1>6, WalkParts, AppendProperties
<1>10. queued \in Walk /\ queued.queue = Append(w.queue, item)
       /\ queued.seen = w.seen \cup {mark} /\ queued.nodes = walked.nodes
       /\ queued.hubs = w.hubs
  BY <1>6, <1>7, <1>9 DEF Walk
<1> HIDE DEF stopped, queued
<1>11. item = <<m, t, depth + 1>>
  BY DEF item
<1>12. \A s : s = <<m, t>> => s[1] = m /\ s[2] = t
  OBVIOUS
<1>13. ASSUME NEW v, NEW s, s = <<m, t>>,
              v = IF m \in g.nodes /\ IsHub(m) THEN stopped ELSE IF mark \in w.seen THEN walked ELSE queued
       PROVE  WentBack(g, w, v, s, depth)
  <2>1. s[1] = m /\ s[2] = t /\ Mark(s) = mark
    BY <1>4, <1>12, <1>13
  <2>2. HubIn(g, m) <=> m \in g.nodes /\ IsHub(m)
    BY DEF HubIn
  <2>3. CASE HubIn(g, m)
    <3>1. v = stopped
      BY <1>13, <2>2, <2>3
    <3> QED BY <1>7, <1>8, <2>1, <2>3, <3>1 DEF WentBack
  <2>4. CASE ~ HubIn(g, m) /\ mark \in w.seen
    <3>1. v = walked
      BY <1>13, <2>2, <2>4
    <3> QED BY <1>7, <2>1, <2>4, <3>1 DEF WentBack
  <2>5. CASE ~ HubIn(g, m) /\ mark \notin w.seen
    <3>1. v = queued
      BY <1>13, <2>2, <2>5
    <3> QED BY <1>7, <1>10, <1>11, <2>1, <2>5, <3>1 DEF WentBack
  <2> QED BY <2>3, <2>4, <2>5
<1> QED BY <1>3, <1>4, <1>6, <1>13

(* A turn that opens the first in the queue goes through its edges.         *)
Opening(g, floor, w) == Into(g, floor, Head(w.queue)[1], Head(w.queue)[2])
Turned(f, g, floor, w) ==
  LET open == Opening(g, floor, w)
  IN  /\ f \in [0 .. Len(open) -> Walk] /\ f[0] = Popped(w)
      /\ \A i \in 1 .. Len(open) :
           f[i] = WalkEdge(g, Head(w.queue)[1], Head(w.queue)[3], f[i - 1], open[i])
      /\ WalkNode(g, floor, w) = f[Len(open)]

(* What a turn opens.                                                       *)
LEMMA HeadIs ==
  ASSUME NEW w \in Walk, w.queue # <<>>
  PROVE  /\ Head(w.queue) \in State /\ Head(w.queue) = w.queue[1]
         /\ Head(w.queue)[1] \in Node /\ Head(w.queue)[2] \in Int /\ Head(w.queue)[3] \in Nat
         /\ Popped(w) \in Walk /\ Popped(w).queue = Tail(w.queue) /\ Tail(w.queue) \in Seq(State)
         /\ Len(w.queue) \in Nat /\ Len(w.queue) # 0 /\ Len(Tail(w.queue)) = Len(w.queue) - 1
         /\ \A k \in DOMAIN Tail(w.queue) :
              k + 1 \in DOMAIN w.queue /\ Tail(w.queue)[k] = w.queue[k + 1]
         /\ \A k \in DOMAIN w.queue :
              k = 1 \/ (k - 1 \in DOMAIN Tail(w.queue) /\ w.queue[k] = Tail(w.queue)[k - 1])
         /\ Popped(w).seen = w.seen /\ Popped(w).nodes = w.nodes /\ Popped(w).hubs = w.hubs
<1> DEFINE q == w.queue
<1>1. q \in Seq(State) /\ q # <<>>
  BY WalkParts
<1> HIDE DEF q
<1>2. /\ Head(q) \in State /\ Head(q) = q[1] /\ Tail(q) \in Seq(State)
      /\ Len(q) \in Nat /\ Len(q) # 0 /\ Len(Tail(q)) = Len(q) - 1
      /\ \A k \in 1 .. Len(q) - 1 : Tail(q)[k] = q[k + 1]
  BY <1>1
<1>3. \A s \in State : s[1] \in Node /\ s[2] \in Int /\ s[3] \in Nat
  BY DEF State
<1>4. DOMAIN q = 1 .. Len(q) /\ DOMAIN Tail(q) = 1 .. Len(q) - 1
  BY <1>1, <1>2
<1>5. /\ \A k \in DOMAIN Tail(q) : k + 1 \in DOMAIN q /\ Tail(q)[k] = q[k + 1]
      /\ \A k \in DOMAIN q : k = 1 \/ (k - 1 \in DOMAIN Tail(q) /\ q[k] = Tail(q)[k - 1])
  BY <1>2, <1>4
<1>6. /\ Popped(w) \in Walk /\ Popped(w).queue = Tail(q)
      /\ Popped(w).seen = w.seen /\ Popped(w).nodes = w.nodes /\ Popped(w).hubs = w.hubs
  BY <1>2 DEF Popped, Walk, q
<1> QED BY <1>2, <1>3, <1>5, <1>6 DEF q

(* The edges of a turn are live edges that come into its node in time.      *)
LEMMA IntoIs ==
  ASSUME NEW g \in Graph, NEW floor, NEW n, NEW bound
  PROVE  /\ Into(g, floor, n, bound) \in Seq(Edge)
         /\ \A k \in DOMAIN Into(g, floor, n, bound) :
              LET e == Into(g, floor, n, bound)[k]
              IN  e \in g.edges /\ Upstream(e, n) # None /\ floor <= e.ts /\ e.ts <= bound
         /\ \A e \in g.edges :
              Listed(g) /\ Upstream(e, n) # None /\ floor <= e.ts /\ e.ts <= bound =>
                \E k \in DOMAIN Into(g, floor, n, bound) : Into(g, floor, n, bound)[k] = e
<1> DEFINE those == {e \in g.edges : Upstream(e, n) # None /\ floor <= e.ts /\ e.ts <= bound}
           s == Bucket(g, n)
<1>1. s \in Seq(Edge) /\ \A e \in g.edges : e \in Edge
  BY GraphParts
<1>2. Into(g, floor, n, bound) = Among(s, those)
  BY DEF Into
<1>3. \A e : e \in those <=> e \in g.edges /\ Upstream(e, n) # None /\ floor <= e.ts /\ e.ts <= bound
  OBVIOUS
<1>4. \A e \in g.edges : Listed(g) /\ Upstream(e, n) # None => \E i \in DOMAIN s : s[i] = e
  BY <1>1, UpstreamIs DEF Listed
<1> HIDE DEF those, s
<1>5. /\ Among(s, those) \in Seq(Edge)
      /\ \A k \in DOMAIN Among(s, those) : Among(s, those)[k] \in those
      /\ \A i \in DOMAIN s : s[i] \in those => \E k \in DOMAIN Among(s, those) : Among(s, those)[k] = s[i]
  BY <1>1, AmongHolds
<1> QED BY <1>2, <1>3, <1>4, <1>5

LEMMA NodeWalked ==
  ASSUME NEW g \in Graph, NEW floor, NEW w \in Walk, w.queue # <<>>, Head(w.queue)[3] < MaxDepth
  PROVE  \E f : Turned(f, g, floor, w)
<1> DEFINE item == Head(w.queue)
           n == item[1]
           depth == item[3]
           open == Opening(g, floor, w)
           m == Len(open)
           G == [i \in 1 .. m |-> [v \in Walk |-> WalkEdge(g, n, depth, v, open[i])]]
           start == Popped(w)
           Is(f) == f = [i \in 0 .. m |->
                           IF i = 0 THEN start ELSE WalkEdge(g, n, depth, f[i - 1], open[i])]
           walk == CHOOSE f : Is(f)
<1>1. item \in State /\ n \in Node /\ depth \in Nat /\ start \in Walk
  BY HeadIs
<1>2. open \in Seq(Edge) /\ \A i \in DOMAIN open : open[i] \in g.edges /\ Upstream(open[i], n) # None
  BY IntoIs DEF Opening
<1>3. m \in Nat /\ DOMAIN open = 1 .. m
  BY <1>2
<1>4. \A i \in 1 .. m : \A v \in Walk : WalkEdge(g, n, depth, v, open[i]) \in Walk
  <2> HIDE DEF n, depth, open, m
  <2>1. ASSUME NEW i \in 1 .. m, NEW v \in Walk PROVE WalkEdge(g, n, depth, v, open[i]) \in Walk
    <3>1. WentBack(g, v, WalkEdge(g, n, depth, v, open[i]), Before(open[i], n), depth)
      BY <1>1, <1>2, <1>3, EdgeWalked
    <3> QED BY <3>1 DEF WentBack
  <2> QED BY <2>1
<1>5. WalkNode(g, floor, w) = walk[m]
  <2>1. ~ (Head(w.queue)[3] >= MaxDepth)
    BY <1>1, GraphAssumption
  <2> QED BY <2>1 DEF WalkNode, Opening, Popped
<1> HIDE DEF item, n, depth, open, start
<1>6. Stays(G, m, Walk) /\ \A i \in 1 .. m : \A v \in Walk : G[i][v] = WalkEdge(g, n, depth, v, open[i])
  BY <1>4 DEF Stays
<1> HIDE DEF G, m
<1>7. PICK f \in [0 .. m -> Walk] : Steps(f, m, start, G)
  BY <1>1, <1>3, <1>6, StepsTaken
<1>8. \A i \in 1 .. m : f[i - 1] \in Walk /\ f[i] = WalkEdge(g, n, depth, f[i - 1], open[i])
  BY <1>3, <1>6, <1>7 DEF Steps
<1>9. Is(f)
  <2>1. \A i \in 0 .. m : i # 0 => i \in 1 .. m
    BY <1>3
  <2>2. f[0] = start
    BY <1>7 DEF Steps
  <2> QED BY <1>7, <1>8, <2>1, <2>2
<1>10. Is(walk)
  BY <1>9
<1> HIDE DEF walk
<1>11. walk[0] = start /\ \A i \in 1 .. m : walk[i] = WalkEdge(g, n, depth, walk[i - 1], open[i])
  <2>1. \A i \in 0 .. m : walk[i] = IF i = 0 THEN start ELSE WalkEdge(g, n, depth, walk[i - 1], open[i])
    BY <1>10, Zenon
  <2>2. 0 \in 0 .. m /\ \A i \in 1 .. m : i \in 0 .. m /\ i # 0
    BY <1>3
  <2> QED BY <2>1, <2>2, Zenon
<1>12. walk \in [0 .. m -> Walk]
  <2> DEFINE Y == [i \in 0 .. m |-> Walk]
  <2>1. walk[0] \in Y[0] /\ \A i \in 1 .. m : walk[i - 1] \in Y[i - 1] => walk[i] \in Y[i]
    BY <1>1, <1>3, <1>4, <1>11
  <2>2. \A i \in 0 .. m : walk[i] \in Y[i]
    <3> HIDE DEF Y
    <3> QED BY <1>3, <2>1, StepsKeep
  <2>3. \A i \in 0 .. m : walk[i] \in Walk
    BY <2>2
  <2>4. walk = [i \in 0 .. m |-> walk[i]]
    BY <1>10
  <2> QED BY <2>3, <2>4
<1> QED BY <1>5, <1>11, <1>12 DEF Turned, n, depth, item, open, start, m

(* Opening a node leaves a walk a walk.                                     *)
LEMMA TurnTypes ==
  ASSUME NEW g \in Graph, NEW floor, NEW w \in Walk
  PROVE  WalkNode(g, floor, w) \in Walk
<1>1. CASE w.queue = <<>>
  BY <1>1 DEF WalkNode
<1>2. CASE w.queue # <<>> /\ ~ (Head(w.queue)[3] < MaxDepth)
  <2>1. Head(w.queue)[3] >= MaxDepth
    BY <1>2, HeadIs, GraphAssumption
  <2>2. WalkNode(g, floor, w) = Popped(w)
    BY <1>2, <2>1 DEF WalkNode, Popped
  <2> QED BY <1>2, <2>2, HeadIs
<1>3. CASE w.queue # <<>> /\ Head(w.queue)[3] < MaxDepth
  <2>1. PICK f : Turned(f, g, floor, w)
    BY <1>3, NodeWalked
  <2>2. Len(Opening(g, floor, w)) \in Nat
    BY IntoIs DEF Opening
  <2> QED BY <2>1, <2>2 DEF Turned
<1> QED BY <1>1, <1>2, <1>3

(* The walk is so many turns.                                               *)
LEMMA TurnsTaken ==
  ASSUME NEW g \in Graph, NEW floor, NEW start \in Walk
  PROVE  \E f \in [0 .. Cardinality(g.edges) + 1 -> Walk] :
           /\ f[0] = start
           /\ \A i \in 1 .. Cardinality(g.edges) + 1 : f[i] = WalkNode(g, floor, f[i - 1])
           /\ WalkBack(g, floor, start) = f[Cardinality(g.edges) + 1]
<1> DEFINE m == Cardinality(g.edges) + 1
           G == [i \in 1 .. m |-> [v \in Walk |-> WalkNode(g, floor, v)]]
           Is(f) == f = [i \in 0 .. m |-> IF i = 0 THEN start ELSE WalkNode(g, floor, f[i - 1])]
           walk == CHOOSE f : Is(f)
<1>1. m \in Nat
  <2>1. {} \in SUBSET Marks(g)
    OBVIOUS
  <2>2. Cardinality(g.edges) \in Nat
    BY <2>1, MarksFewer
  <2> QED BY <2>2
<1>2. \A v \in Walk : WalkNode(g, floor, v) \in Walk
  BY TurnTypes
<1>3. WalkBack(g, floor, start) = walk[m]
  BY DEF WalkBack
<1> HIDE DEF m
<1>4. Stays(G, m, Walk) /\ \A i \in 1 .. m : \A v \in Walk : G[i][v] = WalkNode(g, floor, v)
  BY <1>2 DEF Stays
<1> HIDE DEF G
<1>5. PICK f \in [0 .. m -> Walk] : Steps(f, m, start, G)
  BY <1>1, <1>4, StepsTaken
<1>6. \A i \in 1 .. m : f[i - 1] \in Walk /\ f[i] = WalkNode(g, floor, f[i - 1])
  BY <1>1, <1>4, <1>5 DEF Steps
<1>7. Is(f)
  <2>1. \A i \in 0 .. m : i # 0 => i \in 1 .. m
    BY <1>1
  <2>2. f[0] = start
    BY <1>5 DEF Steps
  <2> QED BY <1>5, <1>6, <2>1, <2>2
<1>8. Is(walk)
  BY <1>7
<1> HIDE DEF walk
<1>9. walk[0] = start /\ \A i \in 1 .. m : walk[i] = WalkNode(g, floor, walk[i - 1])
  <2>1. \A i \in 0 .. m : walk[i] = IF i = 0 THEN start ELSE WalkNode(g, floor, walk[i - 1])
    BY <1>8, Zenon
  <2>2. 0 \in 0 .. m /\ \A i \in 1 .. m : i \in 0 .. m /\ i # 0
    BY <1>1
  <2> QED BY <2>1, <2>2, Zenon
<1>10. walk \in [0 .. m -> Walk]
  <2> DEFINE Y == [i \in 0 .. m |-> Walk]
  <2>1. walk[0] \in Y[0] /\ \A i \in 1 .. m : walk[i - 1] \in Y[i - 1] => walk[i] \in Y[i]
    BY <1>1, <1>2, <1>9
  <2>2. \A i \in 0 .. m : walk[i] \in Y[i]
    <3> HIDE DEF Y
    <3> QED BY <1>1, <2>1, StepsKeep
  <2>3. \A i \in 0 .. m : walk[i] \in Walk
    BY <2>2
  <2>4. walk = [i \in 0 .. m |-> walk[i]]
    BY <1>8
  <2> QED BY <2>3, <2>4
<1> QED BY <1>3, <1>9, <1>10 DEF m
-----------------------------------------------------------------------------
(* Nothing in a walk is anything but a cause: what it is still to open, it  *)
(* reached over so many edges, and may open.                                *)
Waits(g, s0, reach, q) ==
  q[3] <= MaxDepth /\ <<q[1], q[2]>> \in reach[q[3]] /\ Opens(g, s0, <<q[1], q[2]>>)
Causal(g, s0, reach, w) ==
  /\ w.seen \in SUBSET Marks(g)
  /\ \A k \in DOMAIN w.queue : Waits(g, s0, reach, w.queue[k])
  /\ \A m \in w.nodes :
       m \in g.nodes /\ \E i \in 0 .. MaxDepth : \E s \in reach[i] : s[1] = m
  /\ \A m \in w.nodes : IsHub(m) => m = s0[1] \/ m \in w.hubs

(* There are no more left to open than marks, but for these.                *)
Spare(w, c) == Len(w.queue) <= c + Cardinality(w.seen)

(* Counting one more.                                                       *)
LEMMA OneMore ==
  ASSUME NEW g \in Graph, NEW S \in SUBSET Marks(g), NEW x \in Marks(g), x \notin S
  PROVE  Cardinality(S \cup {x}) = Cardinality(S) + 1
<1>1. IsFiniteSet(S)
  BY MarksFewer
<1> QED BY <1>1, FS_AddElement

(* An edge leads from a cause to a cause.                                   *)
LEMMA LeadsOn ==
  ASSUME NEW g, NEW floor, NEW s0, NEW reach, ReachOf(reach, g, floor, s0),
         NEW depth \in Nat, depth < MaxDepth,
         NEW s \in reach[depth], Opens(g, s0, s), NEW p \in Preceding(g, floor, s)
  PROVE  p \in reach[depth + 1]
<1>1. depth + 1 \in 1 .. MaxDepth /\ (depth + 1) - 1 = depth
  BY GraphAssumption
<1>2. reach[depth + 1] = Further(g, floor, s0, reach[depth])
  BY <1>1 DEF ReachOf
<1> QED BY <1>2 DEF Further

(* Walking an edge back from what it opened keeps a walk causal.            *)
LEMMA EdgeCausal ==
  ASSUME NEW g \in Graph, NEW floor, NEW s0 \in Stamp, NEW reach, ReachOf(reach, g, floor, s0),
         NEW w \in Walk, Causal(g, s0, reach, w), NEW c \in Int, Spare(w, c),
         NEW n, NEW bound, NEW depth \in Nat, depth < MaxDepth,
         <<n, bound>> \in reach[depth], Opens(g, s0, <<n, bound>>),
         NEW e \in g.edges, Upstream(e, n) # None, floor <= e.ts, e.ts <= bound,
         NEW v, WentBack(g, w, v, Before(e, n), depth)
  PROVE  Causal(g, s0, reach, v) /\ Spare(v, c)
<1> DEFINE p == Before(e, n)
<1>1. w.seen \in SUBSET Marks(g) /\ Cardinality(w.seen) \in Nat
  <2>1. w.seen \in SUBSET Marks(g)
    BY DEF Causal
  <2> QED BY <2>1, MarksFewer
<1>2. e \in Edge /\ p[1] = Source(e) /\ p[2] = e.ts
  <2>1. e \in Edge
    BY GraphParts
  <2> QED BY <2>1, UpstreamIs DEF Before
<1>3. Mark(p) \in Marks(g)
  BY <1>2 DEF Mark, Marks
<1>4. p \in Preceding(g, floor, <<n, bound>>)
  <2>1. <<n, bound>>[1] = n /\ <<n, bound>>[2] = bound
    OBVIOUS
  <2> QED BY <2>1 DEF Preceding, Before
<1>5. p \in reach[depth + 1] /\ depth + 1 \in 0 .. MaxDepth /\ depth + 1 <= MaxDepth
  <2>1. depth + 1 \in 0 .. MaxDepth /\ depth + 1 <= MaxDepth
    BY GraphAssumption
  <2> QED BY <1>4, <2>1, LeadsOn
<1>6. \A m \in v.nodes :
        m \in g.nodes /\ \E i \in 0 .. MaxDepth : \E s \in reach[i] : s[1] = m
  BY <1>5 DEF WentBack, Causal
<1>7. \A m \in v.nodes : IsHub(m) => m = s0[1] \/ m \in v.hubs
  BY DEF WentBack, Causal, HubIn
<1>8. p = <<p[1], p[2]>>
  BY DEF Before
<1> HIDE DEF p
<1>9. CASE v.queue = w.queue /\ v.seen = w.seen
  BY <1>1, <1>6, <1>7, <1>9 DEF Causal, Waits, Spare
<1>10. CASE /\ ~ HubIn(g, p[1]) /\ Mark(p) \notin w.seen
           /\ v.queue = Append(w.queue, <<p[1], p[2], depth + 1>>)
           /\ v.seen = w.seen \cup {Mark(p)}
  <2>1. Cardinality(v.seen) = Cardinality(w.seen) + 1 /\ v.seen \in SUBSET Marks(g)
    BY <1>1, <1>3, <1>10, OneMore
  <2>2. w.queue \in Seq(State) /\ Len(w.queue) \in Nat /\ DOMAIN w.queue = 1 .. Len(w.queue)
    <3>1. w.queue \in Seq(State)
      BY WalkParts
    <3> QED BY <3>1
  <2>3. /\ Len(v.queue) = Len(w.queue) + 1 /\ DOMAIN v.queue = 1 .. Len(w.queue) + 1
        /\ \A k \in 1 .. Len(w.queue) + 1 :
             v.queue[k] = IF k = Len(w.queue) + 1 THEN <<p[1], p[2], depth + 1>> ELSE w.queue[k]
    <3>1. v.queue = Append(w.queue, <<p[1], p[2], depth + 1>>)
      BY <1>10
    <3> DEFINE x == <<p[1], p[2], depth + 1>>
               q == w.queue
    <3>2. v.queue = Append(q, x) /\ q \in Seq(State) /\ Len(q) \in Nat /\ DOMAIN q = 1 .. Len(q)
      BY <2>2, <3>1
    <3> HIDE DEF x, q
    <3>3. /\ Len(v.queue) = Len(q) + 1 /\ DOMAIN v.queue = 1 .. Len(q) + 1
          /\ \A k \in 1 .. Len(q) + 1 : v.queue[k] = IF k = Len(q) + 1 THEN x ELSE q[k]
      BY <3>2
    <3> QED BY <3>3 DEF x, q
  <2>4. Opens(g, s0, p)
    BY <1>10 DEF HubIn, Opens
  <2>5. ASSUME NEW k \in DOMAIN v.queue PROVE Waits(g, s0, reach, v.queue[k])
    <3>1. CASE k = Len(w.queue) + 1
      <4> DEFINE x == <<p[1], p[2], depth + 1>>
      <4>1. v.queue[k] = x /\ x[1] = p[1] /\ x[2] = p[2] /\ x[3] = depth + 1
        BY <2>3, <3>1
      <4> HIDE DEF x
      <4> QED BY <1>5, <1>8, <2>4, <4>1 DEF Waits
    <3>2. CASE k # Len(w.queue) + 1
      <4>1. k \in DOMAIN w.queue /\ v.queue[k] = w.queue[k]
        BY <2>2, <2>3, <3>2
      <4>2. Waits(g, s0, reach, w.queue[k])
        BY <4>1 DEF Causal
      <4> QED BY <4>1, <4>2
    <3> QED BY <3>1, <3>2
  <2>6. Spare(v, c)
    BY <1>1, <2>1, <2>2, <2>3 DEF Spare
  <2> QED BY <1>6, <1>7, <2>1, <2>5, <2>6 DEF Causal
<1> QED BY <1>9, <1>10 DEF WentBack, p

(* A turn keeps it causal, and opens one.                                   *)
LEMMA TurnCausal ==
  ASSUME NEW g \in Graph, NEW floor, NEW s0 \in Stamp, NEW reach, ReachOf(reach, g, floor, s0),
         NEW w \in Walk, w.queue # <<>>, Causal(g, s0, reach, w), NEW c \in Int, Spare(w, c)
  PROVE  /\ Causal(g, s0, reach, WalkNode(g, floor, w))
         /\ Spare(WalkNode(g, floor, w), c - 1)
<1> DEFINE item == Head(w.queue)
           n == item[1]
           bound == item[2]
           depth == item[3]
           start == Popped(w)
<1>1. /\ item \in State /\ item = w.queue[1] /\ 1 \in DOMAIN w.queue /\ depth \in Nat
      /\ start \in Walk /\ start.queue = Tail(w.queue)
      /\ start.seen = w.seen /\ start.nodes = w.nodes /\ start.hubs = w.hubs
      /\ Len(w.queue) \in Nat /\ Len(Tail(w.queue)) = Len(w.queue) - 1
  <2>1. w.queue \in Seq(State) /\ Len(w.queue) \in Nat /\ Len(w.queue) # 0
    BY HeadIs, WalkParts
  <2>2. 1 \in DOMAIN w.queue
    BY <2>1
  <2> QED BY <2>2, HeadIs
<1>2. Cardinality(w.seen) \in Nat
  BY MarksFewer DEF Causal
<1>3. <<n, bound>> \in reach[depth] /\ Opens(g, s0, <<n, bound>>)
  BY <1>1 DEF Causal, Waits
<1>4. Causal(g, s0, reach, start) /\ Spare(start, c - 1)
  <2>1. \A k \in DOMAIN start.queue :
          k + 1 \in DOMAIN w.queue /\ start.queue[k] = w.queue[k + 1]
    BY <1>1, HeadIs
  <2>2. Causal(g, s0, reach, start)
    BY <1>1, <2>1 DEF Causal, Waits
  <2>3. Spare(start, c - 1)
    BY <1>1, <1>2 DEF Spare
  <2> QED BY <2>2, <2>3
<1>5. CASE ~ (depth < MaxDepth)
  <2>1. depth >= MaxDepth
    BY <1>1, <1>5, GraphAssumption
  <2>2. WalkNode(g, floor, w) = start
    BY <2>1 DEF WalkNode, Popped
  <2> QED BY <1>4, <2>2
<1>6. CASE depth < MaxDepth
  <2>1. PICK f : Turned(f, g, floor, w)
    BY <1>6, NodeWalked
  <2> DEFINE open == Opening(g, floor, w)
             m == Len(open)
             Y == [i \in 0 .. m |-> {v \in Walk : Causal(g, s0, reach, v) /\ Spare(v, c - 1)}]
  <2>2. /\ open \in Seq(Edge)
        /\ \A k \in DOMAIN open : /\ open[k] \in g.edges /\ Upstream(open[k], n) # None
                                  /\ floor <= open[k].ts /\ open[k].ts <= bound
    BY IntoIs DEF Opening
  <2>3. m \in Nat /\ DOMAIN open = 1 .. m
    BY <2>2
  <2>4. /\ f \in [0 .. m -> Walk] /\ f[0] = start /\ WalkNode(g, floor, w) = f[m]
        /\ \A i \in 1 .. m : f[i] = WalkEdge(g, n, depth, f[i - 1], open[i])
    BY <2>1 DEF Turned
  <2> HIDE DEF open, m, n, depth, bound, start, item
  <2>5. f[0] \in Y[0]
    BY <1>1, <1>4, <2>3, <2>4
  <2>6. ASSUME NEW i \in 1 .. m, f[i - 1] \in Y[i - 1] PROVE f[i] \in Y[i]
    <3>1. i - 1 \in 0 .. m /\ i \in 0 .. m /\ i \in DOMAIN open
      BY <2>3
    <3>2. f[i - 1] \in Walk /\ Causal(g, s0, reach, f[i - 1]) /\ Spare(f[i - 1], c - 1)
      BY <2>6, <3>1
    <3>3. /\ open[i] \in g.edges /\ Upstream(open[i], n) # None
          /\ floor <= open[i].ts /\ open[i].ts <= bound
      BY <2>2, <3>1
    <3>4. WentBack(g, f[i - 1], f[i], Before(open[i], n), depth)
      BY <1>1, <2>4, <3>2, <3>3, EdgeWalked
    <3>5. c - 1 \in Int
      OBVIOUS
    <3>6. Causal(g, s0, reach, f[i]) /\ Spare(f[i], c - 1)
      BY <1>1, <1>3, <1>6, <3>2, <3>3, <3>4, <3>5, EdgeCausal
    <3> QED BY <2>4, <3>1, <3>6
  <2>7. \A i \in 0 .. m : f[i] \in Y[i]
    <3> HIDE DEF Y
    <3> QED BY <2>3, <2>5, <2>6, StepsKeep
  <2>8. m \in 0 .. m
    BY <2>3
  <2> QED BY <2>4, <2>7, <2>8
<1> QED BY <1>5, <1>6
-----------------------------------------------------------------------------
(* No two edges of different times share a second.                          *)
TellsApart(g) ==
  \A d, e \in g.edges : d.ts \div Second = e.ts \div Second => d.ts = e.ts

(* A walk has met a state if it knows its node and will open it, unless a   *)
(* hub; it is done with one if it has met all that precedes it; and it is   *)
(* done with all it has met, but for what waits and what is in X.           *)
Met(g, w, s) ==
  (s[1] \in g.nodes => s[1] \in w.nodes) /\ (HubIn(g, s[1]) \/ Mark(s) \in w.seen)
Done(g, floor, w, s) == \A p \in Preceding(g, floor, s) : Met(g, w, p)
Queued(w, s) == \E k \in DOMAIN w.queue : w.queue[k][1] = s[1] /\ w.queue[k][2] = s[2]
Moments(g) == {s \in Stamp : \E e \in g.edges : s[2] = e.ts}
Missing(g, floor, s0, w, X) ==
  {s \in Moments(g) \cup {s0} : /\ (s = s0 \/ Mark(s) \in w.seen)
                                /\ s \notin X /\ ~ Queued(w, s) /\ ~ Done(g, floor, w, s)}
Complete(g, floor, s0, w, X) ==
  (s0[1] \in g.nodes => s0[1] \in w.nodes) /\ Missing(g, floor, s0, w, X) = {}

(* Walking back over an edge meets where it came from, and loses nothing.   *)
LEMMA EdgeCompletes ==
  ASSUME NEW g \in Graph, TellsApart(g), NEW floor, NEW s0 \in Stamp, NEW X,
         NEW w \in Walk, Complete(g, floor, s0, w, X),
         NEW n, NEW depth \in Nat, NEW e \in g.edges, Upstream(e, n) # None,
         NEW v, WentBack(g, w, v, Before(e, n), depth)
  PROVE  /\ Complete(g, floor, s0, v, X) /\ Met(g, v, Before(e, n))
         /\ \A s : Met(g, w, s) => Met(g, v, s)
<1> DEFINE p == Before(e, n)
<1>1. p \in Stamp /\ p = <<p[1], p[2]>> /\ p[2] = e.ts
  <2>1. e \in Edge
    BY GraphParts
  <2> QED BY <2>1, UpstreamIs DEF Before, Stamp
<1> HIDE DEF p
<1>2. w.queue \in Seq(State) /\ Len(w.queue) \in Nat /\ DOMAIN w.queue = 1 .. Len(w.queue)
  <2>1. w.queue \in Seq(State)
    BY WalkParts
  <2> QED BY <2>1
<1>3. \/ /\ HubIn(g, p[1]) \/ Mark(p) \in w.seen
         /\ v.queue = w.queue /\ v.seen = w.seen
      \/ /\ ~ HubIn(g, p[1]) /\ Mark(p) \notin w.seen
         /\ v.queue = Append(w.queue, <<p[1], p[2], depth + 1>>)
         /\ v.seen = w.seen \cup {Mark(p)}
  BY DEF WentBack, p
<1>4. v.nodes = w.nodes \cup ({p[1]} \cap g.nodes)
  BY DEF WentBack, p
<1>5. Met(g, v, p) /\ \A s : Met(g, w, s) => Met(g, v, s)
  BY <1>3, <1>4 DEF Met
<1>6. \A s : Done(g, floor, w, s) => Done(g, floor, v, s)
  BY <1>5 DEF Done
<1>7. /\ \A s : Queued(w, s) => Queued(v, s)
      /\ v.seen # w.seen => Queued(v, p)
  <2>1. CASE v.queue = w.queue /\ v.seen = w.seen
    BY <2>1 DEF Queued
  <2>2. CASE v.queue = Append(w.queue, <<p[1], p[2], depth + 1>>)
    <3> DEFINE x == <<p[1], p[2], depth + 1>>
               q == w.queue
    <3>1. v.queue = Append(q, x) /\ q \in Seq(State) /\ Len(q) \in Nat /\ DOMAIN q = 1 .. Len(q)
      BY <1>2, <2>2
    <3>2. x[1] = p[1] /\ x[2] = p[2]
      OBVIOUS
    <3> HIDE DEF x, q
    <3>3. /\ DOMAIN v.queue = 1 .. Len(q) + 1 /\ v.queue[Len(q) + 1] = x
          /\ \A k \in DOMAIN q : v.queue[k] = q[k] /\ k \in 1 .. Len(q) + 1
      BY <3>1
    <3>4. Len(q) + 1 \in DOMAIN v.queue
      BY <3>1, <3>3
    <3>5. Queued(v, p)
      BY <3>2, <3>3, <3>4 DEF Queued
    <3>6. \A s : Queued(w, s) => Queued(v, s)
      BY <3>3 DEF Queued, q
    <3> QED BY <3>5, <3>6
  <2> QED BY <1>3, <2>1, <2>2
<1>8. ASSUME NEW s \in Missing(g, floor, s0, v, X) PROVE FALSE
  <2>1. /\ s \in Moments(g) \cup {s0} /\ (s = s0 \/ Mark(s) \in v.seen)
        /\ s \notin X /\ ~ Queued(v, s) /\ ~ Done(g, floor, v, s)
    BY <1>8 DEF Missing
  <2>2. ~ Queued(w, s) /\ ~ Done(g, floor, w, s)
    BY <1>6, <1>7, <2>1
  <2>3. ~ (s = s0 \/ Mark(s) \in w.seen)
    BY <2>1, <2>2 DEF Complete, Missing
  <2>4. Mark(s) = Mark(p) /\ v.seen # w.seen /\ s \in Moments(g)
    BY <1>3, <2>1, <2>3
  <2>5. PICK d \in g.edges : s[2] = d.ts
    BY <2>4 DEF Moments
  <2>6. s[1] = p[1] /\ s[2] \div Second = p[2] \div Second
    BY <2>4 DEF Mark
  <2>7. s[2] = p[2]
    BY <1>1, <2>5, <2>6 DEF TellsApart
  <2>8. Queued(v, s)
    BY <1>7, <2>4, <2>6, <2>7 DEF Queued
  <2> QED BY <2>1, <2>8
<1>9. s0[1] \in g.nodes => s0[1] \in v.nodes
  BY <1>4 DEF Complete
<1> QED BY <1>5, <1>8, <1>9 DEF Complete, p

-----------------------------------------------------------------------------
(* A walk forgets nothing it met, and what a turn of this depth queues goes *)
(* to the end, one deeper.                                                  *)
Grows(g, w, v) == w.nodes \subseteq v.nodes /\ \A s : Met(g, w, s) => Met(g, v, s)
Appends(w, v, depth) ==
  /\ \A k \in DOMAIN w.queue : k \in DOMAIN v.queue /\ v.queue[k] = w.queue[k]
  /\ \A k \in DOMAIN v.queue :
       k \in DOMAIN w.queue \/ (Len(w.queue) < k /\ v.queue[k][3] = depth + 1)

LEMMA EdgeGrows ==
  ASSUME NEW g \in Graph, NEW w \in Walk, NEW s, NEW depth \in Nat,
         NEW v, WentBack(g, w, v, s, depth),
         NEW u \in Walk, Grows(g, u, w), Appends(u, w, depth)
  PROVE  Grows(g, u, v) /\ Appends(u, v, depth)
<1>1. Grows(g, w, v)
  BY DEF WentBack, Grows, Met
<1>2. Grows(g, u, v)
  BY <1>1 DEF Grows
<1>3. Len(u.queue) \in Nat /\ DOMAIN u.queue = 1 .. Len(u.queue)
  <2>1. u.queue \in Seq(State)
    BY WalkParts
  <2> QED BY <2>1
<1>4. CASE v.queue = w.queue
  BY <1>2, <1>4 DEF Appends
<1>5. CASE v.queue = Append(w.queue, <<s[1], s[2], depth + 1>>)
  <2> DEFINE x == <<s[1], s[2], depth + 1>>
             q == w.queue
  <2>1. q \in Seq(State) /\ v.queue = Append(q, x) /\ x[3] = depth + 1
    BY <1>5, WalkParts
  <2>2. \A k \in DOMAIN u.queue : k \in DOMAIN q
    BY DEF Appends
  <2> HIDE DEF x, q
  <2>3. /\ Len(q) \in Nat /\ DOMAIN q = 1 .. Len(q) /\ DOMAIN v.queue = 1 .. Len(q) + 1
        /\ \A k \in DOMAIN q : v.queue[k] = q[k] /\ k \in DOMAIN v.queue
        /\ v.queue[Len(q) + 1] = x
    BY <2>1
  <2>4. Len(u.queue) < Len(q) + 1
    <3>1. Len(u.queue) = 0 \/ Len(u.queue) \in DOMAIN u.queue
      BY <1>3
    <3> QED BY <1>3, <2>2, <2>3, <3>1
  <2>5. \A k \in DOMAIN v.queue : k \in DOMAIN q \/ k = Len(q) + 1
    BY <2>3
  <2>6. Appends(u, v, depth)
    BY <2>1, <2>3, <2>4, <2>5 DEF Appends, q
  <2> QED BY <1>2, <2>6
<1> QED BY <1>4, <1>5 DEF WentBack

(* A turn that goes over edges.                                             *)
LEMMA TurnGrows ==
  ASSUME NEW g \in Graph, NEW floor, NEW w \in Walk, w.queue # <<>>, Head(w.queue)[3] < MaxDepth
  PROVE  LET v == WalkNode(g, floor, w)
         IN  Grows(g, w, v) /\ Appends(Popped(w), v, Head(w.queue)[3])
<1> DEFINE item == Head(w.queue)
           n == item[1]
           depth == item[3]
           start == Popped(w)
<1>1. depth \in Nat /\ start \in Walk /\ start.seen = w.seen /\ start.nodes = w.nodes
  BY HeadIs
<1>2. PICK f : Turned(f, g, floor, w)
  BY NodeWalked
<1> DEFINE open == Opening(g, floor, w)
           m == Len(open)
           Y == [i \in 0 .. m |-> {v \in Walk : Grows(g, start, v) /\ Appends(start, v, depth)}]
<1>3. open \in Seq(Edge) /\ \A k \in DOMAIN open : open[k] \in g.edges /\ Upstream(open[k], n) # None
  BY IntoIs DEF Opening
<1>4. m \in Nat /\ DOMAIN open = 1 .. m
  BY <1>3
<1>5. /\ f \in [0 .. m -> Walk] /\ f[0] = start /\ WalkNode(g, floor, w) = f[m]
      /\ \A i \in 1 .. m : f[i] = WalkEdge(g, n, depth, f[i - 1], open[i])
  BY <1>2 DEF Turned
<1> HIDE DEF open, m, n, depth, start, item
<1>6. f[0] \in Y[0]
  BY <1>1, <1>4, <1>5 DEF Grows, Appends
<1>7. ASSUME NEW i \in 1 .. m, f[i - 1] \in Y[i - 1] PROVE f[i] \in Y[i]
  <2>1. i - 1 \in 0 .. m /\ i \in 0 .. m /\ i \in DOMAIN open
    BY <1>4
  <2>2. f[i - 1] \in Walk /\ Grows(g, start, f[i - 1]) /\ Appends(start, f[i - 1], depth)
    BY <1>7, <2>1
  <2>3. open[i] \in g.edges /\ Upstream(open[i], n) # None
    BY <1>3, <2>1
  <2>4. WentBack(g, f[i - 1], f[i], Before(open[i], n), depth)
    BY <1>1, <1>5, <2>2, <2>3, EdgeWalked
  <2>5. Grows(g, start, f[i]) /\ Appends(start, f[i], depth)
    BY <1>1, <2>2, <2>4, EdgeGrows
  <2> QED BY <1>5, <2>1, <2>5
<1>8. \A i \in 0 .. m : f[i] \in Y[i]
  <2> HIDE DEF Y
  <2> QED BY <1>4, <1>6, <1>7, StepsKeep
<1>9. Grows(g, start, f[m]) /\ Appends(start, f[m], depth)
  <2>1. m \in 0 .. m
    BY <1>4
  <2> QED BY <1>8, <2>1
<1>10. Grows(g, w, f[m])
  BY <1>1, <1>9 DEF Grows, Met
<1> QED BY <1>5, <1>9, <1>10 DEF start, depth, item

(* A turn leaves nothing it met undone, if it may go over all the edges.    *)
LEMMA TurnCompletes ==
  ASSUME NEW g \in Graph, TellsApart(g), Listed(g), NEW floor, NEW s0 \in Stamp,
         NEW w \in Walk, w.queue # <<>>, Head(w.queue)[3] < MaxDepth,
         Complete(g, floor, s0, w, {})
  PROVE  LET v == WalkNode(g, floor, w)
         IN  /\ Complete(g, floor, s0, v, {})
             /\ Done(g, floor, v, <<Head(w.queue)[1], Head(w.queue)[2]>>)
<1> DEFINE item == Head(w.queue)
           n == item[1]
           bound == item[2]
           depth == item[3]
           start == Popped(w)
           here == <<n, bound>>
<1>1. /\ item \in State /\ n \in Node /\ bound \in Int /\ depth \in Nat /\ start \in Walk
      /\ start.queue = Tail(w.queue) /\ start.seen = w.seen /\ start.nodes = w.nodes
  BY HeadIs
<1>2. here[1] = n /\ here[2] = bound /\ \A s \in Stamp : s[1] = n /\ s[2] = bound => s = here
  BY DEF Stamp
<1>3. Complete(g, floor, s0, start, {here})
  <2>1. ASSUME NEW s \in Missing(g, floor, s0, start, {here}) PROVE FALSE
    <3>1. /\ s \in Moments(g) \cup {s0} /\ (s = s0 \/ Mark(s) \in w.seen)
          /\ s # here /\ ~ Queued(start, s) /\ ~ Done(g, floor, start, s)
      BY <1>1, <2>1 DEF Missing
    <3>2. s \in Stamp
      BY <3>1 DEF Moments
    <3>3. ~ Done(g, floor, w, s)
      BY <1>1, <3>1 DEF Done, Met
    <3>4. Queued(w, s)
      BY <3>1, <3>3 DEF Complete, Missing
    <3>5. PICK k \in DOMAIN w.queue : w.queue[k][1] = s[1] /\ w.queue[k][2] = s[2]
      BY <3>4 DEF Queued
    <3>6. CASE k = 1
      <4>1. w.queue[k] = item
        BY <3>6, HeadIs
      <4> QED BY <1>2, <3>1, <3>2, <3>5, <4>1
    <3>7. CASE k # 1
      <4>1. k - 1 \in DOMAIN Tail(w.queue) /\ w.queue[k] = Tail(w.queue)[k - 1]
        BY <3>7, HeadIs
      <4>2. Queued(start, s)
        BY <1>1, <3>5, <4>1 DEF Queued
      <4> QED BY <3>1, <4>2
    <3> QED BY <3>6, <3>7
  <2>2. s0[1] \in g.nodes => s0[1] \in start.nodes
    BY <1>1 DEF Complete
  <2> QED BY <2>1, <2>2 DEF Complete
<1>4. PICK f : Turned(f, g, floor, w)
  BY NodeWalked
<1> DEFINE open == Opening(g, floor, w)
           m == Len(open)
           Y == [i \in 0 .. m |-> {v \in Walk :
                   /\ Complete(g, floor, s0, v, {here})
                   /\ \A k \in 1 .. i : Met(g, v, Before(open[k], n))}]
<1>5. /\ open \in Seq(Edge)
      /\ \A k \in DOMAIN open : open[k] \in g.edges /\ Upstream(open[k], n) # None
      /\ \A e \in g.edges : Upstream(e, n) # None /\ floor <= e.ts /\ e.ts <= bound =>
           \E k \in DOMAIN open : open[k] = e
  BY IntoIs DEF Opening
<1>6. m \in Nat /\ DOMAIN open = 1 .. m
  BY <1>5
<1>7. /\ f \in [0 .. m -> Walk] /\ f[0] = start /\ WalkNode(g, floor, w) = f[m]
      /\ \A i \in 1 .. m : f[i] = WalkEdge(g, n, depth, f[i - 1], open[i])
  BY <1>4 DEF Turned
<1> HIDE DEF open, m, n, depth, bound, start, item, here
<1>8. f[0] \in Y[0]
  BY <1>1, <1>3, <1>6, <1>7
<1>9. ASSUME NEW i \in 1 .. m, f[i - 1] \in Y[i - 1] PROVE f[i] \in Y[i]
  <2>1. i - 1 \in 0 .. m /\ i \in 0 .. m /\ i \in DOMAIN open
    BY <1>6
  <2>2. /\ f[i - 1] \in Walk /\ Complete(g, floor, s0, f[i - 1], {here})
        /\ \A k \in 1 .. i - 1 : Met(g, f[i - 1], Before(open[k], n))
    BY <1>9, <2>1
  <2>3. open[i] \in g.edges /\ Upstream(open[i], n) # None
    BY <1>5, <2>1
  <2>4. WentBack(g, f[i - 1], f[i], Before(open[i], n), depth)
    BY <1>1, <1>7, <2>2, <2>3, EdgeWalked
  <2>5. /\ Complete(g, floor, s0, f[i], {here}) /\ Met(g, f[i], Before(open[i], n))
        /\ \A s : Met(g, f[i - 1], s) => Met(g, f[i], s)
    BY <1>1, <2>2, <2>3, <2>4, EdgeCompletes
  <2>6. \A k \in 1 .. i : Met(g, f[i], Before(open[k], n))
    <3>1. \A k \in 1 .. i : k = i \/ k \in 1 .. i - 1
      OBVIOUS
    <3> QED BY <2>2, <2>5, <3>1
  <2>7. f[i] \in Walk
    BY <1>7, <2>1
  <2> QED BY <2>1, <2>5, <2>6, <2>7
<1>10. \A i \in 0 .. m : f[i] \in Y[i]
  <2> HIDE DEF Y
  <2> QED BY <1>6, <1>8, <1>9, StepsKeep
<1>11. /\ Complete(g, floor, s0, f[m], {here})
       /\ \A k \in 1 .. m : Met(g, f[m], Before(open[k], n))
  <2>1. m \in 0 .. m
    BY <1>6
  <2> QED BY <1>10, <2>1
<1>12. Done(g, floor, f[m], here)
  <2> SUFFICES ASSUME NEW p \in Preceding(g, floor, here) PROVE Met(g, f[m], p)
    BY DEF Done
  <2>1. PICK e \in g.edges : /\ p = <<Upstream(e, n), e.ts>> /\ Upstream(e, n) # None
                             /\ floor <= e.ts /\ e.ts <= bound
    BY <1>2 DEF Preceding
  <2>2. PICK k \in DOMAIN open : open[k] = e
    BY <1>5, <2>1
  <2> QED BY <1>6, <1>11, <2>1, <2>2 DEF Before
<1>13. Missing(g, floor, s0, f[m], {}) = {}
  BY <1>11, <1>12 DEF Complete, Missing
<1> QED BY <1>7, <1>11, <1>12, <1>13 DEF Complete, here, n, bound, item

(* A walk with nothing left to open is done with every cause it may open.   *)
LEMMA EmptyIsDone ==
  ASSUME NEW g \in Graph, NEW floor, NEW s0 \in Stamp, NEW reach, ReachOf(reach, g, floor, s0),
         NEW w \in Walk, w.queue = <<>>, Complete(g, floor, s0, w, {}), NEW k \in 0 .. MaxDepth,
         NEW s \in reach[k], Opens(g, s0, s)
  PROVE  Done(g, floor, w, s)
<1> DEFINE Known == {r \in Moments(g) \cup {s0} : r = s0 \/ Met(g, w, r)}
           Y == [i \in 0 .. MaxDepth |-> SUBSET Known]
<1>1. MaxDepth \in Nat
  BY GraphAssumption
<1>2. ASSUME NEW r \in Known, Opens(g, s0, r) PROVE r \in Stamp /\ Done(g, floor, w, r)
  <2>1. r \in Stamp /\ r \in Moments(g) \cup {s0} /\ (r = s0 \/ Met(g, w, r))
    BY DEF Moments
  <2>2. r = s0 \/ Mark(r) \in w.seen
    BY <1>2, <2>1 DEF Opens, Met, HubIn
  <2>3. ~ Queued(w, r)
    <3>1. DOMAIN << >> = {}
      OBVIOUS
    <3> QED BY <3>1 DEF Queued
  <2> QED BY <2>1, <2>2, <2>3 DEF Complete, Missing
<1>3. ASSUME NEW r \in Known, Opens(g, s0, r), NEW p \in Preceding(g, floor, r)
      PROVE  p \in Known
  <2>1. r \in Stamp /\ Done(g, floor, w, r)
    BY <1>2, <1>3
  <2>2. Met(g, w, p)
    BY <2>1 DEF Done
  <2>3. p \in Stamp
    BY <2>1, PrecedingTypes
  <2>4. p \in Moments(g)
    BY <2>3 DEF Moments, Preceding
  <2> QED BY <2>2, <2>4
<1>4. s0 \in Known
  OBVIOUS
<1> HIDE DEF Known
<1>5. reach[0] \in Y[0]
  BY <1>1, <1>4 DEF ReachOf
<1>6. ASSUME NEW i \in 1 .. MaxDepth, reach[i - 1] \in Y[i - 1] PROVE reach[i] \in Y[i]
  <2>1. i - 1 \in 0 .. MaxDepth /\ i \in 0 .. MaxDepth
    BY <1>1
  <2>2. reach[i - 1] \subseteq Known
    BY <1>6, <2>1
  <2>3. Further(g, floor, s0, reach[i - 1]) \subseteq Known
    BY <1>3, <2>2 DEF Further
  <2> QED BY <2>1, <2>3 DEF ReachOf
<1>7. \A i \in 0 .. MaxDepth : reach[i] \in Y[i]
  <2> HIDE DEF Y
  <2> QED BY <1>1, <1>5, <1>6, StepsKeep
<1>8. reach[k] \subseteq Known
  BY <1>7
<1> QED BY <1>2, <1>8
-----------------------------------------------------------------------------
(* The queue goes from less deep to more, by one step at most. Either some- *)
(* thing less deep than k waits, or all that is reached over k edges was    *)
(* opened, or waits, no deeper than k.                                      *)
Ordered(w) ==
  \A i, j \in DOMAIN w.queue : i <= j =>
    w.queue[i][3] <= w.queue[j][3] /\ w.queue[j][3] <= w.queue[i][3] + 1
Ahead(w, k) == \E i \in DOMAIN w.queue : w.queue[i][3] < k
QueuedBy(w, s, k) ==
  \E i \in DOMAIN w.queue : w.queue[i][1] = s[1] /\ w.queue[i][2] = s[2] /\ w.queue[i][3] <= k
Levelled(g, floor, s0, reach, w, k) ==
  Ahead(w, k) \/ \A s \in reach[k] : Opens(g, s0, s) => Done(g, floor, w, s) \/ QueuedBy(w, s, k)

(* All that may be opened has been.                                         *)
AllDone(g, floor, s0, reach, w) ==
  \A k \in 0 .. MaxDepth - 1 : \A s \in reach[k] : Opens(g, s0, s) => Done(g, floor, w, s)

(* A walk breadth first, at any time, among edges that can be told apart.   *)
Deepens(g, floor, s0, reach, w) ==
  /\ s0[1] \in g.nodes => s0[1] \in w.nodes
  /\ \/ AllDone(g, floor, s0, reach, w)
     \/ /\ Complete(g, floor, s0, w, {}) /\ Ordered(w)
        /\ \A k \in 0 .. MaxDepth - 1 : Levelled(g, floor, s0, reach, w, k)

(* A queue's places and depths.                                             *)
LEMMA QueueIs ==
  ASSUME NEW w \in Walk
  PROVE  /\ Len(w.queue) \in Nat /\ DOMAIN w.queue = 1 .. Len(w.queue)
         /\ \A k \in DOMAIN w.queue : w.queue[k][3] \in Nat
         /\ Len(w.queue) = 0 => w.queue = <<>>
<1>1. w.queue \in Seq(State)
  BY WalkParts
<1>2. \A s \in State : s[3] \in Nat
  BY DEF State
<1> QED BY <1>1, <1>2

(* Once the next to be opened is too deep, all that may be opened has been. *)
LEMMA TooDeep ==
  ASSUME NEW g, NEW floor, NEW s0, NEW reach,
         NEW w \in Walk, w.queue # <<>>, ~ (Head(w.queue)[3] < MaxDepth),
         Ordered(w), \A k \in 0 .. MaxDepth - 1 : Levelled(g, floor, s0, reach, w, k)
  PROVE  AllDone(g, floor, s0, reach, w)
<1>1. 1 \in DOMAIN w.queue /\ Head(w.queue) = w.queue[1] /\ MaxDepth \in Nat
  BY HeadIs, QueueIs, GraphAssumption
<1>2. \A i \in DOMAIN w.queue : w.queue[i][3] >= MaxDepth /\ w.queue[i][3] \in Nat
  <2> SUFFICES ASSUME NEW i \in DOMAIN w.queue PROVE w.queue[i][3] >= MaxDepth /\ w.queue[i][3] \in Nat
    OBVIOUS
  <2>1. 1 <= i /\ w.queue[i][3] \in Nat /\ w.queue[1][3] \in Nat
    BY <1>1, QueueIs
  <2>2. w.queue[1][3] <= w.queue[i][3]
    BY <1>1, <2>1 DEF Ordered
  <2> QED BY <1>1, <2>1, <2>2
<1>3. ASSUME NEW k \in 0 .. MaxDepth - 1, NEW s \in reach[k], Opens(g, s0, s)
      PROVE  Done(g, floor, w, s)
  <2>1. ~ Ahead(w, k) /\ ~ QueuedBy(w, s, k)
    BY <1>1, <1>2 DEF Ahead, QueuedBy
  <2> QED BY <1>3, <2>1 DEF Levelled
<1> QED BY <1>3 DEF AllDone

(* A turn keeps the order.                                                  *)
LEMMA TurnOrdered ==
  ASSUME NEW w \in Walk, w.queue # <<>>, Ordered(w),
         NEW v \in Walk, Appends(Popped(w), v, Head(w.queue)[3])
  PROVE  /\ Ordered(v)
         /\ \A k \in DOMAIN v.queue : v.queue[k][3] <= Head(w.queue)[3] + 1
         /\ \A k \in DOMAIN w.queue : k = 1 \/ \E j \in DOMAIN v.queue : v.queue[j] = w.queue[k]
<1> DEFINE d == Head(w.queue)[3]
           u == Popped(w)
<1>1. /\ 1 \in DOMAIN w.queue /\ w.queue[1][3] = d /\ d \in Nat /\ u \in Walk
      /\ u.queue = Tail(w.queue)
  BY HeadIs, QueueIs
<1>2. /\ \A k \in DOMAIN w.queue : w.queue[k][3] \in Nat /\ k \in Nat /\ 1 <= k
      /\ \A k \in DOMAIN v.queue : v.queue[k][3] \in Nat /\ k \in Nat
      /\ \A k \in DOMAIN u.queue : k \in Nat /\ k <= Len(u.queue)
      /\ Len(u.queue) \in Nat
  BY <1>1, QueueIs
<1>3. \A k \in DOMAIN w.queue : w.queue[k][3] <= d + 1 /\ d <= w.queue[k][3]
  BY <1>1, <1>2 DEF Ordered
<1>4. \A k \in DOMAIN u.queue : k + 1 \in DOMAIN w.queue /\ u.queue[k] = w.queue[k + 1]
  BY <1>1, HeadIs
<1>5. \A k \in DOMAIN v.queue :
        \/ k \in DOMAIN u.queue /\ v.queue[k] = w.queue[k + 1] /\ k + 1 \in DOMAIN w.queue
        \/ Len(u.queue) < k /\ v.queue[k][3] = d + 1
  BY <1>4 DEF Appends
<1>6. \A k \in DOMAIN w.queue : k = 1 \/ \E j \in DOMAIN v.queue : v.queue[j] = w.queue[k]
  <2> SUFFICES ASSUME NEW k \in DOMAIN w.queue, k # 1
               PROVE  \E j \in DOMAIN v.queue : v.queue[j] = w.queue[k]
    OBVIOUS
  <2>1. k - 1 \in DOMAIN u.queue /\ w.queue[k] = u.queue[k - 1]
    BY <1>1, HeadIs
  <2> QED BY <2>1 DEF Appends
<1> HIDE DEF d, u
<1>7. \A k \in DOMAIN v.queue : v.queue[k][3] <= d + 1 /\ d <= v.queue[k][3]
  BY <1>1, <1>2, <1>3, <1>5
<1>8. ASSUME NEW i \in DOMAIN v.queue, NEW j \in DOMAIN v.queue, i <= j
      PROVE  v.queue[i][3] <= v.queue[j][3] /\ v.queue[j][3] <= v.queue[i][3] + 1
  <2>1. v.queue[i][3] \in Nat /\ v.queue[j][3] \in Nat /\ i \in Nat /\ j \in Nat
    BY <1>2
  <2>2. v.queue[j][3] <= v.queue[i][3] + 1
    BY <1>1, <1>7, <2>1
  <2>3. CASE v.queue[j][3] = d + 1
    BY <1>1, <1>7, <2>1, <2>2, <2>3
  <2>4. CASE v.queue[j][3] # d + 1
    <3>1. j \in DOMAIN u.queue /\ v.queue[j] = w.queue[j + 1] /\ j + 1 \in DOMAIN w.queue
      BY <1>5, <2>4
    <3>2. ~ (Len(u.queue) < i)
      BY <1>2, <1>8, <2>1, <3>1
    <3>3. v.queue[i] = w.queue[i + 1] /\ i + 1 \in DOMAIN w.queue
      BY <1>5, <3>2
    <3>4. i + 1 <= j + 1
      BY <1>8, <2>1
    <3> QED BY <2>2, <3>1, <3>3, <3>4 DEF Ordered
  <2> QED BY <2>3, <2>4
<1> QED BY <1>6, <1>7, <1>8 DEF Ordered, d

(* A turn goes on breadth first.                                            *)
LEMMA TurnDeepens ==
  ASSUME NEW g \in Graph, TellsApart(g), Listed(g), NEW floor, NEW s0 \in Stamp,
         NEW reach, ReachOf(reach, g, floor, s0),
         NEW w \in Walk, w.queue # <<>>, Deepens(g, floor, s0, reach, w)
  PROVE  Deepens(g, floor, s0, reach, WalkNode(g, floor, w))
<1> DEFINE d == Head(w.queue)[3]
           here == <<Head(w.queue)[1], Head(w.queue)[2]>>
           v == WalkNode(g, floor, w)
<1>1. /\ d \in Nat /\ MaxDepth \in Nat /\ v \in Walk
      /\ 1 \in DOMAIN w.queue /\ w.queue[1][3] = d
      /\ w.queue[1][1] = here[1] /\ w.queue[1][2] = here[2] /\ here \in Stamp
  BY HeadIs, QueueIs, TurnTypes, GraphAssumption DEF Stamp
<1>2. Grows(g, w, v)
  <2>1. CASE d < MaxDepth
    BY <2>1, TurnGrows
  <2>2. CASE ~ (d < MaxDepth)
    <3>1. d >= MaxDepth
      BY <1>1, <2>2
    <3>2. v = Popped(w)
      BY <3>1 DEF WalkNode, Popped
    <3> QED BY <3>2, HeadIs DEF Grows, Met
  <2> QED BY <2>1, <2>2
<1>3. \A s : Done(g, floor, w, s) => Done(g, floor, v, s)
  BY <1>2 DEF Grows, Done
<1>4. s0[1] \in g.nodes => s0[1] \in v.nodes
  BY <1>2 DEF Grows, Deepens
<1>5. CASE AllDone(g, floor, s0, reach, w)
  <2>1. AllDone(g, floor, s0, reach, v)
    BY <1>3, <1>5 DEF AllDone
  <2> QED BY <1>4, <2>1 DEF Deepens
<1>6. CASE /\ Complete(g, floor, s0, w, {}) /\ Ordered(w) /\ d < MaxDepth
           /\ \A k \in 0 .. MaxDepth - 1 : Levelled(g, floor, s0, reach, w, k)
  <2>1. Appends(Popped(w), v, d)
    BY <1>6, TurnGrows
  <2>2. Complete(g, floor, s0, v, {}) /\ Done(g, floor, v, here)
    BY <1>6, TurnCompletes
  <2>3. /\ Ordered(v) /\ \A k \in DOMAIN v.queue : v.queue[k][3] <= d + 1
        /\ \A k \in DOMAIN w.queue : k = 1 \/ \E j \in DOMAIN v.queue : v.queue[j] = w.queue[k]
    BY <1>1, <1>6, <2>1, TurnOrdered
  <2>4. /\ \A k \in DOMAIN w.queue : w.queue[k][3] \in Nat /\ d <= w.queue[k][3]
        /\ \A k \in DOMAIN v.queue : v.queue[k][3] \in Nat
        /\ Len(v.queue) \in Nat /\ DOMAIN v.queue = 1 .. Len(v.queue)
        /\ Len(v.queue) = 0 => v.queue = <<>>
    <3>1. \A k \in DOMAIN w.queue : w.queue[k][3] \in Nat /\ 1 <= k
      BY <1>1, QueueIs
    <3>2. \A k \in DOMAIN w.queue : d <= w.queue[k][3]
      BY <1>1, <1>6, <3>1 DEF Ordered
    <3> QED BY <1>1, <3>1, <3>2, QueueIs
  <2>5. \A s \in Stamp : s[1] = here[1] /\ s[2] = here[2] => s = here
    BY DEF Stamp
  <2>6. \A k \in 0 .. MaxDepth : reach[k] \subseteq Stamp
    BY DEF ReachOf
  <2> HIDE DEF v, d, here
  <2>7. ASSUME NEW k \in 0 .. MaxDepth - 1, ~ Ahead(v, k), NEW l \in 0 .. MaxDepth - 1, l <= k,
               ~ Ahead(w, l), NEW s \in reach[l], Opens(g, s0, s)
        PROVE  Done(g, floor, v, s) \/ QueuedBy(v, s, l)
    <3>1. CASE Done(g, floor, w, s)
      BY <1>3, <3>1
    <3>2. CASE QueuedBy(w, s, l)
      <4>1. PICK i \in DOMAIN w.queue :
              w.queue[i][1] = s[1] /\ w.queue[i][2] = s[2] /\ w.queue[i][3] <= l
        BY <3>2 DEF QueuedBy
      <4>2. CASE i = 1
        <5>1. l \in 0 .. MaxDepth
          BY <1>1
        <5>2. s = here
          BY <1>1, <2>5, <2>6, <4>1, <4>2, <5>1
        <5> QED BY <2>2, <5>2
      <4>3. CASE i # 1
        BY <2>3, <4>1, <4>3 DEF QueuedBy
      <4> QED BY <4>2, <4>3
    <3> QED BY <2>7, <1>6, <3>1, <3>2 DEF Levelled
  <2>8. ASSUME NEW k \in 0 .. MaxDepth - 1, ~ Ahead(v, k), NEW s \in reach[k], Opens(g, s0, s)
        PROVE  Done(g, floor, v, s) \/ QueuedBy(v, s, k)
    <3>0. k \in Nat
      OBVIOUS
    <3>1. CASE k <= d
      <4>1. ~ Ahead(w, k)
        BY <1>1, <2>4, <3>0, <3>1 DEF Ahead
      <4> QED BY <2>7, <2>8, <3>0, <4>1
    <3>2. CASE d < k /\ v.queue = <<>>
      <4>1. k \in 0 .. MaxDepth
        BY <1>1
      <4> QED BY <1>1, <2>2, <2>8, <3>2, <4>1, EmptyIsDone
    <3>3. CASE d < k /\ v.queue # <<>>
      <4>1. k = d + 1
        <5>1. 1 \in DOMAIN v.queue
          BY <2>4, <3>3
        <5>2. ~ (v.queue[1][3] < k) /\ v.queue[1][3] <= d + 1 /\ v.queue[1][3] \in Nat
          BY <2>3, <2>4, <2>8, <5>1 DEF Ahead
        <5> QED BY <1>1, <3>0, <3>3, <5>2
      <4>2. d \in 0 .. MaxDepth - 1 /\ d <= k /\ k - 1 = d /\ k \in 1 .. MaxDepth
        BY <1>1, <4>1
      <4>3. ~ Ahead(w, d)
        BY <1>1, <2>4 DEF Ahead
      <4>4. ASSUME NEW r \in reach[d], Opens(g, s0, r) PROVE Done(g, floor, v, r)
        <5>1. ~ QueuedBy(v, r, d)
          BY <1>1, <2>4, <2>8, <3>0, <3>3 DEF QueuedBy, Ahead
        <5> QED BY <2>7, <2>8, <4>2, <4>3, <4>4, <5>1
      <4>5. s \in Further(g, floor, s0, reach[d])
        BY <2>8, <4>2 DEF ReachOf
      <4>6. CASE s \in reach[d]
        BY <2>8, <4>4, <4>6
      <4>7. CASE s \notin reach[d]
        <5>1. PICK r \in reach[d] : Opens(g, s0, r) /\ s \in Preceding(g, floor, r)
          BY <4>5, <4>7 DEF Further
        <5>2. Met(g, v, s)
          BY <4>4, <5>1 DEF Done
        <5>3. s \in Moments(g)
          <6>1. s \in Stamp
            BY <2>6, <2>8, <4>2
          <6> QED BY <5>1, <6>1 DEF Moments, Preceding
        <5>4. s = s0 \/ Mark(s) \in v.seen
          BY <2>8, <5>2 DEF Met, HubIn, Opens
        <5>5. Queued(v, s) \/ Done(g, floor, v, s)
          BY <2>2, <5>3, <5>4 DEF Complete, Missing
        <5>6. Queued(v, s) => QueuedBy(v, s, k)
          BY <2>3, <4>1 DEF Queued, QueuedBy
        <5> QED BY <5>5, <5>6
      <4> QED BY <4>6, <4>7
    <3> QED BY <1>1, <3>0, <3>1, <3>2, <3>3
  <2>9. \A k \in 0 .. MaxDepth - 1 : Levelled(g, floor, s0, reach, v, k)
    BY <2>8 DEF Levelled
  <2> QED BY <1>4, <2>2, <2>3, <2>9 DEF Deepens, v
<1>7. CASE /\ Complete(g, floor, s0, w, {}) /\ Ordered(w) /\ ~ (d < MaxDepth)
           /\ \A k \in 0 .. MaxDepth - 1 : Levelled(g, floor, s0, reach, w, k)
  BY <1>5, <1>7, TooDeep
<1>8. \/ AllDone(g, floor, s0, reach, w)
      \/ /\ Complete(g, floor, s0, w, {}) /\ Ordered(w)
         /\ \A k \in 0 .. MaxDepth - 1 : Levelled(g, floor, s0, reach, w, k)
  BY DEF Deepens
<1> QED BY <1>5, <1>6, <1>7, <1>8

(* Once there is nothing left to open, every cause is known.                *)
LEMMA EmptyKnows ==
  ASSUME NEW g \in Graph, NEW floor, NEW s0 \in Stamp, NEW reach, ReachOf(reach, g, floor, s0),
         NEW w \in Walk, w.queue = <<>>, Deepens(g, floor, s0, reach, w)
  PROVE  \A s \in reach[MaxDepth] : s[1] \in g.nodes => s[1] \in w.nodes
<1> DEFINE Known == {s \in Stamp : s[1] \in g.nodes => s[1] \in w.nodes}
           Y == [i \in 0 .. MaxDepth |-> SUBSET Known]
<1>1. MaxDepth \in Nat
  BY GraphAssumption
<1>2. AllDone(g, floor, s0, reach, w)
  <2>1. ASSUME Complete(g, floor, s0, w, {}) PROVE AllDone(g, floor, s0, reach, w)
    <3>1. \A k \in 0 .. MaxDepth - 1 : k \in 0 .. MaxDepth
      BY <1>1
    <3> QED BY <2>1, <3>1, EmptyIsDone DEF AllDone
  <2> QED BY <2>1 DEF Deepens
<1>3. s0 \in Known
  BY DEF Deepens
<1>4. \A i \in 0 .. MaxDepth : reach[i] \subseteq Stamp
  BY DEF ReachOf
<1>5. reach[0] \in Y[0]
  BY <1>1, <1>3 DEF ReachOf
<1>6. ASSUME NEW i \in 1 .. MaxDepth, reach[i - 1] \in Y[i - 1] PROVE reach[i] \in Y[i]
  <2>1. i - 1 \in 0 .. MaxDepth - 1 /\ i - 1 \in 0 .. MaxDepth /\ i \in 0 .. MaxDepth
    BY <1>1
  <2>2. reach[i - 1] \subseteq Known /\ reach[i] = Further(g, floor, s0, reach[i - 1])
    BY <1>6, <2>1 DEF ReachOf
  <2>3. ASSUME NEW r \in reach[i - 1], Opens(g, s0, r), NEW p \in Preceding(g, floor, r)
        PROVE  p \in Known
    <3>1. Done(g, floor, w, r)
      BY <1>2, <2>1, <2>3 DEF AllDone
    <3>2. Met(g, w, p)
      BY <3>1, <2>3 DEF Done
    <3>3. p \in Stamp
      BY <1>4, <2>1, <2>3, PrecedingTypes
    <3> QED BY <3>2, <3>3 DEF Met
  <2> HIDE DEF Known
  <2>4. Further(g, floor, s0, reach[i - 1]) \subseteq Known
    BY <2>2, <2>3 DEF Further
  <2> QED BY <2>1, <2>2, <2>4
<1>7. \A i \in 0 .. MaxDepth : reach[i] \in Y[i]
  <2> HIDE DEF Y
  <2> QED BY <1>1, <1>5, <1>6, StepsKeep
<1>8. reach[MaxDepth] \subseteq Known
  BY <1>1, <1>7
<1> QED BY <1>8
-----------------------------------------------------------------------------
(* What backward starts from.                                               *)
Start(g, s0) ==
  [queue |-> <<<<s0[1], s0[2], 0>>>>, seen |-> {}, edges |-> {},
   nodes |-> {s0[1]} \cap g.nodes, hubs |-> {}]

LEMMA StartIs ==
  ASSUME NEW g \in Graph, NEW floor, NEW s0 \in Stamp, NEW reach, ReachOf(reach, g, floor, s0)
  PROVE  LET w == Start(g, s0)
         IN  /\ w \in Walk /\ Causal(g, s0, reach, w) /\ Spare(w, 1)
             /\ Deepens(g, floor, s0, reach, w)
<1> DEFINE item == <<s0[1], s0[2], 0>>
           q == <<item>>
           w == Start(g, s0)
<1>1. s0[1] \in Node /\ s0[2] \in Int /\ s0 = <<s0[1], s0[2]>>
  BY DEF Stamp
<1>2. item \in State /\ item[1] = s0[1] /\ item[2] = s0[2] /\ item[3] = 0
  BY <1>1 DEF State
<1>3. w = [queue |-> q, seen |-> {}, edges |-> {}, nodes |-> {s0[1]} \cap g.nodes, hubs |-> {}]
  BY DEF Start
<1> HIDE DEF item
<1>4. q \in Seq(State) /\ Len(q) = 1 /\ DOMAIN q = {1} /\ q[1] = item
  BY <1>2
<1> HIDE DEF q, w
<1>5. /\ w \in Walk /\ w.queue = q /\ w.seen = {} /\ w.nodes = {s0[1]} \cap g.nodes
  BY <1>1, <1>3, <1>4 DEF Walk
<1>6. MaxDepth \in Nat
  BY GraphAssumption
<1>7. reach[0] = {s0}
  BY DEF ReachOf
<1>8. Causal(g, s0, reach, w)
  <2>1. Waits(g, s0, reach, item)
    BY <1>1, <1>2, <1>6, <1>7 DEF Waits, Opens
  <2>2. 0 \in 0 .. MaxDepth
    BY <1>6
  <2> QED BY <1>4, <1>5, <1>7, <2>1, <2>2 DEF Causal
<1>9. Spare(w, 1)
  <2>1. Cardinality({}) = 0
    BY FS_EmptySet
  <2>2. Len(w.queue) = 1 /\ Cardinality(w.seen) = 0
    BY <1>4, <1>5, <2>1
  <2> QED BY <2>2 DEF Spare
<1>10. Complete(g, floor, s0, w, {})
  <2>1. Queued(w, s0)
    BY <1>2, <1>4, <1>5 DEF Queued
  <2> QED BY <1>5, <2>1 DEF Complete, Missing
<1>11. Ordered(w)
  BY <1>2, <1>4, <1>5 DEF Ordered
<1>12. ASSUME NEW k \in 0 .. MaxDepth - 1 PROVE Levelled(g, floor, s0, reach, w, k)
  <2>1. CASE k = 0
    <3>1. QueuedBy(w, s0, 0)
      BY <1>2, <1>4, <1>5 DEF QueuedBy
    <3> QED BY <1>7, <2>1, <3>1 DEF Levelled
  <2>2. CASE k # 0
    <3>1. w.queue[1][3] < k /\ 1 \in DOMAIN w.queue
      BY <1>2, <1>4, <1>5, <2>2
    <3> QED BY <3>1 DEF Levelled, Ahead
  <2> QED BY <2>1, <2>2
<1> QED BY <1>5, <1>8, <1>9, <1>10, <1>11, <1>12 DEF Deepens, w

(* The whole walk: it runs out of states to open, knows only causes, and,   *)
(* over an index that is whole, every one of them.                          *)
LEMMA WalkedBack ==
  ASSUME NEW g \in Graph, NEW floor, NEW s0 \in Stamp
  PROVE  LET w == Backward(g, s0[1], s0[2], floor)
             causes == {s[1] : s \in Causes(g, floor, s0, MaxDepth)} \cap g.nodes
         IN  /\ w \in Walk /\ w.queue = <<>> /\ w.nodes \subseteq causes
             /\ \A m \in w.nodes \ w.hubs : IsHub(m) => m = s0[1]
             /\ Listed(g) /\ TellsApart(g) => w.nodes = causes
<1> DEFINE n == Cardinality(g.edges) + 1
           w == Backward(g, s0[1], s0[2], floor)
           start == Start(g, s0)
<1>1. PICK reach : /\ ReachOf(reach, g, floor, s0)
                   /\ Causes(g, floor, s0, MaxDepth) = reach[MaxDepth]
  BY CausesAre
<1>2. /\ start \in Walk /\ Causal(g, s0, reach, start) /\ Spare(start, 1)
      /\ Deepens(g, floor, s0, reach, start)
  BY <1>1, StartIs
<1>3. w = WalkBack(g, floor, start)
  BY DEF Backward, Start
<1> HIDE DEF start, w
<1>4. PICK f \in [0 .. n -> Walk] :
        f[0] = start /\ (\A i \in 1 .. n : f[i] = WalkNode(g, floor, f[i - 1])) /\ w = f[n]
  BY <1>2, <1>3, TurnsTaken
<1>5. Cardinality(g.edges) \in Nat
  <2>1. {} \in SUBSET Marks(g)
    OBVIOUS
  <2> QED BY <2>1, MarksFewer
<1>6. n \in Nat
  BY <1>5
<1> DEFINE whole == Listed(g) /\ TellsApart(g)
           Y == [i \in 0 .. n |-> {v \in Walk :
                   /\ Causal(g, s0, reach, v) /\ (v.queue = <<>> \/ Spare(v, 1 - i))
                   /\ whole => Deepens(g, floor, s0, reach, v)}]
<1> HIDE DEF n, whole
<1>7. f[0] \in Y[0]
  BY <1>2, <1>4, <1>6
<1>8. ASSUME NEW i \in 1 .. n, f[i - 1] \in Y[i - 1] PROVE f[i] \in Y[i]
  <2>1. i - 1 \in 0 .. n /\ i \in 0 .. n /\ 1 - (i - 1) \in Int /\ (1 - (i - 1)) - 1 = 1 - i
    BY <1>6
  <2>2. /\ f[i - 1] \in Walk /\ Causal(g, s0, reach, f[i - 1])
        /\ f[i - 1].queue = <<>> \/ Spare(f[i - 1], 1 - (i - 1))
        /\ whole => Deepens(g, floor, s0, reach, f[i - 1])
    BY <1>8, <2>1
  <2>3. f[i] = WalkNode(g, floor, f[i - 1]) /\ f[i] \in Walk
    BY <1>4, <2>1
  <2>4. CASE f[i - 1].queue = <<>>
    <3>1. f[i] = f[i - 1]
      BY <2>3, <2>4 DEF WalkNode
    <3> QED BY <2>1, <2>2, <2>4, <3>1
  <2>5. CASE f[i - 1].queue # <<>>
    <3>1. Causal(g, s0, reach, f[i]) /\ Spare(f[i], (1 - (i - 1)) - 1)
      BY <1>1, <2>1, <2>2, <2>3, <2>5, TurnCausal
    <3>2. whole => Deepens(g, floor, s0, reach, f[i])
      BY <1>1, <2>2, <2>3, <2>5, TurnDeepens DEF whole
    <3> QED BY <2>1, <2>3, <3>1, <3>2
  <2> QED BY <2>4, <2>5
<1>9. \A i \in 0 .. n : f[i] \in Y[i]
  <2> HIDE DEF Y
  <2> QED BY <1>6, <1>7, <1>8, StepsKeep
<1>10. /\ w \in Walk /\ Causal(g, s0, reach, w) /\ (w.queue = <<>> \/ Spare(w, 1 - n))
       /\ whole => Deepens(g, floor, s0, reach, w)
  <2>1. n \in 0 .. n
    BY <1>6
  <2>2. w \in Y[n]
    BY <1>4, <1>9, <2>1
  <2> QED BY <2>1, <2>2
<1>11. w.queue = <<>>
  <2>1. Cardinality(w.seen) \in Nat /\ Cardinality(w.seen) <= Cardinality(g.edges)
    <3>1. w.seen \in SUBSET Marks(g)
      BY <1>10 DEF Causal
    <3> QED BY <3>1, MarksFewer
  <2>2. Len(w.queue) \in Nat /\ (Len(w.queue) = 0 => w.queue = <<>>)
    BY <1>10, QueueIs
  <2> QED BY <1>5, <1>10, <2>1, <2>2 DEF Spare, n
<1>12. \A m \in w.nodes : m \in g.nodes /\ \E s \in reach[MaxDepth] : s[1] = m
  <2>1. \A i \in 0 .. MaxDepth : reach[i] \subseteq reach[MaxDepth]
    BY <1>1, ReachGrows
  <2> QED BY <1>10, <2>1 DEF Causal
<1>13. whole => \A s \in reach[MaxDepth] : s[1] \in g.nodes => s[1] \in w.nodes
  BY <1>1, <1>10, <1>11, EmptyKnows
<1>14. \A m \in w.nodes \ w.hubs : IsHub(m) => m = s0[1]
  BY <1>10 DEF Causal
<1> QED BY <1>1, <1>10, <1>11, <1>12, <1>13, <1>14 DEF w, whole
-----------------------------------------------------------------------------
(* The walk a detection is judged by ends by itself and finds nothing but   *)
(* what led to the actor: no later event, no sibling below a hub, nothing   *)
(* further than the depth allowed; whatever the events, in whatever order,  *)
(* full buckets and shared seconds included (graph.py:269-334).             *)
WalkFindsOnlyCauses ==
  drawn # None =>
    LET s0 == <<Actor(drawn), drawn.ts>>
        floor == drawn.ts - Horizon
        walk == Backward(graph, s0[1], s0[2], floor)
    IN  /\ walk.queue = <<>>
        /\ walk.nodes \subseteq {s[1] : s \in Causes(graph, floor, s0, MaxDepth)} \cap graph.nodes

(* What an edge is about is a node.                                         *)
LEMMA ActorStamp ==
  ASSUME CInv, drawn # None
  PROVE  <<Actor(drawn), drawn.ts>> \in Stamp
<1>1. drawn \in Edge
  BY GraphParts DEF CInv
<1> QED BY <1>1 DEF Edge, Actor, Stamp, Node

THEOREM WalksFindOnlyCauses == CSpec => []WalkFindsOnlyCauses
<1>1. CInv => WalkFindsOnlyCauses
  <2> SUFFICES ASSUME CInv, drawn # None PROVE WalkFindsOnlyCauses
    BY DEF WalkFindsOnlyCauses
  <2> DEFINE s0 == <<Actor(drawn), drawn.ts>>
             floor == drawn.ts - Horizon
  <2>1. s0 \in Stamp /\ graph \in Graph
    BY ActorStamp DEF CInv
  <2>2. s0[1] = Actor(drawn) /\ s0[2] = drawn.ts
    OBVIOUS
  <2> HIDE DEF s0, floor
  <2>3. LET walk == Backward(graph, s0[1], s0[2], floor)
        IN  /\ walk.queue = <<>>
            /\ walk.nodes \subseteq {s[1] : s \in Causes(graph, floor, s0, MaxDepth)} \cap graph.nodes
    BY <2>1, WalkedBack
  <2> QED BY <2>3 DEF WalkFindsOnlyCauses, s0, floor
<1> QED BY <1>1, CInvHolds, PTL

(* As long as no bucket is full and no second holds two times, the walk     *)
(* finds exactly what led to the actor, to the depth allowed: breadth first *)
(* it meets each cause by the shortest way, before the depth cuts it off.   *)
THEOREM WalkIsExactBelowTheCap ==
  CSpec /\ [](Roomy(graph) /\ TellsApart(graph)) => []WalkIsCausal
<1>1. CInit => Listed(graph)
  BY DEF CInit, GraphInit, Empty, Listed
<1>2. CInv /\ Listed(graph) /\ [CNext]_correlationVars /\ (Roomy(graph) /\ TellsApart(graph))'
        => Listed(graph)'
  <2> SUFFICES ASSUME CInv, Listed(graph), [CNext]_correlationVars, Roomy(graph)'
               PROVE  Listed(graph)'
    OBVIOUS
  <2>1. ASSUME NEW g, g = graph' PROVE Roomy(g) = Roomy(graph)' /\ Listed(g) = Listed(graph)'
    BY <2>1 DEF Roomy, Listed, Bucket
  <2> QED BY <2>1, ListedStays DEF Roomy, Listed, Bucket
<1>3. CInv /\ Listed(graph) /\ (Roomy(graph) /\ TellsApart(graph)) => WalkIsCausal
  <2> SUFFICES ASSUME CInv, Listed(graph), TellsApart(graph), drawn # None PROVE WalkIsCausal
    BY DEF WalkIsCausal
  <2> DEFINE s0 == <<Actor(drawn), drawn.ts>>
             floor == drawn.ts - Horizon
  <2>1. s0 \in Stamp /\ graph \in Graph
    BY ActorStamp DEF CInv
  <2> HIDE DEF s0, floor
  <2>2. Backward(graph, s0[1], s0[2], floor).nodes
          = {s[1] : s \in Causes(graph, floor, s0, MaxDepth)} \cap graph.nodes
    BY <2>1, WalkedBack
  <2> QED BY <2>2 DEF WalkIsCausal, s0, floor
<1> QED BY <1>1, <1>2, <1>3, CInvHolds, PTL DEF CSpec
-----------------------------------------------------------------------------
(* A loop whose turns are made by G, as long as it is in V, never leaves V. *)
Loops(f, n, start, G, V) ==
  /\ f = [i \in 0 .. n |-> f[i]] /\ f[0] = start
  /\ \A i \in 1 .. n : f[i - 1] \in V => f[i] = G[i][f[i - 1]]

LEMMA LoopStays ==
  ASSUME NEW n \in Nat, NEW V, NEW start \in V, NEW G, Stays(G, n, V),
         NEW f, Loops(f, n, start, G, V)
  PROVE  f \in [0 .. n -> V] /\ Steps(f, n, start, G)
<1> DEFINE Y == [i \in 0 .. n |-> V]
<1>0. /\ f = [i \in 0 .. n |-> f[i]] /\ f[0] = start
      /\ \A i \in 1 .. n : f[i - 1] \in V => f[i] = G[i][f[i - 1]]
  BY DEF Loops
<1>1. f[0] \in Y[0] /\ \A i \in 1 .. n : f[i - 1] \in Y[i - 1] => f[i] \in Y[i]
  <2>1. 0 \in 0 .. n /\ \A i \in 1 .. n : i \in 0 .. n /\ i - 1 \in 0 .. n
    OBVIOUS
  <2>2. \A i \in 1 .. n : \A v \in V : G[i][v] \in V
    BY DEF Stays
  <2> QED BY <1>0, <2>1, <2>2
<1>2. \A i \in 0 .. n : f[i] \in Y[i]
  <2> HIDE DEF Y
  <2> QED BY <1>1, StepsKeep
<1>3. \A i \in 0 .. n : f[i] \in V
  BY <1>2
<1>4. \A i \in 1 .. n : f[i] = G[i][f[i - 1]]
  <2>1. \A i \in 1 .. n : i - 1 \in 0 .. n
    OBVIOUS
  <2> QED BY <1>0, <1>3, <2>1
<1>5. f \in [0 .. n -> V]
  BY <1>0, <1>3
<1> QED BY <1>0, <1>4, <1>5 DEF Steps
-----------------------------------------------------------------------------
(* A walk forward, at some depth: what it reached, and what it is to open.  *)
Found == [queue : Seq(Stamp), reached : SUBSET Node]
Tells(P, S) ==
  {v \in Found : v.reached \subseteq P /\ \A k \in DOMAIN v.queue : v.queue[k] \in S}

LEMMA DownstreamIs ==
  ASSUME NEW e \in Edge, NEW n, Downstream(e, n) # None
  PROVE  Downstream(e, n) \in Node /\ n \in Node /\ e.ts \in Int
<1>1. e.src \in Node /\ e.dst \in Node /\ e.ts \in Int
  BY DEF Edge, Node
<1> QED BY <1>1 DEF Downstream

(* What follows a state is a state.                                         *)
LEMMA FollowingTypes ==
  ASSUME NEW g \in Graph, NEW s
  PROVE  Following(g, s) \in SUBSET Stamp
<1>1. \A e \in g.edges : e \in Edge
  BY GraphParts
<1>2. ASSUME NEW e \in g.edges, Downstream(e, s[1]) # None
      PROVE  <<Downstream(e, s[1]), e.ts>> \in Stamp
  BY <1>1, <1>2, DownstreamIs DEF Stamp
<1> QED BY <1>2 DEF Following

LEMMA FurtherOnTypes ==
  ASSUME NEW g \in Graph, NEW s0 \in Stamp, NEW S \in SUBSET Stamp
  PROVE  FurtherOn(g, s0, S) \in SUBSET Stamp
<1>1. \A s \in S : Following(g, s) \in SUBSET Stamp
  BY FollowingTypes
<1> QED BY <1>1 DEF FurtherOn

(* Only what is in the graph and no hub is gone on to.                      *)
Passes(g, p) == p[1] \in g.nodes /\ ~ IsHub(p[1])

(* All that s leads on to is in S, its processes in P.                      *)
LeadsInto(g, s, P, S) ==
  \A p \in Following(g, s) : Passes(g, p) => p \in S /\ (IsProcess(p[1]) => p[1] \in P)

(* One edge.                                                                *)
LEMMA EdgeReached ==
  ASSUME NEW g \in Graph, NEW s, NEW P \in SUBSET Node, NEW S \in SUBSET Stamp,
         NEW w \in Tells(P, S), LeadsInto(g, s, P, S),
         NEW e \in g.edges, Downstream(e, s[1]) # None, s[2] <= e.ts
  PROVE  ReachEdge(g, s[1], w, e) \in Tells(P, S)
<1> DEFINE next == Downstream(e, s[1])
           p == <<next, e.ts>>
           v == [reached |-> w.reached \cup (IF IsProcess(next) THEN {next} ELSE {}),
                 queue |-> Append(w.queue, p)]
<1>1. ReachEdge(g, s[1], w, e) =
        IF next \notin g.nodes \/ (IsProcess(next) /\ (next \in w.reached \/ IsHub(next)))
        THEN w ELSE v
  BY DEF ReachEdge
<1>2. p \in Following(g, s) /\ p[1] = next
  BY DEF Following
<1>3. IsHub(next) => IsProcess(next)
  BY DEF IsHub
<1> HIDE DEF next, p
<1>4. CASE next \in g.nodes /\ ~ (IsProcess(next) /\ (next \in w.reached \/ IsHub(next)))
  <2>1. Passes(g, p)
    BY <1>2, <1>3, <1>4 DEF Passes
  <2>2. p \in S /\ p \in Stamp /\ (IsProcess(next) => next \in P)
    BY <1>2, <2>1 DEF LeadsInto
  <2> DEFINE q == w.queue
  <2>3. q \in Seq(Stamp) /\ w.reached \subseteq P /\ \A k \in DOMAIN q : q[k] \in S
    BY DEF Tells, Found
  <2>4. v.queue = Append(q, p) /\ v.reached \subseteq P /\ v \in [queue : {Append(q, p)}, reached : SUBSET P]
    BY <2>2, <2>3
  <2> HIDE DEF q, v
  <2>5. Append(q, p) \in Seq(Stamp) /\ \A k \in DOMAIN Append(q, p) : Append(q, p)[k] \in S
    <3>1. /\ Len(q) \in Nat /\ DOMAIN q = 1 .. Len(q)
          /\ DOMAIN Append(q, p) = 1 .. Len(q) + 1
          /\ \A k \in 1 .. Len(q) + 1 : Append(q, p)[k] = IF k = Len(q) + 1 THEN p ELSE q[k]
      BY <2>2, <2>3
    <3>2. \A k \in 1 .. Len(q) + 1 : k = Len(q) + 1 \/ k \in 1 .. Len(q)
      BY <3>1
    <3> QED BY <2>2, <2>3, <3>1, <3>2, AppendProperties
  <2>6. v \in Tells(P, S)
    BY <2>4, <2>5 DEF Tells, Found
  <2> QED BY <1>1, <1>4, <2>6
<1> QED BY <1>1, <1>4

(* The edges of a turn are live edges that leave its node in time.          *)
LEMMA OutOfIs ==
  ASSUME NEW g \in Graph, NEW n, NEW bound
  PROVE  /\ OutOf(g, n, bound) \in Seq(Edge)
         /\ \A k \in DOMAIN OutOf(g, n, bound) :
              LET e == OutOf(g, n, bound)[k]
              IN  e \in g.edges /\ Downstream(e, n) # None /\ bound <= e.ts
<1> DEFINE those == {e \in g.edges : Downstream(e, n) # None /\ bound <= e.ts}
           s == Bucket(g, n)
<1>1. s \in Seq(Edge)
  BY GraphParts
<1>2. OutOf(g, n, bound) = Among(s, those)
  BY DEF OutOf
<1>3. \A e : e \in those <=> e \in g.edges /\ Downstream(e, n) # None /\ bound <= e.ts
  OBVIOUS
<1> HIDE DEF those, s
<1>4. /\ Among(s, those) \in Seq(Edge)
      /\ \A k \in DOMAIN Among(s, those) : Among(s, those)[k] \in those
  BY <1>1, AmongHolds
<1> QED BY <1>2, <1>3, <1>4

(* One turn.                                                                *)
LEMMA NodeReached ==
  ASSUME NEW g \in Graph, NEW s, NEW P \in SUBSET Node, NEW S \in SUBSET Stamp,
         NEW w \in Tells(P, S), LeadsInto(g, s, P, S)
  PROVE  ReachNode(g, w, s) \in Tells(P, S)
<1> DEFINE n == s[1]
           open == OutOf(g, s[1], s[2])
           m == Len(open)
           V == Tells(P, S)
           G == [i \in 1 .. m |-> [v \in V |-> ReachEdge(g, n, v, open[i])]]
           Is(f) == f = [i \in 0 .. m |-> IF i = 0 THEN w ELSE ReachEdge(g, n, f[i - 1], open[i])]
           walk == CHOOSE f : Is(f)
<1>1. /\ open \in Seq(Edge)
      /\ \A k \in DOMAIN open : /\ open[k] \in g.edges /\ Downstream(open[k], n) # None
                                /\ s[2] <= open[k].ts
  BY OutOfIs
<1>2. m \in Nat /\ DOMAIN open = 1 .. m
  BY <1>1
<1>3. ReachNode(g, w, s) = walk[m]
  BY DEF ReachNode
<1> HIDE DEF open, m
<1>4. \A i \in 1 .. m : \A v \in V : ReachEdge(g, n, v, open[i]) \in V
  BY <1>1, <1>2, EdgeReached
<1> HIDE DEF V, n
<1>5. Stays(G, m, V) /\ \A i \in 1 .. m : \A v \in V : G[i][v] = ReachEdge(g, n, v, open[i])
  BY <1>4 DEF Stays
<1>6. w \in V
  BY DEF V
<1> HIDE DEF G
<1>7. PICK f \in [0 .. m -> V] : Steps(f, m, w, G)
  BY <1>2, <1>5, <1>6, StepsTaken
<1>8. \A i \in 1 .. m : f[i - 1] \in V /\ f[i] = ReachEdge(g, n, f[i - 1], open[i])
  BY <1>2, <1>5, <1>7 DEF Steps
<1>9. Is(f)
  <2>1. (\A i \in 0 .. m : i # 0 => i \in 1 .. m) /\ f[0] = w
    BY <1>2, <1>7 DEF Steps
  <2> QED BY <1>7, <1>8, <2>1
<1>10. Is(walk)
  BY <1>9
<1> HIDE DEF walk
<1>11. \A i \in 0 .. m : walk[i] = IF i = 0 THEN w ELSE ReachEdge(g, n, walk[i - 1], open[i])
  BY <1>10, Zenon
<1>12. walk[0] = w /\ \A i \in 1 .. m : walk[i] = ReachEdge(g, n, walk[i - 1], open[i])
  <2>1. 0 \in 0 .. m /\ \A i \in 1 .. m : i \in 0 .. m /\ i # 0
    BY <1>2
  <2> QED BY <1>11, <2>1, Zenon
<1>13. walk = [i \in 0 .. m |-> walk[i]]
  BY <1>10
<1>14. walk \in [0 .. m -> V]
  <2>1. Loops(walk, m, w, G, V)
    BY <1>5, <1>12, <1>13 DEF Loops
  <2> QED BY <1>2, <1>5, <1>6, <2>1, LoopStays
<1>15. m \in 0 .. m
  BY <1>2
<1> QED BY <1>3, <1>14, <1>15 DEF V

(* All the turns of one depth, and the next depth's.                        *)
LEMMA DepthReached ==
  ASSUME NEW g \in Graph, NEW P \in SUBSET Node, NEW S \in SUBSET Stamp, NEW T \in SUBSET Stamp,
         NEW w \in Tells(P, S), \A s \in S : LeadsInto(g, s, P, T)
  PROVE  ReachDepth(g, w) \in Tells(P, T)
<1> DEFINE q == w.queue
           m == Len(q)
           V == Tells(P, T)
           start == [w EXCEPT !.queue = <<>>]
           G == [i \in 1 .. m |-> [v \in V |-> ReachNode(g, v, q[i])]]
           Is(f) == f = [i \in 0 .. m |-> IF i = 0 THEN start ELSE ReachNode(g, f[i - 1], q[i])]
           walk == CHOOSE f : Is(f)
<1>1. q \in Seq(Stamp) /\ m \in Nat /\ DOMAIN q = 1 .. m /\ \A k \in 1 .. m : q[k] \in S
  <2>1. q \in Seq(Stamp) /\ \A k \in DOMAIN q : q[k] \in S
    BY DEF Tells, Found
  <2> QED BY <2>1
<1>2. start \in V
  <2>1. start.queue = <<>> /\ start.reached = w.reached /\ start \in Found
    <3>1. w \in Found
      BY DEF Tells
    <3>2. <<>> \in Seq(Stamp)
      OBVIOUS
    <3> QED BY <3>1, <3>2 DEF Found
  <2>2. DOMAIN <<>> = {}
    OBVIOUS
  <2>3. w.reached \subseteq P
    BY DEF Tells
  <2> HIDE DEF start
  <2> QED BY <2>1, <2>2, <2>3 DEF Tells
<1>3. ReachDepth(g, w) = walk[m]
  BY DEF ReachDepth
<1> HIDE DEF q, m, start
<1>4. \A i \in 1 .. m : \A v \in V : ReachNode(g, v, q[i]) \in V
  BY <1>1, NodeReached
<1> HIDE DEF V
<1>5. Stays(G, m, V) /\ \A i \in 1 .. m : \A v \in V : G[i][v] = ReachNode(g, v, q[i])
  BY <1>4 DEF Stays
<1> HIDE DEF G
<1>6. PICK f \in [0 .. m -> V] : Steps(f, m, start, G)
  BY <1>1, <1>2, <1>5, StepsTaken
<1>7. \A i \in 1 .. m : f[i - 1] \in V /\ f[i] = ReachNode(g, f[i - 1], q[i])
  BY <1>1, <1>5, <1>6 DEF Steps
<1>8. Is(f)
  <2>1. (\A i \in 0 .. m : i # 0 => i \in 1 .. m) /\ f[0] = start
    BY <1>1, <1>6 DEF Steps
  <2> QED BY <1>6, <1>7, <2>1
<1>9. Is(walk)
  BY <1>8
<1> HIDE DEF walk
<1>10. \A i \in 0 .. m : walk[i] = IF i = 0 THEN start ELSE ReachNode(g, walk[i - 1], q[i])
  BY <1>9, Zenon
<1>11. walk[0] = start /\ \A i \in 1 .. m : walk[i] = ReachNode(g, walk[i - 1], q[i])
  <2>1. 0 \in 0 .. m /\ \A i \in 1 .. m : i \in 0 .. m /\ i # 0
    BY <1>1
  <2> QED BY <1>10, <2>1, Zenon
<1>12. walk = [i \in 0 .. m |-> walk[i]]
  BY <1>9
<1>13. walk \in [0 .. m -> V]
  <2>1. Loops(walk, m, start, G, V)
    BY <1>5, <1>11, <1>12 DEF Loops
  <2> QED BY <1>1, <1>2, <1>5, <2>1, LoopStays
<1>14. m \in 0 .. m
  BY <1>1
<1> QED BY <1>3, <1>13, <1>14 DEF V
-----------------------------------------------------------------------------
(* reach is what s0 leads on to, over as many edges at most as its index.   *)
LedOf(reach, g, s0) ==
  /\ reach \in [0 .. MaxDepth -> SUBSET Stamp] /\ reach[0] = {s0}
  /\ \A i \in 1 .. MaxDepth : reach[i] = FurtherOn(g, s0, reach[i - 1])

(* The effects are what is reached last.                                    *)
LEMMA EffectsAre ==
  ASSUME NEW g \in Graph, NEW s0 \in Stamp
  PROVE  \E reach : LedOf(reach, g, s0) /\ Effects(g, s0, MaxDepth) = reach[MaxDepth]
<1> DEFINE n == MaxDepth
           V == SUBSET Stamp
           G == [i \in 1 .. n |-> [S \in V |-> FurtherOn(g, s0, S)]]
           Is(f) == f = [i \in 0 .. n |-> IF i = 0 THEN {s0} ELSE FurtherOn(g, s0, f[i - 1])]
           reach == CHOOSE f : Is(f)
<1>1. n \in Nat
  BY GraphAssumption
<1>2. (\A S \in V : FurtherOn(g, s0, S) \in V) /\ {s0} \in V
  BY FurtherOnTypes
<1>3. Effects(g, s0, MaxDepth) = reach[n]
  BY DEF Effects
<1> HIDE DEF n, V
<1>4. Stays(G, n, V) /\ \A i \in 1 .. n : \A S \in V : G[i][S] = FurtherOn(g, s0, S)
  BY <1>2 DEF Stays
<1> HIDE DEF G
<1>5. PICK f \in [0 .. n -> V] : Steps(f, n, {s0}, G)
  BY <1>1, <1>2, <1>4, StepsTaken
<1>6. \A i \in 1 .. n : f[i - 1] \in V /\ f[i] = FurtherOn(g, s0, f[i - 1])
  BY <1>1, <1>4, <1>5 DEF Steps
<1>7. Is(f)
  <2>1. (\A i \in 0 .. n : i # 0 => i \in 1 .. n) /\ f[0] = {s0}
    BY <1>1, <1>5 DEF Steps
  <2> QED BY <1>5, <1>6, <2>1
<1>8. Is(reach)
  BY <1>7
<1> HIDE DEF reach
<1>9. \A i \in 0 .. n : reach[i] = IF i = 0 THEN {s0} ELSE FurtherOn(g, s0, reach[i - 1])
  BY <1>8, Zenon
<1>10. reach[0] = {s0} /\ \A i \in 1 .. n : reach[i] = FurtherOn(g, s0, reach[i - 1])
  <2>1. 0 \in 0 .. n /\ \A i \in 1 .. n : i \in 0 .. n /\ i # 0
    BY <1>1
  <2> QED BY <1>9, <2>1, Zenon
<1>11. reach = [i \in 0 .. n |-> reach[i]]
  BY <1>8
<1>12. reach \in [0 .. n -> V]
  <2>1. Loops(reach, n, {s0}, G, V)
    BY <1>4, <1>10, <1>11 DEF Loops
  <2> QED BY <1>1, <1>2, <1>4, <2>1, LoopStays
<1> QED BY <1>3, <1>10, <1>12 DEF LedOf, n, V

(* The first is among them, at every depth.                                 *)
LEMMA EffectsGrow ==
  ASSUME NEW g, NEW s0, NEW reach, LedOf(reach, g, s0), NEW i \in 1 .. MaxDepth
  PROVE  reach[i - 1] \subseteq reach[i]
  BY DEF LedOf, FurtherOn

(* A process in the graph that is no hub, and that s0 led to.               *)
Affected(g, s0) ==
  {s0[1]} \cup {n \in g.nodes : /\ IsProcess(n) /\ ~ IsHub(n)
                               /\ \E s \in Effects(g, s0, MaxDepth) : s[1] = n}

(* The whole walk forward: it finds nothing but effects, and no hub.        *)
LEMMA WalkedForward ==
  ASSUME NEW g \in Graph, NEW s0 \in Stamp
  PROVE  Forward(g, s0[1], s0[2]) \subseteq Affected(g, s0)
<1> DEFINE n == MaxDepth
           V == Found
           P == Affected(g, s0)
           start == [queue |-> <<<<s0[1], s0[2]>>>>, reached |-> {s0[1]}]
           G == [i \in 1 .. n |-> [v \in V |-> ReachDepth(g, v)]]
           Is(f) == f = [i \in 0 .. n |-> IF i = 0 THEN start ELSE ReachDepth(g, f[i - 1])]
           walk == CHOOSE f : Is(f)
<1>1. PICK reach : LedOf(reach, g, s0) /\ Effects(g, s0, MaxDepth) = reach[MaxDepth]
  BY EffectsAre
<1> DEFINE S(i) == {s \in reach[i] : Opens(g, s0, s)}
<1>2. n \in Nat /\ g.nodes \in SUBSET Node
  BY GraphAssumption, GraphParts
<1>3. /\ s0[1] \in Node /\ s0[2] \in Int /\ <<s0[1], s0[2]>> = s0
  BY DEF Stamp
<1>4. P \in SUBSET Node
  BY <1>2, <1>3 DEF Affected
<1>5. start.queue = <<s0>> /\ start.reached = {s0[1]} /\ start \in Found
  BY <1>3 DEF Found
<1>6. start \in Tells(P, S(0))
  <2>1. s0 \in S(0)
    BY <1>1 DEF LedOf, Opens
  <2>2. s0[1] \in P
    BY DEF Affected
  <2>3. DOMAIN <<s0>> = {1} /\ <<s0>>[1] = s0
    OBVIOUS
  <2> HIDE DEF P, S, start
  <2> QED BY <1>5, <2>1, <2>2, <2>3 DEF Tells
<1>7. Forward(g, s0[1], s0[2]) = walk[n].reached
  BY DEF Forward
<1>8. V = Tells(Node, Stamp)
  <2>1. ASSUME NEW v \in Found
        PROVE  v.reached \subseteq Node /\ \A k \in DOMAIN v.queue : v.queue[k] \in Stamp
    <3>1. v.queue \in Seq(Stamp) /\ v.reached \subseteq Node
      BY DEF Found
    <3> QED BY <3>1
  <2> QED BY <2>1 DEF Tells
<1> HIDE DEF start, n
<1>9. \A v \in V : ReachDepth(g, v) \in V
  <2>1. \A s \in Stamp : LeadsInto(g, s, Node, Stamp)
    <3>1. \A s \in Stamp : Following(g, s) \in SUBSET Stamp
      BY FollowingTypes
    <3>2. \A p \in Stamp : p[1] \in Node
      BY DEF Stamp
    <3> QED BY <3>1, <3>2 DEF LeadsInto
  <2> HIDE DEF V
  <2>2. Node \in SUBSET Node /\ Stamp \in SUBSET Stamp
    OBVIOUS
  <2> QED BY <1>8, <2>1, <2>2, DepthReached
<1>10. \A i \in 1 .. n : \A v \in Tells(P, S(i - 1)) : ReachDepth(g, v) \in Tells(P, S(i))
  <2> SUFFICES ASSUME NEW i \in 1 .. n, NEW v \in Tells(P, S(i - 1))
               PROVE  ReachDepth(g, v) \in Tells(P, S(i))
    OBVIOUS
  <2>1. i - 1 \in 0 .. n /\ i \in 0 .. n
    BY <1>2
  <2>2. reach[i - 1] \in SUBSET Stamp /\ reach[i] \in SUBSET Stamp
    BY <1>1, <2>1 DEF LedOf, n
  <2>3. ASSUME NEW s \in S(i - 1), NEW p \in Following(g, s), Passes(g, p)
        PROVE  p \in S(i) /\ (IsProcess(p[1]) => p[1] \in P)
    <3>1. p \in reach[i]
      BY <1>1, <2>3 DEF LedOf, FurtherOn, n
    <3>2. Opens(g, s0, p)
      BY <2>3 DEF Passes, Opens
    <3>3. p \in Effects(g, s0, MaxDepth)
      <4> DEFINE Y == [k \in 0 .. n |-> {R \in SUBSET Stamp : k >= i => p \in R}]
      <4>1. \A k \in 0 .. n : reach[k] \in SUBSET Stamp
        BY <1>1 DEF LedOf, n
      <4>2. reach[0] \in Y[0]
        BY <1>2, <2>1, <4>1
      <4>3. ASSUME NEW k \in 1 .. n, reach[k - 1] \in Y[k - 1] PROVE reach[k] \in Y[k]
        <5>1. k \in 0 .. n /\ k - 1 \in 0 .. n /\ (k >= i => k = i \/ k - 1 >= i)
          BY <1>2
        <5>2. reach[k - 1] \subseteq reach[k]
          BY <1>1, <4>3, EffectsGrow DEF n
        <5>3. k - 1 >= i => p \in reach[k - 1]
          BY <4>3, <5>1
        <5> QED BY <3>1, <4>1, <5>1, <5>2, <5>3
      <4>4. \A k \in 0 .. n : reach[k] \in Y[k]
        <5> HIDE DEF Y
        <5> QED BY <1>2, <4>2, <4>3, StepsKeep
      <4>5. n \in 0 .. n /\ n >= i
        BY <1>2
      <4>6. p \in reach[n]
        BY <4>4, <4>5
      <4> QED BY <1>1, <4>6 DEF n
    <3>4. IsProcess(p[1]) => p[1] \in P
      BY <2>3, <3>3 DEF Passes, Affected
    <3> QED BY <3>1, <3>2, <3>4
  <2>4. \A s \in S(i - 1) : LeadsInto(g, s, P, S(i))
    BY <2>3 DEF LeadsInto
  <2>5. S(i - 1) \in SUBSET Stamp /\ S(i) \in SUBSET Stamp
    BY <2>2
  <2> HIDE DEF S, P
  <2> QED BY <1>4, <2>4, <2>5, DepthReached
<1>11. start \in V
  BY <1>5
<1> HIDE DEF V, P
<1>12. Stays(G, n, V) /\ \A i \in 1 .. n : \A v \in V : G[i][v] = ReachDepth(g, v)
  BY <1>9 DEF Stays
<1> HIDE DEF G
<1>13. PICK f \in [0 .. n -> V] : Steps(f, n, start, G)
  BY <1>2, <1>11, <1>12, StepsTaken
<1>14. \A i \in 1 .. n : f[i - 1] \in V /\ f[i] = ReachDepth(g, f[i - 1])
  BY <1>2, <1>12, <1>13 DEF Steps
<1>15. Is(f)
  <2>1. (\A i \in 0 .. n : i # 0 => i \in 1 .. n) /\ f[0] = start
    BY <1>2, <1>13 DEF Steps
  <2> QED BY <1>13, <1>14, <2>1
<1>16. Is(walk)
  BY <1>15
<1> HIDE DEF walk
<1>17. \A i \in 0 .. n : walk[i] = IF i = 0 THEN start ELSE ReachDepth(g, walk[i - 1])
  BY <1>16, Zenon
<1>18. walk[0] = start /\ \A i \in 1 .. n : walk[i] = ReachDepth(g, walk[i - 1])
  <2>1. 0 \in 0 .. n /\ \A i \in 1 .. n : i \in 0 .. n /\ i # 0
    BY <1>2
  <2> QED BY <1>17, <2>1, Zenon
<1> DEFINE Y == [i \in 0 .. n |-> Tells(P, S(i))]
<1>19. walk[0] \in Y[0]
  BY <1>2, <1>6, <1>18
<1>20. ASSUME NEW i \in 1 .. n, walk[i - 1] \in Y[i - 1] PROVE walk[i] \in Y[i]
  <2>1. i - 1 \in 0 .. n /\ i \in 0 .. n
    BY <1>2
  <2> HIDE DEF S
  <2>2. walk[i - 1] \in Tells(P, S(i - 1))
    BY <1>20, <2>1
  <2>3. walk[i] \in Tells(P, S(i))
    BY <1>10, <1>18, <2>2
  <2> QED BY <2>1, <2>3
<1>21. \A i \in 0 .. n : walk[i] \in Y[i]
  <2> HIDE DEF Y
  <2> QED BY <1>2, <1>19, <1>20, StepsKeep
<1>22. walk[n] \in Tells(P, S(n))
  <2>1. n \in 0 .. n
    BY <1>2
  <2> HIDE DEF S
  <2> QED BY <1>21, <2>1
<1> QED BY <1>7, <1>22 DEF Tells, P
-----------------------------------------------------------------------------
(* A line of ancestors of n: each is known, the parent of the one before,   *)
(* and none comes twice.                                                    *)
Line(n, c) ==
  /\ c \in Seq(known)
  /\ \A k \in DOMAIN c :
       /\ c[k] = ParentOf(IF k = 1 THEN n ELSE c[k - 1]) /\ c[k] # n
       /\ \A j \in DOMAIN c : c[j] = c[k] => j = k

(* One step up.                                                             *)
Up(n, c) ==
  LET parent == ParentOf(IF c = <<>> THEN n ELSE LastOf(c))
  IN  IF parent \notin known \ ({n} \cup Range(c)) THEN c ELSE Append(c, parent)

LEMMA UpIsLine ==
  ASSUME NEW n, NEW c, Line(n, c)
  PROVE  Line(n, Up(n, c))
<1> DEFINE parent == ParentOf(IF c = <<>> THEN n ELSE LastOf(c))
           d == Append(c, parent)
<1>1. Up(n, c) = IF parent \notin known \ ({n} \cup Range(c)) THEN c ELSE d
  BY DEF Up
<1>2. /\ c \in Seq(known) /\ Len(c) \in Nat /\ DOMAIN c = 1 .. Len(c)
      /\ (c = <<>> <=> Len(c) = 0)
      /\ \A k \in DOMAIN c : /\ c[k] = ParentOf(IF k = 1 THEN n ELSE c[k - 1]) /\ c[k] # n
                             /\ \A j \in DOMAIN c : c[j] = c[k] => j = k
  <2>1. c \in Seq(known)
    BY DEF Line
  <2>2. /\ Len(c) \in Nat /\ DOMAIN c = 1 .. Len(c) /\ (c = <<>> <=> Len(c) = 0)
    BY <2>1
  <2> QED BY <2>1, <2>2 DEF Line
<1>3. parent = ParentOf(IF Len(c) + 1 = 1 THEN n ELSE c[Len(c)])
  BY <1>2 DEF LastOf
<1> HIDE DEF parent
<1>4. CASE parent \in known \ ({n} \cup Range(c))
  <2>1. parent \in known /\ parent # n /\ \A k \in DOMAIN c : c[k] # parent
    BY <1>4 DEF Range
  <2>2. /\ d \in Seq(known) /\ DOMAIN d = 1 .. Len(c) + 1
        /\ \A k \in 1 .. Len(c) + 1 : d[k] = IF k = Len(c) + 1 THEN parent ELSE c[k]
    BY <1>2, <2>1
  <2> HIDE DEF d
  <2>3. ASSUME NEW k \in DOMAIN d
        PROVE  /\ d[k] = ParentOf(IF k = 1 THEN n ELSE d[k - 1]) /\ d[k] # n
               /\ \A j \in DOMAIN d : d[j] = d[k] => j = k
    <3>1. CASE k = Len(c) + 1
      <4>1. d[k] = parent
        BY <2>2, <3>1
      <4>2. k # 1 => d[k - 1] = c[Len(c)]
        BY <1>2, <2>2, <3>1
      <4>3. d[k] = ParentOf(IF k = 1 THEN n ELSE d[k - 1])
        BY <1>3, <3>1, <4>1, <4>2
      <4>4. ASSUME NEW j \in DOMAIN d, d[j] = d[k] PROVE j = k
        <5>1. CASE j # k
          <6>1. j \in DOMAIN c /\ d[j] = c[j]
            BY <1>2, <2>2, <3>1, <5>1
          <6> QED BY <2>1, <4>1, <4>4, <6>1
        <5> QED BY <5>1
      <4> QED BY <2>1, <4>1, <4>3, <4>4
    <3>2. CASE k # Len(c) + 1
      <4>1. k \in DOMAIN c /\ d[k] = c[k] /\ (k # 1 => k - 1 \in DOMAIN c /\ d[k - 1] = c[k - 1])
        BY <1>2, <2>2, <3>2
      <4>2. d[k] = ParentOf(IF k = 1 THEN n ELSE d[k - 1])
        BY <1>2, <4>1
      <4>3. ASSUME NEW j \in DOMAIN d, d[j] = d[k] PROVE j = k
        <5>1. CASE j = Len(c) + 1
          <6>1. d[j] = parent
            BY <2>2, <5>1
          <6> QED BY <2>1, <4>1, <4>3, <6>1
        <5>2. CASE j # Len(c) + 1
          <6>1. j \in DOMAIN c /\ d[j] = c[j]
            BY <1>2, <2>2, <5>2
          <6> QED BY <1>2, <4>1, <4>3, <6>1
        <5> QED BY <5>1, <5>2
      <4> QED BY <1>2, <4>1, <4>2, <4>3
    <3> QED BY <3>1, <3>2
  <2>4. Line(n, d)
    BY <2>2, <2>3 DEF Line
  <2> QED BY <1>1, <1>4, <2>4
<1> QED BY <1>1, <1>4

(* ancestors finds a line.                                                  *)
LEMMA AncestorsAre == ASSUME NEW n PROVE Line(n, Ancestors(n))
<1> DEFINE V == {c \in Seq(known) : Line(n, c)}
           G == [i \in 1 .. 16 |-> [c \in V |-> Up(n, c)]]
           Is(f) == f = [i \in 0 .. 16 |->
                           IF i = 0 THEN <<>>
                           ELSE LET chain == f[i - 1]
                                    parent == ParentOf(IF chain = <<>> THEN n ELSE LastOf(chain))
                                IN  IF parent \notin known \ ({n} \cup Range(chain)) THEN chain
                                    ELSE Append(chain, parent)]
           up == CHOOSE f : Is(f)
<1>1. Ancestors(n) = up[16]
  BY DEF Ancestors
<1>2. \A c \in V : Up(n, c) \in V
  BY UpIsLine DEF Line
<1>3. <<>> \in V
  <2>1. <<>> \in Seq(known) /\ DOMAIN <<>> = {}
    OBVIOUS
  <2> QED BY <2>1 DEF Line
<1>4. \A f : Is(f) <=> f = [i \in 0 .. 16 |-> IF i = 0 THEN <<>> ELSE Up(n, f[i - 1])]
  BY DEF Up
<1> HIDE DEF V, Is
<1>5. Stays(G, 16, V) /\ \A i \in 1 .. 16 : \A c \in V : G[i][c] = Up(n, c)
  BY <1>2 DEF Stays
<1> HIDE DEF G
<1>6. PICK f \in [0 .. 16 -> V] : Steps(f, 16, <<>>, G)
  BY <1>3, <1>5, StepsTaken
<1>7. f[0] = <<>> /\ \A i \in 1 .. 16 : f[i - 1] \in V /\ f[i] = Up(n, f[i - 1])
  BY <1>5, <1>6 DEF Steps
<1>8. Is(f)
  <2>1. \A i \in 0 .. 16 : i # 0 => i \in 1 .. 16
    OBVIOUS
  <2> QED BY <1>4, <1>6, <1>7, <2>1
<1>9. Is(up)
  BY <1>8
<1> HIDE DEF up
<1>10. up = [i \in 0 .. 16 |-> IF i = 0 THEN <<>> ELSE Up(n, up[i - 1])]
  BY <1>4, <1>9
<1>11. \A i \in 0 .. 16 : up[i] = IF i = 0 THEN <<>> ELSE Up(n, up[i - 1])
  BY <1>10, Zenon
<1>12. up[0] = <<>> /\ \A i \in 1 .. 16 : up[i] = Up(n, up[i - 1])
  <2>1. 0 \in 0 .. 16 /\ \A i \in 1 .. 16 : i \in 0 .. 16 /\ i # 0
    OBVIOUS
  <2> QED BY <1>11, <2>1, Zenon
<1>13. up = [i \in 0 .. 16 |-> up[i]]
  BY <1>10
<1>14. up \in [0 .. 16 -> V]
  <2>1. Loops(up, 16, <<>>, G, V)
    BY <1>5, <1>12, <1>13 DEF Loops
  <2> QED BY <1>3, <1>5, <2>1, LoopStays
<1>15. up[16] \in V
  BY <1>14
<1> QED BY <1>1, <1>15 DEF V

(* A set of places has a last.                                              *)
LEMMA LastPlace ==
  ASSUME NEW n \in Nat, NEW S \in SUBSET (1 .. n), S # {}
  PROVE  Max(S) \in S /\ \A y \in S : y <= Max(S)
<1> DEFINE T == {n - x : x \in S}
<1>1. T \in SUBSET Nat /\ T # {}
  <2>1. \A x \in S : n - x \in Nat
    OBVIOUS
  <2> QED BY <2>1
<1>2. PICK t \in T : \A u \in T : t <= u
  <2> HIDE DEF T
  <2> QED BY <1>1, Least
<1>3. PICK x \in S : t = n - x
  BY <1>2
<1>4. \A y \in S : x >= y
  <2> SUFFICES ASSUME NEW y \in S PROVE x >= y
    OBVIOUS
  <2>1. n - y \in T
    OBVIOUS
  <2>2. n - x <= n - y
    BY <1>2, <1>3, <2>1
  <2> QED BY <2>2
<1>5. Max(S) \in S /\ \A y \in S : Max(S) >= y
  BY <1>4 DEF Max
<1> QED BY <1>5

(* The entry point of a tree is its process or an ancestor of it, with no   *)
(* hub on the way up to it.                                                 *)
LEMMA TreeRootIs ==
  ASSUME NEW n
  PROVE  \/ TreeRoot(n) = n
         \/ \E i \in DOMAIN Ancestors(n) : /\ TreeRoot(n) = Ancestors(n)[i]
                                           /\ \A j \in 1 .. i : ~ IsHub(Ancestors(n)[j])
<1> DEFINE up == Ancestors(n)
           below == {i \in DOMAIN up : \A j \in 1 .. i : ~ IsHub(up[j])}
<1>1. TreeRoot(n) = IF below = {} THEN n ELSE up[Max(below)]
  BY DEF TreeRoot
<1>2. up \in Seq(known)
  BY AncestorsAre DEF Line
<1> HIDE DEF up
<1>3. Len(up) \in Nat /\ DOMAIN up = 1 .. Len(up)
  BY <1>2
<1>4. CASE below # {}
  <2>1. below \in SUBSET (1 .. Len(up))
    BY <1>3
  <2>2. Max(below) \in below
    <3> HIDE DEF below
    <3> QED BY <1>3, <1>4, <2>1, LastPlace
  <2> QED BY <1>1, <1>4, <2>2 DEF up
<1> QED BY <1>1, <1>4
-----------------------------------------------------------------------------
(* Where the tree of n may be entered: at n, or at an ancestor with no hub  *)
(* on the way up to it.                                                     *)
EntryPoints(n) ==
  {n} \cup {Ancestors(n)[i] : i \in {i \in DOMAIN Ancestors(n) :
                                      \A j \in 1 .. i : ~ IsHub(Ancestors(n)[j])}}

(* What a detection on an edge may take into an incident: its actor, what   *)
(* led to it since the horizon, and what since then followed from an entry  *)
(* of its tree.                                                             *)
Related(e, n) ==
  \/ n = Actor(e)
  \/ \E s \in Causes(graph, e.ts - Horizon, <<Actor(e), e.ts>>, MaxDepth) : s[1] = n
  \/ \E entry \in EntryPoints(Actor(e)) : n \in Affected(graph, <<entry, e.ts - Horizon>>)

LEMMA ScopeIsRelated ==
  ASSUME CInv, drawn # None, NEW n \in ScopeOf(drawn)
  PROVE  Related(drawn, n) /\ (IsHub(n) => n = Actor(drawn))
<1> DEFINE a == Actor(drawn)
           s0 == <<a, drawn.ts>>
           floor == drawn.ts - Horizon
           walk == Backward(graph, a, drawn.ts, floor)
           entry == TreeRoot(a)
           led == IF a \in known /\ ~ IsHub(entry) THEN Forward(graph, entry, floor) ELSE {}
<1>1. s0 \in Stamp /\ s0[1] = a /\ s0[2] = drawn.ts /\ graph \in Graph
  BY ActorStamp DEF CInv
<1>2. known \subseteq Node /\ floor \in Int
  <2>1. known \subseteq Node
    BY ProcessesAreNodes DEF CInv, IInv, TypeOK
  <2>2. drawn.ts \in Int /\ Horizon \in Nat
    BY <1>1, TrackerAssumption DEF Stamp
  <2> QED BY <2>1, <2>2
<1>3. n = a \/ n \in walk.nodes \ walk.hubs \/ n \in led
  BY DEF ScopeOf
<1>4. CASE n \in walk.nodes \ walk.hubs
  <2> HIDE DEF s0, floor
  <2>1. LET w == Backward(graph, s0[1], s0[2], floor)
        IN  /\ w.nodes \subseteq {s[1] : s \in Causes(graph, floor, s0, MaxDepth)} \cap graph.nodes
            /\ \A m \in w.nodes \ w.hubs : IsHub(m) => m = s0[1]
    BY <1>1, WalkedBack
  <2>2. (\E s \in Causes(graph, floor, s0, MaxDepth) : s[1] = n) /\ (IsHub(n) => n = a)
    BY <1>1, <1>4, <2>1
  <2> QED BY <2>2 DEF Related, s0, floor
<1>5. CASE n \in led
  <2>1. a \in known /\ ~ IsHub(entry) /\ n \in Forward(graph, entry, floor)
    BY <1>5
  <2>2. entry \in EntryPoints(a) /\ entry \in Node
    <3>1. Ancestors(a) \in Seq(known)
      BY AncestorsAre DEF Line
    <3>2. \A i \in DOMAIN Ancestors(a) : Ancestors(a)[i] \in Node
      BY <1>2, <3>1
    <3>3. a \in Node
      BY <1>1 DEF Stamp
    <3> HIDE DEF a, entry
    <3>4. \/ entry = a
          \/ \E i \in DOMAIN Ancestors(a) : /\ entry = Ancestors(a)[i]
                                            /\ \A j \in 1 .. i : ~ IsHub(Ancestors(a)[j])
      BY TreeRootIs DEF entry
    <3> QED BY <3>2, <3>3, <3>4 DEF EntryPoints
  <2> DEFINE e0 == <<entry, floor>>
  <2>3. e0 \in Stamp /\ e0[1] = entry /\ e0[2] = floor
    BY <1>2, <2>2 DEF Stamp
  <2> HIDE DEF e0, entry, floor
  <2>4. n \in Affected(graph, e0)
    BY <1>1, <2>1, <2>3, WalkedForward
  <2>5. ~ IsHub(n)
    BY <2>1, <2>3, <2>4 DEF Affected
  <2> QED BY <2>2, <2>4, <2>5 DEF Related, e0, floor
<1> QED BY <1>3, <1>4, <1>5 DEF Related

(* What an on_tag takes in is what it found related.                        *)
LEMMA OnTagTakesIn ==
  ASSUME TrackerInv, NEW tag \in Tag, NEW scope \in SUBSET Node, NEW context \in Nat,
         Actor(tag.edge) \in scope, OnTag(tag, scope, context)
  PROVE  DOMAIN byNode' \ DOMAIN byNode \subseteq scope
<1>1. ASSUME NEW id, NEW inc, Replaced(id, inc, scope, context),
             inc.scope = scope \cup UNION {incidents[i].scope : i \in Touching(scope)}
      PROVE  DOMAIN byNode' \ DOMAIN byNode \subseteq scope
  <2>1. DOMAIN byNode' = DOMAIN byNode \cup inc.scope
    BY <1>1 DEF Replaced
  <2>2. \A i \in Touching(scope) : incidents[i].scope \subseteq DOMAIN byNode
    BY DEF Touching, TrackerInv, ByNodeExact
  <2> QED BY <1>1, <2>1, <2>2
<1>2. CASE \E keep \in Oldest(scope) : Join(keep, tag, scope, context)
  <2>1. PICK keep \in Oldest(scope) : Join(keep, tag, scope, context)
    BY <1>2
  <2> DEFINE inc == Merged(keep, scope, tag.edge.ts)
  <2>2. inc.scope = scope \cup UNION {incidents[i].scope : i \in Touching(scope)}
    BY JoinReplaces
  <2>3. Replaced(keep, inc, scope, context)
    BY <2>1 DEF Join
  <2> HIDE DEF inc
  <2> QED BY <1>1, <2>2, <2>3
<1>3. CASE Open(tag, scope, context)
  <2> DEFINE id == <<tag.edge, tag.rule>>
             inc == Opened(scope, tag.edge.ts)
  <2>1. Touching(scope) = {} /\ Replaced(id, inc, scope, context)
    BY <1>3 DEF Open
  <2>2. inc.scope = scope \cup UNION {incidents[i].scope : i \in Touching(scope)}
    BY <2>1, OpenReplaces
  <2> HIDE DEF inc, id
  <2> QED BY <1>1, <2>1, <2>2
<1>4. CASE Ignore(tag, scope)
  BY <1>4 DEF Ignore, trackerVars
<1> QED BY <1>2, <1>3, <1>4 DEF OnTag

(* Whatever the stream, a process enters the incidents only when it is      *)
(* related to the detection being correlated, and a hub, which every        *)
(* process descends from, only when the detection is its own: one attack    *)
(* never takes in another through a shared parent (incident.py:174-200,     *)
(* boundary.py:19-49).                                                      *)
TakesInOnlyRelated ==
  \A n \in DOMAIN byNode' \ DOMAIN byNode :
    drawn # None /\ Related(drawn, n) /\ (IsHub(n) => n = Actor(drawn))

THEOREM IncidentsTakeInOnlyRelated == CSpec => [][TakesInOnlyRelated]_correlationVars
<1>1. CInv /\ [CNext]_correlationVars => [TakesInOnlyRelated]_correlationVars
  <2> SUFFICES ASSUME CInv, CNext, NEW n \in DOMAIN byNode' \ DOMAIN byNode
               PROVE  drawn # None /\ Related(drawn, n) /\ (IsHub(n) => n = Actor(drawn))
    BY DEF TakesInOnlyRelated
  <2>1. CASE Correlate
    <3> DEFINE tag == TagOf(drawn, Head(todo))
               scope == ScopeOf(drawn)
    <3>1. drawn # None
      BY <2>1 DEF Correlate, CInv
    <3>2. tag \in Tag /\ scope \in SUBSET Node /\ Actor(tag.edge) \in scope
      BY <2>1, ScopeTypes
    <3>3. PICK context \in Nat : OnTag(tag, scope, context)
      BY <2>1, CorrelateIsOnTag
    <3> HIDE DEF tag, scope
    <3>4. n \in scope
      BY <3>2, <3>3, OnTagTakesIn DEF CInv
    <3> QED BY <3>1, <3>4, ScopeIsRelated DEF scope
  <2>2. ASSUME NEW t \in Times, ProcessEvent(t) PROVE FALSE
    <3>1. byNode' = byNode
      BY <2>2 DEF ProcessEvent, Attach
    <3> QED BY <3>1
  <2>3. ASSUME NEW t \in Times, PruneAll(t) PROVE FALSE
    <3>1. DOMAIN byNode' \subseteq DOMAIN byNode
      BY <2>3 DEF PruneAll, PruneIncidents
    <3> QED BY <3>1
  <2> QED BY <2>1, <2>2, <2>3 DEF CNext
<1> QED BY <1>1, CInvHolds, PTL DEF CSpec
=============================================================================
