--------------------------- MODULE StorylineIndex ---------------------------
(***************************************************************************)
(* StorylineRiskIndex of provenance/storyline.py: the risk events of one   *)
(* process tree, the score they add up to, and the one breach. What is     *)
(* added up is five times the code's, so that its 0.2 is a whole number;   *)
(* Threshold, MlCap, ChainBonus and ChainCap are too. A tactic is its phase *)
(* in the kill chain, 0 for none.                                          *)
(***************************************************************************)
EXTENDS Integers, Sequences, SequencesExt

CONSTANTS
  RiskKinds,        (* the risk events that come: records of source, soft,  *)
                    (* object, score and tactic                             *)
  Threshold, MlCap, ChainBonus, ChainCap, MinTactics, MinRuleSources,
  StoryWindow,
  MaxStoryTime,     (* bound: risk events are in 0 .. MaxStoryTime          *)
  MaxRiskEvents     (* bound: risk events recorded                          *)

ASSUME StoryAssumption ==
  /\ \A kind \in RiskKinds : kind.score \in Int /\ kind.tactic \in Nat /\ kind.soft \in BOOLEAN
  /\ Threshold \in Nat \ {0} /\ MinTactics \in Nat \ {0}
  /\ MlCap \in Nat /\ ChainBonus \in Nat /\ ChainCap \in Nat /\ MinRuleSources \in Nat

VARIABLES
  story,        (* its events, each with its place in the order first held   *)
  last_seen,    (* the newest time recorded, -1 for a storyline not open    *)
  alerted,
  added,        (* how many risk events were recorded                       *)
  latest,       (* ghost: the last one, or <<>>                             *)
  breaches      (* ghost: the events of each breach since the last prune    *)

storyVars == <<story, last_seen, alerted, added, latest, breaches>>

(* level / 16 of 100 points, by a confidence in percent: 70 when unstated.  *)
RulePoints(level, confidence) ==
  (Max({0, Min({16, level})}) * (IF confidence < 0 THEN 70 ELSE confidence)) \div 16

Hard(events) == {e \in events : ~ e.soft}

(* _aggregate: the greatest, and a fifth of each of the others.            *)
Aggregate(events) ==
  IF events = {} THEN 0
  ELSE 4 * Max({e.score : e \in events}) + MapThenSumSet(LAMBDA e : e.score, events)

(* Sorted by time; events of one time stay in the order they are held.      *)
Before(d, e) == d.ts < e.ts \/ (d.ts = e.ts /\ d.place < e.place)

(* kill_chain_run: for each event, the longest rising run that ends in it;  *)
(* the best run of a phase is that of one of its events.                    *)
KillChainRun(events) ==
  LET told == {e \in events : e.tactic # 0}
      run[e \in told] ==
        1 + Max({0} \cup {run[d] : d \in {x \in told : Before(x, e) /\ x.tactic < e.tactic}})
  IN  Max({0} \cup {run[e] : e \in told})

(* Mutant of SoftAdded: what models and rarity add is not capped.          *)
SoftUncapped(events) == Max({0, Aggregate(events) - Aggregate(Hard(events))})

SoftAdded(events) ==
  Min({MlCap, Max({0, Aggregate(events) - Aggregate(Hard(events))})})

ChainAdded(events) == Min({ChainCap, ChainBonus * Max({0, KillChainRun(events) - 1})})

Score(events) == Aggregate(Hard(events)) + SoftAdded(events) + ChainAdded(Hard(events))

(* Enough rules of enough tactics agree, whatever they score.              *)
RulesAgree(events) ==
  /\ Cardinality({e.tactic : e \in Hard(events)} \ {0}) >= MinTactics
  /\ Cardinality({e.source : e \in Hard(events)}) >= MinRuleSources

Fires(events) == Score(events) >= Threshold \/ RulesAgree(events)

(* The stronger of two events of one source and object is held, in the     *)
(* place of the first.                                                     *)
Recorded(events, e) ==
  LET same == {h \in events : h.source = e.source /\ h.object = e.object}
  IN  IF same = {} THEN events \cup {e}
      ELSE (events \ same) \cup {IF e.score > h.score THEN [e EXCEPT !.place = h.place] ELSE h : h \in same}

(* _expire, at the time of the event in hand.                              *)
Unexpired(events, now) == {e \in events : e.ts >= now - StoryWindow}

StoryInit ==
  /\ story = {} /\ last_seen = -1 /\ alerted = FALSE
  /\ added = 0 /\ latest = <<>> /\ breaches = <<>>

(* add.                                                                    *)
AddRisk(kind, ts) ==
  LET e == [source |-> kind.source, soft |-> kind.soft, object |-> kind.object,
            score |-> kind.score, tactic |-> kind.tactic, ts |-> ts, place |-> added]
      events == Unexpired(Recorded(story, e), ts)
      breach == ~ alerted /\ Fires(events)
  IN  /\ added < MaxRiskEvents
      /\ added' = added + 1
      /\ story' = events
      /\ last_seen' = Max({last_seen, ts})
      /\ alerted' = (alerted \/ breach)
      /\ latest' = <<e>>
      /\ breaches' = IF breach THEN Append(breaches, events) ELSE breaches

(* prune: a storyline last seen before the cut-off is forgotten whole, and *)
(* the next event of its tree opens a new one.                             *)
PruneStory(before) ==
  /\ last_seen >= 0 /\ last_seen < before
  /\ story' = {} /\ last_seen' = -1 /\ alerted' = FALSE
  /\ latest' = <<>> /\ breaches' = <<>>
  /\ UNCHANGED added

StoryNext ==
  \/ \E kind \in RiskKinds, ts \in 0 .. MaxStoryTime : AddRisk(kind, ts)
  \/ \E before \in 1 .. MaxStoryTime : PruneStory(before)

StorySpec == StoryInit /\ [][StoryNext]_storyVars
-----------------------------------------------------------------------------
(* The longest run of distinct tactics ordered in both time and phase, by  *)
(* its definition.                                                         *)
Rising(S) ==
  \A d, e \in S : d # e => \/ Before(d, e) /\ d.tactic < e.tactic
                           \/ Before(e, d) /\ e.tactic < d.tactic
LongestRun(events) ==
  Max({Cardinality(S) : S \in {T \in SUBSET {e \in events : e.tactic # 0} : Rising(T)}})

(* Storylines, storyline.py:12-20 and :60-126: a storyline alerts once, as  *)
(* soon as its evidence suffices; models and rarity "can raise but never   *)
(* alone decide an alert": the rules of a breach bring all but the capped  *)
(* share of it; and the chain bonus is for the longest run there is.       *)
StorylinesSound ==
  /\ Len(breaches) = (IF alerted THEN 1 ELSE 0)
  /\ ~ alerted => ~ Fires(story)
  /\ \A i \in DOMAIN breaches :
       LET hard == Hard(breaches[i])
       IN  RulesAgree(hard) \/ Score(hard) >= Threshold - MlCap
  /\ KillChainRun(story) = LongestRun(story)

(* "Record one risk event", storyline.py:93: the newest event there is     *)
(* stands in the storyline, or one at least as strong of its source and    *)
(* object.                                                                 *)
RiskRemembered ==
  \A e \in Range(latest) :
    e.ts = last_seen =>
      \E h \in story : h.source = e.source /\ h.object = e.object /\ h.score >= e.score
=============================================================================
