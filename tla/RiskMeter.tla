----------------------------- MODULE RiskMeter -----------------------------
(***************************************************************************)
(* provenance/risk_scorer.py: the risk profile of one host. Detections add *)
(* the points of their level, a rule at most once per half-life; the score *)
(* decays with the time between them; crossing the threshold raises one    *)
(* alert and latches until the score has fallen below half the threshold.  *)
(***************************************************************************)
EXTENDS Integers, FiniteSets, Sequences

CONSTANTS
  Rules,           (* rule ids                                              *)
  Level(_),        (* a rule's level                                        *)
  Threshold,       (* breach_threshold                                      *)
  HalfLife,        (* half_life_seconds                                     *)
  Decayed(_, _)    (* a score after some time without detections            *)

ASSUME RiskAssumption == Threshold \in Nat \ {0} /\ HalfLife \in Nat

VARIABLES
  score,           (* current_score                                         *)
  timeline,        (* event_timeline, as a set of [rule, ts]: a rule       *)
                   (* is never there twice at one time                      *)
  latched,         (* has_alerted                                           *)
  lastSeen,        (* last_seen, 0 when nothing has been seen               *)
  breaches,        (* history: score and timeline length at each alert      *)
  quiet            (* history: the score was below the re-arm threshold     *)
                   (* at some detection since the last alert, or dropped    *)

riskVars == <<score, timeline, latched, lastSeen, breaches, quiet>>

RiskTypeOK ==
  /\ score \in 0 .. 100
  /\ timeline \subseteq [rule : Rules, ts : Nat \ {0}]
  /\ IsFiniteSet(timeline)
  /\ latched \in BOOLEAN
  /\ lastSeen \in Nat
  /\ breaches \in Seq([score : 0 .. 100, length : Nat])
  /\ quiet \in BOOLEAN

(* A host without a profile is one with nothing in it.                      *)
RiskInit ==
  /\ score = 0 /\ timeline = {} /\ latched = FALSE /\ lastSeen = 0
  /\ breaches = <<>> /\ quiet = TRUE
-----------------------------------------------------------------------------
(* LEVEL_TO_POINTS.                                                         *)
LevelToPoints ==
  <<5, 5, 5, 5, 10, 10, 15, 15, 25, 30, 35, 45, 50, 55, 65, 80>>

Points(r) ==
  IF Level(r) \in DOMAIN LevelToPoints THEN LevelToPoints[Level(r)] ELSE 10

(* _decay: a late detection lets nothing decay, but sets the clock back.    *)
ScoreAt(t) ==
  IF lastSeen # 0 /\ t > lastSeen THEN Decayed(score, t - lastSeen) ELSE score

(* Mutant of Recently: only a detection at the very same time counts.       *)
RecentlyNow(r, t) ==
  \E d \in timeline : d.rule = r /\ d.ts >= t

(* The rule has added its points within the last half-life, or later.       *)
Recently(r, t) ==
  \E d \in timeline : d.rule = r /\ d.ts >= t - HalfLife

(* Mutant of Calm: the threshold itself re-arms.                            *)
CalmAtOnce(s) == s < Threshold

(* Below rearm_ratio, one half, of the threshold.                           *)
Calm(s) == 2 * s < Threshold

AtMost100(n) == IF n > 100 THEN 100 ELSE n

(* record_detection of rule r at t. The latch opens only if the score is    *)
(* calm after the points have been added.                                   *)
RecordDetection(r, t) ==
  LET sum == AtMost100(ScoreAt(t) + Points(r))
      armed == ~latched \/ Calm(sum)
      breach == sum >= Threshold /\ armed
      wasQuiet == quiet \/ 2 * ScoreAt(t) < Threshold
  IN  /\ lastSeen' = t
      /\ IF Recently(r, t)
         THEN /\ score' = ScoreAt(t)
              /\ quiet' = wasQuiet
              /\ UNCHANGED <<timeline, latched, breaches>>
         ELSE /\ score' = sum
              /\ timeline' = timeline \cup {[rule |-> r, ts |-> t]}
              /\ latched' = (breach \/ ~armed)
              /\ quiet' = (wasQuiet /\ ~breach)
              /\ breaches' = IF breach
                             THEN Append(breaches, [score |-> sum,
                                                    length |-> Cardinality(timeline) + 1])
                             ELSE breaches

(* prune: the profile of a host that has been idle goes, latch and all; of  *)
(* one that has not only the old records do.                                *)
RiskPrune(before) ==
  IF lastSeen # 0 /\ lastSeen < before
  THEN /\ score' = 0 /\ timeline' = {} /\ latched' = FALSE /\ lastSeen' = 0
       /\ quiet' = TRUE
       /\ UNCHANGED breaches
  ELSE /\ timeline' = {d \in timeline : d.ts >= before}
       /\ UNCHANGED <<score, latched, lastSeen, breaches, quiet>>
-----------------------------------------------------------------------------
(* "A rule counts once per host per half-life", late detections included:   *)
(* what is on the timeline of one rule is more than a half-life apart.      *)
OncePerHalfLife ==
  \A c, d \in timeline :
    c.rule = d.rule /\ c # d => c.ts - d.ts > HalfLife \/ d.ts - c.ts > HalfLife

(* "The hysteresis stops a host hovering at the boundary from emitting an   *)
(* alert on every detection": between two alerts the host has been quiet.   *)
QuietBetweenBreaches ==
  [][breaches' # breaches => \/ quiet
                             \/ lastSeen # 0 /\ 2 * ScoreAt(lastSeen') < Threshold]_riskVars
=============================================================================
