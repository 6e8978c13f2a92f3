---------------------------- MODULE SequenceRule ----------------------------
(***************************************************************************)
(* evaluator/stateful.py: a sequence rule - ordered steps that must occur  *)
(* for one entity within maxspan - and the open matches it keeps for that  *)
(* entity. Every event that matches a step drops the matches that are too  *)
(* old, advances at most one match per step, and may open a match.         *)
(*                                                                         *)
(* A match is the sequence of the positions in the stream of the events it *)
(* consists of; its start, last time, next step and origin, which the code *)
(* stores, are read off it. An event opens at most one match, so the code's*)
(* list of open matches is this set in the order of their first positions. *)
(***************************************************************************)
EXTENDS EventStream

CONSTANTS
  NumSteps,      (* number of steps of the rule                             *)
  MaxSpan,       (* its maxspan                                             *)
  MaxPartials    (* max_partials_per_key                                    *)

ASSUME SequenceAssumption ==
  /\ NumSteps \in Nat \ {0, 1}
  /\ MaxSpan \in Nat \ {0}
  /\ MaxPartials \in Nat \ {0}

VARIABLES
  partials,      (* the open matches                                        *)
  completed      (* history: the matches the rule fired for                 *)

sequenceVars == <<partials, completed>>

Match == Seq(1 .. MaxEvents)

SequenceTypeOK ==
  /\ \A m \in partials : m \in Match /\ Len(m) \in 1 .. NumSteps - 1
  /\ Cardinality(partials) <= MaxPartials
  /\ \A m \in completed : m \in Match /\ Len(m) = NumSteps

SequenceInit == partials = {} /\ completed = {}
-----------------------------------------------------------------------------
(* In what follows es is the stream up to and including the current event.  *)
StartOf(es, m) == es[m[1]].ts
LastOf(es, m) == es[m[Len(m)]].ts
OriginOf(es, m) == es[m[1]].actor
Now(es) == es[Len(es)].ts
Steps(es) == es[Len(es)].shape.steps

(* Mutant of Fresh: < for <=.                                               *)
FreshStrictly(es) == {m \in partials : Now(es) - StartOf(es, m) < MaxSpan}

(* The open matches the current event is not too late for.                  *)
Fresh(es) == {m \in partials : Now(es) - StartOf(es, m) <= MaxSpan}

(* The matches that step k would advance.                                   *)
Waiting(es, k) == {m \in Fresh(es) : Len(m) = k - 1 /\ LastOf(es, m) <= Now(es)}

(* Of those that wait for a step the event matches, the oldest.             *)
Oldest(es) ==
  {m \in Fresh(es) : \E k \in Steps(es) \ {1} :
     /\ m \in Waiting(es, k)
     /\ \A n \in Waiting(es, k) : m[1] <= n[1]}

Completing(es) == {m \in Oldest(es) : Len(m) = NumSteps - 1}

(* The steps are tried from the last one down, and a completed match ends   *)
(* the attempt: then no other match advances.                               *)
Advancing(es) == IF Completing(es) # {} THEN {} ELSE Oldest(es)

Extended(es, ms) == {Append(m, Len(es)) : m \in ms}

(* Mutant of Remaining: a completed match stays open.                       *)
RemainingCompleted(es) == (Fresh(es) \ Advancing(es)) \cup Extended(es, Advancing(es))

(* The open matches before the event is considered as the start of one.     *)
Remaining(es) ==
  (Fresh(es) \ (Advancing(es) \cup Completing(es))) \cup Extended(es, Advancing(es))

(* A process that has just opened a match opens no second one.              *)
Opens(es, ms) ==
  /\ 1 \in Steps(es)
  /\ es[Len(es)].actor = None \/ \A m \in ms :
       ~(Len(m) = 1 /\ OriginOf(es, m) = es[Len(es)].actor)

Opened(es, ms) == IF Opens(es, ms) THEN ms \cup {<<Len(es)>>} ELSE ms

(* The newest MaxPartials of the matches.                                   *)
Capped(ms) ==
  {m \in ms : Cardinality({n \in ms : n[1] > m[1]}) < MaxPartials}

(* _sequence: the last event of es is evaluated.                            *)
SequenceObserve(es) ==
  IF Steps(es) = {} THEN UNCHANGED sequenceVars
  ELSE /\ completed' = completed \cup Extended(es, Completing(es))
       /\ partials' = Capped(Opened(es, Remaining(es)))

(* prune: a match nothing has advanced since before is forgotten.           *)
SequencePrune(before) ==
  /\ partials' = {m \in partials : LastOf(stream, m) >= before}
  /\ UNCHANGED completed
-----------------------------------------------------------------------------
AllMatches == completed \cup partials

(* The events of m match the steps in turn, came in this order with         *)
(* timestamps in this order, and span no more than maxspan.                 *)
Witnessed(m) ==
  /\ \A k \in 1 .. Len(m) : k \in stream[m[k]].shape.steps
  /\ \A k \in 2 .. Len(m) : /\ m[k - 1] < m[k]
                            /\ stream[m[k - 1]].ts <= stream[m[k]].ts
  /\ LastOf(stream, m) - StartOf(stream, m) <= MaxSpan

(* What the rule fires for has happened: every match, finished or open, is  *)
(* witnessed - late events, expiry, the cap and prunes notwithstanding.     *)
CompletedIsWitnessed == \A m \in AllMatches : Witnessed(m)

(* "A process making fifty connections after a suspicious start fires once, *)
(* not fifty times": no event is the same step of two matches.              *)
OneMatchPerStep ==
  \A m, n \in AllMatches :
    m # n => \A k \in 1 .. NumSteps :
               k <= Len(m) /\ k <= Len(n) => m[k] # n[k]

(* What fires happened, and happened once.                                  *)
MatchesSound == CompletedIsWitnessed /\ OneMatchPerStep

(* c is an occurrence of the rule in the stream, in order and in time.      *)
Occurrence(c) ==
  /\ \A k \in 1 .. NumSteps : k \in stream[c[k]].shape.steps
  /\ \A k, l \in 1 .. NumSteps : k < l => c[k] < c[l]
  /\ stream[c[NumSteps]].ts - stream[c[1]].ts <= MaxSpan

(* Its process did nothing before that would have opened a match.           *)
FirstOfItsActor(i) ==
  stream[i].actor = None \/
  \A j \in 1 .. i - 1 : stream[j].actor = stream[i].actor => 1 \notin stream[j].shape.steps

(* No match that opened earlier and was still there for the second event of *)
(* c runs out before its last one. Of matches that wait for the same step   *)
(* the oldest is advanced, so such a match would use up an event of c and   *)
(* expire with it. With two steps this is always so.                        *)
NoneRunsOut(c) ==
  \A i \in 1 .. c[1] - 1 :
    1 \in stream[i].shape.steps =>
      \/ stream[c[2]].ts - stream[i].ts > MaxSpan
      \/ stream[c[NumSteps]].ts - stream[i].ts <= MaxSpan

(* Ordered steps that "must occur for the same entity within maxspan": in a *)
(* stream without late events and within the cap, the rule fires on the     *)
(* last event of every occurrence that does not share an event with a match *)
(* it has fired for already, whose process opened no earlier match, and     *)
(* from which no match that expires took an event.                          *)
OccurrencesFire ==
  /\ Ordered
  /\ Cardinality({i \in DOMAIN stream : 1 \in stream[i].shape.steps}) <= MaxPartials
  => \A c \in [1 .. NumSteps -> DOMAIN stream] :
       /\ Occurrence(c)
       /\ FirstOfItsActor(c[1])
       /\ NoneRunsOut(c)
       /\ \A m \in completed :
            m[NumSteps] < c[NumSteps] =>
              {m[k] : k \in 1 .. NumSteps} \cap {c[k] : k \in 1 .. NumSteps} = {}
       => \E m \in completed : m[NumSteps] = c[NumSteps]
=============================================================================
