--------------------------- MODULE RarityBaseline ---------------------------
(***************************************************************************)
(* behavioral/rarity.py and signal.py: a baseline is learnt from process   *)
(* starts, saved, perhaps touched by somebody, loaded, and then process    *)
(* starts and cross-process events are scored against it. A version is a   *)
(* hash of the content; here it is the content.                            *)
(***************************************************************************)
EXTENDS Integers, Sequences, SequencesExt

CONSTANTS
  Features,            (* records of name, parent, path_class, access,      *)
                       (* threads, start and inferred                       *)
  MinObservations, MinRelationships, MinCrossProcess, UncommonMax,
  None,
  MaxLearnt            (* bound: process starts learnt from                 *)

VARIABLES
  baseline,    (* the baseline in memory, or None before it is loaded       *)
  file,        (* [content, version] as saved, or None                      *)
  signals,     (* what the detector reported                                *)
  learnt,      (* ghost: the starts the baseline was learnt from            *)
  edited       (* ghost: how the file was touched since it was saved        *)

rarityVars == <<baseline, file, signals, learnt, edited>>

ParentChild(f) == <<"parent_child", f.parent, f.name>>
Located(f) == <<"name_path_class", f.name, f.path_class>>
Crossed(name, target, kind) == <<"cross_process", name, target, kind>>

(* The relations one start is counted under.                               *)
Relations(f) ==
  {<<"name", f.name>>}
    \cup (IF f.parent = None THEN {} ELSE {ParentChild(f)})
    \cup (IF f.path_class = None THEN {} ELSE {Located(f)})
    \cup {Crossed(f.name, t, "access") : t \in f.access}
    \cup {Crossed(f.name, t, "remote_thread") : t \in f.threads}

Fresh == [total |-> 0, counts |-> <<>>, from |-> None, to |-> None]

Baseline ==
  [total : Nat, counts : UNION {[rs -> Nat] : rs \in SUBSET UNION {Relations(f) : f \in Features}},
   from : Int \cup {None}, to : Int \cup {None}]
File == [content : Baseline, version : Baseline \cup {None}]

ASSUME RarityAssumption ==
  /\ MinObservations \in Nat /\ MinCrossProcess \in Nat \ {0} /\ UncommonMax \in Nat
  /\ \A f \in Features : f.start \in Int
  /\ None \notin Int /\ None \notin Baseline /\ None \notin File

CountIn(b, r) == IF r \in DOMAIN b.counts THEN b.counts[r] ELSE 0

(* Mutant of Bumped: a relation seen before is not counted again.          *)
BumpedOnce(b, rs) == [r \in DOMAIN b.counts \cup rs |-> Max({CountIn(b, r), 1})]

Bumped(b, rs) ==
  [r \in DOMAIN b.counts \cup rs |-> CountIn(b, r) + (IF r \in rs THEN 1 ELSE 0)]

(* observe. What was only inferred, or has no name, teaches nothing.       *)
Learnable(f) == ~ f.inferred /\ f.name # None

Observed(b, f) ==
  [total |-> b.total + 1,
   counts |-> Bumped(b, Relations(f)),
   from |-> IF b.from = None \/ f.start < b.from THEN f.start ELSE b.from,
   to |-> IF b.to = None \/ f.start > b.to THEN f.start ELSE b.to]

Known(b, dimension) == {r \in DOMAIN b.counts : r[1] = dimension}
CrossObservations(b) == MapThenSumSet(LAMBDA r : b.counts[r], Known(b, "cross_process"))

IsReady(b) ==
  /\ b.total >= MinObservations
  /\ Cardinality(Known(b, "parent_child")) >= MinRelationships
CrossReady(b) == IsReady(b) /\ CrossObservations(b) >= MinCrossProcess

Category(b, r, ready) ==
  IF ~ ready THEN "not_ready" ELSE IF CountIn(b, r) = 0 THEN "unseen"
  ELSE IF CountIn(b, r) <= UncommonMax THEN "uncommon" ELSE "common"

(* score: a place is only odd for a name that is known.                    *)
Scored(b, f) ==
  (IF f.parent = None THEN {} ELSE {ParentChild(f)})
    \cup (IF f.path_class = None \/ CountIn(b, <<"name", f.name>>) = 0 THEN {} ELSE {Located(f)})

Level(category) == IF category = "unseen" THEN 4 ELSE 2

(* _signal and to_alert. The id is of the model, the rule and the process.  *)
Signal(b, r, ready, f) ==
  LET category == Category(b, r, ready)
  IN  [id |-> <<b, r[1], f>>, relation |-> r, category |-> category,
       level |-> Level(category), count |-> CountIn(b, r)]

Rare(b, rs, ready, f) ==
  {s \in {Signal(b, r, ready, f) : r \in rs} : s.category \in {"unseen", "uncommon"}}

RarityInit ==
  /\ baseline = Fresh /\ file = None /\ signals = {}
  /\ learnt = <<>> /\ edited = "untouched"

Observe(f) ==
  /\ file = None /\ Len(learnt) < MaxLearnt
  /\ Learnable(f)
  /\ baseline' = Observed(baseline, f)
  /\ learnt' = Append(learnt, f)
  /\ UNCHANGED <<file, signals, edited>>

(* save, and the end of the process that learnt.                           *)
Save ==
  /\ file = None
  /\ file' = [content |-> baseline, version |-> baseline]
  /\ baseline' = None
  /\ UNCHANGED <<signals, learnt, edited>>

(* Somebody forgets a relation in the file; perhaps takes out the version. *)
EditFile(r, unversioned) ==
  /\ file # None /\ baseline = None /\ edited = "untouched"
  /\ r \in DOMAIN file.content.counts
  /\ file' = [content |-> [file.content EXCEPT !.counts =
                             [q \in DOMAIN file.content.counts \ {r} |-> file.content.counts[q]]],
              version |-> IF unversioned THEN None ELSE file.version]
  /\ edited' = IF unversioned THEN "unversioned" ELSE "edited"
  /\ UNCHANGED <<baseline, signals, learnt>>

(* load and from_dict: a recorded version must be that of the content.     *)
Load ==
  /\ file # None /\ baseline = None
  /\ file.version # None => file.version = file.content
  /\ baseline' = file.content
  /\ UNCHANGED <<file, signals, learnt, edited>>

(* RarityDetector.evaluate, of a process start.                            *)
EvaluateStart(f) ==
  /\ file # None /\ baseline # None
  /\ f.name # None
  /\ signals' = signals \cup (IF IsReady(baseline) THEN Rare(baseline, Scored(baseline, f), TRUE, f) ELSE {})
  /\ UNCHANGED <<baseline, file, learnt, edited>>

(* evaluate, of a process that opens another or starts a thread in it.     *)
EvaluateCross(f, target, kind) ==
  /\ file # None /\ baseline # None
  /\ f.name # None
  /\ signals' = signals \cup
       (IF CrossReady(baseline) THEN Rare(baseline, {Crossed(f.name, target, kind)}, TRUE, f) ELSE {})
  /\ UNCHANGED <<baseline, file, learnt, edited>>

RarityNext ==
  \/ \E f \in Features : Observe(f) \/ EvaluateStart(f)
  \/ Save \/ Load
  \/ \E f \in Features : \E t \in f.access : EvaluateCross(f, t, "access")
  \/ \E f \in Features : \E t \in f.threads : EvaluateCross(f, t, "remote_thread")
  \/ \E r \in UNION {Relations(f) : f \in Features}, u \in BOOLEAN : EditFile(r, u)

RaritySpec == RarityInit /\ [][RarityNext]_rarityVars
-----------------------------------------------------------------------------
(* How many of the starts learnt from stand in a relation.                 *)
Tally(r) == Cardinality({i \in DOMAIN learnt : r \in Relations(learnt[i])})

(* A baseline that learnt the same starts in another order is the same.    *)
OrderForgotten(b) ==
  /\ b.total = Len(learnt)
  /\ DOMAIN b.counts = UNION {Relations(learnt[i]) : i \in DOMAIN learnt}
  /\ \A r \in DOMAIN b.counts : b.counts[r] = Tally(r)
  /\ learnt # <<>> => /\ b.from = Min({learnt[i].start : i \in DOMAIN learnt})
                      /\ b.to = Max({learnt[i].start : i \in DOMAIN learnt})

(* Rarity is against the data, rarity.py:157-175 and :290-322: through     *)
(* saving, loading and scoring the baseline stays a tally of the starts it *)
(* was learnt from, whatever their order; one whose file was edited is not *)
(* loaded unless its version went too; and what is reported is rare among  *)
(* those starts, of which there were enough.                               *)
RaritySound ==
  /\ edited # "unversioned" /\ baseline # None => OrderForgotten(baseline)
  /\ edited = "edited" => baseline = None
  /\ edited # "unversioned" =>
       \A s \in signals :
         /\ Len(learnt) >= MinObservations
         /\ s.count = Tally(s.relation) /\ s.count <= UncommonMax
         /\ s.relation[1] = "name_path_class" => Tally(<<"name", s.relation[2]>>) > 0
         /\ s.relation[1] = "cross_process" =>
              Cardinality({i \in DOMAIN learnt : learnt[i].access \cup learnt[i].threads # {}}) > 0
=============================================================================
