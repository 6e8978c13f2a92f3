--------------------------- MODULE BehaviorProofs ---------------------------
(***************************************************************************)
(* Theorems about the rarity baseline, the beacon detector, the storylines *)
(* and the behavior features, for every threshold, key and sequence of     *)
(* starts, connections, risk events and edges.                             *)
(***************************************************************************)
EXTENDS BeaconDetector, RarityBaseline, StorylineIndex, ProcessFeatures, FiniteSetTheorems,
        SequenceTheorems, WellFoundedInduction, TLAPS

(* The least and the greatest of the times some starts began at.           *)
Earliest(x, s) == (\E i \in DOMAIN s : x = s[i].start) /\ \A i \in DOMAIN s : x <= s[i].start
Newest(x, s) == (\E i \in DOMAIN s : x = s[i].start) /\ \A i \in DOMAIN s : x >= s[i].start

(* A baseline is the tally of what was learnt, and no more.                *)
Tallied(b) ==
  /\ b \in Baseline
  /\ b.total = Len(learnt)
  /\ \A r : r \in DOMAIN b.counts <=> \E i \in DOMAIN learnt : r \in Relations(learnt[i])
  /\ \A r \in DOMAIN b.counts : b.counts[r] = Tally(r)
  /\ IF learnt = <<>> THEN b.from = None /\ b.to = None
     ELSE Earliest(b.from, learnt) /\ Newest(b.to, learnt)

(* What is reported is rare among the starts that were learnt.             *)
IsRare(s) ==
  /\ Len(learnt) >= MinObservations
  /\ s.count = Tally(s.relation) /\ s.count <= UncommonMax
  /\ s.relation[1] = "name_path_class" => Tally(<<"name", s.relation[2]>>) > 0
  /\ s.relation[1] = "cross_process" =>
       Cardinality({i \in DOMAIN learnt : learnt[i].access \cup learnt[i].threads # {}}) > 0

(* While it learns there is no file; then the file holds what was learnt,  *)
(* or somebody was at it, and its version tells unless that went too.      *)
RarityInv ==
  /\ learnt \in Seq(Features)
  /\ file = None => Tallied(baseline) /\ edited = "untouched" /\ signals = {}
  /\ file # None =>
       /\ file \in File /\ baseline \in {None, file.content}
       /\ edited = "untouched" => file.version = file.content /\ Tallied(file.content)
       /\ edited = "edited" => baseline = None /\ file.version \notin {None, file.content}
  /\ edited \in {"untouched", "edited", "unversioned"}
  /\ edited # "unversioned" => \A s \in signals : IsRare(s)

(* The times of what was learnt.                                           *)
LEMMA Learnt ==
  ASSUME NEW s \in Seq(Features)
  PROVE  /\ Len(s) \in Nat /\ DOMAIN s = 1 .. Len(s) /\ (s = <<>> <=> Len(s) = 0)
         /\ \A i \in DOMAIN s : s[i] \in Features /\ s[i].start \in Int
BY EmptySeq, LenProperties, RarityAssumption

(* A tally counts some of what was learnt.                                 *)
LEMMA TallyIsNatural ==
  ASSUME learnt \in Seq(Features), NEW r
  PROVE  /\ Tally(r) \in Nat
         /\ (\E i \in DOMAIN learnt : r \in Relations(learnt[i])) <=> Tally(r) > 0
<1> DEFINE S == {i \in DOMAIN learnt : r \in Relations(learnt[i])}
<1>1. S \in SUBSET (1 .. Len(learnt)) /\ Len(learnt) \in Nat
  BY Learnt
<1>2. IsFiniteSet(1 .. Len(learnt))
  BY <1>1, FS_Interval
<1>3. IsFiniteSet(S)
  BY <1>1, <1>2, FS_Subset
<1>4. Cardinality(S) \in Nat /\ (Cardinality(S) = 0 <=> S = {})
  BY <1>3, FS_CardinalityType, FS_EmptySet
<1> QED BY <1>4 DEF Tally

(* One start more is one more for its relations.                           *)
LEMMA TallyOfAppended ==
  ASSUME learnt \in Seq(Features), NEW f \in Features, learnt' = Append(learnt, f), NEW r
  PROVE  Tally(r)' = Tally(r) + (IF r \in Relations(f) THEN 1 ELSE 0)
<1> DEFINE n == Len(learnt)
           S == {i \in DOMAIN learnt : r \in Relations(learnt[i])}
           T == {i \in DOMAIN learnt' : r \in Relations(learnt'[i])}
<1>1. /\ n \in Nat /\ DOMAIN learnt = 1 .. n /\ DOMAIN learnt' = 1 .. n + 1
      /\ \A i \in 1 .. n : learnt'[i] = learnt[i]
      /\ learnt'[n + 1] = f
  BY Learnt, AppendProperties
<1>2. S \in SUBSET (1 .. n) /\ n + 1 \notin S
  BY <1>1
<1>3. IsFiniteSet(1 .. n)
  BY <1>1, FS_Interval
<1>4. IsFiniteSet(S)
  BY <1>2, <1>3, FS_Subset
<1>5. T = IF r \in Relations(f) THEN S \cup {n + 1} ELSE S
  BY <1>1
<1>6. Cardinality(S \cup {n + 1}) = Cardinality(S) + 1 /\ Cardinality(S) \in Nat
  BY <1>2, <1>4, FS_AddElement, FS_CardinalityType
<1>7. Tally(r)' = Cardinality(T) /\ Tally(r) = Cardinality(S)
  BY DEF Tally
<1> HIDE DEF S, T
<1> QED BY <1>5, <1>6, <1>7

(* Learning a start keeps the baseline a tally.                            *)
LEMMA ObserveTallies ==
  ASSUME learnt \in Seq(Features), Tallied(baseline), NEW f \in Features,
         learnt' = Append(learnt, f), NEW b, b = Observed(baseline, f)
  PROVE  learnt' \in Seq(Features) /\ Tallied(b)'
<1> DEFINE n == Len(learnt)
           rs == UNION {Relations(g) : g \in Features}
<1>1. /\ n \in Nat /\ DOMAIN learnt = 1 .. n /\ DOMAIN learnt' = 1 .. n + 1
      /\ \A i \in 1 .. n : learnt'[i] = learnt[i] /\ learnt[i].start \in Int
      /\ learnt'[n + 1] = f /\ Len(learnt') = n + 1 /\ f.start \in Int
      /\ learnt' \in Seq(Features) /\ learnt' # <<>>
      /\ (learnt = <<>> <=> n = 0)
  BY Learnt, AppendProperties, RarityAssumption
<1>2. /\ baseline \in Baseline /\ baseline.total = n
      /\ baseline.total \in Nat
      /\ DOMAIN baseline.counts \in SUBSET rs
      /\ \A r \in DOMAIN baseline.counts : baseline.counts[r] \in Nat
      /\ baseline.from \in Int \cup {None} /\ baseline.to \in Int \cup {None}
  BY DEF Tallied, Baseline
<1>3. /\ b.total = n + 1 /\ b.counts = Bumped(baseline, Relations(f))
      /\ b.from = IF baseline.from = None \/ f.start < baseline.from THEN f.start ELSE baseline.from
      /\ b.to = IF baseline.to = None \/ f.start > baseline.to THEN f.start ELSE baseline.to
      /\ b = [total |-> b.total, counts |-> b.counts, from |-> b.from, to |-> b.to]
  BY <1>2 DEF Observed
<1>4. /\ DOMAIN b.counts = DOMAIN baseline.counts \cup Relations(f)
      /\ \A r \in DOMAIN b.counts :
           b.counts[r] = CountIn(baseline, r) + (IF r \in Relations(f) THEN 1 ELSE 0)
      /\ b.counts = [r \in DOMAIN b.counts |-> b.counts[r]]
  BY <1>3 DEF Bumped
<1>5. \A r : CountIn(baseline, r) = Tally(r) /\ CountIn(baseline, r) \in Nat
  <2> SUFFICES ASSUME NEW r PROVE CountIn(baseline, r) = Tally(r) /\ CountIn(baseline, r) \in Nat
    OBVIOUS
  <2>1. /\ Tally(r) \in Nat
        /\ (\E i \in DOMAIN learnt : r \in Relations(learnt[i])) <=> Tally(r) > 0
    BY TallyIsNatural
  <2>2. r \in DOMAIN baseline.counts <=> \E i \in DOMAIN learnt : r \in Relations(learnt[i])
    BY DEF Tallied
  <2>3. r \in DOMAIN baseline.counts => baseline.counts[r] = Tally(r)
    BY DEF Tallied
  <2> QED BY <2>1, <2>2, <2>3 DEF CountIn
<1>6. \A r \in DOMAIN b.counts : b.counts[r] = Tally(r)' /\ b.counts[r] \in Nat
  BY <1>4, <1>5, TallyOfAppended
<1>7. Relations(f) \in SUBSET rs
  OBVIOUS
<1>8. b.counts \in [DOMAIN b.counts -> Nat] /\ DOMAIN b.counts \in SUBSET rs
  BY <1>2, <1>4, <1>6, <1>7
<1>9. b \in Baseline
  BY <1>1, <1>2, <1>3, <1>8 DEF Baseline
<1>10. \A r : r \in DOMAIN b.counts <=> \E i \in DOMAIN learnt' : r \in Relations(learnt'[i])
  <2>1. \A r : r \in DOMAIN baseline.counts <=> \E i \in DOMAIN learnt : r \in Relations(learnt[i])
    BY DEF Tallied
  <2> QED BY <1>1, <1>4, <2>1
<1>11. Earliest(b.from, learnt')
  <2>1. IF n = 0 THEN baseline.from = None ELSE Earliest(baseline.from, learnt)
    BY <1>1 DEF Tallied
  <2> QED BY <1>1, <1>2, <1>3, <2>1, RarityAssumption DEF Earliest
<1>12. Newest(b.to, learnt')
  <2>1. IF n = 0 THEN baseline.to = None ELSE Newest(baseline.to, learnt)
    BY <1>1 DEF Tallied
  <2> QED BY <1>1, <1>2, <1>3, <2>1, RarityAssumption DEF Newest
<1> QED BY <1>1, <1>3, <1>6, <1>9, <1>10, <1>11, <1>12 DEF Tallied

(* What a tally knows of the past.                                         *)
LEMMA TallyCounts ==
  ASSUME learnt \in Seq(Features), NEW b, Tallied(b), NEW r
  PROVE  CountIn(b, r) = Tally(r) /\ CountIn(b, r) \in Nat
<1>1. /\ Tally(r) \in Nat
      /\ (\E i \in DOMAIN learnt : r \in Relations(learnt[i])) <=> Tally(r) > 0
  BY TallyIsNatural
<1>2. r \in DOMAIN b.counts <=> \E i \in DOMAIN learnt : r \in Relations(learnt[i])
  BY DEF Tallied
<1>3. r \in DOMAIN b.counts => b.counts[r] = Tally(r)
  BY DEF Tallied
<1> QED BY <1>1, <1>2, <1>3 DEF CountIn

(* What is signalled is rare in the baseline, and says how rare.           *)
LEMMA RareSignals ==
  ASSUME learnt \in Seq(Features), NEW b, Tallied(b), IsReady(b), NEW rs, NEW f,
         NEW s \in Rare(b, rs, TRUE, f)
  PROVE  /\ Len(learnt) >= MinObservations /\ s.relation \in rs
         /\ s.count = Tally(s.relation) /\ s.count <= UncommonMax
<1>1. PICK r \in rs : s = Signal(b, r, TRUE, f)
  BY DEF Rare
<1>2. s.category \in {"unseen", "uncommon"}
  BY DEF Rare
<1>3. s.relation = r /\ s.count = CountIn(b, r) /\ s.category = Category(b, r, TRUE)
  BY <1>1 DEF Signal
<1>4. CountIn(b, r) = 0 \/ CountIn(b, r) <= UncommonMax
  BY <1>2, <1>3 DEF Category
<1>5. CountIn(b, r) = Tally(r) /\ CountIn(b, r) \in Nat
  BY TallyCounts
<1>6. Len(learnt) >= MinObservations
  BY DEF IsReady, Tallied
<1> QED BY <1>3, <1>4, <1>5, <1>6, RarityAssumption

(* Nothing adds up to nothing.                                             *)
LEMMA NoSum == ASSUME NEW b, Known(b, "cross_process") = {} PROVE CrossObservations(b) = 0
BY DEF CrossObservations, MapThenSumSet, MapThenFoldSet

(* A baseline that is ready for them has seen processes cross.             *)
LEMMA SomeCrossed ==
  ASSUME learnt \in Seq(Features), NEW b, Tallied(b), CrossReady(b)
  PROVE  Cardinality({i \in DOMAIN learnt : learnt[i].access \cup learnt[i].threads # {}}) > 0
<1> DEFINE S == {i \in DOMAIN learnt : learnt[i].access \cup learnt[i].threads # {}}
<1>1. Known(b, "cross_process") # {}
  BY NoSum, RarityAssumption DEF CrossReady
<1>2. PICK r \in DOMAIN b.counts : r[1] = "cross_process"
  BY <1>1 DEF Known
<1>3. PICK i \in DOMAIN learnt : r \in Relations(learnt[i])
  BY <1>2 DEF Tallied
<1>4. i \in S
  BY <1>2, <1>3 DEF Relations, ParentChild, Located, Crossed
<1>5. S \in SUBSET (1 .. Len(learnt)) /\ Len(learnt) \in Nat
  BY Learnt
<1>6. IsFiniteSet(1 .. Len(learnt))
  BY <1>5, FS_Interval
<1>7. IsFiniteSet(S)
  BY <1>5, <1>6, FS_Subset
<1>8. Cardinality(S) \in Nat /\ Cardinality(S) # 0
  BY <1>4, <1>7, FS_CardinalityType, FS_EmptySet
<1> QED BY <1>8

(* Learning, before the file is there.                                     *)
LEMMA ObserveKeeps ==
  ASSUME RarityInv, NEW f \in Features, Observe(f)
  PROVE  RarityInv'
<1>1. Tallied(baseline) /\ learnt \in Seq(Features) /\ learnt' = Append(learnt, f)
  BY DEF RarityInv, Observe
<1>2. PICK b : b = Observed(baseline, f)
  OBVIOUS
<1>3. learnt' \in Seq(Features) /\ Tallied(b)' /\ baseline' = b
  BY <1>1, <1>2, ObserveTallies DEF Observe
<1>4. Tallied(baseline)'
  BY <1>3 DEF Tallied
<1> QED BY <1>3, <1>4 DEF RarityInv, Observe

(* Saving, touching and loading the file.                                  *)
LEMMA FileKeeps ==
  ASSUME RarityInv, Save \/ Load \/ \E r, u : EditFile(r, u)
  PROVE  RarityInv'
<1>1. \A b : UNCHANGED learnt => Tallied(b)' = Tallied(b)
  BY DEF Tallied, Tally, Earliest, Newest
<1>2. \A s : UNCHANGED learnt => IsRare(s)' = IsRare(s)
  BY DEF IsRare, Tally
<1>3. CASE Save
  <2>1. PICK b : b = baseline
    OBVIOUS
  <2>2. b \in Baseline /\ Tallied(b)'
    BY <1>1, <1>3, <2>1 DEF RarityInv, Save, Tallied
  <2>3. file' \in File /\ file'.version = b /\ file'.content = b
    BY <1>3, <2>1, <2>2 DEF Save, File
  <2>4. Tallied(file.content)'
    BY <2>2, <2>3 DEF Tallied
  <2> QED BY <1>3, <2>3, <2>4, RarityAssumption DEF RarityInv, Save
<1>4. CASE Load
  <2>1. edited # "edited"
    BY <1>4 DEF RarityInv, Load
  <2> QED BY <1>1, <1>2, <1>4, <2>1 DEF RarityInv, Load
<1>5. ASSUME NEW r, NEW u, EditFile(r, u) PROVE RarityInv'
  <2> DEFINE old == file.content
             new == file'.content
             rest == DOMAIN old.counts \ {r}
  <2>1. /\ old \in Baseline /\ file.version = old /\ r \in DOMAIN old.counts
        /\ baseline' = None /\ UNCHANGED <<learnt, signals>>
    BY <1>5 DEF RarityInv, EditFile, File
  <2>2. /\ new = [old EXCEPT !.counts = [q \in rest |-> old.counts[q]]]
        /\ file' = [content |-> new, version |-> IF u THEN None ELSE old]
        /\ edited' = IF u THEN "unversioned" ELSE "edited"
    BY <1>5, <2>1 DEF EditFile
  <2>3. new \in Baseline /\ DOMAIN new.counts = rest
    BY <2>1, <2>2 DEF Baseline
  <2>4. new # old
    BY <2>1, <2>3
  <2>5. file' \in File
    BY <2>1, <2>2, <2>3 DEF File
  <2>6. \A s \in signals : IsRare(s)
    BY <1>5 DEF RarityInv, EditFile
  <2>7. file'.version = IF u THEN None ELSE old
    BY <2>2
  <2> HIDE DEF old, new
  <2> QED BY <1>2, <1>5, <2>1, <2>2, <2>4, <2>5, <2>6, <2>7, RarityAssumption DEF RarityInv, EditFile
<1> QED BY <1>3, <1>4, <1>5

(* Scoring reports what is rare.                                           *)
LEMMA EvaluateKeeps ==
  ASSUME RarityInv, NEW f \in Features,
         EvaluateStart(f) \/ \E t, kind : EvaluateCross(f, t, kind)
  PROVE  RarityInv'
<1>1. \A b : UNCHANGED learnt => Tallied(b)' = Tallied(b)
  BY DEF Tallied, Tally, Earliest, Newest
<1>2. \A s : UNCHANGED learnt => IsRare(s)' = IsRare(s)
  BY DEF IsRare, Tally
<1>3. SUFFICES ASSUME edited # "unversioned", NEW s \in signals' \ signals PROVE IsRare(s)
  BY <1>1, <1>2 DEF RarityInv, EvaluateStart, EvaluateCross
<1>4. learnt \in Seq(Features) /\ Tallied(baseline)
  <2>1. file # None /\ baseline # None
    BY DEF EvaluateStart, EvaluateCross
  <2>2. baseline = file.content /\ edited = "untouched"
    BY <1>3, <2>1 DEF RarityInv
  <2>3. Tallied(file.content) /\ learnt \in Seq(Features)
    BY <2>1, <2>2 DEF RarityInv
  <2> QED BY <2>2, <2>3
<1>5. CASE EvaluateStart(f)
  <2>1. IsReady(baseline) /\ s \in Rare(baseline, Scored(baseline, f), TRUE, f)
    BY <1>3, <1>5 DEF EvaluateStart
  <2>2. /\ Len(learnt) >= MinObservations /\ s.relation \in Scored(baseline, f)
        /\ s.count = Tally(s.relation) /\ s.count <= UncommonMax
    BY <1>4, <2>1, RareSignals
  <2>3. s.relation[1] # "cross_process"
    BY <2>2 DEF Scored, ParentChild, Located
  <2>4. ASSUME s.relation[1] = "name_path_class" PROVE Tally(<<"name", s.relation[2]>>) > 0
    <3> DEFINE named == <<"name", f.name>>
    <3>1. CountIn(baseline, named) # 0 /\ s.relation[2] = f.name
      BY <2>2, <2>4 DEF Scored, ParentChild, Located
    <3>2. CountIn(baseline, named) = Tally(named) /\ CountIn(baseline, named) \in Nat
      BY <1>4, TallyCounts
    <3> QED BY <3>1, <3>2
  <2> QED BY <2>2, <2>3, <2>4 DEF IsRare
<1>6. ASSUME NEW t, NEW kind, EvaluateCross(f, t, kind) PROVE IsRare(s)
  <2>1. /\ CrossReady(baseline) /\ IsReady(baseline)
        /\ s \in Rare(baseline, {Crossed(f.name, t, kind)}, TRUE, f)
    BY <1>3, <1>6 DEF EvaluateCross, CrossReady
  <2>2. /\ Len(learnt) >= MinObservations /\ s.relation = Crossed(f.name, t, kind)
        /\ s.count = Tally(s.relation) /\ s.count <= UncommonMax
    <3> DEFINE rs == {Crossed(f.name, t, kind)}
    <3>1. s \in Rare(baseline, rs, TRUE, f)
      BY <2>1
    <3> HIDE DEF rs
    <3>2. /\ Len(learnt) >= MinObservations /\ s.relation \in rs
          /\ s.count = Tally(s.relation) /\ s.count <= UncommonMax
      BY <1>4, <2>1, <3>1, RareSignals
    <3> QED BY <3>2 DEF rs
  <2>3. s.relation[1] = "cross_process"
    BY <2>2 DEF Crossed
  <2> QED BY <1>4, <2>1, <2>2, <2>3, SomeCrossed DEF IsRare
<1> QED BY <1>5, <1>6

(* The least of some numbers is the one there is.                          *)
LEMMA EarliestIsMin ==
  ASSUME NEW s \in Seq(Features), NEW x
  PROVE  /\ Earliest(x, s) => x = Min({s[i].start : i \in DOMAIN s})
         /\ Newest(x, s) => x = Max({s[i].start : i \in DOMAIN s})
<1> DEFINE S == {s[i].start : i \in DOMAIN s}
<1>1. \A y \in S : y \in Int
  BY Learnt
<1>2. Earliest(x, s) => x \in S /\ \A y \in S : x <= y
  BY DEF Earliest
<1>3. Newest(x, s) => x \in S /\ \A y \in S : x >= y
  BY DEF Newest
<1> HIDE DEF S
<1>4. ASSUME x \in S, \A y \in S : x <= y PROVE x = Min(S)
  <2> DEFINE m == CHOOSE z \in S : \A y \in S : z <= y
  <2>1. m \in S /\ \A y \in S : m <= y
    BY <1>4
  <2> HIDE DEF m
  <2>2. x = m
    BY <1>1, <1>4, <2>1
  <2> QED BY <2>2 DEF Min, m
<1>5. ASSUME x \in S, \A y \in S : x >= y PROVE x = Max(S)
  <2> DEFINE m == CHOOSE z \in S : \A y \in S : z >= y
  <2>1. m \in S /\ \A y \in S : m >= y
    BY <1>5
  <2> HIDE DEF m
  <2>2. x = m
    BY <1>1, <1>5, <2>1
  <2> QED BY <2>2 DEF Max, m
<1> QED BY <1>2, <1>3, <1>4, <1>5 DEF S

(* A baseline is always the tally of the starts it was learnt from, an     *)
(* edited one is not loaded while its version says so, and what is reported*)
(* is rare among enough of those starts.                                   *)
THEOREM RarityIsAgainstTheData == RaritySpec => []RaritySound
<1>1. RarityInit => RarityInv
  <2> SUFFICES ASSUME RarityInit PROVE RarityInv
    OBVIOUS
  <2>1. learnt = <<>> /\ Len(learnt) = 0 /\ DOMAIN learnt = {} /\ learnt \in Seq(Features)
    BY DEF RarityInit
  <2>2. DOMAIN Fresh.counts = {} /\ Fresh.counts = [r \in {} |-> 0] /\ Fresh.total = 0
        /\ Fresh.from = None /\ Fresh.to = None
    BY DEF Fresh
  <2>3. Fresh \in Baseline
    <3>1. Fresh.counts \in [{} -> Nat]
      BY <2>2
    <3>2. Fresh.counts \in UNION {[rs -> Nat] : rs \in SUBSET UNION {Relations(f) : f \in Features}}
      BY <3>1
    <3> QED BY <3>2 DEF Fresh, Baseline
  <2>4. Tallied(Fresh)
    BY <2>1, <2>2, <2>3 DEF Tallied
  <2> QED BY <2>1, <2>4 DEF RarityInit, RarityInv
<1>2. RarityInv /\ [RarityNext]_rarityVars => RarityInv'
  <2> SUFFICES ASSUME RarityInv, [RarityNext]_rarityVars PROVE RarityInv'
    OBVIOUS
  <2>1. CASE UNCHANGED rarityVars
    <3>1. \A b : Tallied(b)' = Tallied(b)
      BY <2>1 DEF rarityVars, Tallied, Tally, Earliest, Newest
    <3>2. \A s : IsRare(s)' = IsRare(s)
      BY <2>1 DEF rarityVars, IsRare, Tally
    <3> QED BY <2>1, <3>1, <3>2 DEF rarityVars, RarityInv
  <2>2. CASE RarityNext
    BY <2>2, ObserveKeeps, FileKeeps, EvaluateKeeps DEF RarityNext
  <2> QED BY <2>1, <2>2
<1>3. RarityInv => RaritySound
  <2> SUFFICES ASSUME RarityInv PROVE RaritySound
    OBVIOUS
  <2>1. ASSUME edited # "unversioned", baseline # None PROVE OrderForgotten(baseline)
    <3>1. Tallied(baseline) /\ learnt \in Seq(Features)
      BY <2>1 DEF RarityInv
    <3>2. DOMAIN baseline.counts = UNION {Relations(learnt[i]) : i \in DOMAIN learnt}
      BY <3>1 DEF Tallied
    <3>3. learnt # <<>> => Earliest(baseline.from, learnt) /\ Newest(baseline.to, learnt)
      BY <3>1 DEF Tallied
    <3>4. learnt # <<>> => /\ baseline.from = Min({learnt[i].start : i \in DOMAIN learnt})
                           /\ baseline.to = Max({learnt[i].start : i \in DOMAIN learnt})
      BY <3>1, <3>3, EarliestIsMin
    <3> QED BY <3>1, <3>2, <3>4 DEF Tallied, OrderForgotten
  <2>2. edited = "edited" => baseline = None
    BY DEF RarityInv
  <2>3. edited # "unversioned" => \A s \in signals : IsRare(s)
    BY DEF RarityInv
  <2> QED BY <2>1, <2>2, <2>3 DEF RaritySound, IsRare
<1> QED BY <1>1, <1>2, <1>3, PTL DEF RaritySpec
-----------------------------------------------------------------------------
(* A set of numbers has a least one.                                       *)
LEMMA LeastOf ==
  ASSUME NEW T \in SUBSET Nat, T # {}
  PROVE  \E x \in T : \A y \in T : x <= y
<1>1. PICK x \in T : \A y \in T : ~ (<<y, x>> \in OpToRel(<, Nat))
  BY WFMin, NatLessThanWellFounded
<1>2. ASSUME NEW y \in T PROVE x <= y
  <2>1. ~ (y < x)
    BY <1>1 DEF OpToRel
  <2> QED BY <2>1
<1> QED BY <1>2

(* The places where f is at most v, and those where it is more.            *)
UpTo(f, v) == {i \in DOMAIN f : f[i] <= v}
Beyond(f, v) == {i \in DOMAIN f : f[i] > v}

(* Both are finite.                                                        *)
LEMMA PartsAreFinite ==
  ASSUME NEW D, IsFiniteSet(D), NEW f \in [D -> Nat], NEW v \in Nat
  PROVE  /\ UpTo(f, v) \in SUBSET D /\ Beyond(f, v) \in SUBSET D
         /\ IsFiniteSet(UpTo(f, v)) /\ IsFiniteSet(Beyond(f, v))
         /\ Cardinality(UpTo(f, v)) \in Nat /\ Cardinality(Beyond(f, v)) \in Nat
<1>1. UpTo(f, v) \in SUBSET D /\ Beyond(f, v) \in SUBSET D
  BY DEF UpTo, Beyond
<1>2. IsFiniteSet(UpTo(f, v)) /\ IsFiniteSet(Beyond(f, v))
  BY <1>1, FS_Subset
<1> QED BY <1>1, <1>2, FS_CardinalityType

(* Some value of f is not exceeded.                                        *)
LEMMA SomeGreatest ==
  ASSUME NEW D, IsFiniteSet(D), D # {}, NEW f \in [D -> Nat]
  PROVE  \E i \in D : UpTo(f, f[i]) = D
<1> DEFINE T == {Cardinality(Beyond(f, f[i])) : i \in D}
<1>1. \A i \in D : /\ IsFiniteSet(Beyond(f, f[i])) /\ Cardinality(Beyond(f, f[i])) \in Nat
                   /\ Beyond(f, f[i]) \in SUBSET D
  BY PartsAreFinite
<1>2. T \in SUBSET Nat /\ T # {}
  BY <1>1
<1>3. PICK x \in T : \A y \in T : x <= y
  BY <1>2, LeastOf
<1>4. PICK i \in D : x = Cardinality(Beyond(f, f[i]))
  BY <1>3
<1>5. ASSUME NEW j \in D, f[j] > f[i] PROVE FALSE
  <2> DEFINE S == Beyond(f, f[i])
             R == Beyond(f, f[j])
  <2>1. j \in S /\ j \notin R /\ R \in SUBSET S
    BY <1>5 DEF Beyond
  <2>2. IsFiniteSet(S) /\ Cardinality(S) \in Nat /\ Cardinality(R) \in Nat
    BY <1>1
  <2>3. Cardinality(R) <= Cardinality(S) /\ (Cardinality(S) = Cardinality(R) => S = R)
    BY <2>1, <2>2, FS_Subset
  <2>4. Cardinality(S) <= Cardinality(R)
    BY <1>3, <1>4
  <2> HIDE DEF S, R
  <2> QED BY <2>1, <2>2, <2>3, <2>4
<1> QED BY <1>5 DEF UpTo

(* The k-th smallest value of f is a value of f.                           *)
LEMMA RankedIsThere ==
  ASSUME NEW D, IsFiniteSet(D), NEW f \in [D -> Nat], NEW k \in 1 .. Cardinality(D)
  PROVE  Ranked(f, k) \in Range(f)
<1> DEFINE T == {v \in Nat : k <= Cardinality(UpTo(f, v))}
<1>1. DOMAIN f = D /\ Cardinality(D) \in Nat /\ D # {}
  BY FS_CardinalityType, FS_EmptySet
<1>2. T # {}
  <2>1. PICK i \in D : UpTo(f, f[i]) = D
    BY <1>1, SomeGreatest
  <2> QED BY <1>1, <2>1
<1>3. PICK v \in T : \A y \in T : v <= y
  <2>1. T \in SUBSET Nat
    OBVIOUS
  <2> QED BY <1>2, <2>1, LeastOf
<1> DEFINE S == {i \in D : f[i] < v}
<1>4. v \in Nat /\ k <= Cardinality(UpTo(f, v)) /\ S \in SUBSET UpTo(f, v)
  BY <1>3 DEF UpTo
<1>5. Cardinality(S) < k
  <2>1. CASE v = 0
    <3>1. S = {}
      BY <2>1
    <3> HIDE DEF S
    <3> QED BY <3>1, FS_EmptySet
  <2>2. CASE v # 0
    <3>1. v - 1 \in Nat /\ v - 1 \notin T
      BY <1>3, <1>4, <2>2
    <3>2. S = UpTo(f, v - 1)
      BY <1>4, <2>2 DEF UpTo
    <3>3. Cardinality(UpTo(f, v - 1)) \in Nat
      BY <3>1, PartsAreFinite
    <3> HIDE DEF S
    <3> QED BY <3>1, <3>2, <3>3
  <2> QED BY <2>1, <2>2
<1>6. v \in Range(f)
  <2>1. S # UpTo(f, v)
    <3>1. Cardinality(UpTo(f, v)) \in Nat
      BY <1>4, PartsAreFinite
    <3> HIDE DEF S
    <3> QED BY <1>1, <1>4, <1>5, <3>1
  <2>2. PICK i \in D : i \in UpTo(f, v) /\ i \notin S
    BY <1>4, <2>1, <1>1 DEF UpTo
  <2>3. f[i] = v
    BY <1>4, <2>2 DEF UpTo
  <2> QED BY <1>1, <2>3 DEF Range
<1>7. /\ Cardinality({i \in DOMAIN f : f[i] < v}) < k
      /\ k <= Cardinality({i \in DOMAIN f : f[i] <= v})
  BY <1>1, <1>4, <1>5 DEF UpTo
<1> QED BY <1>6, <1>7 DEF Ranked

(* Twice the median is the sum of two values.                              *)
LEMMA MedianType ==
  ASSUME NEW D, IsFiniteSet(D), D # {}, NEW f \in [D -> Nat]
  PROVE  \E x, y \in Range(f) : TwiceMedian(f) = x + y
<1> DEFINE n == Cardinality(D)
<1>1. n \in Nat /\ n # 0 /\ DOMAIN f = D
  BY FS_CardinalityType, FS_EmptySet
<1>2. (n + 1) \div 2 \in 1 .. n /\ n \div 2 + 1 \in 1 .. n
  BY <1>1
<1>3. Ranked(f, (n + 1) \div 2) \in Range(f) /\ Ranked(f, n \div 2 + 1) \in Range(f)
  BY <1>2, RankedIsThere
<1> QED BY <1>1, <1>3 DEF TwiceMedian

(* The gaps of a series are positive, and finitely many.                   *)
LEMMA GapsType ==
  ASSUME NEW times \in Seq(Nat)
  PROVE  LET D == DOMAIN Gaps(times)
         IN  /\ IsFiniteSet(D) /\ Cardinality(D) \in Nat
             /\ D \in SUBSET (1 .. Len(times) - 1)
             /\ Gaps(times) \in [D -> Nat]
             /\ \A i \in D : Gaps(times)[i] = times[i + 1] - times[i] /\ Gaps(times)[i] > 0
<1> DEFINE D == {i \in 1 .. Len(times) - 1 : times[i + 1] > times[i]}
<1>1. Len(times) \in Nat /\ \A i \in 1 .. Len(times) : times[i] \in Nat
  BY LenProperties, ElementOfSeq
<1>2. DOMAIN Gaps(times) = D /\ Gaps(times) = [i \in D |-> times[i + 1] - times[i]]
  BY DEF Gaps
<1>3. D \in SUBSET (1 .. Len(times) - 1)
  OBVIOUS
<1>4. IsFiniteSet(1 .. Len(times) - 1)
  BY <1>1, FS_Interval
<1>5. IsFiniteSet(D) /\ Cardinality(D) \in Nat
  BY <1>3, <1>4, FS_Subset, FS_CardinalityType
<1>6. \A i \in D : times[i + 1] - times[i] \in Nat /\ times[i + 1] - times[i] > 0
  BY <1>1
<1>7. Gaps(times) \in [D -> Nat]
  BY <1>2, <1>6
<1> QED BY <1>2, <1>3, <1>5, <1>6, <1>7

(* A beacon's gaps keep to one period, which is their median.              *)
LEMMA BeaconHasPeriod ==
  ASSUME NEW times \in Seq(Nat), IsBeacon(times)
  PROVE  OnePeriod(times)
<1> DEFINE gaps == Gaps(times)
           D == DOMAIN gaps
           median == TwiceMedian(gaps)
<1>1. IsFiniteSet(D) /\ Cardinality(D) \in Nat /\ gaps \in [D -> Nat]
  BY GapsType
<1>2. Cardinality(D) >= MinConnections - 1 /\ SteadyGaps(gaps)
  BY DEF IsBeacon
<1>3. D # {}
  <2>1. Cardinality(D) # 0
    BY <1>1, <1>2, BeaconAssumption
  <2> HIDE DEF D
  <2> QED BY <2>1, FS_EmptySet
<1>4. PICK x, y \in Range(gaps) : median = x + y
  BY <1>1, <1>3, MedianType
<1>5. median \in Nat
  BY <1>1, <1>4 DEF Range
<1>6. 2 * MinInterval <= median /\ median <= 2 * MaxInterval
  BY <1>2 DEF SteadyGaps
<1>7. median \in MinInterval .. 2 * MaxInterval
  BY <1>5, <1>6, BeaconAssumption
<1>8. Cardinality({i \in D : AtMost(Abs(2 * gaps[i] - median), median, RegularBand)})
        * MinRegular[2] >= MinRegular[1] * Cardinality(D)
  <2> DEFINE off == [i \in D |-> Abs(2 * gaps[i] - median)]
  <2>1. {i \in D : AtMost(Abs(2 * gaps[i] - median), median, RegularBand)}
          = {i \in D : AtMost(off[i], median, RegularBand)}
    OBVIOUS
  <2>2. Cardinality({i \in D : AtMost(off[i], median, RegularBand)})
          * MinRegular[2] >= MinRegular[1] * Cardinality(D)
    BY <1>2 DEF SteadyGaps
  <2> QED BY <2>1, <2>2
<1> QED BY <1>7, <1>8 DEF OnePeriod

(* A series as regular as can be, long enough and spanning enough.         *)
Perfect(times) ==
  /\ Len(times) >= MinConnections /\ Last(times) - Head(times) >= MinSpan
  /\ times[2] - times[1] \in MinInterval .. MaxInterval
  /\ \A i \in 1 .. Len(times) - 1 : times[i + 1] - times[i] = times[2] - times[1]

(* It is a beacon.                                                         *)
LEMMA PerfectIsBeacon ==
  ASSUME NEW times \in Seq(Nat), Perfect(times)
  PROVE  IsBeacon(times)
<1> DEFINE gaps == Gaps(times)
           D == 1 .. Len(times) - 1
           step == times[2] - times[1]
           median == TwiceMedian(gaps)
           off == [i \in DOMAIN gaps |-> Abs(2 * gaps[i] - median)]
           regular == {i \in DOMAIN gaps : AtMost(off[i], median, RegularBand)}
<1>1. /\ Len(times) \in Nat /\ Len(times) >= MinConnections /\ Len(times) - 1 >= 1
      /\ step \in Nat /\ step > 0 /\ MinInterval <= step /\ step <= MaxInterval
      /\ Len(times) \in Int /\ Len(times) - 1 \in Int
  <2>1. Len(times) \in Nat
    BY LenProperties
  <2>2. Len(times) >= MinConnections /\ step \in MinInterval .. MaxInterval
    BY DEF Perfect
  <2> HIDE DEF step
  <2> QED BY <2>1, <2>2, BeaconAssumption
<1>2. \A i \in D : times[i + 1] - times[i] = step
  BY DEF Perfect
<1>3. \A i \in D : times[i + 1] > times[i]
  <2>1. \A i \in D : times[i + 1] \in Nat /\ times[i] \in Nat
    BY <1>1, ElementOfSeq
  <2> HIDE DEF step
  <2> QED BY <1>1, <1>2, <2>1
<1>4. gaps = [i \in D |-> step] /\ DOMAIN gaps = D
  BY <1>2, <1>3 DEF Gaps
<1>5. IsFiniteSet(D) /\ Cardinality(D) = Len(times) - 1 /\ 1 \in D /\ D # {}
  <2> DEFINE n == Len(times) - 1
  <2>1. n \in Int /\ n >= 1
    BY <1>1
  <2> HIDE DEF n
  <2>2. IsFiniteSet(1 .. n) /\ Cardinality(1 .. n) = n /\ 1 \in 1 .. n
    BY <2>1, FS_Interval
  <2> QED BY <2>2 DEF n
<1> HIDE DEF step, D, gaps
<1>6. median = 2 * step
  <2>1. gaps \in [D -> Nat] /\ Range(gaps) = {step}
    BY <1>1, <1>4, <1>5 DEF Range
  <2>2. PICK x, y \in Range(gaps) : median = x + y
    BY <1>5, <2>1, MedianType
  <2> QED BY <1>1, <2>1, <2>2
<1> HIDE DEF median
<1>7. off = [i \in D |-> 0] /\ off \in [D -> Nat]
  <2>1. \A i \in D : Abs(2 * gaps[i] - median) = 0
    BY <1>1, <1>4, <1>6 DEF Abs
  <2> QED BY <1>4, <2>1
<1>8. TwiceMedian(off) = 0
  <2>1. Range(off) = {0}
    BY <1>5, <1>7 DEF Range
  <2>2. PICK x, y \in Range(off) : TwiceMedian(off) = x + y
    BY <1>5, <1>7, MedianType
  <2> QED BY <2>1, <2>2
<1>9. \A ratio \in {MaxDispersion, RegularBand}, n \in Nat : AtMost(0, n, ratio)
  <2> SUFFICES ASSUME NEW ratio \in {MaxDispersion, RegularBand}, NEW n \in Nat PROVE AtMost(0, n, ratio)
    OBVIOUS
  <2>1. ratio[1] \in Nat /\ ratio[2] \in Nat
    BY BeaconAssumption
  <2>2. \A a, b, c \in Nat : 0 * b <= c * a
    OBVIOUS
  <2> QED BY <2>1, <2>2 DEF AtMost
<1>10. median \in Nat /\ 2 * median \in Nat
  BY <1>1, <1>6
<1>11. AtMost(TwiceMedian(off), 2 * median, MaxDispersion)
  BY <1>8, <1>9, <1>10
<1>12. regular = D
  BY <1>4, <1>7, <1>9, <1>10
<1>13. Cardinality(D) * MinRegular[2] >= MinRegular[1] * Cardinality(D)
  <2>1. MinRegular[1] \in Nat /\ MinRegular[2] \in Nat /\ MinRegular[1] <= MinRegular[2]
    BY BeaconAssumption
  <2>2. \A a, b, c \in Nat : b <= c => a * c >= b * a
    OBVIOUS
  <2>3. Cardinality(D) \in Nat
    BY <1>1, <1>5
  <2> QED BY <2>1, <2>2, <2>3
<1>14. 2 * MinInterval <= median /\ median <= 2 * MaxInterval
  BY <1>1, <1>6, BeaconAssumption
<1>15. SteadyGaps(gaps)
  BY <1>4, <1>11, <1>12, <1>13, <1>14 DEF SteadyGaps, median
<1>16. Cardinality(DOMAIN gaps) >= MinConnections - 1
  BY <1>1, <1>4, <1>5, BeaconAssumption
<1> QED BY <1>15, <1>16 DEF gaps, IsBeacon, Perfect
-----------------------------------------------------------------------------
(* A connection kept, and an alert.                                        *)
Connection == [ts : Nat, nth : Nat]
BeaconAlert == [key : Keys, at : Nat, series : Seq(Connection), latched : BOOLEAN]

(* The state of the detector is of its types.                              *)
BeaconTypes ==
  /\ connection_history \in [Keys -> Seq(Connection)]
  /\ alerted_beacons \in [Keys -> Nat \cup {-1}]
  /\ kept \in Nat
  /\ alerts \in Seq(BeaconAlert)

(* A connection is kept in one place: the history of its key, or an alert. *)
KeptOnce ==
  /\ \A k \in Keys : \A c \in Range(connection_history[k]) : c.nth <= kept
  /\ \A i \in DOMAIN alerts : \A c \in Range(alerts[i].series) : c.nth <= kept
  /\ \A k, l \in Keys : k # l => Range(connection_history[k]) \cap Range(connection_history[l]) = {}
  /\ \A k \in Keys, i \in DOMAIN alerts : Range(connection_history[k]) \cap Range(alerts[i].series) = {}
  /\ SeriesDisjoint

(* The latch of a key is no older than the alerts it stands for.           *)
LatchCovers ==
  \A i \in DOMAIN alerts : alerts[i].latched => alerted_beacons[alerts[i].key] >= alerts[i].at

(* Every alert rests on one period.                                        *)
Regular == \A i \in DOMAIN alerts : OnePeriod(Times(alerts[i].series))

(* What every step of the detector keeps.                                  *)
BeaconInv == BeaconTypes /\ KeptOnce /\ LatchCovers /\ Regular /\ AlertsSpaced /\ NoQuietBeacon

(* The times of a series.                                                  *)
LEMMA TimesType ==
  ASSUME NEW s \in Seq(Connection)
  PROVE  Times(s) \in Seq(Nat) /\ Len(Times(s)) = Len(s)
<1> DEFINE n == Len(s)
<1>1. n \in Nat /\ DOMAIN s = 1 .. n
  BY LenProperties
<1>2. \A i \in 1 .. n : s[i] \in Connection
  BY ElementOfSeq
<1>3. \A i \in 1 .. n : s[i].ts \in Nat
  BY <1>2 DEF Connection
<1>4. Times(s) = [i \in 1 .. n |-> s[i].ts]
  BY <1>1 DEF Times
<1> HIDE DEF n
<1>5. [i \in 1 .. n |-> s[i].ts] \in Seq(Nat)
  BY <1>1, <1>3, IsASeq
<1>6. DOMAIN Times(s) = 1 .. n /\ Times(s) \in Seq(Nat)
  BY <1>4, <1>5
<1>7. Len(Times(s)) = n
  BY <1>1, <1>6, LenProperties
<1> QED BY <1>6, <1>7 DEF n

(* No history is perfect.                                                  *)
LEMMA QuietIsImperfect ==
  NoQuietBeacon <=> \A k \in Keys : ~ Perfect(Times(connection_history[k]))
BY DEF NoQuietBeacon, Perfect

(* A series with a connection more, perhaps without its oldest.            *)
LEMMA AppendedType ==
  ASSUME NEW s \in Seq(Connection), NEW c \in Connection
  PROVE  Appended(s, c) \in Seq(Connection) /\ Range(Appended(s, c)) \subseteq Range(s) \cup {c}
<1>1. ASSUME NEW t \in Seq(Connection), Range(t) \subseteq Range(s)
      PROVE  Append(t, c) \in Seq(Connection) /\ Range(Append(t, c)) \subseteq Range(s) \cup {c}
  <2>1. /\ Append(t, c) \in Seq(Connection) /\ Len(t) \in Nat
        /\ DOMAIN Append(t, c) = 1 .. Len(t) + 1 /\ DOMAIN t = 1 .. Len(t)
        /\ \A i \in 1 .. Len(t) : Append(t, c)[i] = t[i]
        /\ Append(t, c)[Len(t) + 1] = c
    BY AppendProperties, LenProperties
  <2>2. \A i \in DOMAIN Append(t, c) : Append(t, c)[i] = c \/ (i \in DOMAIN t /\ Append(t, c)[i] = t[i])
    BY <2>1
  <2>3. Range(Append(t, c)) \subseteq Range(t) \cup {c}
    BY <2>2 DEF Range
  <2> QED BY <1>1, <2>1, <2>3
<1>2. CASE Len(s) = History
  <2>1. s # <<>>
    BY <1>2, BeaconAssumption, EmptySeq
  <2>2. /\ Tail(s) \in Seq(Connection) /\ Len(s) \in Nat /\ Len(Tail(s)) = Len(s) - 1
        /\ \A i \in 1 .. Len(Tail(s)) : Tail(s)[i] = s[i + 1]
        /\ DOMAIN Tail(s) = 1 .. Len(Tail(s)) /\ DOMAIN s = 1 .. Len(s)
    BY <2>1, HeadTailProperties, LenProperties
  <2>3. Range(Tail(s)) \subseteq Range(s)
    BY <2>2 DEF Range
  <2> QED BY <1>1, <1>2, <2>2, <2>3 DEF Appended
<1>3. CASE Len(s) # History
  BY <1>1, <1>3 DEF Appended
<1> QED BY <1>2, <1>3

(* Pruning drops whole histories and latches, and keeps what is sound.     *)
LEMMA PruneKeeps ==
  ASSUME BeaconInv, NEW before \in 1 .. MaxBeaconTime, PruneBeacons(before)
  PROVE  BeaconInv'
<1>1. /\ before \in Nat /\ Len(alerts) \in Nat /\ DOMAIN alerts = 1 .. Len(alerts)
      /\ \A i \in DOMAIN alerts : alerts[i] \in BeaconAlert
  BY BeaconAssumption, LenProperties, ElementOfSeq DEF BeaconInv, BeaconTypes
<1>2. /\ DOMAIN alerts' = DOMAIN alerts
      /\ \A i \in DOMAIN alerts :
           /\ alerts'[i] \in BeaconAlert
           /\ alerts'[i].key = alerts[i].key /\ alerts'[i].at = alerts[i].at
           /\ alerts'[i].series = alerts[i].series
           /\ alerts'[i].latched = (alerts[i].latched /\ alerts[i].at >= before)
  BY <1>1 DEF PruneBeacons, BeaconAlert
<1>3. alerts' \in Seq(BeaconAlert)
  <2> DEFINE n == Len(alerts)
             e == [i \in 1 .. n |-> [alerts[i] EXCEPT !.latched = @ /\ alerts[i].at >= before]]
  <2>1. alerts' = e
    BY <1>1 DEF PruneBeacons
  <2>2. \A i \in 1 .. n : e[i] \in BeaconAlert
    BY <1>1, <1>2, <2>1
  <2>3. n \in Nat /\ e = [i \in 1 .. n |-> e[i]]
    BY <1>1
  <2> HIDE DEF n, e
  <2>4. [i \in 1 .. n |-> e[i]] \in Seq(BeaconAlert)
    BY <2>2, <2>3, IsASeq
  <2> QED BY <2>1, <2>3, <2>4
<1>4. \A k \in Keys : connection_history'[k] \in {<<>>, connection_history[k]}
  BY DEF PruneBeacons
<1>5. \A k \in Keys : /\ alerted_beacons'[k] \in Nat \cup {-1}
                      /\ alerted_beacons[k] >= before => alerted_beacons'[k] = alerted_beacons[k]
  BY <1>1 DEF PruneBeacons, BeaconInv, BeaconTypes
<1>6. BeaconTypes'
  BY <1>3, <1>4, <1>5 DEF PruneBeacons, BeaconInv, BeaconTypes
<1>7. Range(<<>>) = {}
  BY DEF Range
<1>8. KeptOnce'
  <2>1. \A k \in Keys : Range(connection_history'[k]) \subseteq Range(connection_history[k])
    BY <1>4, <1>7
  <2>2. kept' = kept
    BY DEF PruneBeacons
  <2> QED BY <1>2, <2>1, <2>2 DEF BeaconInv, KeptOnce, SeriesDisjoint
<1>9. LatchCovers'
  <2> SUFFICES ASSUME NEW i \in DOMAIN alerts, alerts'[i].latched
               PROVE  alerted_beacons'[alerts[i].key] >= alerts[i].at
    BY <1>2 DEF LatchCovers
  <2>1. alerts[i].latched /\ alerts[i].at >= before /\ alerts[i].key \in Keys /\ alerts[i].at \in Nat
    BY <1>1, <1>2 DEF BeaconAlert
  <2>2. alerted_beacons[alerts[i].key] >= alerts[i].at
    BY <2>1 DEF BeaconInv, LatchCovers
  <2>3. alerted_beacons[alerts[i].key] \in Int
    BY <2>1 DEF BeaconInv, BeaconTypes
  <2> QED BY <1>1, <1>5, <2>1, <2>2, <2>3
<1>10. Regular'
  BY <1>2 DEF BeaconInv, Regular
<1>11. AlertsSpaced'
  BY <1>2 DEF BeaconInv, AlertsSpaced
<1>12. NoQuietBeacon'
  <2>1. ~ Perfect(Times(<<>>))
    <3>1. Len(Times(<<>>)) = 0
      BY DEF Times
    <3> QED BY <3>1, BeaconAssumption DEF Perfect
  <2>2. \A k \in Keys : ~ Perfect(Times(connection_history'[k]))
    BY <1>4, <2>1, QuietIsImperfect DEF BeaconInv
  <2> QED BY <2>2 DEF NoQuietBeacon, Perfect
<1> QED BY <1>6, <1>8, <1>9, <1>10, <1>11, <1>12 DEF BeaconInv

(* A perfect history would need connections.                               *)
LEMMA NothingIsImperfect == ~ Perfect(Times(<<>>))
<1>1. Len(Times(<<>>)) = 0
  BY DEF Times
<1> QED BY <1>1, BeaconAssumption DEF Perfect

(* A connection kept disturbs no latch, and fires when it makes a beacon.  *)
LEMMA IngestKeeps ==
  ASSUME BeaconInv, NEW k \in Keys, NEW now \in 0 .. MaxBeaconTime, IngestConnection(k, now)
  PROVE  BeaconInv'
<1> DEFINE c == [ts |-> now, nth |-> kept + 1]
           s == Appended(connection_history[k], c)
           a == [key |-> k, at |-> now, series |-> s, latched |-> TRUE]
           n == Len(alerts)
<1>1. /\ now \in Nat /\ n \in Nat /\ DOMAIN alerts = 1 .. n /\ kept \in Nat
      /\ \A i \in DOMAIN alerts : alerts[i] \in BeaconAlert
  BY BeaconAssumption, LenProperties, ElementOfSeq DEF BeaconInv, BeaconTypes
<1>2. kept' = kept + 1 /\ ~ Latched(k, now)
  BY DEF IngestConnection
<1>3. \/ IsBeacon(Times(s)) /\ Fire(k, now, s)
      \/ /\ ~ IsBeacon(Times(s))
         /\ connection_history' = [connection_history EXCEPT ![k] = s]
         /\ UNCHANGED <<alerted_beacons, alerts>>
  BY DEF IngestConnection
<1>4. c \in Connection /\ c.nth = kept + 1
  BY <1>1 DEF Connection
<1>5. connection_history[k] \in Seq(Connection) /\ connection_history \in [Keys -> Seq(Connection)]
  BY DEF BeaconInv, BeaconTypes
<1> HIDE DEF c
<1>6. s \in Seq(Connection) /\ Range(s) \subseteq Range(connection_history[k]) \cup {c}
  BY <1>4, <1>5, AppendedType
<1>7. Times(s) \in Seq(Nat)
  BY <1>6, TimesType
<1>8. /\ \A l \in Keys : c \notin Range(connection_history[l])
      /\ \A i \in DOMAIN alerts : c \notin Range(alerts[i].series)
  <2>1. ~ (c.nth <= kept)
    BY <1>1, <1>4
  <2> QED BY <2>1 DEF BeaconInv, KeptOnce
<1>9. /\ \A l \in Keys : \A d \in Range(connection_history[l]) : d.nth <= kept + 1
      /\ \A i \in DOMAIN alerts : \A d \in Range(alerts[i].series) : d.nth <= kept + 1
      /\ \A d \in Range(s) : d.nth <= kept + 1
  <2>1. \A l \in Keys : \A d \in Range(connection_history[l]) : d.nth \in Nat
    <3> SUFFICES ASSUME NEW l \in Keys, NEW d \in Range(connection_history[l]) PROVE d.nth \in Nat
      OBVIOUS
    <3>1. connection_history[l] \in Seq(Connection)
      BY <1>5
    <3>2. d \in Connection
      BY <3>1, ElementOfSeq, LenProperties DEF Range
    <3> QED BY <3>2 DEF Connection
  <2>2. \A i \in DOMAIN alerts : \A d \in Range(alerts[i].series) : d.nth \in Nat
    <3> SUFFICES ASSUME NEW i \in DOMAIN alerts, NEW d \in Range(alerts[i].series) PROVE d.nth \in Nat
      OBVIOUS
    <3>1. alerts[i].series \in Seq(Connection)
      BY <1>1 DEF BeaconAlert
    <3>2. d \in Connection
      BY <3>1, ElementOfSeq, LenProperties DEF Range
    <3> QED BY <3>2 DEF Connection
  <2>3. \A m \in Nat : m <= kept => m <= kept + 1
    BY <1>1
  <2>4. /\ \A l \in Keys : \A d \in Range(connection_history[l]) : d.nth <= kept + 1
        /\ \A i \in DOMAIN alerts : \A d \in Range(alerts[i].series) : d.nth <= kept + 1
    BY <2>1, <2>2, <2>3 DEF BeaconInv, KeptOnce
  <2>5. c.nth <= kept + 1
    BY <1>1, <1>4
  <2> QED BY <1>6, <2>4, <2>5
<1>10. \A i \in DOMAIN alerts : Range(s) \cap Range(alerts[i].series) = {}
  BY <1>6, <1>8 DEF BeaconInv, KeptOnce
<1>11. \A l \in Keys \ {k} : Range(s) \cap Range(connection_history[l]) = {}
  BY <1>6, <1>8 DEF BeaconInv, KeptOnce
<1>12. Range(<<>>) = {}
  BY DEF Range
<1> HIDE DEF s
<1>13. CASE IsBeacon(Times(s)) /\ Fire(k, now, s)
  <2>1. /\ alerted_beacons' = [alerted_beacons EXCEPT ![k] = now]
        /\ connection_history' = [connection_history EXCEPT ![k] = <<>>]
        /\ alerts' = Append(alerts, a)
    BY <1>13 DEF Fire
  <2>2. a \in BeaconAlert /\ a.key = k /\ a.at = now /\ a.series = s /\ a.latched = TRUE
    BY <1>1, <1>6 DEF BeaconAlert
  <2> HIDE DEF a
  <2>3. alerts \in Seq(BeaconAlert)
    BY DEF BeaconInv, BeaconTypes
  <2>4. /\ alerts' \in Seq(BeaconAlert) /\ DOMAIN alerts' = 1 .. n + 1
        /\ \A i \in 1 .. n : alerts'[i] = alerts[i]
        /\ alerts'[n + 1] = a
    BY <2>1, <2>2, <2>3, AppendProperties, LenProperties
  <2>5. \A i \in DOMAIN alerts' : i = n + 1 \/ (i \in DOMAIN alerts /\ i < n + 1)
    BY <1>1, <2>4
  <2>6. alerted_beacons \in [Keys -> Nat \cup {-1}]
    BY DEF BeaconInv, BeaconTypes
  <2>7. \A l \in Keys : /\ connection_history'[l] = IF l = k THEN <<>> ELSE connection_history[l]
                        /\ alerted_beacons'[l] = IF l = k THEN now ELSE alerted_beacons[l]
    BY <1>5, <2>1, <2>6
  <2>8. BeaconTypes'
    <3>1. connection_history' \in [Keys -> Seq(Connection)]
      BY <1>5, <2>1, EmptySeq
    <3>2. alerted_beacons' \in [Keys -> Nat \cup {-1}]
      BY <1>1, <2>1, <2>6
    <3> QED BY <1>1, <1>2, <2>4, <3>1, <3>2 DEF BeaconTypes
  <2>9. KeptOnce'
    <3>1. \A l \in Keys : Range(connection_history'[l]) \subseteq Range(connection_history[l])
      BY <1>12, <2>7
    <3>2. \A l \in Keys : \A d \in Range(connection_history'[l]) : d.nth <= kept'
      BY <1>2, <1>9, <3>1
    <3>3. \A i \in DOMAIN alerts' : \A d \in Range(alerts'[i].series) : d.nth <= kept'
      BY <1>1, <1>2, <1>9, <2>2, <2>4, <2>5
    <3>4. \A l, m \in Keys : l # m => Range(connection_history'[l]) \cap Range(connection_history'[m]) = {}
      BY <3>1 DEF BeaconInv, KeptOnce
    <3>5. \A l \in Keys : Range(connection_history'[l]) \cap Range(s) = {}
      BY <1>11, <1>12, <2>7
    <3>6. \A l \in Keys, i \in DOMAIN alerts' : Range(connection_history'[l]) \cap Range(alerts'[i].series) = {}
      <4> SUFFICES ASSUME NEW l \in Keys, NEW i \in DOMAIN alerts'
                   PROVE  Range(connection_history'[l]) \cap Range(alerts'[i].series) = {}
        OBVIOUS
      <4>1. CASE i = n + 1
        BY <2>2, <2>4, <3>5, <4>1
      <4>2. CASE i # n + 1
        <5>1. i \in DOMAIN alerts /\ alerts'[i] = alerts[i]
          BY <1>1, <2>4, <2>5, <4>2
        <5>2. Range(connection_history[l]) \cap Range(alerts[i].series) = {}
          BY <5>1 DEF BeaconInv, KeptOnce
        <5> QED BY <3>1, <5>1, <5>2
      <4> QED BY <4>1, <4>2
    <3>7. SeriesDisjoint'
      <4> SUFFICES ASSUME NEW i \in DOMAIN alerts', NEW j \in DOMAIN alerts', i # j
                   PROVE  Range(alerts'[i].series) \cap Range(alerts'[j].series) = {}
        BY DEF SeriesDisjoint
      <4>1. CASE i = n + 1
        <5>1. j \in DOMAIN alerts /\ alerts'[j] = alerts[j] /\ alerts'[i].series = s
          BY <1>1, <2>2, <2>4, <2>5, <4>1
        <5> QED BY <1>10, <5>1
      <4>2. CASE j = n + 1
        <5>1. i \in DOMAIN alerts /\ alerts'[i] = alerts[i] /\ alerts'[j].series = s
          BY <1>1, <2>2, <2>4, <2>5, <4>2
        <5> QED BY <1>10, <5>1
      <4>3. CASE i # n + 1 /\ j # n + 1
        <5>1. i \in DOMAIN alerts /\ alerts'[i] = alerts[i] /\ j \in DOMAIN alerts /\ alerts'[j] = alerts[j]
          BY <1>1, <2>4, <2>5, <4>3
        <5> QED BY <5>1 DEF BeaconInv, KeptOnce, SeriesDisjoint
      <4> QED BY <4>1, <4>2, <4>3
    <3> QED BY <3>2, <3>3, <3>4, <3>6, <3>7 DEF KeptOnce
  <2>10. \A i \in DOMAIN alerts : alerts[i].latched /\ alerts[i].key = k => now - alerts[i].at >= LatchTtl
    <3> SUFFICES ASSUME NEW i \in DOMAIN alerts, alerts[i].latched, alerts[i].key = k
                 PROVE  now - alerts[i].at >= LatchTtl
      OBVIOUS
    <3>1. alerted_beacons[k] >= alerts[i].at /\ alerts[i].at \in Nat /\ alerted_beacons[k] \in Int
      BY <1>1, <2>6 DEF BeaconInv, LatchCovers, BeaconAlert
    <3>2. LatchTtl \in Nat
      BY BeaconAssumption
    <3>3. ~ (now - alerted_beacons[k] < LatchTtl)
      BY <1>2, <3>1 DEF Latched
    <3> QED BY <1>1, <3>1, <3>2, <3>3
  <2>11. LatchCovers'
    <3> SUFFICES ASSUME NEW i \in DOMAIN alerts', alerts'[i].latched
                 PROVE  alerted_beacons'[alerts'[i].key] >= alerts'[i].at
      BY DEF LatchCovers
    <3>1. CASE i = n + 1
      BY <1>1, <2>2, <2>4, <2>7, <3>1
    <3>2. CASE i # n + 1
      <4>1. i \in DOMAIN alerts /\ alerts'[i] = alerts[i]
        BY <1>1, <2>4, <2>5, <3>2
      <4>2. alerts[i].key \in Keys /\ alerts[i].at \in Nat
        BY <1>1, <4>1 DEF BeaconAlert
      <4>3. CASE alerts[i].key = k
        <5>1. now - alerts[i].at >= LatchTtl /\ LatchTtl \in Nat
          BY <2>10, <4>1, <4>3, BeaconAssumption
        <5> QED BY <1>1, <2>7, <4>1, <4>2, <4>3, <5>1
      <4>4. CASE alerts[i].key # k
        BY <2>7, <4>1, <4>2, <4>4 DEF BeaconInv, LatchCovers
      <4> QED BY <4>3, <4>4
    <3> QED BY <3>1, <3>2
  <2>12. Regular'
    <3>1. OnePeriod(Times(s))
      BY <1>7, <1>13, BeaconHasPeriod
    <3> QED BY <1>1, <2>2, <2>4, <2>5, <3>1 DEF BeaconInv, Regular
  <2>13. AlertsSpaced'
    <3> SUFFICES ASSUME NEW i \in DOMAIN alerts', NEW j \in DOMAIN alerts',
                        i < j, alerts'[i].key = alerts'[j].key, alerts'[i].latched
                 PROVE  alerts'[j].at - alerts'[i].at >= LatchTtl
      BY DEF AlertsSpaced
    <3>1. i \in DOMAIN alerts /\ alerts'[i] = alerts[i]
      BY <1>1, <2>4
    <3>2. CASE j = n + 1
      BY <2>2, <2>4, <2>10, <3>1, <3>2
    <3>3. CASE j # n + 1
      <4>1. j \in DOMAIN alerts /\ alerts'[j] = alerts[j]
        BY <1>1, <2>4, <2>5, <3>3
      <4> QED BY <3>1, <4>1 DEF BeaconInv, AlertsSpaced
    <3> QED BY <3>2, <3>3
  <2>14. NoQuietBeacon'
    <3>1. \A l \in Keys : ~ Perfect(Times(connection_history'[l]))
      BY <2>7, NothingIsImperfect, QuietIsImperfect DEF BeaconInv
    <3> QED BY <3>1 DEF NoQuietBeacon, Perfect
  <2> QED BY <2>8, <2>9, <2>11, <2>12, <2>13, <2>14 DEF BeaconInv
<1>14. CASE /\ ~ IsBeacon(Times(s))
            /\ connection_history' = [connection_history EXCEPT ![k] = s]
            /\ UNCHANGED <<alerted_beacons, alerts>>
  <2>1. alerted_beacons' = alerted_beacons /\ alerts' = alerts
    BY <1>14
  <2>2. \A l \in Keys : connection_history'[l] = IF l = k THEN s ELSE connection_history[l]
    BY <1>5, <1>14
  <2>3. connection_history' \in [Keys -> Seq(Connection)]
    BY <1>5, <1>6, <1>14
  <2>4. BeaconTypes'
    BY <1>1, <1>2, <2>1, <2>3 DEF BeaconInv, BeaconTypes
  <2>5. KeptOnce'
    <3>1. \A l \in Keys : \A d \in Range(connection_history'[l]) : d.nth <= kept'
      BY <1>2, <1>9, <2>2
    <3>2. \A i \in DOMAIN alerts' : \A d \in Range(alerts'[i].series) : d.nth <= kept'
      BY <1>2, <1>9, <2>1
    <3>3. \A l, m \in Keys : l # m => Range(connection_history'[l]) \cap Range(connection_history'[m]) = {}
      BY <1>11, <2>2 DEF BeaconInv, KeptOnce
    <3>4. \A l \in Keys, i \in DOMAIN alerts' : Range(connection_history'[l]) \cap Range(alerts'[i].series) = {}
      BY <1>10, <2>1, <2>2 DEF BeaconInv, KeptOnce
    <3>5. SeriesDisjoint'
      BY <2>1 DEF BeaconInv, KeptOnce, SeriesDisjoint
    <3> QED BY <3>1, <3>2, <3>3, <3>4, <3>5 DEF KeptOnce
  <2>6. LatchCovers' /\ Regular' /\ AlertsSpaced'
    BY <2>1 DEF BeaconInv, LatchCovers, Regular, AlertsSpaced
  <2>7. NoQuietBeacon'
    <3>1. ~ Perfect(Times(s))
      BY <1>7, <1>14, PerfectIsBeacon
    <3>2. \A l \in Keys : ~ Perfect(Times(connection_history'[l]))
      BY <2>2, <3>1, QuietIsImperfect DEF BeaconInv
    <3> QED BY <3>2 DEF NoQuietBeacon, Perfect
  <2> QED BY <2>4, <2>5, <2>6, <2>7 DEF BeaconInv
<1> QED BY <1>3, <1>13, <1>14

(* Nothing is kept at first.                                               *)
LEMMA BeaconStarts == ASSUME BeaconInit PROVE BeaconInv
<1>1. DOMAIN << >> = {}
  OBVIOUS
<1>2. Range(<<>>) = {}
  BY DEF Range
<1>3. BeaconTypes
  BY EmptySeq DEF BeaconInit, BeaconTypes
<1>4. KeptOnce /\ LatchCovers /\ Regular /\ AlertsSpaced
  BY <1>1, <1>2 DEF BeaconInit, KeptOnce, SeriesDisjoint, LatchCovers, Regular, AlertsSpaced
<1>5. \A k \in Keys : ~ Perfect(Times(connection_history[k]))
  BY NothingIsImperfect DEF BeaconInit
<1> QED BY <1>3, <1>4, <1>5, QuietIsImperfect DEF BeaconInv

(* What the beacon detector owes its reader, for every threshold, band and *)
(* number of keys: an alert rests on one regular period and on connections *)
(* of its own, alerts of one key keep the latch's distance, and no perfect *)
(* series is held in silence (beacon.py:95-162).                           *)
THEOREM BeaconsAreEarned == BeaconSpec => []BeaconsSound
<1>1. BeaconInit => BeaconInv
  BY BeaconStarts
<1>2. BeaconInv /\ [BeaconNext]_beaconVars => BeaconInv'
  <2>1. ASSUME BeaconInv, UNCHANGED beaconVars PROVE BeaconInv'
    <3>1. /\ connection_history' = connection_history /\ alerted_beacons' = alerted_beacons
          /\ kept' = kept /\ alerts' = alerts
      BY <2>1 DEF beaconVars
    <3> QED BY <2>1, <3>1 DEF BeaconInv, BeaconTypes, KeptOnce, SeriesDisjoint, LatchCovers,
                             Regular, AlertsSpaced, NoQuietBeacon
  <2> QED BY <2>1, IngestKeeps, PruneKeeps DEF BeaconNext
<1>3. BeaconInv => BeaconsSound
  BY DEF BeaconInv, Regular, KeptOnce, BeaconsSound
<1> QED BY <1>1, <1>2, <1>3, PTL DEF BeaconSpec
-----------------------------------------------------------------------------
(* f is on each x, as far as they are of less height than n, what G makes   *)
(* of f on what is below x.                                                *)
Recurs(f, G, X, below) == \A x \in X : f[x] = G[x][[y \in below[x] |-> f[y]]]

(* A function may recur to what is of less height.                         *)
LEMMA Recursion ==
  ASSUME NEW X, NEW height \in [X -> Nat], NEW below \in [X -> SUBSET X],
         \A x \in X : \A y \in below[x] : height[y] < height[x],
         NEW bound \in Nat, \A x \in X : height[x] < bound,
         NEW V, NEW G, \A x \in X : \A g \in [below[x] -> V] : G[x][g] \in V
  PROVE  \E f \in [X -> V] : Recurs(f, G, X, below)
<1> DEFINE Low(n) == {x \in X : height[x] < n}
           T == {n \in Nat : ~ \E f \in [Low(n) -> V] : Recurs(f, G, Low(n), below)}
<1>1. T = {}
  <2> SUFFICES ASSUME T # {} PROVE FALSE
    OBVIOUS
  <2>1. PICK n \in T : \A m \in T : n <= m
    <3>1. T \in SUBSET Nat
      OBVIOUS
    <3> QED BY <3>1, LeastOf
  <2>2. n # 0
    <3>1. Low(0) = {}
      OBVIOUS
    <3>2. <<>> \in [Low(0) -> V] /\ Recurs(<<>>, G, Low(0), below)
      BY <3>1 DEF Recurs
    <3> QED BY <2>1, <3>2
  <2>3. n - 1 \in Nat /\ n - 1 \notin T
    <3>1. T \in SUBSET Nat
      OBVIOUS
    <3> HIDE DEF T
    <3>2. n \in Nat /\ n - 1 \in Nat /\ ~ (n <= n - 1)
      BY <2>1, <2>2, <3>1
    <3> QED BY <2>1, <3>2
  <2>4. PICK f \in [Low(n - 1) -> V] : Recurs(f, G, Low(n - 1), below)
    BY <2>3
  <2> DEFINE g == [x \in Low(n) |-> G[x][[y \in below[x] |-> f[y]]]]
  <2>5. \A x \in Low(n) : below[x] \subseteq Low(n - 1)
    BY <2>3
  <2>6. Low(n - 1) \subseteq Low(n) /\ Low(n) \subseteq X
    BY <2>3
  <2>7. \A x \in Low(n) : [y \in below[x] |-> f[y]] \in [below[x] -> V]
    BY <2>4, <2>5
  <2>8. g \in [Low(n) -> V]
    BY <2>6, <2>7
  <2>9. \A x \in Low(n - 1) : g[x] = f[x]
    BY <2>4, <2>6 DEF Recurs
  <2>10. \A x \in Low(n) : [y \in below[x] |-> g[y]] = [y \in below[x] |-> f[y]]
    BY <2>5, <2>9
  <2>11. Recurs(g, G, Low(n), below)
    BY <2>10 DEF Recurs
  <2> QED BY <2>1, <2>8, <2>11
<1>2. Low(bound) = X
  OBVIOUS
<1>3. PICK f \in [Low(bound) -> V] : Recurs(f, G, Low(bound), below)
  BY <1>1
<1> QED BY <1>2, <1>3

LEMMA GreatestIs ==
  ASSUME NEW T \in SUBSET Int, NEW x \in T, \A y \in T : y <= x
  PROVE  Max(T) = x
<1>1. \A y \in T : (\A z \in T : y >= z) => y = x
  <2> SUFFICES ASSUME NEW y \in T, \A z \in T : y >= z PROVE y = x
    OBVIOUS
  <2>1. x \in Int /\ y \in Int
    OBVIOUS
  <2>2. y >= x /\ y <= x
    OBVIOUS
  <2> QED BY <2>1, <2>2
<1>2. \A z \in T : x >= z
  <2> TAKE z \in T
  <2>1. x \in Int /\ z \in Int
    OBVIOUS
  <2> QED BY <2>1
<1> QED BY <1>1, <1>2 DEF Max

(* A finite set of numbers has a greatest one.                             *)
LEMMA GreatestOf ==
  ASSUME NEW T \in SUBSET Int, IsFiniteSet(T), T # {}
  PROVE  Max(T) \in T /\ \A y \in T : y <= Max(T)
<1> DEFINE Over(x) == {y \in T : y > x}
           C == {Cardinality(Over(x)) : x \in T}
<1>1. \A x \in T : Over(x) \in SUBSET T /\ IsFiniteSet(Over(x)) /\ Cardinality(Over(x)) \in Nat
  <2> TAKE x \in T
  <2>1. Over(x) \in SUBSET T
    OBVIOUS
  <2>2. IsFiniteSet(Over(x))
    BY <2>1, FS_Subset
  <2> QED BY <2>1, <2>2, FS_CardinalityType
<1>2. C \in SUBSET Nat /\ C # {}
  BY <1>1
<1>3. PICK c \in C : \A d \in C : c <= d
  <2> HIDE DEF C
  <2> QED BY <1>2, LeastOf
<1>4. PICK x \in T : c = Cardinality(Over(x))
  BY <1>3
<1>5. ASSUME NEW y \in T, y > x PROVE FALSE
  <2> DEFINE R == Over(y)
             S == Over(x)
  <2>1. y \in S /\ y \notin R /\ R \in SUBSET S
    <3>1. x \in Int /\ y \in Int /\ y > x
      BY <1>5
    <3>2. ~ (y > y)
      BY <3>1
    <3>3. \A z \in Int : z > y => z > x
      BY <3>1
    <3>4. T \subseteq Int
      OBVIOUS
    <3> QED BY <3>1, <3>2, <3>3, <3>4
  <2>2. IsFiniteSet(S) /\ Cardinality(S) \in Nat /\ Cardinality(R) \in Nat
    BY <1>1
  <2>3. Cardinality(S) <= Cardinality(R)
    BY <1>3, <1>4
  <2> HIDE DEF R, S
  <2>4. R # S /\ R \subseteq S
    BY <2>1
  <2>5. Cardinality(R) < Cardinality(S)
    BY <2>2, <2>4, FS_Subset
  <2> QED BY <2>2, <2>3, <2>5
<1>6. \A y \in T : y <= x
  BY <1>5
<1>7. Max(T) = x
  BY <1>6, GreatestIs
<1> QED BY <1>6, <1>7

LEMMA ImageIsFinite ==
  ASSUME NEW D, IsFiniteSet(D), NEW f, f = [x \in D |-> f[x]]
  PROVE  IsFiniteSet({f[x] : x \in D})
<1>1. f \in Surjection(D, {f[x] : x \in D})
  BY DEF Surjection
<1> QED BY <1>1, FS_Surjection
-----------------------------------------------------------------------------
RiskEvent(e) ==
  /\ e.score \in Int /\ e.tactic \in Nat /\ e.ts \in Int /\ e.place \in Nat /\ e.soft \in BOOLEAN
Storied(events) == IsFiniteSet(events) /\ \A e \in events : RiskEvent(e)

(* What is added up is a number.                                           *)
LEMMA SumType ==
  ASSUME NEW events, Storied(events)
  PROVE  MapThenSumSet(LAMBDA e : e.score, events) \in Int
<1> DEFINE X == SUBSET events
           some(s) == CHOOSE x \in s : TRUE
           Is(f) == f = [s \in X |-> IF s = {} THEN 0 ELSE some(s).score + f[s \ {some(s)}]]
           height == [s \in X |-> Cardinality(s)]
           below == [s \in X |-> IF s = {} THEN {} ELSE {s \ {some(s)}}]
           G == [s \in X |-> [g \in [below[s] -> Int] |->
                   IF s = {} THEN 0 ELSE some(s).score + g[s \ {some(s)}]]]
<1>1. \A s \in X : s # {} => some(s) \in s /\ some(s).score \in Int /\ s \ {some(s)} \in X
  BY DEF Storied, RiskEvent
<1>2. ASSUME NEW s \in X PROVE IsFiniteSet(s) /\ Cardinality(s) \in Nat /\ Cardinality(s) <= Cardinality(events)
  <2>1. s \in SUBSET events /\ IsFiniteSet(events)
    BY DEF Storied
  <2> QED BY <2>1, FS_Subset, FS_CardinalityType
<1>3. ASSUME NEW s \in X, s # {} PROVE Cardinality(s \ {some(s)}) < Cardinality(s)
  <2> DEFINE t == s \ {some(s)}
  <2>1. some(s) \in s
    BY <1>1, <1>3
  <2>2. IsFiniteSet(s) /\ Cardinality(s) \in Nat
    BY <1>2
  <2>3. Cardinality(t) = Cardinality(s) - 1
    BY <2>1, <2>2, FS_RemoveElement
  <2> QED BY <2>2, <2>3
<1>4. Cardinality(events) \in Nat
  BY FS_CardinalityType DEF Storied
<1>5. height \in [X -> Nat] /\ below \in [X -> SUBSET X]
  BY <1>1, <1>2
<1>6. \A s \in X : \A t \in below[s] : height[t] < height[s]
  BY <1>1, <1>3
<1>7. Cardinality(events) + 1 \in Nat /\ \A s \in X : height[s] < Cardinality(events) + 1
  BY <1>2, <1>4
<1>8. \A s \in X : \A g \in [below[s] -> Int] : G[s][g] \in Int
  BY <1>1
<1>9. PICK f \in [X -> Int] : Recurs(f, G, X, below)
  <2> HIDE DEF X, height, below, G
  <2> QED BY <1>5, <1>6, <1>7, <1>8, Recursion
<1>10. Is(f)
  <2>1. ASSUME NEW s \in X PROVE f[s] = IF s = {} THEN 0 ELSE some(s).score + f[s \ {some(s)}]
    <3> DEFINE g == [t \in below[s] |-> f[t]]
    <3>1. g \in [below[s] -> Int]
      BY <1>1, <1>9
    <3>2. f[s] = G[s][g]
      BY <1>9 DEF Recurs
    <3>3. f[s] = IF s = {} THEN 0 ELSE some(s).score + g[s \ {some(s)}]
      BY <3>1, <3>2
    <3> QED BY <3>3
  <2> HIDE DEF X, some
  <2> QED BY <1>9, <2>1
<1> DEFINE x == CHOOSE f_1 : Is(f_1)
<1>11. Is(x)
  BY <1>10
<1>12. MapThenSumSet(LAMBDA e : e.score, events) = x[events]
  BY DEF MapThenSumSet, MapThenFoldSet
<1> HIDE DEF x
<1>13. ASSUME NEW s \in X PROVE x[s] \in Int
  <2> DEFINE T == {n \in Nat : \E t \in X : Cardinality(t) = n /\ x[t] \notin Int}
  <2>1. T = {}
    <3> SUFFICES ASSUME T # {} PROVE FALSE
      OBVIOUS
    <3>1. T \in SUBSET Nat
      OBVIOUS
    <3>2. PICK n \in T : \A m \in T : n <= m
      <4> HIDE DEF T
      <4> QED BY <3>1, LeastOf
    <3>3. PICK t \in X : Cardinality(t) = n /\ x[t] \notin Int
      BY <3>2
    <3>4. x[t] = IF t = {} THEN 0 ELSE some(t).score + x[t \ {some(t)}]
      BY <1>11
    <3>5. t # {} /\ x[t \ {some(t)}] \notin Int
      BY <1>1, <3>3, <3>4
    <3>6. Cardinality(t \ {some(t)}) \in T
      BY <1>1, <1>2, <3>5
    <3>7. Cardinality(t \ {some(t)}) < n /\ Cardinality(t \ {some(t)}) \in Nat /\ n \in Nat
      BY <1>1, <1>2, <1>3, <3>3, <3>5
    <3>8. n <= Cardinality(t \ {some(t)})
      BY <3>2, <3>6
    <3> QED BY <3>7, <3>8
  <2> QED BY <1>2, <2>1
<1> QED BY <1>12, <1>13
-----------------------------------------------------------------------------
LEMMA OfTwo ==
  ASSUME NEW a \in Int, NEW b \in Int
  PROVE  /\ Max({a, b}) \in Int /\ Max({a, b}) >= a /\ Max({a, b}) >= b
         /\ Min({a, b}) \in {a, b} /\ Min({a, b}) <= a /\ Min({a, b}) <= b
         /\ Max({a, b}) \in {a, b}
<1>1. CASE a >= b
  <2>1. Max({a, b}) = a
    BY <1>1, GreatestIs
  <2>2. \A x \in {a, b} : (\A y \in {a, b} : x =< y) => x = b
    BY <1>1
  <2>3. \A y \in {a, b} : b =< y
    BY <1>1
  <2>4. Min({a, b}) = b
    BY <2>2, <2>3 DEF Min
  <2> QED BY <1>1, <2>1, <2>4
<1>2. CASE b >= a
  <2>1. Max({a, b}) = b
    BY <1>2, GreatestIs
  <2>2. \A x \in {a, b} : (\A y \in {a, b} : x =< y) => x = a
    BY <1>2
  <2>3. \A y \in {a, b} : a =< y
    BY <1>2
  <2>4. Min({a, b}) = a
    BY <2>2, <2>3 DEF Min
  <2> QED BY <1>2, <2>1, <2>4
<1> QED BY <1>1, <1>2

LEMMA NoneOrLess == Max({0, 0}) = 0 /\ Max({0, 0 - 1}) = 0
<1>1. Max({0, 0}) = 0
  <2> DEFINE T == {0, 0}
  <2>1. T \in SUBSET Int /\ 0 \in T /\ \A y \in T : y <= 0
    OBVIOUS
  <2> HIDE DEF T
  <2>2. Max(T) = 0
    BY <2>1, GreatestIs
  <2> QED BY <2>2 DEF T
<1>2. Max({0, 0 - 1}) = 0
  <2> DEFINE T == {0, 0 - 1}
  <2>1. T \in SUBSET Int /\ 0 \in T /\ \A y \in T : y <= 0
    OBVIOUS
  <2> HIDE DEF T
  <2>2. Max(T) = 0
    BY <2>1, GreatestIs
  <2> QED BY <2>2 DEF T
<1> QED BY <1>1, <1>2

LEMMA CappedAtZero ==
  ASSUME NEW cap \in Nat
  PROVE  Min({cap, 0}) = 0
<1> DEFINE least == Min({cap, 0})
<1>1. cap \in Int /\ 0 \in Int
  OBVIOUS
<1>2. least \in {cap, 0} /\ least <= 0
  BY <1>1, OfTwo, Zenon
<1> HIDE DEF least
<1>3. least = 0
  BY <1>2
<1> QED BY <1>3 DEF least

(* What holds of an x when it holds of all of less height holds of all.    *)
LEMMA ByHeight ==
  ASSUME NEW X, NEW height \in [X -> Nat], NEW Y,
         \A x \in X : (\A y \in X : height[y] < height[x] => y \in Y) => x \in Y
  PROVE  X \subseteq Y
<1> DEFINE T == {height[x] : x \in X \ Y}
<1>1. T \in SUBSET Nat
  OBVIOUS
<1>2. ASSUME T # {} PROVE FALSE
  <2>1. PICK n \in T : \A m \in T : n <= m
    <3> HIDE DEF T
    <3> QED BY <1>1, <1>2, LeastOf
  <2>2. PICK x \in X \ Y : height[x] = n
    BY <2>1
  <2>3. PICK y \in X : height[y] < height[x] /\ y \notin Y
    BY <2>2
  <2>4. n <= height[y] /\ height[y] \in Nat /\ n \in Nat
    BY <2>1, <2>3
  <2> QED BY <2>2, <2>3, <2>4
<1> QED BY <1>2

LEMMA AggregateType ==
  ASSUME NEW events, Storied(events)
  PROVE  Aggregate(events) \in Int
<1>1. CASE events = {}
  BY <1>1 DEF Aggregate
<1>2. CASE events # {}
  <2> DEFINE f == [e \in events |-> e.score]
             T == {e.score : e \in events}
  <2>1. T = {f[e] : e \in events}
    OBVIOUS
  <2>2. IsFiniteSet(T)
    <3>1. IsFiniteSet(events) /\ f = [e \in events |-> f[e]]
      BY DEF Storied
    <3> HIDE DEF f
    <3>2. IsFiniteSet({f[e] : e \in events})
      BY <3>1, ImageIsFinite
    <3> QED BY <2>1, <3>2
  <2>3. T \in SUBSET Int /\ T # {}
    BY <1>2 DEF Storied, RiskEvent
  <2>4. Max(T) \in Int
    <3> HIDE DEF T
    <3> QED BY <2>2, <2>3, GreatestOf
  <2>5. MapThenSumSet(LAMBDA e : e.score, events) \in Int
    BY SumType
  <2>6. Aggregate(events) = 4 * Max(T) + MapThenSumSet(LAMBDA e : e.score, events)
    BY <1>2 DEF Aggregate
  <2> HIDE DEF T
  <2> QED BY <2>4, <2>5, <2>6
<1> QED BY <1>1, <1>2
-----------------------------------------------------------------------------
Told(events) == {e \in events : e.tactic # 0}
Lower(events) == [e \in Told(events) |-> {d \in Told(events) : Before(d, e) /\ d.tactic < e.tactic}]
IsRun(run, events) ==
  run = [e \in Told(events) |->
           1 + Max({0} \cup {run[d] : d \in {x \in Told(events) : Before(x, e) /\ x.tactic < e.tactic}})]

LEMMA BestType ==
  ASSUME NEW D, IsFiniteSet(D), NEW g, \A d \in D : g[d] \in Nat
  PROVE  LET T == {0} \cup {g[d] : d \in D}
         IN  Max(T) \in T /\ Max(T) \in Nat /\ \A n \in T : n <= Max(T)
<1> DEFINE f == [d \in D |-> g[d]]
           T == {0} \cup {g[d] : d \in D}
<1>1. IsFiniteSet({f[d] : d \in D})
  <2>1. f = [d \in D |-> f[d]]
    OBVIOUS
  <2> HIDE DEF f
  <2> QED BY <2>1, ImageIsFinite
<1>2. {f[d] : d \in D} = {g[d] : d \in D}
  OBVIOUS
<1>3. IsFiniteSet(T)
  BY <1>1, <1>2, FS_AddElement
<1>4. T \in SUBSET Int /\ T # {} /\ T \in SUBSET Nat
  OBVIOUS
<1>5. Max(T) \in T /\ \A n \in T : n <= Max(T)
  <2> HIDE DEF T
  <2> QED BY <1>3, <1>4, GreatestOf
<1> QED BY <1>4, <1>5

LEMMA ToldIsFinite ==
  ASSUME NEW events, Storied(events)
  PROVE  /\ IsFiniteSet(Told(events))
         /\ \A e \in Told(events) : IsFiniteSet(Lower(events)[e]) /\ e.tactic \in Nat /\ e.tactic >= 1
<1>1. Told(events) \in SUBSET events /\ IsFiniteSet(events)
  BY DEF Told, Storied
<1>2. IsFiniteSet(Told(events))
  BY <1>1, FS_Subset
<1>3. \A e \in Told(events) : Lower(events)[e] \in SUBSET Told(events)
  BY DEF Lower
<1>4. \A e \in Told(events) : IsFiniteSet(Lower(events)[e])
  BY <1>2, <1>3, FS_Subset
<1>5. \A e \in Told(events) : e.tactic \in Nat /\ e.tactic >= 1
  BY DEF Told, Storied, RiskEvent
<1> QED BY <1>2, <1>4, <1>5

LEMMA RunExists ==
  ASSUME NEW events, Storied(events)
  PROVE  \E run : IsRun(run, events)
<1> DEFINE X == Told(events)
           height == [e \in X |-> e.tactic]
           below == Lower(events)
           G == [e \in X |-> [g \in [below[e] -> Nat] |-> 1 + Max({0} \cup {g[d] : d \in below[e]})]]
           Tactics == {height[e] : e \in X}
<1>1. height \in [X -> Nat] /\ below \in [X -> SUBSET X]
  BY ToldIsFinite DEF Lower
<1>2. \A x \in X : \A y \in below[x] : height[y] < height[x]
  BY DEF Lower
<1>3. \E bound \in Nat : \A x \in X : height[x] < bound
  <2>1. IsFiniteSet(X) /\ \A e \in X : height[e] \in Nat
    BY <1>1, ToldIsFinite
  <2> DEFINE best == Max({0} \cup Tactics)
  <2>2. best \in Nat /\ \A x \in X : height[x] <= best
    <3> HIDE DEF X, height
    <3> QED BY <2>1, BestType
  <2> HIDE DEF best
  <2>3. best + 1 \in Nat /\ \A x \in X : height[x] < best + 1
    BY <2>1, <2>2
  <2> QED BY <2>3
<1>4. \A x \in X : \A g \in [below[x] -> Nat] : G[x][g] \in Nat
  <2> TAKE x \in X
  <2> TAKE g \in [below[x] -> Nat]
  <2> DEFINE D == below[x]
  <2>1. IsFiniteSet(D) /\ \A d \in D : g[d] \in Nat
    BY ToldIsFinite
  <2>2. Max({0} \cup {g[d] : d \in D}) \in Nat
    <3> HIDE DEF D
    <3> QED BY <2>1, BestType
  <2>3. G[x][g] = 1 + Max({0} \cup {g[d] : d \in D})
    OBVIOUS
  <2> HIDE DEF D
  <2> QED BY <2>2, <2>3
<1>5. PICK f \in [X -> Nat] : Recurs(f, G, X, below)
  <2> HIDE DEF X, height, below, G
  <2> QED BY <1>1, <1>2, <1>3, <1>4, Recursion
<1>6. ASSUME NEW e \in X
      PROVE  f[e] = 1 + Max({0} \cup {f[d] : d \in {x \in X : Before(x, e) /\ x.tactic < e.tactic}})
  <2> DEFINE g == [d \in below[e] |-> f[d]]
  <2>1. g \in [below[e] -> Nat]
    BY <1>1, <1>5
  <2>2. f[e] = G[e][g]
    BY <1>5 DEF Recurs
  <2>3. f[e] = 1 + Max({0} \cup {g[d] : d \in below[e]})
    BY <2>1, <2>2
  <2>4. {g[d] : d \in below[e]} = {f[d] : d \in below[e]}
    OBVIOUS
  <2>5. below[e] = {x \in X : Before(x, e) /\ x.tactic < e.tactic}
    BY DEF Lower
  <2> HIDE DEF g, below
  <2> QED BY <2>3, <2>4, <2>5
<1>7. IsRun(f, events)
  <2> HIDE DEF X
  <2>1. f = [e \in X |-> 1 + Max({0} \cup {f[d] : d \in {x \in X : Before(x, e) /\ x.tactic < e.tactic}})]
    BY <1>5, <1>6
  <2> QED BY <2>1 DEF IsRun, X
<1> QED BY <1>7

(* The run of an event is one more than the best of those below it.        *)
LEMMA RunIs ==
  ASSUME NEW events, Storied(events), NEW run, IsRun(run, events)
  PROVE  \A e \in Told(events) :
           LET T == {0} \cup {run[d] : d \in Lower(events)[e]}
           IN  /\ run[e] \in Nat /\ run[e] = 1 + Max(T)
               /\ Max(T) \in T /\ Max(T) \in Nat /\ \A n \in T : n <= Max(T)
<1> DEFINE X == Told(events)
           height == [e \in X |-> e.tactic]
           Y == {e \in X : run[e] \in Nat}
           Best(e) == Max({0} \cup {run[d] : d \in Lower(events)[e]})
<1>1. height \in [X -> Nat]
  BY ToldIsFinite
<1>2. ASSUME NEW e \in X PROVE run[e] = 1 + Best(e)
  <2>1. Lower(events)[e] = {x \in X : Before(x, e) /\ x.tactic < e.tactic}
    BY DEF Lower
  <2>2. run = [y \in X |-> 1 + Max({0} \cup {run[d] : d \in {x \in X : Before(x, y) /\ x.tactic < y.tactic}})]
    BY DEF IsRun
  <2> HIDE DEF X
  <2> QED BY <2>1, <2>2
<1>3. ASSUME NEW e \in X, \A d \in Lower(events)[e] : run[d] \in Nat
      PROVE  LET T == {0} \cup {run[d] : d \in Lower(events)[e]}
             IN  Max(T) \in T /\ Max(T) \in Nat /\ \A n \in T : n <= Max(T)
  <2> DEFINE D == Lower(events)[e]
  <2>1. IsFiniteSet(D) /\ \A d \in D : run[d] \in Nat
    BY <1>3, ToldIsFinite
  <2> HIDE DEF D
  <2>2. LET T == {0} \cup {run[d] : d \in D}
        IN  Max(T) \in T /\ Max(T) \in Nat /\ \A n \in T : n <= Max(T)
    BY <2>1, BestType
  <2> QED BY <2>2 DEF D
<1>4. ASSUME NEW x \in X, \A y \in X : height[y] < height[x] => y \in Y
      PROVE  x \in Y
  <2>1. \A d \in Lower(events)[x] : d \in X /\ height[d] < height[x]
    BY DEF Lower
  <2>2. \A d \in Lower(events)[x] : run[d] \in Nat
    BY <1>4, <2>1
  <2>3. Best(x) \in Nat
    BY <1>3, <2>2
  <2>4. run[x] = 1 + Best(x)
    BY <1>2
  <2> HIDE DEF Best
  <2> QED BY <2>3, <2>4
<1>5. X \subseteq Y
  <2> HIDE DEF X, height, Y
  <2> QED BY <1>1, <1>4, ByHeight
<1>6. \A e \in X : \A d \in Lower(events)[e] : run[d] \in Nat
  BY <1>5 DEF Lower
<1> QED BY <1>2, <1>3, <1>5, <1>6
-----------------------------------------------------------------------------
LEMMA BeforeIsTransitive ==
  ASSUME NEW a, RiskEvent(a), NEW b, RiskEvent(b), NEW c, RiskEvent(c), Before(a, b), Before(b, c)
  PROVE  Before(a, c)
<1>1. a.ts \in Int /\ b.ts \in Int /\ c.ts \in Int /\ a.place \in Int /\ b.place \in Int /\ c.place \in Int
  BY DEF RiskEvent
<1>2. a.ts < b.ts \/ (a.ts = b.ts /\ a.place < b.place)
  BY DEF Before
<1>3. b.ts < c.ts \/ (b.ts = c.ts /\ b.place < c.place)
  BY DEF Before
<1>4. a.ts < c.ts \/ (a.ts = c.ts /\ a.place < c.place)
  BY <1>1, <1>2, <1>3
<1> QED BY <1>4 DEF Before

Best(run, events, e) == Max({0} \cup {run[d] : d \in Lower(events)[e]})

LEMMA RunAt ==
  ASSUME NEW events, Storied(events), NEW run, IsRun(run, events), NEW e \in Told(events)
  PROVE  /\ run[e] \in Nat /\ Best(run, events, e) \in Nat /\ run[e] = 1 + Best(run, events, e)
         /\ Best(run, events, e) # 0 => \E d \in Lower(events)[e] : Best(run, events, e) = run[d]
         /\ \A d \in Lower(events)[e] : run[d] <= Best(run, events, e)
<1> DEFINE T == {0} \cup {run[d] : d \in Lower(events)[e]}
<1>1. LET T_1 == {0} \cup {run[d] : d \in Lower(events)[e]}
      IN  /\ run[e] \in Nat /\ run[e] = 1 + Max(T_1)
          /\ Max(T_1) \in T_1 /\ Max(T_1) \in Nat /\ \A n \in T_1 : n <= Max(T_1)
  BY RunIs
<1>2. Best(run, events, e) = Max(T)
  BY DEF Best
<1>3. \A d \in Lower(events)[e] : run[d] \in T
  OBVIOUS
<1>4. \A n \in T : n # 0 => \E d \in Lower(events)[e] : n = run[d]
  OBVIOUS
<1>5. run[e] \in Nat /\ run[e] = 1 + Max(T) /\ Max(T) \in T /\ Max(T) \in Nat /\ \A n \in T : n <= Max(T)
  BY <1>1
<1> HIDE DEF T
<1> QED BY <1>2, <1>3, <1>4, <1>5

(* A rising set of as many events as its run ends in each event.           *)
EndsIn(S, e) ==
  e \in S /\ Rising(S) /\ \A d \in S : d = e \/ (Before(d, e) /\ d.tactic < e.tactic)

LEMMA RunIsTaken ==
  ASSUME NEW events, Storied(events), NEW run, IsRun(run, events)
  PROVE  \A e \in Told(events) : \E S \in SUBSET Told(events) :
           EndsIn(S, e) /\ IsFiniteSet(S) /\ Cardinality(S) = run[e]
<1> DEFINE X == Told(events)
           height == [e \in X |-> e.tactic]
           Takes(S, e) == EndsIn(S, e) /\ IsFiniteSet(S) /\ Cardinality(S) = run[e]
           Y == {e \in X : \E S \in SUBSET X : Takes(S, e)}
<1>1. height \in [X -> Nat] /\ \A e \in X : e.tactic \in Nat
  BY ToldIsFinite
<1>2. ASSUME NEW e \in X, \A d \in X : height[d] < height[e] => d \in Y
      PROVE  e \in Y
  <2> DEFINE best == Best(run, events, e)
  <2>1. /\ run[e] \in Nat /\ best \in Nat /\ run[e] = 1 + best
        /\ best # 0 => \E d \in Lower(events)[e] : best = run[d]
    BY RunAt
  <2> HIDE DEF best
  <2>2. CASE best = 0
    <3>1. EndsIn({e}, e)
      <4> DEFINE S == {e}
      <4>1. e \in S /\ \A d \in S : d = e
        OBVIOUS
      <4> HIDE DEF S
      <4>2. Rising(S)
        BY <4>1, Zenon DEF Rising
      <4>3. \A d \in S : d = e \/ (Before(d, e) /\ d.tactic < e.tactic)
        BY <4>1, Zenon
      <4>4. EndsIn(S, e)
        BY <4>1, <4>2, <4>3, Zenon DEF EndsIn
      <4> QED BY <4>4 DEF S
    <3>2. IsFiniteSet({e}) /\ Cardinality({e}) = 1
      BY FS_Singleton
    <3>3. Takes({e}, e)
      BY <2>1, <2>2, <3>1, <3>2
    <3> QED BY <3>3
  <2>3. CASE best # 0
    <3>1. PICK d \in Lower(events)[e] : best = run[d]
      BY <2>1, <2>3
    <3>2. d \in X /\ Before(d, e) /\ d.tactic < e.tactic
      BY DEF Lower
    <3>3. PICK S \in SUBSET X : Takes(S, d)
      BY <1>2, <3>2
    <3> DEFINE R == S \cup {e}
    <3>4. \A x \in S : RiskEvent(x) /\ x.tactic \in Nat /\ RiskEvent(d) /\ RiskEvent(e)
      BY <1>1, <3>2 DEF Told, Storied
    <3>5. \A x \in S : Before(x, e) /\ x.tactic < e.tactic
      <4> TAKE x \in S
      <4>1. x = d \/ (Before(x, d) /\ x.tactic < d.tactic)
        BY <3>3 DEF EndsIn
      <4>2. x.tactic \in Nat /\ d.tactic \in Nat /\ e.tactic \in Nat
        BY <1>1, <3>2
      <4>3. RiskEvent(x) /\ RiskEvent(d) /\ RiskEvent(e)
        BY <3>4
      <4>4. Before(x, e)
        BY <3>2, <4>1, <4>3, BeforeIsTransitive
      <4> QED BY <3>2, <4>1, <4>2, <4>4
    <3>6. e \notin S
      BY <1>1, <3>5
    <3>7. Rising(R)
      BY <3>3, <3>5 DEF EndsIn, Rising
    <3>8. EndsIn(R, e)
      <4>1. e \in R /\ \A x \in R : x = e \/ x \in S
        OBVIOUS
      <4> HIDE DEF R
      <4>2. \A x \in R : x = e \/ (Before(x, e) /\ x.tactic < e.tactic)
        BY <3>5, <4>1, Zenon
      <4> QED BY <3>7, <4>1, <4>2, Zenon DEF EndsIn
    <3>9. IsFiniteSet(R) /\ Cardinality(R) = run[d] + 1
      BY <3>3, <3>6, FS_AddElement
    <3>10. run[e] = run[d] + 1
      BY <2>1, <3>1
    <3>11. Takes(R, e) /\ R \in SUBSET X
      BY <3>8, <3>9, <3>10
    <3> HIDE DEF R, Takes
    <3> QED BY <3>11
  <2> QED BY <2>2, <2>3
<1>3. X \subseteq Y
  <2> HIDE DEF X, height, Y
  <2> QED BY <1>1, <1>2, ByHeight
<1> QED BY <1>3

(* No rising set of greatest tactic that of e is larger than its run.      *)
LEMMA RunIsGreatest ==
  ASSUME NEW events, Storied(events), NEW run, IsRun(run, events)
  PROVE  \A e \in Told(events) : \A S \in SUBSET Told(events) :
           e \in S /\ Rising(S) /\ (\A d \in S : d.tactic <= e.tactic) => Cardinality(S) <= run[e]
<1> DEFINE X == Told(events)
           height == [e \in X |-> e.tactic]
           Tops(S, e) == e \in S /\ Rising(S) /\ \A d \in S : d.tactic <= e.tactic
           Y == {e \in X : \A S \in SUBSET X : Tops(S, e) => Cardinality(S) <= run[e]}
<1>1. height \in [X -> Nat] /\ (\A e \in X : e.tactic \in Nat) /\ IsFiniteSet(X)
  BY ToldIsFinite
<1>2. ASSUME NEW e \in X, \A d \in X : height[d] < height[e] => d \in Y,
             NEW S \in SUBSET X, Tops(S, e)
      PROVE  Cardinality(S) <= run[e]
  <2> DEFINE best == Best(run, events, e)
             R == S \ {e}
  <2>1. /\ run[e] \in Nat /\ best \in Nat /\ run[e] = 1 + best
        /\ \A d \in Lower(events)[e] : run[d] <= best
    BY RunAt
  <2> HIDE DEF best
  <2>2. IsFiniteSet(S)
    BY <1>1, FS_Subset
  <2>3. IsFiniteSet(R) /\ Cardinality(R) = Cardinality(S) - 1 /\ Cardinality(S) \in Nat
    BY <1>2, <2>2, FS_RemoveElement, FS_CardinalityType
  <2>4. CASE R = {}
    <3>1. Cardinality(R) = 0
      BY <2>4, FS_EmptySet
    <3> HIDE DEF R
    <3> QED BY <2>1, <2>3, <3>1
  <2>5. CASE R # {}
    <3> DEFINE Tactics == {d.tactic : d \in R}
    <3>1. IsFiniteSet(Tactics)
      <4> DEFINE f == [d \in R |-> d.tactic]
      <4>1. f = [d \in R |-> f[d]] /\ Tactics = {f[d] : d \in R}
        OBVIOUS
      <4>2. IsFiniteSet(R)
        BY <2>3
      <4> HIDE DEF f, R, Tactics
      <4>3. IsFiniteSet({f[d] : d \in R})
        BY <4>1, <4>2, ImageIsFinite
      <4> QED BY <4>1, <4>3
    <3>2. Tactics \in SUBSET Int /\ Tactics # {}
      BY <1>1, <2>5
    <3>3. Max(Tactics) \in Tactics /\ \A n \in Tactics : n <= Max(Tactics)
      <4> HIDE DEF Tactics
      <4> QED BY <3>1, <3>2, GreatestOf
    <3>4. PICK d \in R : d.tactic = Max(Tactics)
      BY <3>3
    <3>5. \A x \in R : x.tactic <= d.tactic
      BY <3>3, <3>4
    <3>6. d \in X /\ d \in S /\ d # e /\ e \in S /\ e.tactic \in Nat /\ d.tactic \in Nat
      BY <1>1, <1>2
    <3>7. (Before(d, e) /\ d.tactic < e.tactic) \/ (Before(e, d) /\ e.tactic < d.tactic)
      BY <1>2, <3>6 DEF Rising
    <3>8. d.tactic <= e.tactic
      BY <1>2, <3>6
    <3>9. Before(d, e) /\ d.tactic < e.tactic
      BY <3>6, <3>7, <3>8
    <3>10. Rising(R)
      BY <1>2 DEF Rising
    <3>11. d \in Y
      BY <1>2, <3>6, <3>9
    <3>12. Tops(R, d) /\ R \in SUBSET X
      BY <3>5, <3>10
    <3>13. Cardinality(R) <= run[d]
      <4> HIDE DEF R, Tops
      <4> QED BY <3>11, <3>12
    <3>14. d \in Lower(events)[e]
      BY <3>6, <3>9 DEF Lower
    <3>15. run[d] <= best /\ run[d] \in Nat
      BY <2>1, <3>6, <3>14, RunAt
    <3> HIDE DEF R
    <3> QED BY <2>1, <2>3, <3>13, <3>15
  <2> QED BY <2>4, <2>5
<1>3. \A x \in X : (\A y \in X : height[y] < height[x] => y \in Y) => x \in Y
  BY <1>2
<1>4. X \subseteq Y
  <2> HIDE DEF X, height, Y
  <2> QED BY <1>1, <1>3, ByHeight
<1> QED BY <1>4

LEMMA RunIsLongest ==
  ASSUME NEW events, Storied(events)
  PROVE  KillChainRun(events) \in Nat /\ KillChainRun(events) = LongestRun(events)
<1> DEFINE X == Told(events)
           run == CHOOSE r : IsRun(r, events)
           T == {0} \cup {run[e] : e \in X}
           L == {Cardinality(S) : S \in {U \in SUBSET X : Rising(U)}}
<1>1. IsRun(run, events)
  BY RunExists
<1>2. KillChainRun(events) = Max(T)
  BY DEF KillChainRun, IsRun, Told
<1>3. LongestRun(events) = Max(L)
  BY DEF LongestRun, Told
<1> HIDE DEF run
<1>4. IsFiniteSet(X) /\ (\A e \in X : run[e] \in Nat) /\ \A e \in X : e.tactic \in Nat
  BY <1>1, RunIs, ToldIsFinite
<1>5. Max(T) \in T /\ Max(T) \in Nat /\ \A n \in T : n <= Max(T)
  <2> HIDE DEF X
  <2> QED BY <1>4, BestType
<1>6. Max(T) \in L
  <2>1. CASE Max(T) = 0
    <3>1. {} \in SUBSET X /\ Rising({}) /\ Cardinality({}) = 0
      BY FS_EmptySet DEF Rising
    <3> HIDE DEF T
    <3> QED BY <2>1, <3>1
  <2>2. CASE Max(T) # 0
    <3>1. PICK e \in X : Max(T) = run[e]
      BY <1>5, <2>2
    <3>2. PICK S \in SUBSET X : EndsIn(S, e) /\ Cardinality(S) = run[e]
      BY <1>1, RunIsTaken
    <3>3. Rising(S)
      BY <3>2 DEF EndsIn
    <3> HIDE DEF T, X
    <3> QED BY <3>1, <3>2, <3>3
  <2> QED BY <2>1, <2>2
<1>7. ASSUME NEW S \in SUBSET X, Rising(S)
      PROVE  Cardinality(S) \in Nat /\ Cardinality(S) <= Max(T)
  <2>1. IsFiniteSet(S) /\ Cardinality(S) \in Nat
    BY <1>4, FS_Subset, FS_CardinalityType
  <2>2. CASE S = {}
    <3>1. Cardinality(S) = 0
      BY <2>2, FS_EmptySet
    <3> HIDE DEF T
    <3> QED BY <1>5, <3>1
  <2>3. CASE S # {}
    <3> DEFINE Tactics == {d.tactic : d \in S}
               f == [d \in S |-> d.tactic]
    <3>1. IsFiniteSet(Tactics)
      <4>1. f = [d \in S |-> f[d]] /\ Tactics = {f[d] : d \in S}
        OBVIOUS
      <4> HIDE DEF f, Tactics
      <4>2. IsFiniteSet({f[d] : d \in S})
        BY <2>1, <4>1, ImageIsFinite
      <4> QED BY <4>1, <4>2
    <3>2. Tactics \in SUBSET Int /\ Tactics # {}
      BY <1>4, <2>3
    <3>3. Max(Tactics) \in Tactics /\ \A n \in Tactics : n <= Max(Tactics)
      <4> HIDE DEF Tactics
      <4> QED BY <3>1, <3>2, GreatestOf
    <3>4. PICK e \in S : e.tactic = Max(Tactics)
      BY <3>3
    <3>5. \A d \in S : d.tactic <= e.tactic
      BY <3>3, <3>4
    <3>6. e \in X /\ Cardinality(S) <= run[e]
      BY <1>1, <1>7, <3>5, RunIsGreatest
    <3>7. run[e] <= Max(T) /\ run[e] \in Nat
      BY <1>4, <1>5, <3>6
    <3> HIDE DEF T
    <3> QED BY <1>5, <2>1, <3>6, <3>7
  <2> QED BY <2>2, <2>3
<1>8. L \in SUBSET Int /\ \A n \in L : n <= Max(T)
  <2>1. \A n \in L : \E S \in SUBSET X : Rising(S) /\ n = Cardinality(S)
    OBVIOUS
  <2> HIDE DEF T, L, X
  <2>2. \A n \in L : n \in Nat /\ n <= Max(T)
    BY <1>7, <2>1
  <2> QED BY <2>2
<1>9. Max(L) = Max(T)
  <2> HIDE DEF L, T
  <2> DEFINE k == Max(T)
  <2>1. k \in L /\ \A n \in L : n <= k
    BY <1>6, <1>8
  <2> HIDE DEF k
  <2>2. Max(L) = k
    BY <1>8, <2>1, GreatestIs
  <2> QED BY <2>2 DEF k
<1> HIDE DEF T, L
<1> QED BY <1>2, <1>3, <1>5, <1>9
-----------------------------------------------------------------------------
LEMMA ScoreType ==
  ASSUME NEW events, Storied(events)
  PROVE  /\ SoftAdded(events) \in Int /\ SoftAdded(events) <= MlCap
         /\ ChainAdded(events) \in Int
<1> USE StoryAssumption DEF StoryAssumption
<1>1. Storied(Hard(events))
  <2>1. Hard(events) \in SUBSET events /\ IsFiniteSet(events)
    BY DEF Hard, Storied
  <2>2. IsFiniteSet(Hard(events))
    BY <2>1, FS_Subset
  <2> QED BY <2>1, <2>2 DEF Storied
<1> DEFINE soft == Aggregate(events) - Aggregate(Hard(events))
           risen == Max({0, soft})
<1>2. soft \in Int
  BY <1>1, AggregateType
<1>3. risen \in Int
  <2>1. soft \in Int /\ 0 \in Int
    BY <1>2
  <2> HIDE DEF soft
  <2> QED BY <2>1, OfTwo, Zenon
<1>4. Min({MlCap, risen}) \in Int /\ Min({MlCap, risen}) <= MlCap
  <2>1. risen \in Int /\ MlCap \in Int
    BY <1>3
  <2> HIDE DEF risen
  <2>2. Min({MlCap, risen}) \in {MlCap, risen} /\ Min({MlCap, risen}) <= MlCap
    BY <2>1, OfTwo, Zenon
  <2> QED BY <2>1, <2>2, Zenon
<1> DEFINE more == KillChainRun(events) - 1
           links == Max({0, more})
           bonus == ChainBonus * links
<1>5. more \in Int
  BY RunIsLongest
<1>6. links \in Int
  <2>1. more \in Int /\ 0 \in Int
    BY <1>5
  <2> HIDE DEF more
  <2> QED BY <2>1, OfTwo, Zenon
<1>7. bonus \in Int
  <2> HIDE DEF links
  <2> QED BY <1>6
<1>8. Min({ChainCap, bonus}) \in Int
  <2>1. bonus \in Int /\ ChainCap \in Int
    BY <1>7
  <2> HIDE DEF bonus
  <2>2. Min({ChainCap, bonus}) \in {ChainCap, bonus}
    BY <2>1, OfTwo, Zenon
  <2> QED BY <2>1, <2>2, Zenon
<1> QED BY <1>4, <1>8 DEF SoftAdded, ChainAdded

LEMMA HardIsStoried ==
  ASSUME NEW events, Storied(events)
  PROVE  Storied(Hard(events)) /\ Hard(Hard(events)) = Hard(events)
<1>1. Hard(events) \in SUBSET events /\ IsFiniteSet(events)
  BY DEF Hard, Storied
<1>2. IsFiniteSet(Hard(events))
  BY <1>1, FS_Subset
<1>3. Storied(Hard(events))
  BY <1>1, <1>2 DEF Storied
<1> QED BY <1>3 DEF Hard

(* The rules bring all of the score but the capped share.                  *)
LEMMA RulesCarry ==
  ASSUME NEW events, Storied(events), Fires(events)
  PROVE  RulesAgree(Hard(events)) \/ Score(Hard(events)) >= Threshold - MlCap
<1> USE StoryAssumption DEF StoryAssumption
<1> DEFINE hard == Hard(events)
<1>1. Storied(hard) /\ Hard(hard) = hard
  BY HardIsStoried
<1>2. CASE RulesAgree(events)
  BY <1>1, <1>2 DEF RulesAgree
<1>3. CASE Score(events) >= Threshold
  <2>1. Aggregate(hard) \in Int /\ ChainAdded(hard) \in Int
    BY <1>1, AggregateType, ScoreType
  <2>2. SoftAdded(events) \in Int /\ SoftAdded(events) <= MlCap
    BY ScoreType
  <2>3. SoftAdded(hard) = 0
    <3> HIDE DEF hard
    <3>1. Aggregate(hard) - Aggregate(Hard(hard)) = 0
      BY <1>1, <2>1
    <3>2. SoftAdded(hard) = Min({MlCap, 0})
      BY <3>1, NoneOrLess DEF SoftAdded
    <3> QED BY <3>2, CappedAtZero
  <2>4. Score(hard) = Aggregate(hard) + ChainAdded(hard)
    <3> HIDE DEF hard
    <3> QED BY <1>1, <2>1, <2>3 DEF Score
  <2>5. Score(events) = Aggregate(hard) + SoftAdded(events) + ChainAdded(hard)
    BY DEF Score
  <2> HIDE DEF hard
  <2>6. Score(hard) >= Threshold - MlCap
    BY <1>3, <2>1, <2>2, <2>4, <2>5
  <2> QED BY <2>6 DEF hard
<1> QED BY <1>2, <1>3 DEF Fires

LEMMA NothingFiresNothing == ~ Fires({})
<1> USE StoryAssumption DEF StoryAssumption
<1>1. Storied({})
  BY FS_EmptySet DEF Storied
<1>2. Hard({}) = {}
  BY DEF Hard
<1>3. Aggregate({}) = 0
  BY DEF Aggregate
<1>4. SoftAdded({}) = 0
  <2>1. Aggregate({}) - Aggregate(Hard({})) = 0
    <3>1. Aggregate(Hard({})) = 0
      BY <1>2, <1>3, Zenon
    <3>2. 0 - 0 = 0
      OBVIOUS
    <3> QED BY <1>3, <3>1, <3>2, Zenon
  <2>2. SoftAdded({}) = Min({MlCap, 0})
    BY <2>1, NoneOrLess DEF SoftAdded
  <2> QED BY <2>2, CappedAtZero
<1>5. KillChainRun({}) = 0
  <2>1. LongestRun({}) = Max({0})
    <3>1. {Cardinality(S) : S \in {T \in SUBSET {e \in {} : e.tactic # 0} : Rising(T)}} = {0}
      <4>1. {e \in {} : e.tactic # 0} = {}
        OBVIOUS
      <4>2. {T \in SUBSET {} : Rising(T)} = {{}}
        BY DEF Rising
      <4>3. Cardinality({}) = 0
        BY FS_EmptySet
      <4> QED BY <4>1, <4>2, <4>3
    <3> QED BY <3>1 DEF LongestRun
  <2>2. Max({0}) = 0
    BY GreatestIs
  <2> QED BY <1>1, <2>1, <2>2, RunIsLongest
<1>6. ChainAdded({}) = 0
  <2>1. ChainBonus * 0 = 0
    OBVIOUS
  <2>2. ChainAdded({}) = Min({ChainCap, 0})
    BY <1>5, <2>1, NoneOrLess DEF ChainAdded
  <2> QED BY <2>2, CappedAtZero
<1>7. Score({}) = 0
  <2>1. Score({}) = 0 + 0 + 0
    BY <1>2, <1>3, <1>4, <1>6 DEF Score
  <2> QED BY <2>1
<1>8. ~ RulesAgree({})
  <2>1. {e.tactic : e \in Hard({})} \ {0} = {}
    BY <1>2
  <2>2. Cardinality({e.tactic : e \in Hard({})} \ {0}) = 0
    BY <2>1, FS_EmptySet
  <2>3. ~ (0 >= MinTactics)
    OBVIOUS
  <2>4. RulesAgree({}) => Cardinality({e.tactic : e \in Hard({})} \ {0}) >= MinTactics
    BY DEF RulesAgree
  <2> QED BY <2>2, <2>3, <2>4
<1> QED BY <1>7, <1>8 DEF Fires
-----------------------------------------------------------------------------
(* A breach is of what its storyline held then, and leaves it alerted.     *)
StoryInv ==
  /\ Storied(story) /\ added \in Nat
  /\ alerted \in BOOLEAN
  /\ alerted => \E events : breaches = <<events>> /\ Storied(events) /\ Fires(events)
  /\ ~ alerted => breaches = <<>> /\ ~ Fires(story)

LEMMA StoryInitially == StoryInit => StoryInv
<1> SUFFICES ASSUME StoryInit PROVE StoryInv
  OBVIOUS
<1>1. Storied({})
  BY FS_EmptySet DEF Storied
<1> QED BY <1>1, NothingFiresNothing DEF StoryInit, StoryInv

(* What is recorded of numbers is a storyline again.                       *)
LEMMA RecordedIsStoried ==
  ASSUME NEW events, Storied(events), NEW e, RiskEvent(e), NEW now,
         DOMAIN e = {"source", "soft", "object", "score", "tactic", "ts", "place"},
         e = [x \in DOMAIN e |-> e[x]]
  PROVE  Storied(Unexpired(Recorded(events, e), now))
<1> DEFINE same == {h \in events : h.source = e.source /\ h.object = e.object}
           f == [h \in same |-> IF e.score > h.score THEN [e EXCEPT !.place = h.place] ELSE h]
           held == Recorded(events, e)
<1>1. IsFiniteSet(held)
  <2>1. IsFiniteSet(events)
    BY DEF Storied
  <2>2. CASE same = {}
    <3>1. IsFiniteSet(events \cup {e})
      BY <2>1, FS_AddElement
    <3> QED BY <2>2, <3>1 DEF Recorded
  <2>3. CASE same # {}
    <3>1. same \in SUBSET events /\ events \ same \in SUBSET events
      OBVIOUS
    <3>2. IsFiniteSet(same) /\ IsFiniteSet(events \ same)
      BY <2>1, <3>1, FS_Subset
    <3>3. IsFiniteSet({f[h] : h \in same})
      <4>1. f = [h \in same |-> f[h]]
        OBVIOUS
      <4> HIDE DEF f, same
      <4> QED BY <3>2, <4>1, ImageIsFinite
    <3>4. {f[h] : h \in same} = {IF e.score > h.score THEN [e EXCEPT !.place = h.place] ELSE h : h \in same}
      OBVIOUS
    <3>5. held = (events \ same) \cup {f[h] : h \in same}
      <4>1. held = (events \ same) \cup {IF e.score > h.score THEN [e EXCEPT !.place = h.place] ELSE h : h \in same}
        BY <2>3 DEF Recorded
      <4> HIDE DEF f, held, same
      <4> QED BY <3>4, <4>1
    <3> HIDE DEF held, f, same
    <3> QED BY <3>2, <3>3, <3>5, FS_Union
  <2> QED BY <2>2, <2>3
<1>2. ASSUME NEW h \in events PROVE RiskEvent([e EXCEPT !.place = h.place])
  <2> DEFINE d == [e EXCEPT !.place = h.place]
  <2>1. d.score = e.score /\ d.tactic = e.tactic /\ d.ts = e.ts /\ d.soft = e.soft /\ d.place = h.place
    OBVIOUS
  <2>2. h.place \in Nat
    BY DEF Storied, RiskEvent
  <2> HIDE DEF d
  <2>3. RiskEvent(d)
    BY <2>1, <2>2 DEF RiskEvent
  <2> QED BY <2>3 DEF d
<1>3. \A d \in held : RiskEvent(d)
  <2>1. \A h \in events : RiskEvent(h)
    BY DEF Storied
  <2>2. \A d \in held : \/ d \in events \/ d = e
                        \/ \E h \in events : d = [e EXCEPT !.place = h.place]
    BY DEF Recorded
  <2> HIDE DEF held
  <2> TAKE d \in held
  <2> QED BY <1>2, <2>1, <2>2
<1> HIDE DEF held
<1>4. Unexpired(held, now) \in SUBSET held
  BY DEF Unexpired
<1>5. IsFiniteSet(Unexpired(held, now))
  BY <1>1, <1>4, FS_Subset
<1> QED BY <1>3, <1>4, <1>5 DEF Storied, held

LEMMA StoryStep ==
  ASSUME StoryInv, [StoryNext]_storyVars
  PROVE  StoryInv'
<1>1. ASSUME NEW kind \in RiskKinds, NEW ts \in 0 .. MaxStoryTime, AddRisk(kind, ts)
      PROVE  StoryInv'
  <2> DEFINE e == [source |-> kind.source, soft |-> kind.soft, object |-> kind.object,
                   score |-> kind.score, tactic |-> kind.tactic, ts |-> ts, place |-> added]
             events == Unexpired(Recorded(story, e), ts)
             breach == ~ alerted /\ Fires(events)
  <2>1. Storied(events)
    <3>1. RiskEvent(e)
      BY StoryAssumption DEF RiskEvent, StoryAssumption, StoryInv
    <3>2. DOMAIN e = {"source", "soft", "object", "score", "tactic", "ts", "place"}
      OBVIOUS
    <3>3. e = [x \in DOMAIN e |-> e[x]]
      OBVIOUS
    <3>4. Storied(story)
      BY DEF StoryInv
    <3> HIDE DEF e
    <3> QED BY <3>1, <3>2, <3>3, <3>4, RecordedIsStoried
  <2>2. /\ story' = events /\ added' = added + 1 /\ alerted' = (alerted \/ breach)
        /\ breaches' = IF breach THEN Append(breaches, events) ELSE breaches
    BY <1>1 DEF AddRisk
  <2> HIDE DEF events
  <2>3. alerted \in BOOLEAN /\ added \in Nat
    BY DEF StoryInv
  <2>4. CASE alerted
    <3>1. alerted' = TRUE /\ breaches' = breaches
      BY <2>2, <2>4
    <3>2. \E x : breaches = <<x>> /\ Storied(x) /\ Fires(x)
      BY <2>4 DEF StoryInv
    <3>3. added' \in Nat
      BY <2>2, <2>3
    <3> QED BY <2>1, <2>2, <3>1, <3>2, <3>3 DEF StoryInv
  <2>5. CASE ~ alerted /\ Fires(events)
    <3>1. breaches = <<>>
      BY <2>5 DEF StoryInv
    <3>2. alerted' = TRUE /\ breaches' = <<events>>
      <4>1. breaches' = Append(<<>>, events) /\ alerted' = TRUE
        BY <2>2, <2>5, <3>1
      <4>2. Append(<<>>, events) = <<events>>
        OBVIOUS
      <4> QED BY <4>1, <4>2
    <3>3. added' \in Nat
      BY <2>2, <2>3
    <3> QED BY <2>1, <2>2, <2>5, <3>2, <3>3 DEF StoryInv
  <2>6. CASE ~ alerted /\ ~ Fires(events)
    <3>1. breaches = <<>>
      BY <2>6 DEF StoryInv
    <3>2. alerted' = FALSE /\ breaches' = <<>>
      BY <2>2, <2>3, <2>6, <3>1
    <3>3. ~ Fires(story')
      BY <2>2, <2>6
    <3>4. Fires(story)' = Fires(story')
      OBVIOUS
    <3>5. added' \in Nat
      BY <2>2, <2>3
    <3> QED BY <2>1, <2>2, <3>2, <3>3, <3>4, <3>5 DEF StoryInv
  <2> QED BY <2>3, <2>4, <2>5, <2>6
<1>2. ASSUME NEW before \in 1 .. MaxStoryTime, PruneStory(before)
      PROVE  StoryInv'
  <2>1. story' = {} /\ alerted' = FALSE /\ breaches' = <<>> /\ added' = added
    BY <1>2 DEF PruneStory
  <2>2. Storied({})
    BY FS_EmptySet DEF Storied
  <2> QED BY <2>1, <2>2, NothingFiresNothing DEF StoryInv
<1>3. CASE UNCHANGED storyVars
  BY <1>3 DEF StoryInv, storyVars
<1> QED BY <1>1, <1>2, <1>3 DEF StoryNext

LEMMA StoryInvIsSound ==
  ASSUME StoryInv PROVE StorylinesSound
<1>1. KillChainRun(story) = LongestRun(story)
  BY RunIsLongest DEF StoryInv
<1>2. CASE alerted
  <2>1. PICK events : breaches = <<events>> /\ Storied(events) /\ Fires(events)
    BY <1>2 DEF StoryInv
  <2>2. Len(breaches) = 1 /\ \A i \in DOMAIN breaches : breaches[i] = events
    BY <2>1
  <2>3. RulesAgree(Hard(events)) \/ Score(Hard(events)) >= Threshold - MlCap
    BY <2>1, RulesCarry
  <2> QED BY <1>1, <1>2, <2>2, <2>3 DEF StorylinesSound
<1>3. CASE ~ alerted
  <2>1. breaches = <<>> /\ ~ Fires(story)
    BY <1>3 DEF StoryInv
  <2>2. Len(breaches) = 0 /\ DOMAIN breaches = {}
    BY <2>1
  <2> QED BY <1>1, <1>3, <2>1, <2>2 DEF StorylinesSound
<1> QED BY <1>2, <1>3

(* A storyline alerts once, as soon as its evidence suffices; the rules of  *)
(* a breach bring all but the capped share of it, so models and rarity     *)
(* never decide an alert alone; and the chain bonus, computed one event at *)
(* a time by kill_chain_run, is for the longest run of tactics there is.   *)
THEOREM StorylinesAreEarned == StorySpec => []StorylinesSound
<1>1. StoryInv /\ [StoryNext]_storyVars => StoryInv'
  BY StoryStep
<1>2. StoryInv => StorylinesSound
  BY StoryInvIsSound
<1> QED BY StoryInitially, <1>1, <1>2, PTL DEF StorySpec
-----------------------------------------------------------------------------
(* The edges are happenings, each with its place.                          *)
FeaturesInv ==
  /\ DOMAIN edges \subseteq Happenings /\ IsFiniteSet(DOMAIN edges)
  /\ edges \in [DOMAIN edges -> Nat]

LEMMA SeenIsFinite ==
  ASSUME NEW g, IsFiniteSet(g), NEW n, NEW when, NEW S \in SUBSET AsOf(g, n, when)
  PROVE  IsFiniteSet(S) /\ Cardinality(S) \in Nat
<1> DEFINE ends == {"src", "dst"}
           both == g \X ends
<1>1. IsFiniteSet(ends)
  <2>1. IsFiniteSet({"dst"})
    BY FS_Singleton
  <2>2. IsFiniteSet({"dst"} \cup {"src"})
    BY <2>1, FS_AddElement
  <2>3. {"dst"} \cup {"src"} = ends
    OBVIOUS
  <2> QED BY <2>2, <2>3
<1>2. IsFiniteSet(both)
  <2> HIDE DEF ends
  <2> QED BY <1>1, FS_Product
<1>3. S \in SUBSET both
  BY DEF AsOf, IncidentEdges
<1> HIDE DEF both
<1>4. IsFiniteSet(S)
  BY <1>2, <1>3, FS_Subset
<1> QED BY <1>4, FS_CardinalityType

(* The features of what is seen.                                           *)
Count(seen, n, c) == Cardinality({x \in seen : c \in Counted(x[1], n)})
Gives(seen, n, b) == {y \in seen : b \in EdgeBits(y[1], n)}
Givers(seen, n, b) == {OtherEnd(x[1], n) : x \in Gives(seen, n, b)}
BehaviorOf(seen, n) ==
  LET Ends(kind) == {x[1].dst : x \in {y \in seen : y[1].src = n /\ y[1].kind = kind}}
  IN  [count |-> [c \in CountNames |-> Count(seen, n, c)],
       bits |-> [b \in {x \in BitNames : Givers(seen, n, x) # {}} |->
                   Min({Cardinality(Givers(seen, n, b)), ObjectCap})],
       domains |-> Cardinality(Ends("resolved")),
       access_targets |-> Ends("accessed"),
       remote_thread_targets |-> Ends("injected") \ {n}]

LEMMA BehaviorIs ==
  ASSUME NEW g, NEW n, NEW when
  PROVE  Behavior(g, n, when) = BehaviorOf(AsOf(g, n, when), n)
BY Zenon DEF Behavior, BehaviorOf, Count, Givers, Gives

(* What comes later is not seen.                                           *)
LEMMA LaterIsUnseen ==
  ASSUME NEW g, NEW e, NEW n, NEW when \in Int, e.ts \in Int, e.ts > when
  PROVE  Behavior(g \cup {e}, n, when) = Behavior(g, n, when)
<1>1. when # NoTime
  BY FeaturesAssumption DEF FeaturesAssumption
<1>2. AsOf(g \cup {e}, n, when) = AsOf(g, n, when)
  BY <1>1 DEF AsOf, IncidentEdges
<1> QED BY <1>2, BehaviorIs

LEMMA CountsOnlyGrow ==
  ASSUME NEW g, NEW e, IsFiniteSet(g), NEW n, NEW when, NEW c \in CountNames
  PROVE  Behavior(g, n, when).count[c] <= Behavior(g \cup {e}, n, when).count[c]
<1> DEFINE h == g \cup {e}
           less == {x \in AsOf(g, n, when) : c \in Counted(x[1], n)}
           more == {x \in AsOf(h, n, when) : c \in Counted(x[1], n)}
<1>1. IsFiniteSet(h)
  BY FS_AddElement
<1>2. less \in SUBSET more
  BY DEF AsOf, IncidentEdges
<1>3. IsFiniteSet(more)
  <2>1. more \in SUBSET AsOf(h, n, when)
    OBVIOUS
  <2> HIDE DEF h, more
  <2> QED BY <1>1, <2>1, SeenIsFinite
<1>4. Cardinality(less) <= Cardinality(more)
  <2> HIDE DEF less, more
  <2> QED BY <1>2, <1>3, FS_Subset
<1>5. Behavior(g, n, when).count[c] = Cardinality(less)
  BY BehaviorIs DEF BehaviorOf, Count
<1>6. Behavior(h, n, when).count[c] = Cardinality(more)
  <2> HIDE DEF h
  <2>1. Behavior(h, n, when).count[c] = Count(AsOf(h, n, when), n, c)
    BY BehaviorIs DEF BehaviorOf
  <2> QED BY <2>1 DEF Count
<1> HIDE DEF less, more
<1> QED BY <1>4, <1>5, <1>6
-----------------------------------------------------------------------------
IsLast(placed, writes, w) ==
  \A e \in writes : w.ts > e.ts \/ (w.ts = e.ts /\ placed[w] <= placed[e])

(* Of writes there is a last one.                                          *)
LEMMA LastWrite ==
  ASSUME NEW placed, NEW writes, IsFiniteSet(writes), writes # {},
         \A e \in writes : e.ts \in Int /\ placed[e] \in Nat
  PROVE  \E w \in writes : IsLast(placed, writes, w)
<1> DEFINE f == [e \in writes |-> e.ts]
           T == {f[e] : e \in writes}
<1>1. IsFiniteSet(T)
  <2>1. f = [e \in writes |-> f[e]]
    OBVIOUS
  <2> HIDE DEF f
  <2> QED BY <2>1, ImageIsFinite
<1>2. T \in SUBSET Int /\ T # {}
  OBVIOUS
<1>3. Max(T) \in T /\ \A y \in T : y <= Max(T)
  <2> HIDE DEF T
  <2> QED BY <1>1, <1>2, GreatestOf
<1> DEFINE newest == {e \in writes : e.ts = Max(T)}
           P == {placed[e] : e \in newest}
<1>4. P \in SUBSET Nat /\ P # {}
  BY <1>3
<1>5. PICK x \in P : \A y \in P : x <= y
  <2> HIDE DEF P
  <2> QED BY <1>4, LeastOf
<1>6. PICK w \in newest : x = placed[w]
  BY <1>5
<1>7. ASSUME NEW e \in writes PROVE w.ts > e.ts \/ (w.ts = e.ts /\ placed[w] <= placed[e])
  <2>1. e.ts <= Max(T) /\ e.ts \in Int /\ w.ts = Max(T) /\ w.ts \in Int
    BY <1>3, <1>6
  <2>2. CASE e.ts = Max(T)
    <3>1. placed[e] \in P
      BY <2>2
    <3>2. placed[w] <= placed[e]
      BY <1>5, <1>6, <3>1
    <3> HIDE DEF T
    <3> QED BY <2>1, <2>2, <3>2
  <2>3. CASE e.ts # Max(T)
    <3> HIDE DEF T
    <3> QED BY <2>1, <2>3
  <2> QED BY <2>2, <2>3
<1> QED BY <1>6, <1>7 DEF IsLast

LEMMA ImageWriteIs ==
  ASSUME NEW placed, IsFiniteSet(DOMAIN placed), placed \in [DOMAIN placed -> Nat],
         DOMAIN placed \subseteq Happenings, NEW p \in Processes
  PROVE  IF Writes(DOMAIN placed, p) = {} THEN ImageWrite(placed, p) = NoWriter
         ELSE /\ ImageWrite(placed, p) # NoWriter
              /\ \E w \in Writes(DOMAIN placed, p) :
                   /\ ImageWrite(placed, p).age = StartOf[p] - w.ts
                   /\ IsLast(placed, Writes(DOMAIN placed, p), w)
<1> DEFINE writes == Writes(DOMAIN placed, p)
<1>1. writes \in SUBSET DOMAIN placed
  BY DEF Writes
<1>2. CASE writes = {}
  BY <1>2 DEF ImageWrite
<1>3. CASE writes # {}
  <2> DEFINE best == CHOOSE w \in writes : \A e \in writes :
                        w.ts > e.ts \/ (w.ts = e.ts /\ placed[w] <= placed[e])
  <2>1. IsFiniteSet(writes)
    BY <1>1, FS_Subset
  <2>2. \A e \in writes : e.ts \in Int /\ placed[e] \in Nat /\ e.src \in Processes \cup Objects
    BY <1>1, FeaturesAssumption DEF FeaturesAssumption
  <2>3. \E w \in writes : IsLast(placed, writes, w)
    <3> HIDE DEF writes
    <3> QED BY <1>3, <2>1, <2>2, LastWrite
  <2>4. best \in writes /\ IsLast(placed, writes, best)
    <3> HIDE DEF writes
    <3> QED BY <2>3 DEF IsLast
  <2>5. ImageWrite(placed, p) = [writer |-> best.src, age |-> StartOf[p] - best.ts]
    BY <1>3 DEF ImageWrite
  <2> HIDE DEF best
  <2>6. StartOf[p] \in Int
    BY FeaturesAssumption DEF FeaturesAssumption
  <2>7. ImageWrite(placed, p) \in [writer : Processes \cup Objects, age : Int]
    BY <2>2, <2>4, <2>5, <2>6
  <2>8. ImageWrite(placed, p) # NoWriter
    BY <2>7, FeaturesAssumption DEF FeaturesAssumption
  <2>9. ImageWrite(placed, p).age = StartOf[p] - best.ts
    BY <2>5
  <2> QED BY <1>3, <2>4, <2>8, <2>9
<1> QED BY <1>2, <1>3

(* A write is only ever replaced by a later one.                           *)
LEMMA WriteOnlyLater ==
  ASSUME NEW placed, IsFiniteSet(DOMAIN placed), placed \in [DOMAIN placed -> Nat],
         NEW more, IsFiniteSet(DOMAIN more), more \in [DOMAIN more -> Nat],
         DOMAIN placed \subseteq DOMAIN more, DOMAIN more \subseteq Happenings,
         NEW p \in Processes, ImageWrite(placed, p) # NoWriter
  PROVE  /\ ImageWrite(more, p) # NoWriter
         /\ ImageWrite(more, p).age <= ImageWrite(placed, p).age
<1> DEFINE writes == Writes(DOMAIN placed, p)
           all == Writes(DOMAIN more, p)
<1>1. DOMAIN placed \subseteq Happenings
  OBVIOUS
<1>2. PICK w \in writes : ImageWrite(placed, p).age = StartOf[p] - w.ts
  BY <1>1, ImageWriteIs
<1>3. w \in all
  BY DEF Writes
<1>4. /\ ImageWrite(more, p) # NoWriter
      /\ \E x \in all : ImageWrite(more, p).age = StartOf[p] - x.ts /\ IsLast(more, all, x)
  BY <1>3, ImageWriteIs
<1>5. PICK x \in all : ImageWrite(more, p).age = StartOf[p] - x.ts /\ IsLast(more, all, x)
  BY <1>4
<1>6. x.ts \in Int /\ w.ts \in Int /\ StartOf[p] \in Int
  BY FeaturesAssumption DEF FeaturesAssumption, Writes
<1>7. x.ts > w.ts \/ x.ts = w.ts
  <2> HIDE DEF all
  <2> QED BY <1>3, <1>5 DEF IsLast
<1> QED BY <1>2, <1>4, <1>5, <1>6, <1>7
-----------------------------------------------------------------------------
(* The kinds of edge each bit is given for.                                *)
Of(r) ==
  \/ r.bit = "child:shell_or_lolbin" /\ r.kinds = {"forked"}
  \/ r.bit = "file:executable_to_user_path" /\ r.kinds = {"wrote"}
  \/ r.bit = "registry:persistence_key" /\ r.kinds = {"set_value", "created_key"}
  \/ r.bit \in {"image_load:user_path_module", "image_load:unsigned_module"} /\ r.kinds = {"loaded"}
  \/ r.bit = "process_access:lsass_read" /\ r.kinds = {"accessed"}
  \/ r.bit = "remote_thread:out" /\ r.kinds = {"injected"}
  \/ /\ r.bit \in {"network:public_destination", "network:public_nonstandard_port"}
     /\ r.kinds = {"connected_to"}
  \/ r.bit = "dns:failed_query" /\ r.kinds = {"resolved"}
  \/ r.bit = "script_block:obfuscated" /\ r.kinds = {"ran_script"}

LEMMA BitOf == ASSUME NEW r \in BitTable PROVE Of(r)
BY DEF BitTable, Bit, Of

(* What gives a bit is counted wherever the bit has its backing.           *)
LEMMA BitIsCounted ==
  ASSUME NEW e, NEW n, e.src # e.dst, NEW b \in EdgeBits(e, n),
         NEW c, Backs(c, b), e.src = n \/ e.dst = n
  PROVE  c \in Counted(e, n)
<1>1. CASE b = "remote_thread:in"
  <2>1. e.src # n
    <3> SUFFICES ASSUME e.src = n PROVE FALSE
      OBVIOUS
    <3>1. PICK r \in BitTable : r.bit = "remote_thread:in"
      BY <1>1 DEF EdgeBits
    <3> QED BY <3>1, BitOf DEF Of
  <2>2. e.kind = "injected" /\ e.dst = n
    BY <2>1 DEF EdgeBits
  <2>3. c = "injected_thread_count"
    BY <1>1 DEF Backs
  <2> QED BY <2>2, <2>3 DEF Counted
<1>2. CASE b # "remote_thread:in"
  <2>1. e.src = n
    BY <1>2 DEF EdgeBits
  <2>2. PICK r \in BitTable : r.bit = b /\ e.kind \in r.kinds
    BY <2>1 DEF EdgeBits
  <2>3. PICK row \in CountTable : row.bit = c /\ row.needs = {} /\ r.kinds \subseteq row.kinds
    BY <1>2, <2>2 DEF Backs
  <2>4. e.kind \in row.kinds /\ row.needs \subseteq TraitsAt(e, n)
    BY <2>2, <2>3
  <2>5. ~ (e.dst = n /\ e.kind = "injected")
    BY <2>1
  <2> QED BY <2>1, <2>3, <2>4, <2>5 DEF Counted
<1> QED BY <1>1, <1>2

LEMMA ImageIsNoLarger ==
  ASSUME NEW D, IsFiniteSet(D), NEW f, f = [x \in D |-> f[x]]
  PROVE  LET T == {f[x] : x \in D}
         IN  IsFiniteSet(T) /\ Cardinality(T) \in Nat /\ Cardinality(T) <= Cardinality(D)
<1> DEFINE T == {f[x] : x \in D}
<1>1. f \in Surjection(D, T)
  BY DEF Surjection
<1>2. IsFiniteSet(T) /\ Cardinality(T) <= Cardinality(D)
  <2> HIDE DEF T
  <2> QED BY <1>1, FS_Surjection
<1> QED BY <1>2, FS_CardinalityType

LEMMA NoMoreObjects ==
  ASSUME NEW g, IsFiniteSet(g), \A e \in g : e.src # e.dst, NEW n, NEW when,
         NEW b \in DOMAIN Behavior(g, n, when).bits, NEW c \in CountNames, Backs(c, b)
  PROVE  Behavior(g, n, when).bits[b] <= Behavior(g, n, when).count[c]
<1> DEFINE seen == AsOf(g, n, when)
           told == Gives(seen, n, b)
           counted == {x \in seen : c \in Counted(x[1], n)}
           f == [x \in told |-> OtherEnd(x[1], n)]
           T == Givers(seen, n, b)
<1>1. Behavior(g, n, when) = BehaviorOf(seen, n)
  BY BehaviorIs
<1>2. /\ Behavior(g, n, when).bits[b] = Min({Cardinality(T), ObjectCap})
      /\ Behavior(g, n, when).count[c] = Cardinality(counted)
  <2> HIDE DEF seen
  <2> QED BY <1>1 DEF BehaviorOf, Count
<1>3. told \in SUBSET seen /\ counted \in SUBSET seen
  BY DEF Gives
<1>4. IsFiniteSet(told) /\ Cardinality(told) \in Nat /\ IsFiniteSet(counted) /\ Cardinality(counted) \in Nat
  <2> HIDE DEF told, counted
  <2> QED BY <1>3, SeenIsFinite
<1>5. told \in SUBSET counted
  <2>1. \A x \in seen : x[1] \in g /\ (x[1].src = n \/ x[1].dst = n)
    BY DEF AsOf, IncidentEdges
  <2> SUFFICES ASSUME NEW x \in told PROVE x \in counted
    OBVIOUS
  <2>2. x \in seen /\ b \in EdgeBits(x[1], n)
    BY DEF Gives
  <2>3. c \in Counted(x[1], n)
    <3> HIDE DEF seen
    <3> QED BY <2>1, <2>2, BitIsCounted
  <2> QED BY <2>2, <2>3
<1>6. Cardinality(told) <= Cardinality(counted)
  <2> HIDE DEF told, counted
  <2> QED BY <1>4, <1>5, FS_Subset
<1>7. T = {f[x] : x \in told}
  BY DEF Givers
<1>8. Cardinality(T) \in Nat /\ Cardinality(T) <= Cardinality(told)
  <2>1. f = [x \in told |-> f[x]]
    OBVIOUS
  <2> HIDE DEF f, told, T
  <2>2. LET T_1 == {f[x] : x \in told} IN Cardinality(T_1) \in Nat /\ Cardinality(T_1) <= Cardinality(told)
    BY <1>4, <2>1, ImageIsNoLarger
  <2> QED BY <1>7, <2>2
<1> HIDE DEF T, told, counted, f, seen
<1> DEFINE k == Cardinality(T)
           least == Min({k, ObjectCap})
<1>9. k \in Int /\ ObjectCap \in Int
  BY <1>8, FeaturesAssumption DEF FeaturesAssumption
<1> HIDE DEF k
<1>10. least \in {k, ObjectCap} /\ least <= k
  BY <1>9, OfTwo, Zenon
<1> HIDE DEF least
<1>11. least <= Cardinality(counted)
  BY <1>4, <1>6, <1>8, <1>9, <1>10 DEF k
<1> QED BY <1>2, <1>11 DEF least, k

(* Every bit has a count behind it.                                        *)
LEMMA BitsHaveBacking ==
  ASSUME NEW b \in BitNames
  PROVE  \E c \in CountNames : Backs(c, b)
<1>1. CASE b = "remote_thread:in"
  <2>1. "injected_thread_count" \in CountNames
    BY DEF CountNames
  <2> QED BY <1>1, <2>1 DEF Backs
<1>2. CASE b # "remote_thread:in"
  <2> DEFINE Takes(kinds, name) ==
               /\ Bit(kinds, {}, name) \in CountTable
               /\ \A r \in BitTable : r.bit = b => r.kinds \subseteq kinds
  <2>1. ASSUME NEW kinds, NEW name, Takes(kinds, name)
        PROVE  name \in CountNames /\ Backs(name, b)
    <3> DEFINE row == Bit(kinds, {}, name)
    <3>1. row.kinds = kinds /\ row.needs = {} /\ row.bit = name
      BY DEF Bit
    <3> HIDE DEF row
    <3>2. row \in CountTable /\ \A r \in BitTable : r.bit = b => r.kinds \subseteq row.kinds
      BY <2>1, <3>1 DEF row
    <3>3. name \in CountNames
      BY <3>1, <3>2 DEF CountNames
    <3> QED BY <1>2, <3>1, <3>2, <3>3 DEF Backs
  <2>2. \A r \in BitTable : Of(r)
    BY BitOf
  <2>3. PICK r \in BitTable : r.bit = b
    BY <1>2 DEF BitNames
  <2>4. \E kinds, name : Takes(kinds, name)
    <3>1. CASE b = "child:shell_or_lolbin"
      <4>1. Takes({"forked"}, "child_count")
        BY <2>2, <3>1 DEF Of, CountTable
      <4> QED BY <4>1
    <3>2. CASE b = "file:executable_to_user_path"
      <4>1. Takes({"wrote"}, "file_write_count")
        BY <2>2, <3>2 DEF Of, CountTable
      <4> QED BY <4>1
    <3>3. CASE b = "registry:persistence_key"
      <4>1. Takes({"set_value", "created_key", "deleted_key"}, "registry_write_count")
        BY <2>2, <3>3 DEF Of, CountTable
      <4> QED BY <4>1
    <3>4. CASE b \in {"image_load:user_path_module", "image_load:unsigned_module"}
      <4>1. Takes({"loaded"}, "module_load_count")
        BY <2>2, <3>4 DEF Of, CountTable
      <4> QED BY <4>1
    <3>5. CASE b = "process_access:lsass_read"
      <4>1. Takes({"accessed"}, "process_access_count")
        BY <2>2, <3>5 DEF Of, CountTable
      <4> QED BY <4>1
    <3>6. CASE b = "remote_thread:out"
      <4>1. Takes({"injected"}, "remote_thread_count")
        BY <2>2, <3>6 DEF Of, CountTable
      <4> QED BY <4>1
    <3>7. CASE b \in {"network:public_destination", "network:public_nonstandard_port"}
      <4>1. Takes({"connected_to"}, "network_connect_count")
        BY <2>2, <3>7 DEF Of, CountTable
      <4> QED BY <4>1
    <3>8. CASE b = "dns:failed_query"
      <4>1. Takes({"resolved"}, "dns_query_count")
        BY <2>2, <3>8 DEF Of, CountTable
      <4> QED BY <4>1
    <3>9. CASE b = "script_block:obfuscated"
      <4>1. Takes({"ran_script"}, "script_block_count")
        BY <2>2, <3>9 DEF Of, CountTable
      <4> QED BY <4>1
    <3> HIDE DEF Takes
    <3> QED BY <2>2, <2>3, <3>1, <3>2, <3>3, <3>4, <3>5, <3>6, <3>7, <3>8, <3>9 DEF Of
  <2>5. PICK kinds, name : Takes(kinds, name)
    BY <2>4
  <2> HIDE DEF Takes
  <2> QED BY <2>1, <2>5
<1> QED BY <1>1, <1>2
-----------------------------------------------------------------------------
LEMMA FeaturesStart == FeaturesInit => FeaturesInv
<1> SUFFICES ASSUME FeaturesInit PROVE FeaturesInv
  OBVIOUS
<1>1. DOMAIN << >> = {}
  OBVIOUS
<1> QED BY <1>1, FS_EmptySet DEF FeaturesInit, FeaturesInv

(* What an edge that comes, or a prune, leaves.                            *)
LEMMA EdgeComes ==
  ASSUME FeaturesInv, NEW e \in Happenings, AddEdge(e)
  PROVE  /\ DOMAIN edges' = DOMAIN edges \cup {e} /\ e \notin DOMAIN edges
         /\ edges' \in [DOMAIN edges' -> Nat]
<1> DEFINE D == DOMAIN edges
           next == 1 + Max({0} \cup {edges[y] : y \in D})
<1>1. e \notin D /\ edges' = [x \in D \cup {e} |-> IF x = e THEN next ELSE edges[x]]
  BY DEF AddEdge
<1>2. IsFiniteSet(D) /\ edges \in [D -> Nat] /\ \A y \in D : edges[y] \in Nat
  BY DEF FeaturesInv
<1>3. next \in Nat
  <2> DEFINE best == Max({0} \cup {edges[y] : y \in D})
  <2>1. best \in Nat
    <3> HIDE DEF D
    <3>1. LET T == {0} \cup {edges[d] : d \in D} IN Max(T) \in T /\ Max(T) \in Nat /\ \A n \in T : n <= Max(T)
      BY <1>2, BestType
    <3> QED BY <3>1
  <2> HIDE DEF best
  <2>2. best + 1 \in Nat /\ 1 + best \in Nat
    BY <2>1
  <2> QED BY <2>2 DEF best
<1> HIDE DEF next
<1> QED BY <1>1, <1>2, <1>3

LEMMA FeaturesStep ==
  ASSUME FeaturesInv, [FeaturesNext]_edges
  PROVE  FeaturesInv'
<1>1. ASSUME NEW e \in Happenings, AddEdge(e) PROVE FeaturesInv'
  <2>1. DOMAIN edges' = DOMAIN edges \cup {e} /\ edges' \in [DOMAIN edges' -> Nat]
    BY <1>1, EdgeComes
  <2>2. IsFiniteSet(DOMAIN edges \cup {e})
    BY FS_AddElement DEF FeaturesInv
  <2> QED BY <2>1, <2>2 DEF FeaturesInv
<1>2. ASSUME NEW before, PruneEdges(before) PROVE FeaturesInv'
  <2> DEFINE D == {x \in DOMAIN edges : x.ts >= before}
  <2>1. edges' = [e \in D |-> edges[e]]
    BY <1>2 DEF PruneEdges
  <2>2. D \in SUBSET DOMAIN edges /\ IsFiniteSet(DOMAIN edges)
    BY DEF FeaturesInv
  <2>3. IsFiniteSet(D)
    <3> HIDE DEF D
    <3> QED BY <2>2, FS_Subset
  <2> HIDE DEF D
  <2> QED BY <2>1, <2>2, <2>3 DEF FeaturesInv
<1>3. CASE UNCHANGED edges
  BY <1>3 DEF FeaturesInv
<1> QED BY <1>1, <1>2, <1>3 DEF FeaturesNext

LEMMA BitsStand ==
  ASSUME FeaturesInv PROVE BitsAreCounted
<1> SUFFICES ASSUME \A e \in DOMAIN edges : e.src # e.dst,
                    NEW p \in Processes, NEW when \in Moments \cup {NoTime},
                    NEW bit \in DOMAIN Behavior(DOMAIN edges, p, when).bits
             PROVE  /\ \E c \in CountNames : Backs(c, bit)
                    /\ \A c \in CountNames : Backs(c, bit) =>
                         Behavior(DOMAIN edges, p, when).bits[bit] <= Behavior(DOMAIN edges, p, when).count[c]
  BY DEF BitsAreCounted
<1>1. IsFiniteSet(DOMAIN edges)
  BY DEF FeaturesInv
<1>2. bit \in BitNames
  <2>1. Behavior(DOMAIN edges, p, when) = BehaviorOf(AsOf(DOMAIN edges, p, when), p)
    BY BehaviorIs
  <2> QED BY <2>1 DEF BehaviorOf
<1> QED BY <1>1, <1>2, BitsHaveBacking, NoMoreObjects

(* What an edge that comes changes.                                        *)
NothingEarlier ==
  \A e \in DOMAIN edges' \ DOMAIN edges : \A p \in Processes :
    /\ \A when \in Moments :
         LET before == Behavior(DOMAIN edges, p, when)
             after == Behavior(DOMAIN edges', p, when)
         IN  /\ e.ts > when => after = before
             /\ \A c \in CountNames : before.count[c] <= after.count[c]
    /\ LET before == ImageWrite(edges, p)
           after == ImageWrite(edges', p)
       IN  before # NoWriter => after # NoWriter /\ after.age <= before.age

LEMMA NothingEarlierChanges ==
  ASSUME FeaturesInv, FeaturesNext PROVE NothingEarlier
<1>1. ASSUME NEW e \in Happenings, AddEdge(e) PROVE NothingEarlier
  <2> DEFINE g == DOMAIN edges
  <2>1. /\ DOMAIN edges' = g \cup {e} /\ e \notin g
        /\ edges' \in [DOMAIN edges' -> Nat]
    BY <1>1, EdgeComes
  <2>2. IsFiniteSet(g) /\ g \subseteq Happenings /\ edges \in [g -> Nat]
    BY DEF FeaturesInv
  <2>3. \A d \in DOMAIN edges' \ g : d = e
    BY <2>1
  <2>4. e.ts \in Int /\ \A when \in Moments : when \in Int
    BY FeaturesAssumption DEF FeaturesAssumption, Moments, Starts
  <2>5. ASSUME NEW p \in Processes, NEW when \in Moments
        PROVE  /\ e.ts > when => Behavior(DOMAIN edges', p, when) = Behavior(g, p, when)
               /\ \A c \in CountNames : Behavior(g, p, when).count[c] <= Behavior(DOMAIN edges', p, when).count[c]
    <3> HIDE DEF g
    <3>1. e.ts > when => Behavior(g \cup {e}, p, when) = Behavior(g, p, when)
      BY <2>4, LaterIsUnseen
    <3>2. \A c \in CountNames : Behavior(g, p, when).count[c] <= Behavior(g \cup {e}, p, when).count[c]
      BY <2>2, CountsOnlyGrow
    <3> QED BY <2>1, <3>1, <3>2
  <2>6. IsFiniteSet(DOMAIN edges')
    <3> HIDE DEF g
    <3>1. IsFiniteSet(g \cup {e})
      BY <2>2, FS_AddElement
    <3> QED BY <2>1, <3>1
  <2>7. ASSUME NEW p \in Processes, ImageWrite(edges, p) # NoWriter
        PROVE  ImageWrite(edges', p) # NoWriter /\ ImageWrite(edges', p).age <= ImageWrite(edges, p).age
    <3> DEFINE more == edges'
    <3>1. /\ IsFiniteSet(DOMAIN more) /\ more \in [DOMAIN more -> Nat]
          /\ DOMAIN edges \subseteq DOMAIN more /\ DOMAIN more \subseteq Happenings
      BY <2>1, <2>2, <2>6
    <3> HIDE DEF more
    <3>2. ImageWrite(more, p) # NoWriter /\ ImageWrite(more, p).age <= ImageWrite(edges, p).age
      BY <2>2, <2>7, <3>1, WriteOnlyLater
    <3> QED BY <3>2 DEF more
  <2> QED BY <2>3, <2>5, <2>7 DEF NothingEarlier
<1>2. ASSUME NEW before, PruneEdges(before) PROVE NothingEarlier
  <2>1. DOMAIN edges' \ DOMAIN edges = {}
    BY <1>2 DEF PruneEdges
  <2> QED BY <2>1 DEF NothingEarlier
<1> QED BY <1>1, <1>2 DEF FeaturesNext

(* What is asked as of a time never learns of a later one, counts only     *)
(* grow as edges come, the write a process is said to come from is only    *)
(* ever replaced by a later one, and every bit stands for as many counted  *)
(* happenings as objects: of edges in any order of arrival.                *)
THEOREM FeaturesAreSteady == FeaturesSpec => FeaturesSteady
<1>1. FeaturesInv /\ [FeaturesNext]_edges => FeaturesInv'
  BY FeaturesStep
<1>2. FeaturesInv => BitsAreCounted
  BY BitsStand
<1>3. FeaturesInv /\ [FeaturesNext]_edges => [NothingEarlier]_edges
  BY NothingEarlierChanges
<1>4. FeaturesSpec => [][NothingEarlier]_edges /\ []BitsAreCounted
  BY FeaturesStart, <1>1, <1>2, <1>3, PTL DEF FeaturesSpec
<1> QED BY <1>4 DEF FeaturesSteady, NothingEarlier
=============================================================================
