------------------------ MODULE ProcessRegistryProofs ------------------------
(* Attribution never crosses a PID reuse, and neither do kill tokens, for  *)
(* all PIDs, fields, lifetimes and windows, and for events in any order.   *)
(*                                                                         *)
(* What carries it is that timelines stay sorted: bisect, which both finds *)
(* the place of a new incarnation and answers queries, splits a timeline   *)
(* only if it is.                                                          *)
EXTENDS ProcessRegistry, SequenceTheorems, FiniteSetTheorems, WellFoundedInduction, TLAPS

(* By start time.                                                           *)
SortedSeq(tl) == \A i, j \in DOMAIN tl : i < j => tl[i].start <= tl[j].start

(* Open at most at its end.                                                 *)
OpenLast(tl) == \A i \in DOMAIN tl : tl[i].end = None => i = Len(tl)

(* What neither an end nor a neighbour can change of an incarnation of p.   *)
Genuine(inc, p, reps) ==
  /\ inc.ticks # None =>
       /\ ~inc.inferred
       /\ \E t \in Times : /\ <<p, t, inc.ticks>> \in reps
                           /\ Distance(t, inc.start) <= DupWindow
  /\ inc.parentNode # None =>
       inc.parentNode[1] = inc.parent /\ inc.parentNode[2] <= inc.start

(* A timeline of p as it should be.                                        *)
Sound(tl, p, reps) ==
  /\ tl \in Seq(Incarnation)
  /\ SortedSeq(tl) /\ OpenLast(tl)
  /\ \A i \in DOMAIN tl : Genuine(tl[i], p, reps)

(* All timelines of a host.                                                 *)
AllSound(tls, reps) ==
  /\ tls \in [Pids -> Seq(Incarnation)]
  /\ \A p \in Pids : Sound(tls[p], p, reps)

(* The inductive invariant.                                                 *)
IInv == TypeOK /\ AllSound(timeline, reports)

(* Two incarnations that differ at most in their ends.                      *)
SameButEnd(x, y) ==
  /\ x \in Incarnation
  /\ x.start = y.start /\ x.ticks = y.ticks /\ x.parent = y.parent
  /\ x.parentNode = y.parentNode /\ x.inferred = y.inferred

(* The two fields of an incarnation that are compared.                      *)
LEMMA Fields ==
  ASSUME NEW x \in Incarnation
  PROVE  x.start \in Int /\ x.end \in Int \cup {None}
  BY DEF Incarnation

(* The entries of a timeline and their positions.                           *)
LEMMA Entries ==
  ASSUME NEW tl \in Seq(Incarnation)
  PROVE  /\ Len(tl) \in Nat /\ DOMAIN tl = 1 .. Len(tl)
         /\ \A i \in DOMAIN tl : /\ tl[i] \in Incarnation
                                 /\ tl[i].start \in Int /\ tl[i].end \in Int \cup {None}

<1>1. Len(tl) \in Nat /\ DOMAIN tl = 1 .. Len(tl) /\ \A i \in DOMAIN tl : tl[i] \in Incarnation
  OBVIOUS
<1>2. QED BY <1>1, Fields

(* An end claims nothing.                                                   *)
LEMMA EndIsFree ==
  ASSUME NEW x, NEW y, NEW p, NEW reps, SameButEnd(x, y), Genuine(y, p, reps)
  PROVE  Genuine(x, p, reps)
  BY DEF SameButEnd, Genuine
-----------------------------------------------------------------------------
(* The first k numbers are k.                                               *)
LEMMA UpTo ==
  ASSUME NEW k \in Nat
  PROVE  IsFiniteSet(1 .. k) /\ Cardinality(1 .. k) = k
  BY FS_Interval

(* bisect splits a sorted timeline.                                        *)
LEMMA BisectSplits ==
  ASSUME NEW tl \in Seq(Incarnation), SortedSeq(tl), NEW t \in Int
  PROVE  /\ Bisect(tl, t) \in 0 .. Len(tl)
         /\ \A i \in DOMAIN tl : i <= Bisect(tl, t) <=> tl[i].start <= t
<1> DEFINE S == {i \in DOMAIN tl : tl[i].start <= t}
           n == Len(tl)
<1>1. DOMAIN tl = 1 .. n /\ n \in Nat
  BY Entries
<1>2. \A i \in DOMAIN tl : tl[i] \in Incarnation /\ tl[i].start \in Int
  BY Entries
<1>3. IsFiniteSet(1 .. n) /\ Cardinality(1 .. n) = n
  BY <1>1, FS_Interval
<1>4. IsFiniteSet(S) /\ Cardinality(S) <= n
  <2>1. S \in SUBSET (1 .. n)
    BY <1>1
  <2> HIDE DEF S
  <2>2. QED BY <2>1, <1>3, FS_Subset
<1>5. Cardinality(S) \in Nat
  BY <1>4, FS_CardinalityType
<1>6. ASSUME NEW i \in S PROVE i <= Cardinality(S)
  <2>1. 1 .. i \in SUBSET S
    <3>1. ASSUME NEW j \in 1 .. i PROVE j \in S
      <4>1. i \in 1 .. n /\ j \in 1 .. n /\ tl[i].start <= t /\ (j < i \/ j = i)
        BY <1>1
      <4>2. tl[j].start <= tl[i].start
        BY <4>1, <1>1, <1>2 DEF SortedSeq
      <4>3. tl[j].start \in Int /\ tl[i].start \in Int
        BY <4>1, <1>1, <1>2
      <4>4. QED BY <4>1, <4>2, <4>3, <1>1
    <3>2. QED BY <3>1
  <2>2. i \in Nat /\ i >= 1
    BY <1>1
  <2>3. Cardinality(1 .. i) = i
    BY <2>2, FS_Interval
  <2> HIDE DEF S
  <2>4. Cardinality(1 .. i) <= Cardinality(S)
    BY <2>1, <1>4, FS_Subset
  <2>5. QED BY <2>3, <2>4
<1>7. ASSUME NEW i \in DOMAIN tl, i \notin S PROVE i > Cardinality(S)
  <2>1. i \in 1 .. n
    BY <1>1
  <2>2. S \in SUBSET (1 .. i - 1)
    <3>1. ASSUME NEW j \in S PROVE j < i
      <4>1. j \in 1 .. n /\ tl[j].start <= t /\ ~ (tl[i].start <= t)
        BY <1>1, <1>7
      <4>2. CASE i < j
        <5>1. tl[i].start <= tl[j].start
          BY <4>1, <4>2, <1>1 DEF SortedSeq
        <5>2. tl[j].start \in Int /\ tl[i].start \in Int
          BY <4>1, <1>1, <1>2
        <5>3. QED BY <4>1, <5>1, <5>2
      <4>3. CASE i = j
        BY <4>1, <4>3
      <4>4. QED BY <4>1, <4>2, <4>3, <2>1
    <3>2. QED BY <3>1, <1>1, <2>1
  <2>3. IsFiniteSet(1 .. i - 1) /\ Cardinality(1 .. i - 1) = i - 1
    <3> DEFINE k == i - 1
    <3>1. k \in Nat
      BY <1>1, <2>1
    <3> HIDE DEF k
    <3>2. IsFiniteSet(1 .. k) /\ Cardinality(1 .. k) = k
      BY <3>1, UpTo
    <3>3. QED BY <3>2 DEF k
  <2> HIDE DEF S
  <2>4. Cardinality(S) <= i - 1
    BY <2>2, <2>3, FS_Subset
  <2>5. QED BY <2>1, <2>4, <1>5
<1>8. Bisect(tl, t) = Cardinality(S)
  BY DEF Bisect
<1>9. \A i \in DOMAIN tl : i \in S <=> tl[i].start <= t
  OBVIOUS
<1> HIDE DEF S
<1>10. QED
  <2>1. ASSUME NEW i \in DOMAIN tl PROVE i <= Cardinality(S) <=> tl[i].start <= t
    <3>1. CASE i \in S
      BY <3>1, <1>6, <1>9
    <3>2. CASE i \notin S
      BY <3>2, <1>7, <1>9, <1>5, <1>1
    <3>3. QED BY <3>1, <3>2
  <2>2. QED BY <2>1, <1>1, <1>4, <1>5, <1>8

(* What is resolved is in the timeline, live, and the last started by then. *)
LEMMA Resolved ==
  ASSUME NEW tl \in Seq(Incarnation), SortedSeq(tl), NEW t \in Int, Resolve(tl, t) # 0
  PROVE  LET i == Resolve(tl, t)
         IN  /\ i \in DOMAIN tl /\ tl[i].start <= t /\ Covers(tl[i], t)
             /\ \A j \in DOMAIN tl : tl[j].start <= t => tl[j].start <= tl[i].start
<1> DEFINE i == Resolve(tl, t)
<1>1. i = Bisect(tl, t) /\ i > 0 /\ Covers(tl[i], t)
  BY DEF Resolve
<1>2. i \in 1 .. Len(tl) /\ \A j \in DOMAIN tl : j <= i <=> tl[j].start <= t
  BY <1>1, BisectSplits
<1>3. DOMAIN tl = 1 .. Len(tl)
  BY Entries
<1>4. \A j \in DOMAIN tl : tl[j].start \in Int
  BY Entries
<1> HIDE DEF i
<1>5. tl[i].start <= t
  BY <1>2, <1>3
<1>6. ASSUME NEW j \in DOMAIN tl, tl[j].start <= t PROVE tl[j].start <= tl[i].start
  <2>1. j < i \/ j = i
    BY <1>2, <1>3, <1>6
  <2>2. QED BY <2>1, <1>2, <1>3, <1>4 DEF SortedSeq
<1>7. QED BY <1>1, <1>2, <1>3, <1>5, <1>6 DEF i
-----------------------------------------------------------------------------
(* A set of numbers has a least one.                                        *)
LEMMA Least ==
  ASSUME NEW T \in SUBSET Nat, T # {}
  PROVE  \E x \in T : \A y \in T : x <= y
<1>1. PICK x \in T : \A y \in T : ~ (<<y, x>> \in OpToRel(<, Nat))
  BY WFMin, NatLessThanWellFounded
<1>2. ASSUME NEW y \in T PROVE x <= y
  <2>1. ~ (y < x)
    BY <1>1 DEF OpToRel
  <2>2. QED BY <2>1
<1>3. QED BY <1>2

(* Every place up to its size is the place of an element of a set.          *)
LEMMA Ranks ==
  ASSUME NEW n \in Nat, NEW S \in SUBSET (1 .. n), NEW k \in 1 .. Cardinality(S)
  PROVE  \E i \in S : Cardinality({j \in S : j <= i}) = k
<1> DEFINE Full(Q) == \A c \in 1 .. Cardinality(Q) : \E i \in Q : Cardinality({j \in Q : j <= i}) = c
           Bad == {m \in Nat : \E Q \in SUBSET (1 .. m) : ~ Full(Q)}
<1>1. ASSUME Bad # {} PROVE FALSE
  <2> HIDE DEF Full
  <2>1. PICK m \in Bad : \A y \in Bad : m <= y
    <3>1. Bad \in SUBSET Nat
      OBVIOUS
    <3> HIDE DEF Bad
    <3>2. QED BY <1>1, <3>1, Least
  <2>2. m \in Nat
    OBVIOUS
  <2>3. PICK Q \in SUBSET (1 .. m) : ~ Full(Q)
    OBVIOUS
  <2>4. IsFiniteSet(Q) /\ Cardinality(Q) \in Nat
    BY <2>2, UpTo, FS_Subset, FS_CardinalityType
  <2>5. m \in Q
    <3>1. ASSUME m \notin Q PROVE FALSE
      <4>1. m # 0
        <5>1. ASSUME m = 0 PROVE FALSE
          <6>1. Q = {}
            BY <5>1
          <6>2. Cardinality(Q) = 0
            BY <6>1, FS_EmptySet
          <6>3. QED BY <6>2, <2>3 DEF Full
        <5>2. QED BY <5>1
      <4>2. m - 1 \in Nat /\ Q \in SUBSET (1 .. m - 1)
        BY <4>1, <2>2, <3>1
      <4>3. m - 1 \in Bad
        BY <4>2, <2>3
      <4>4. m <= m - 1
        BY <4>3, <2>1
      <4>5. QED BY <4>4, <2>2
    <3>2. QED BY <3>1
  <2> DEFINE R == Q \ {m}
  <2>6. m - 1 \in Nat /\ R \in SUBSET (1 .. m - 1)
    BY <2>2, <2>5
  <2>7. Full(R)
    <3>1. ASSUME ~ Full(R) PROVE FALSE
      <4>1. m - 1 \in Bad
        BY <2>6, <3>1
      <4>2. m <= m - 1
        BY <4>1, <2>1
      <4>3. QED BY <4>2, <2>2
    <3>2. QED BY <3>1
  <2>8. IsFiniteSet(R) /\ Cardinality(R) = Cardinality(Q) - 1
    BY <2>4, <2>5, FS_RemoveElement
  <2>9. Full(Q)
    <3>1. ASSUME NEW c \in 1 .. Cardinality(Q)
          PROVE  \E i \in Q : Cardinality({j \in Q : j <= i}) = c
      <4>1. CASE c = Cardinality(Q)
        <5>1. {j \in Q : j <= m} = Q
          <6>1. \A j \in Q : j <= m
            BY <2>2, <2>3
          <6>2. QED BY <6>1
        <5>2. QED BY <4>1, <5>1, <2>5
      <4>2. CASE c # Cardinality(Q)
        <5>1. c \in 1 .. Cardinality(R)
          BY <4>2, <2>4, <2>8
        <5>2. PICK i \in R : Cardinality({j \in R : j <= i}) = c
          BY <5>1, <2>7 DEF Full
        <5>3. {j \in Q : j <= i} = {j \in R : j <= i}
          <6>1. i \in Q /\ i \in Nat /\ i < m
            BY <2>2
          <6>2. QED BY <6>1, <2>2
        <5>4. QED BY <5>2, <5>3
      <4>3. QED BY <4>1, <4>2
    <3>2. QED BY <3>1 DEF Full
  <2>10. QED BY <2>3, <2>9
<1>2. Full(S)
  <2>1. ASSUME ~ Full(S) PROVE FALSE
    <3> HIDE DEF Full
    <3>1. n \in Bad
      BY <2>1
    <3>2. QED BY <3>1, <1>1
  <2>2. QED BY <2>1
<1>3. QED BY <1>2

(* What is kept of a timeline is in its order, up to the last that was to  *)
(* be kept.                                                                *)
LEMMA KeptInOrder ==
  ASSUME NEW tl \in Seq(Incarnation), NEW S \in SUBSET DOMAIN tl
  PROVE  /\ Kept(tl, S) \in Seq(Incarnation)
         /\ \E pos \in [DOMAIN Kept(tl, S) -> S] :
              /\ \A k \in DOMAIN Kept(tl, S) :
                   /\ Kept(tl, S)[k] = tl[pos[k]]
                   /\ \A l \in DOMAIN Kept(tl, S) : k < l => pos[k] < pos[l]
              /\ \A i \in S : Kept(tl, S) # <<>> /\ i <= pos[Len(Kept(tl, S))]
<1> DEFINE Rank(i) == Cardinality({j \in S : j <= i})
           n == Cardinality(S)
           pos(k) == CHOOSE i \in S : Rank(i) = k
           new == Kept(tl, S)
<1>1. /\ Len(tl) \in Nat /\ DOMAIN tl = 1 .. Len(tl)
      /\ \A i \in DOMAIN tl : tl[i] \in Incarnation
  BY Entries
<1>2. IsFiniteSet(S) /\ n \in Nat
  BY <1>1, UpTo, FS_Subset, FS_CardinalityType
<1>3. \A k \in 1 .. n : pos(k) \in S /\ Rank(pos(k)) = k
  <2>1. ASSUME NEW k \in 1 .. n PROVE \E i \in S : Rank(i) = k
    <3> DEFINE m == Len(tl)
    <3>1. m \in Nat /\ S \in SUBSET (1 .. m)
      BY <1>1
    <3> HIDE DEF m
    <3>2. QED BY <3>1, Ranks
  <2> HIDE DEF Rank, n
  <2>2. QED BY <2>1
<1>4. ASSUME NEW k \in 1 .. n, NEW l \in 1 .. n, k < l
      PROVE  pos(k) < pos(l)
  <2> DEFINE a == pos(k)
             b == pos(l)
  <2>1. a \in S /\ b \in S /\ Rank(a) = k /\ Rank(b) = l
    BY <1>3
  <2> HIDE DEF pos, a, b
  <2>2. ASSUME b <= a PROVE FALSE
    <3> DEFINE A == {j \in S : j <= a}
               B == {j \in S : j <= b}
    <3>1. B \in SUBSET A
      BY <1>1, <2>1, <2>2
    <3>2. IsFiniteSet(A)
      BY <1>2, FS_Subset
    <3>3. Cardinality(A) = k /\ Cardinality(B) = l
      BY <2>1
    <3> HIDE DEF A, B
    <3>4. Cardinality(B) <= Cardinality(A)
      BY <3>1, <3>2, FS_Subset
    <3>5. QED BY <3>3, <3>4, <1>4, <1>2
  <2>3. a \in Int /\ b \in Int
    BY <1>1, <2>1
  <2>4. a < b
    BY <2>2, <2>3
  <2>5. QED BY <2>4 DEF a, b
<1>5. new = [k \in 1 .. n |-> tl[pos(k)]]
  BY DEF Kept
<1>5a. ASSUME NEW i \in S PROVE n # 0 /\ i <= pos(n)
  <2>1. n # 0
    BY <1>2, FS_EmptySet
  <2>2. pos(n) \in S /\ Rank(pos(n)) = n
    <3> HIDE DEF n, pos, Rank
    <3>1. n \in 1 .. n
      BY <1>2, <2>1
    <3> QED BY <1>3, <3>1
  <2> DEFINE A == {j \in S : j <= pos(n)}
  <2>3. A \in SUBSET S /\ Cardinality(A) = Cardinality(S)
    BY <2>2
  <2> HIDE DEF A
  <2>4. A = S
    BY <1>2, <2>3, FS_Subset
  <2> QED BY <2>1, <2>4 DEF A
<1> DEFINE f == [k \in 1 .. n |-> pos(k)]
<1> HIDE DEF Rank, n, pos, new
<1>6. new \in Seq(Incarnation) /\ DOMAIN new = 1 .. n /\ Len(new) = n
  <2>1. \A k \in 1 .. n : tl[pos(k)] \in Incarnation
    BY <1>1, <1>3
  <2>2. QED BY <1>2, <1>5, <2>1
<1>7. f \in [DOMAIN new -> S] /\ \A k \in 1 .. n : f[k] = pos(k)
  BY <1>3, <1>6
<1> HIDE DEF f
<1>8. \A k \in DOMAIN new : /\ new[k] = tl[f[k]]
                            /\ \A l \in DOMAIN new : k < l => f[k] < f[l]
  BY <1>4, <1>5, <1>6, <1>7
<1>9. \A i \in S : new # <<>> /\ i <= f[Len(new)]
  <2>1. n # 0 => new # <<>> /\ f[Len(new)] = pos(n)
    BY <1>2, <1>6, <1>7, EmptySeq
  <2> QED BY <1>5a, <2>1
<1> QED BY <1>6, <1>7, <1>8, <1>9 DEF new

(* What is kept of a timeline is as sound as the timeline.                 *)
LEMMA KeptIsSound ==
  ASSUME NEW p, NEW reps, NEW tl, Sound(tl, p, reps), NEW S \in SUBSET DOMAIN tl
  PROVE  Sound(Kept(tl, S), p, reps)
<1> DEFINE new == Kept(tl, S)
           m == Len(new)
<1>1. tl \in Seq(Incarnation) /\ Len(tl) \in Nat /\ DOMAIN tl = 1 .. Len(tl)
  BY Entries DEF Sound
<1>2. new \in Seq(Incarnation)
  BY <1>1, KeptInOrder
<1>3. PICK pos \in [DOMAIN new -> S] :
        \A k \in DOMAIN new : /\ new[k] = tl[pos[k]]
                              /\ \A l \in DOMAIN new : k < l => pos[k] < pos[l]
  <2>1. PICK pos \in [DOMAIN new -> S] :
          /\ \A k \in DOMAIN new : /\ new[k] = tl[pos[k]]
                                   /\ \A l \in DOMAIN new : k < l => pos[k] < pos[l]
          /\ \A i \in S : new # <<>> /\ i <= pos[Len(new)]
    BY <1>1, KeptInOrder
  <2> QED BY <2>1
<1> HIDE DEF new
<1>4. m \in Nat /\ DOMAIN new = 1 .. m
  BY <1>2, LenProperties
<1>5. \A k \in 1 .. m : pos[k] \in 1 .. Len(tl)
  BY <1>1, <1>3, <1>4
<1> HIDE DEF m
<1>6. SortedSeq(new)
  BY <1>1, <1>3, <1>4, <1>5 DEF Sound, SortedSeq
<1>7. OpenLast(new)
  <2>1. ASSUME NEW k \in 1 .. m, new[k].end = None, k # m PROVE FALSE
    <3>1. pos[k] = Len(tl)
      BY <1>1, <1>3, <1>4, <1>5, <2>1 DEF Sound, OpenLast
    <3>2. m \in 1 .. m /\ k < m
      BY <1>4, <2>1
    <3>3. pos[k] < pos[m] /\ pos[m] \in 1 .. Len(tl)
      BY <1>3, <1>4, <1>5, <3>2
    <3> QED BY <1>1, <3>1, <3>3
  <2> QED BY <1>4, <2>1 DEF OpenLast, m
<1>8. \A k \in 1 .. m : Genuine(new[k], p, reps)
  BY <1>1, <1>3, <1>4, <1>5 DEF Sound
<1> QED BY <1>2, <1>4, <1>6, <1>7, <1>8 DEF Sound, new

(* Where everything is after an insertion.                                 *)
LEMMA InsertAtFacts ==
  ASSUME NEW T, NEW s \in Seq(T), NEW i \in 1 .. Len(s) + 1, NEW e \in T
  PROVE  LET r == InsertAt(s, i, e)
         IN  /\ r \in Seq(T) /\ Len(r) = Len(s) + 1 /\ DOMAIN r = 1 .. Len(s) + 1
             /\ \A j \in 1 .. Len(s) + 1 :
                  r[j] = IF j < i THEN s[j] ELSE IF j = i THEN e ELSE s[j - 1]
<1> DEFINE front == SubSeq(s, 1, i - 1)
           back == SubSeq(s, i, Len(s))
           r == InsertAt(s, i, e)
<1>1. Len(s) \in Nat /\ i \in Nat /\ i >= 1 /\ i <= Len(s) + 1
  OBVIOUS
<1>2. /\ front \in Seq(T) /\ Len(front) = i - 1
      /\ \A j \in 1 .. i - 1 : front[j] = s[j]
  BY <1>1
<1>3. /\ back \in Seq(T) /\ Len(back) = Len(s) - i + 1
      /\ \A j \in 1 .. Len(s) - i + 1 : back[j] = s[i + j - 1]
  BY <1>1
<1> HIDE DEF front, back
<1>4. <<e>> \in Seq(T) /\ Len(<<e>>) = 1 /\ <<e>>[1] = e
  OBVIOUS
<1> DEFINE head == front \o <<e>>
<1>5. /\ head \in Seq(T) /\ Len(head) = i
      /\ \A j \in 1 .. i : head[j] = IF j < i THEN s[j] ELSE e
  BY <1>1, <1>2, <1>4
<1> HIDE DEF head
<1>6. r = head \o back
  BY DEF InsertAt, head, front, back
<1> HIDE DEF r
<1>7. /\ head \o back \in Seq(T)
      /\ Len(head \o back) = Len(head) + Len(back)
      /\ \A j \in 1 .. Len(head) + Len(back) :
           (head \o back)[j] = IF j <= Len(head) THEN head[j] ELSE back[j - Len(head)]
  <2>1. head \in Seq(T) /\ back \in Seq(T)
    BY <1>3, <1>5
  <2>2. QED BY <2>1, ConcatProperties
<1>8. r \in Seq(T) /\ Len(r) = Len(s) + 1
  BY <1>1, <1>3, <1>5, <1>6, <1>7
<1>9. ASSUME NEW j \in 1 .. Len(s) + 1
      PROVE  r[j] = IF j < i THEN s[j] ELSE IF j = i THEN e ELSE s[j - 1]
  <2>1. r[j] = IF j <= i THEN head[j] ELSE back[j - i]
    BY <1>1, <1>3, <1>5, <1>6, <1>7
  <2>2. CASE j <= i
    BY <1>1, <1>5, <2>1, <2>2
  <2>3. CASE j > i
    <3>1. j - i \in 1 .. Len(s) - i + 1 /\ i + (j - i) - 1 = j - 1
      BY <1>1, <2>3
    <3>2. QED BY <1>1, <1>3, <2>1, <2>3, <3>1
  <2>4. QED BY <2>2, <2>3, <1>1
<1>10. DOMAIN r = 1 .. Len(s) + 1
  BY <1>8
<1>11. QED BY <1>8, <1>9, <1>10 DEF r

(* What is inserted finds its place, and at most one entry stays open.      *)
LEMMA InsertedIsSound ==
  ASSUME NEW p, NEW reps, NEW tl, Sound(tl, p, reps),
         NEW inc \in Incarnation, inc.end = None, Genuine(inc, p, reps)
  PROVE  Sound(Inserted(tl, inc), p, reps)
<1> DEFINE i == Bisect(tl, inc.start)
           shut == IF i > 0 /\ tl[i].end = None
                   THEN [tl EXCEPT ![i].end = inc.start] ELSE tl
           new == IF i < Len(tl) THEN [inc EXCEPT !.end = tl[i + 1].start] ELSE inc
           r == InsertAt(shut, i + 1, new)
           n == Len(tl)
<1>1. /\ tl \in Seq(Incarnation) /\ n \in Nat /\ DOMAIN tl = 1 .. n
      /\ \A j \in DOMAIN tl : /\ tl[j] \in Incarnation
                              /\ tl[j].start \in Int /\ tl[j].end \in Int \cup {None}
  BY Entries DEF Sound
<1>2. inc.start \in Int
  BY Fields
<1>3. i \in 0 .. n /\ \A j \in 1 .. n : j <= i <=> tl[j].start <= inc.start
  BY <1>1, <1>2, BisectSplits DEF Sound
<1>4. None \notin Int
  BY RegistryAssumption
<1> HIDE DEF i, n
<1>5. /\ shut \in Seq(Incarnation) /\ Len(shut) = n
      /\ \A j \in 1 .. n : SameButEnd(shut[j], tl[j]) /\ (j # i => shut[j] = tl[j])
      /\ i > 0 => shut[i].end # None
  <2>1. CASE i > 0 /\ tl[i].end = None
    <3> DEFINE e == [tl[i] EXCEPT !.end = inc.start]
    <3>1. i \in 1 .. n
      BY <1>3, <2>1
    <3>2. tl[i] \in Incarnation
      BY <1>1, <3>1
    <3>3. e \in Incarnation /\ e.end = inc.start /\ SameButEnd(e, tl[i])
      BY <1>2, <3>2 DEF Incarnation, SameButEnd
    <3>4. shut = [tl EXCEPT ![i] = e]
      BY <2>1
    <3> HIDE DEF e, shut
    <3>5. /\ shut \in Seq(Incarnation) /\ Len(shut) = n
          /\ \A j \in 1 .. n : shut[j] = IF j = i THEN e ELSE tl[j]
      BY <1>1, <3>1, <3>3, <3>4 DEF n
    <3>6. \A j \in 1 .. n : SameButEnd(tl[j], tl[j])
      BY <1>1 DEF SameButEnd
    <3>7. QED BY <1>2, <1>4, <3>1, <3>3, <3>5, <3>6
  <2>2. CASE ~ (i > 0 /\ tl[i].end = None)
    <3>1. shut = tl
      BY <2>2
    <3>2. \A j \in 1 .. n : SameButEnd(tl[j], tl[j])
      BY <1>1 DEF SameButEnd
    <3> HIDE DEF shut
    <3>3. QED BY <1>1, <2>2, <3>1, <3>2 DEF n
  <2>3. QED BY <2>1, <2>2
<1>6. /\ new \in Incarnation /\ SameButEnd(new, inc)
      /\ new.end = None => i = n
  <2>1. CASE i < n
    <3>1. tl[i + 1].start \in Int
      BY <1>1, <1>3, <2>1
    <3>2. new = [inc EXCEPT !.end = tl[i + 1].start]
      BY <2>1 DEF n
    <3>3. QED BY <1>4, <3>1, <3>2 DEF Incarnation, SameButEnd
  <2>2. CASE ~ (i < n)
    <3>1. new = inc
      BY <2>2 DEF n
    <3>2. QED BY <1>1, <1>3, <2>2, <3>1 DEF SameButEnd
  <2>3. QED BY <2>1, <2>2
<1> HIDE DEF shut, new
<1>7. /\ r \in Seq(Incarnation) /\ DOMAIN r = 1 .. n + 1 /\ Len(r) = n + 1
      /\ \A j \in 1 .. n + 1 :
           r[j] = IF j < i + 1 THEN shut[j] ELSE IF j = i + 1 THEN new ELSE shut[j - 1]
  <2> DEFINE k == i + 1
             q == InsertAt(shut, k, new)
  <2>1. k \in 1 .. Len(shut) + 1 /\ shut \in Seq(Incarnation) /\ new \in Incarnation
    BY <1>1, <1>3, <1>5, <1>6
  <2> HIDE DEF k
  <2>2. /\ q \in Seq(Incarnation) /\ Len(q) = Len(shut) + 1 /\ DOMAIN q = 1 .. Len(shut) + 1
        /\ \A j \in 1 .. Len(shut) + 1 :
             q[j] = IF j < k THEN shut[j] ELSE IF j = k THEN new ELSE shut[j - 1]
    BY <2>1, InsertAtFacts
  <2>3. QED BY <1>5, <2>2 DEF k
<1> HIDE DEF r
<1>8. \A j \in 1 .. n + 1 : r[j].start =
        IF j < i + 1 THEN tl[j].start ELSE IF j = i + 1 THEN inc.start ELSE tl[j - 1].start
  BY <1>1, <1>3, <1>5, <1>6, <1>7 DEF SameButEnd
<1>9. SortedSeq(r)
  <2>1. ASSUME NEW j \in 1 .. n + 1, NEW k \in 1 .. n + 1, j < k
        PROVE  r[j].start <= r[k].start
    <3>1. CASE k < i + 1
      <4>1. j \in 1 .. n /\ k \in 1 .. n /\ r[j].start = tl[j].start /\ r[k].start = tl[k].start
        BY <1>1, <1>3, <1>8, <2>1, <3>1
      <4>2. QED BY <1>1, <2>1, <4>1 DEF Sound, SortedSeq
    <3>2. CASE k = i + 1
      <4>1. j \in 1 .. n /\ r[j].start = tl[j].start /\ r[k].start = inc.start /\ j <= i
        BY <1>1, <1>3, <1>8, <2>1, <3>2
      <4>2. QED BY <1>3, <4>1
    <3>3. CASE k > i + 1 /\ j < i + 1
      <4>1. /\ j \in 1 .. n /\ k - 1 \in 1 .. n /\ j < k - 1
            /\ r[j].start = tl[j].start /\ r[k].start = tl[k - 1].start
        BY <1>1, <1>3, <1>8, <2>1, <3>3
      <4>2. QED BY <1>1, <4>1 DEF Sound, SortedSeq
    <3>4. CASE k > i + 1 /\ j = i + 1
      <4>1. /\ k - 1 \in 1 .. n /\ ~ (k - 1 <= i)
            /\ r[j].start = inc.start /\ r[k].start = tl[k - 1].start
        BY <1>1, <1>3, <1>8, <2>1, <3>4
      <4>2. QED BY <1>1, <1>2, <1>3, <4>1
    <3>5. CASE j > i + 1
      <4>1. /\ j - 1 \in 1 .. n /\ k - 1 \in 1 .. n /\ j - 1 < k - 1
            /\ r[j].start = tl[j - 1].start /\ r[k].start = tl[k - 1].start
        BY <1>1, <1>3, <1>8, <2>1, <3>5
      <4>2. QED BY <1>1, <4>1 DEF Sound, SortedSeq
    <3>6. QED BY <1>1, <1>3, <3>1, <3>2, <3>3, <3>4, <3>5
  <2>2. QED BY <1>7, <2>1 DEF SortedSeq
<1>10. OpenLast(r)
  <2>1. ASSUME NEW j \in 1 .. n + 1, r[j].end = None PROVE j = n + 1
    <3>1. CASE j < i + 1
      <4>1. j \in 1 .. n /\ r[j] = shut[j] /\ j # i
        BY <1>1, <1>3, <1>5, <1>7, <2>1, <3>1
      <4>2. j = n
        BY <1>1, <1>5, <2>1, <4>1 DEF Sound, OpenLast, n
      <4>3. QED BY <1>1, <1>3, <3>1, <4>1, <4>2
    <3>2. CASE j = i + 1
      BY <1>6, <1>7, <2>1, <3>2
    <3>3. CASE j > i + 1
      <4>1. j - 1 \in 1 .. n /\ r[j] = shut[j - 1] /\ j - 1 # i
        BY <1>1, <1>3, <1>7, <3>3
      <4>2. tl[j - 1].end = None
        BY <1>5, <2>1, <4>1
      <4>3. j - 1 = n
        BY <1>1, <4>1, <4>2 DEF Sound, OpenLast, n
      <4>4. QED BY <4>3
    <3>4. QED BY <1>1, <1>3, <3>1, <3>2, <3>3
  <2>2. QED BY <1>7, <2>1 DEF OpenLast
<1>11. ASSUME NEW j \in 1 .. n + 1 PROVE Genuine(r[j], p, reps)
  <2>1. \A k \in 1 .. n : Genuine(shut[k], p, reps)
    BY <1>1, <1>5, EndIsFree DEF Sound
  <2>2. Genuine(new, p, reps)
    BY <1>6, EndIsFree
  <2>3. QED BY <1>1, <1>3, <1>7, <2>1, <2>2
<1>12. Sound(r, p, reps)
  BY <1>7, <1>9, <1>10, <1>11 DEF Sound
<1>13. QED BY <1>12 DEF Inserted, r, shut, new, i

(* Inserting into one timeline leaves all of them sound.                    *)
LEMMA InsertKeeps ==
  ASSUME NEW tls, NEW reps, AllSound(tls, reps), NEW p \in Pids,
         NEW inc \in Incarnation, inc.end = None, Genuine(inc, p, reps)
  PROVE  AllSound([tls EXCEPT ![p] = Inserted(@, inc)], reps)
<1>1. Sound(Inserted(tls[p], inc), p, reps)
  BY InsertedIsSound DEF AllSound
<1>2. Inserted(tls[p], inc) \in Seq(Incarnation)
  BY <1>1 DEF Sound
<1>3. QED BY <1>1, <1>2 DEF AllSound

(* A placeholder claims nothing but a parent that was there before it.      *)
LEMMA Placeholders ==
  ASSUME NEW p, NEW reps, NEW t \in Int, NEW n \in Names \cup {None},
         NEW par \in Pids \cup {None}, NEW node \in NodeId \cup {None},
         node # None => node[1] = par /\ node[2] <= t - 1
  PROVE  LET inc == Placeholder(t, n, par, node)
         IN  inc \in Incarnation /\ inc.end = None /\ Genuine(inc, p, reps)
<1>1. t - 1 \in Int
  OBVIOUS
<1>2. QED BY <1>1 DEF Placeholder, Incarnation, Genuine

(* A parent is linked as of when its child started, or inferred before.     *)
LEMMA LinkedIsSound ==
  ASSUME NEW tls, NEW reps, AllSound(tls, reps), NEW par \in Pids \cup {None}, NEW t \in Int
  PROVE  LET link == Linked(tls, par, t)
         IN  /\ AllSound(link.timelines, reps)
             /\ link.node \in NodeId \cup {None}
             /\ link.node # None => link.node[1] = par /\ link.node[2] <= t
             /\ link.new \in SUBSET NodeId
<1> DEFINE link == Linked(tls, par, t)
           i == Resolve(tls[par], t)
           inc == Placeholder(t, None, None, None)
<1>1. CASE par = None
  <2>1. link = [timelines |-> tls, node |-> None, new |-> {}]
    BY <1>1 DEF Linked
  <2>2. QED BY <2>1
<1>2. CASE par # None /\ i # 0
  <2>1. par \in Pids /\ tls[par] \in Seq(Incarnation) /\ SortedSeq(tls[par])
    BY <1>2 DEF AllSound, Sound
  <2>2. i \in DOMAIN tls[par] /\ tls[par][i].start <= t
    BY <1>2, <2>1, Resolved
  <2>3. tls[par][i].start \in Int
    BY <2>1, <2>2, Entries
  <2>4. link = [timelines |-> tls, node |-> <<par, tls[par][i].start>>, new |-> {}]
    BY <1>2 DEF Linked
  <2> HIDE DEF i, link
  <2>5. QED BY <2>1, <2>2, <2>3, <2>4 DEF NodeId, link
<1>3. CASE par # None /\ i = 0
  <2>1. par \in Pids
    BY <1>3
  <2>2. inc \in Incarnation /\ inc.end = None /\ Genuine(inc, par, reps)
    BY Placeholders
  <2>3. link = [timelines |-> [tls EXCEPT ![par] = Inserted(@, inc)],
                node |-> <<par, t - 1>>, new |-> {<<par, t - 1>>}]
    BY <1>3 DEF Linked
  <2> HIDE DEF inc, link
  <2>4. AllSound(link.timelines, reps)
    BY <2>1, <2>2, <2>3, InsertKeeps
  <2>5. <<par, t - 1>> \in NodeId
    BY <2>1 DEF NodeId
  <2>6. t - 1 <= t
    OBVIOUS
  <2>7. QED BY <2>3, <2>4, <2>5, <2>6 DEF link
<1>4. QED BY <1>1, <1>2, <1>3

(* So is the process an event names.                                        *)
LEMMA SeenIsSound ==
  ASSUME NEW tls, NEW reps, AllSound(tls, reps), NEW p \in Pids, NEW t \in Int,
         NEW n \in Names \cup {None}, NEW par \in Pids \cup {None}
  PROVE  LET seen == Seen(tls, p, t, n, par)
         IN  AllSound(seen.timelines, reps) /\ seen.new \in SUBSET NodeId
<1> DEFINE seen == Seen(tls, p, t, n, par)
           i == Resolve(tls[p], t)
           link == Linked(tls, par, t - 1)
           inc == Placeholder(t, n, par, link.node)
<1>1. CASE i # 0
  <2>1. seen.timelines = tls /\ seen.new = {}
    BY <1>1 DEF Seen
  <2>2. QED BY <2>1
<1>2. CASE i = 0
  <2>1. t - 1 \in Int
    OBVIOUS
  <2>2. /\ AllSound(link.timelines, reps)
        /\ link.node \in NodeId \cup {None}
        /\ link.node # None => link.node[1] = par /\ link.node[2] <= t - 1
        /\ link.new \in SUBSET NodeId
    BY <2>1, LinkedIsSound
  <2>3. /\ seen.timelines = [link.timelines EXCEPT ![p] = Inserted(@, inc)]
        /\ seen.new = link.new \cup {<<p, t - 1>>}
    BY <1>2 DEF Seen
  <2> HIDE DEF link
  <2>4. inc \in Incarnation /\ inc.end = None /\ Genuine(inc, p, reps)
    BY <2>2, Placeholders
  <2> HIDE DEF inc, seen
  <2>5. AllSound(seen.timelines, reps)
    BY <2>2, <2>3, <2>4, InsertKeeps
  <2>6. <<p, t - 1>> \in NodeId
    BY <2>1 DEF NodeId
  <2>7. QED BY <2>2, <2>3, <2>5, <2>6 DEF seen
<1>3. QED BY <1>1, <1>2

(* Nor does rewriting one entry in its place disturb the others.            *)
LEMMA ReplaceKeeps ==
  ASSUME NEW tls, NEW reps, AllSound(tls, reps), NEW p \in Pids, NEW i \in DOMAIN tls[p],
         NEW e \in Incarnation, e.start = tls[p][i].start, Genuine(e, p, reps),
         e.end = None => tls[p][i].end = None
  PROVE  AllSound([tls EXCEPT ![p][i] = e], reps)
<1> DEFINE tl == tls[p]
           n == Len(tl)
           new == [tl EXCEPT ![i] = e]
<1>1. /\ tl \in Seq(Incarnation) /\ n \in Nat /\ DOMAIN tl = 1 .. n
      /\ SortedSeq(tl) /\ OpenLast(tl) /\ \A j \in DOMAIN tl : Genuine(tl[j], p, reps)
  BY Entries DEF AllSound, Sound
<1>2. [tls EXCEPT ![p][i] = e] = [tls EXCEPT ![p] = new]
  BY DEF AllSound
<1> HIDE DEF n
<1>3. /\ new \in Seq(Incarnation) /\ DOMAIN new = 1 .. n /\ Len(new) = n
      /\ \A j \in 1 .. n : new[j] = IF j = i THEN e ELSE tl[j]
  BY <1>1 DEF n
<1> HIDE DEF new
<1>4. SortedSeq(new)
  <2>1. \A j \in 1 .. n : new[j].start = tl[j].start
    BY <1>3
  <2>2. QED BY <1>1, <1>3, <2>1 DEF SortedSeq
<1>5. OpenLast(new)
  <2>1. \A j \in 1 .. n : new[j].end = None => tl[j].end = None
    BY <1>3
  <2>2. QED BY <1>1, <1>3, <2>1 DEF OpenLast, n
<1>6. \A j \in 1 .. n : Genuine(new[j], p, reps)
  BY <1>1, <1>3
<1>7. Sound(new, p, reps)
  BY <1>3, <1>4, <1>5, <1>6 DEF Sound
<1>8. QED BY <1>2, <1>3, <1>7 DEF AllSound

(* A report takes nothing away from what the others said.                   *)
LEMMA MoreReports ==
  ASSUME NEW tls, NEW reps, NEW more, reps \in SUBSET more, AllSound(tls, reps)
  PROVE  AllSound(tls, more)
<1>1. ASSUME NEW p \in Pids PROVE Sound(tls[p], p, more)
  <2>1. Sound(tls[p], p, reps)
    BY DEF AllSound
  <2>2. ASSUME NEW i \in DOMAIN tls[p] PROVE Genuine(tls[p][i], p, more)
    <3>1. Genuine(tls[p][i], p, reps)
      BY <2>1 DEF Sound
    <3>2. QED BY <3>1 DEF Genuine
  <2>3. QED BY <2>1, <2>2 DEF Sound
<1>2. QED BY <1>1 DEF AllSound
-----------------------------------------------------------------------------
(* The empty timelines are sound.                                           *)
LEMMA InitSound == Init => IInv
<1> SUFFICES ASSUME Init PROVE IInv
  OBVIOUS
<1>1. timeline \in [Pids -> Seq(Incarnation)] /\ \A p \in Pids : timeline[p] = <<>>
  BY DEF Init
<1>2. ASSUME NEW p \in Pids PROVE Sound(timeline[p], p, reports)
  BY <1>1 DEF Sound, SortedSeq, OpenLast
<1>3. TypeOK
  BY <1>1, RegistryAssumption DEF Init, TypeOK
<1>4. QED BY <1>1, <1>2, <1>3 DEF IInv, AllSound

(* What every observed event does beside its timelines.                     *)
LEMMA Observing ==
  ASSUME TypeOK, NEW t \in Times, Observe(t)
  PROVE  pace' \in Paces /\ clock' \in 0 .. MaxTime /\ steps' \in 0 .. MaxEvents
  BY RegistryAssumption DEF TypeOK, Observe, Times

(* A start completes an entry or inserts one (observe_start).               *)
LEMMA StartKeeps ==
  ASSUME IInv, NEW p \in Pids, NEW t \in Times, NEW n \in Names \cup {None},
         NEW k \in Ticks \cup {None}, NEW par \in (Parents \ {p}) \cup {None},
         ObserveStart(p, t, n, k, par)
  PROVE  IInv'
<1> DEFINE same == {i \in DOMAIN timeline[p] : SameCreation(timeline[p][i], t, n, par)}
           link == Linked(timeline, par, t)
           inc == [start |-> t, end |-> None, name |-> n, ticks |-> k, parent |-> par,
                   parentNode |-> link.node, inferred |-> FALSE, endObserved |-> FALSE]
<1>1. t \in Int /\ par \in Pids \cup {None} /\ None \notin Pids /\ DupWindow \in Nat
  BY RegistryAssumption DEF Times
<1>2. Observe(t) /\ reports' = reports \cup (IF k = None THEN {} ELSE {<<p, t, k>>})
  BY DEF ObserveStart
<1>3. pace' \in Paces /\ clock' \in 0 .. MaxTime /\ steps' \in 0 .. MaxEvents
  BY <1>2, Observing DEF IInv
<1>4. reports' \in SUBSET (Pids \X Times \X Ticks) /\ reports \in SUBSET reports'
  BY <1>2 DEF IInv, TypeOK
<1>5. k # None => <<p, t, k>> \in reports'
  BY <1>2
<1>6. AllSound(timeline, reports')
  BY <1>4, MoreReports DEF IInv
<1>7. ASSUME same # {} PROVE AllSound(timeline', reports') /\ known' \in SUBSET NodeId
  <2>1. PICK i \in same : timeline' = [timeline EXCEPT ![p][i] = FillMissing(@, n, k, par)]
    BY <1>7 DEF ObserveStart
  <2>2. known' = known
    BY <1>7 DEF ObserveStart
  <2> DEFINE old == timeline[p][i]
             e == FillMissing(old, n, k, par)
  <2>3. i \in DOMAIN timeline[p] /\ SameCreation(old, t, n, par)
    OBVIOUS
  <2>4. old \in Incarnation /\ Genuine(old, p, reports')
    BY <1>6, <2>3, Entries DEF AllSound, Sound
  <2>5. timeline' = [timeline EXCEPT ![p][i] = e]
    BY <2>1
  <2> HIDE DEF old
  <2>6. /\ e \in Incarnation /\ e.start = old.start /\ e.end = old.end
        /\ e.ticks = Or(old.ticks, k) /\ e.parent = Or(old.parent, par)
        /\ e.parentNode = old.parentNode /\ e.inferred = old.inferred
    BY <1>1, <2>4 DEF FillMissing, Incarnation, Or
  <2>7. Genuine(e, p, reports')
    <3>1. ASSUME e.ticks # None
          PROVE  /\ ~ e.inferred
                 /\ \E s \in Times : /\ <<p, s, e.ticks>> \in reports'
                                     /\ Distance(s, e.start) <= DupWindow
      <4>1. CASE old.ticks # None
        <5>1. e.ticks = old.ticks
          BY <2>6, <4>1 DEF Or
        <5>2. QED BY <2>4, <2>6, <4>1, <5>1 DEF Genuine
      <4>2. CASE old.ticks = None
        <5>1. e.ticks = k /\ k # None
          BY <2>6, <3>1, <4>2 DEF Or
        <5>2. ~ old.inferred /\ Distance(old.start, t) <= DupWindow
          BY <2>3 DEF SameCreation, old
        <5>3. old.start \in Int
          BY <2>4, Fields
        <5>4. Distance(t, old.start) <= DupWindow
          BY <1>1, <5>2, <5>3 DEF Distance
        <5>5. QED BY <1>5, <2>6, <5>1, <5>2, <5>4
      <4>3. QED BY <4>1, <4>2
    <3>2. ASSUME e.parentNode # None
          PROVE  e.parentNode[1] = e.parent /\ e.parentNode[2] <= e.start
      <4>1. old.parentNode[1] = old.parent /\ old.parentNode[2] <= old.start
        BY <2>4, <2>6, <3>2 DEF Genuine
      <4>2. old.parentNode \in NodeId
        BY <2>4, <2>6, <3>2 DEF Incarnation
      <4>3. old.parent # None
        BY <1>1, <4>1, <4>2 DEF NodeId
      <4>4. QED BY <2>6, <4>1, <4>3 DEF Or
    <3>3. QED BY <3>1, <3>2 DEF Genuine
  <2> HIDE DEF e
  <2>8. AllSound([timeline EXCEPT ![p][i] = e], reports')
    BY <1>6, <2>3, <2>6, <2>7, ReplaceKeeps DEF old
  <2>9. QED BY <2>2, <2>5, <2>8 DEF IInv, TypeOK
<1>8. ASSUME same = {} PROVE AllSound(timeline', reports') /\ known' \in SUBSET NodeId
  <2>1. /\ timeline' = [link.timelines EXCEPT ![p] = Inserted(@, inc)]
        /\ known' = known \cup link.new \cup {<<p, t>>}
    BY <1>8 DEF ObserveStart
  <2>2. /\ AllSound(link.timelines, reports')
        /\ link.node \in NodeId \cup {None}
        /\ link.node # None => link.node[1] = par /\ link.node[2] <= t
        /\ link.new \in SUBSET NodeId
    BY <1>1, <1>6, LinkedIsSound
  <2> HIDE DEF link
  <2>3. inc \in Incarnation /\ inc.end = None
    BY <1>1, <2>2 DEF Incarnation
  <2>4. Genuine(inc, p, reports')
    <3>1. Distance(t, t) <= DupWindow
      BY <1>1 DEF Distance
    <3>2. QED BY <1>5, <2>2, <3>1 DEF Genuine
  <2> HIDE DEF inc
  <2>5. AllSound(timeline', reports')
    BY <2>1, <2>2, <2>3, <2>4, InsertKeeps
  <2>6. <<p, t>> \in NodeId
    BY <1>1 DEF NodeId
  <2>7. QED BY <2>1, <2>2, <2>5, <2>6 DEF IInv, TypeOK
<1> HIDE DEF same
<1>9. AllSound(timeline', reports') /\ known' \in SUBSET NodeId
  BY <1>7, <1>8
<1>10. QED BY <1>3, <1>4, <1>9 DEF IInv, TypeOK, AllSound

(* A context event inserts at most placeholders (observe_context).          *)
LEMMA ContextKeeps ==
  ASSUME IInv, NEW p \in Pids, NEW t \in Times, NEW n \in Names \cup {None},
         NEW par \in (Parents \ {p}) \cup {None}, ObserveContext(p, t, n, par)
  PROVE  IInv'
<1> DEFINE seen == Seen(timeline, p, t, n, par)
<1>1. t \in Int /\ par \in Pids \cup {None}
  BY RegistryAssumption DEF Times
<1>2. /\ Observe(t) /\ timeline' = seen.timelines
      /\ known' = known \cup seen.new /\ reports' = reports
  BY DEF ObserveContext
<1>3. AllSound(seen.timelines, reports) /\ seen.new \in SUBSET NodeId
  BY <1>1, SeenIsSound DEF IInv
<1>4. pace' \in Paces /\ clock' \in 0 .. MaxTime /\ steps' \in 0 .. MaxEvents
  BY <1>2, Observing DEF IInv
<1> HIDE DEF seen
<1>5. AllSound(timeline', reports')
  BY <1>2, <1>3
<1>6. QED BY <1>2, <1>3, <1>4, <1>5 DEF IInv, TypeOK, AllSound

(* A stop ends the entry it resolves to (observe_stop).                     *)
LEMMA StopKeeps ==
  ASSUME IInv, NEW p \in Pids, NEW t \in Times, ObserveStop(p, t)
  PROVE  IInv'
<1> DEFINE i == Resolve(timeline[p], t)
           old == timeline[p][i]
           e == [old EXCEPT !.end = t, !.endObserved = TRUE]
<1>1. t \in Int /\ None \notin Int
  BY RegistryAssumption DEF Times
<1>2. /\ i # 0 /\ Observe(t) /\ known' = known /\ reports' = reports
      /\ timeline' = [timeline EXCEPT ![p][i] = e]
  BY DEF ObserveStop
<1>3. timeline[p] \in Seq(Incarnation) /\ Sound(timeline[p], p, reports)
  BY DEF IInv, AllSound
<1>4. i \in DOMAIN timeline[p]
  BY <1>1, <1>2, <1>3, Resolved DEF Sound
<1> HIDE DEF i
<1>5. old \in Incarnation /\ Genuine(old, p, reports)
  BY <1>3, <1>4, Entries DEF Sound
<1>6. e \in Incarnation /\ e.start = old.start /\ e.end = t /\ SameButEnd(e, old)
  BY <1>1, <1>5 DEF Incarnation, SameButEnd
<1>7. Genuine(e, p, reports)
  BY <1>5, <1>6, EndIsFree
<1> HIDE DEF e
<1>8. AllSound([timeline EXCEPT ![p][i] = e], reports)
  BY <1>1, <1>4, <1>6, <1>7, ReplaceKeeps DEF IInv
<1>9. AllSound(timeline', reports')
  BY <1>2, <1>8
<1>10. pace' \in Paces /\ clock' \in 0 .. MaxTime /\ steps' \in 0 .. MaxEvents
  BY <1>2, Observing DEF IInv
<1>11. QED BY <1>2, <1>9, <1>10 DEF IInv, TypeOK, AllSound

(* A prune takes entries away.                                              *)
LEMMA PruneKeeps ==
  ASSUME IInv, NEW t \in Times, Prune(t)
  PROVE  IInv'
<1> DEFINE S(p) == {i \in DOMAIN timeline[p] : ~ (Expiry(timeline[p][i]) < t)}
<1>1. /\ steps < MaxEvents /\ steps' = steps + 1
      /\ timeline' = [p \in Pids |-> Kept(timeline[p], S(p))]
      /\ known' \in SUBSET known
      /\ pace' = pace /\ clock' = clock /\ reports' = reports
  BY DEF Prune
<1>2. ASSUME NEW p \in Pids PROVE Sound(Kept(timeline[p], S(p)), p, reports)
  <2>1. S(p) \in SUBSET DOMAIN timeline[p]
    OBVIOUS
  <2> HIDE DEF S
  <2>2. QED BY <2>1, KeptIsSound DEF IInv, AllSound
<1> HIDE DEF S
<1>3. AllSound(timeline', reports')
  BY <1>1, <1>2 DEF AllSound, Sound
<1>4. steps' \in 0 .. MaxEvents
  BY <1>1, RegistryAssumption DEF IInv, TypeOK
<1>5. QED BY <1>1, <1>3, <1>4 DEF IInv, TypeOK, AllSound

(* Every step keeps the timelines sound.                                    *)
LEMMA StepKeeps == IInv /\ [Next]_vars => IInv'
<1> SUFFICES ASSUME IInv, [Next]_vars PROVE IInv'
  OBVIOUS
<1>1. CASE Next
  <2>1. PICK t \in Times :
          \/ Prune(t)
          \/ \E p \in Pids :
               \/ ObserveStop(p, t)
               \/ \E n \in Names \cup {None}, par \in (Parents \ {p}) \cup {None} :
                    \/ ObserveContext(p, t, n, par)
                    \/ \E k \in Ticks \cup {None} : ObserveStart(p, t, n, k, par)
    BY <1>1 DEF Next
  <2>2. CASE Prune(t)
    BY <2>2, PruneKeeps
  <2>3. ASSUME NEW p \in Pids, ObserveStop(p, t) PROVE IInv'
    BY <2>3, StopKeeps
  <2>4. ASSUME NEW p \in Pids, NEW n \in Names \cup {None},
               NEW par \in (Parents \ {p}) \cup {None}, ObserveContext(p, t, n, par)
        PROVE  IInv'
    BY <2>4, ContextKeeps
  <2>5. ASSUME NEW p \in Pids, NEW n \in Names \cup {None},
               NEW par \in (Parents \ {p}) \cup {None}, NEW k \in Ticks \cup {None},
               ObserveStart(p, t, n, k, par)
        PROVE  IInv'
    BY <2>5, StartKeeps
  <2>6. QED BY <2>1, <2>2, <2>3, <2>4, <2>5
<1>2. CASE UNCHANGED vars
  BY <1>2 DEF vars, IInv, TypeOK, AllSound
<1>3. QED BY <1>1, <1>2

(* The timelines stay sound whatever is observed, in whatever order.        *)
THEOREM InductiveInvariant == Spec => []IInv
<1>1. QED BY InitSound, StepKeeps, PTL DEF Spec
-----------------------------------------------------------------------------
(* At any time every timeline is typed, open at most at its end, and linked *)
(* only to parents that started first (observe_start, observe_context,      *)
(* observe_stop, _insert, prune).                                           *)
THEOREM RegistrySound == Spec => []TimelinesSound
<1>1. ASSUME IInv PROVE TimelinesSound
  <2>1. TypeOK
    BY <1>1 DEF IInv
  <2>2. OneOpenPerPid
    BY <1>1 DEF IInv, AllSound, Sound, OpenLast, OneOpenPerPid
  <2>3. ParentStartsFirst
    BY <1>1 DEF IInv, AllSound, Sound, Genuine, ParentStartsFirst
  <2>4. QED BY <2>1, <2>2, <2>3 DEF TimelinesSound
<1>2. QED BY <1>1, InductiveInvariant, PTL

(* "PID-reuse safe": for any number of reuses and any order of events, no   *)
(* event and no kill token of one process goes to another with its PID.     *)
THEOREM PidReuseSafe == Spec => []IncarnationsKeptApart
<1>1. ASSUME IInv PROVE IncarnationsKeptApart
  <2>1. ReuseSafe
    <3>1. ASSUME NEW p \in Pids, NEW t \in Times, Resolve(timeline[p], t) # 0,
                 NEW j \in DOMAIN timeline[p],
                 timeline[p][Resolve(timeline[p], t)].start < timeline[p][j].start,
                 timeline[p][j].start <= t
          PROVE  FALSE
      <4> DEFINE i == Resolve(timeline[p], t)
      <4>1. timeline[p] \in Seq(Incarnation) /\ SortedSeq(timeline[p]) /\ t \in Int
        BY <1>1 DEF IInv, AllSound, Sound, Times
      <4>2. i \in DOMAIN timeline[p] /\ timeline[p][j].start <= timeline[p][i].start
        BY <3>1, <4>1, Resolved
      <4>3. timeline[p][i].start \in Int /\ timeline[p][j].start \in Int
        BY <4>1, <4>2, Entries
      <4>4. QED BY <3>1, <4>2, <4>3
    <3>2. QED BY <3>1 DEF ReuseSafe
  <2>2. TicksAreGenuine
    BY <1>1 DEF IInv, AllSound, Sound, Genuine, TicksAreGenuine
  <2>3. QED BY <2>1, <2>2 DEF IncarnationsKeptApart
<1>2. QED BY <1>1, InductiveInvariant, PTL
-----------------------------------------------------------------------------
(* When events come in order, each at least two microseconds after the one  *)
(* before, whatever a step inserts starts when everything known is over or  *)
(* open: it is the last entry, and where it starts its predecessor ends.    *)
Past(tl, now) ==
  \A i \in DOMAIN tl : tl[i].start <= now /\ (tl[i].end # None => tl[i].end <= now)

(* Every entry but the last is over when the next one starts.               *)
Apart(tl) ==
  \A i, j \in DOMAIN tl : i < j => tl[i].end # None /\ tl[i].end <= tl[j].start

(* Nothing in any timeline is later than now.                               *)
SettledBy(tls, now) == \A p \in Pids : Past(tls[p], now) /\ Apart(tls[p])

(* No timeline of tls is longer than it is in after.                        *)
Grown(tls, after) ==
  \A p \in Pids : Len(after[p]) \in Nat /\ Len(tls[p]) <= Len(after[p])

(* What carries the order of a stream.                                      *)
OrderInv == InOrder => SettledBy(timeline, clock)

(* What is past stays so.                                                   *)
LEMMA Later ==
  ASSUME NEW tl \in Seq(Incarnation), NEW now \in Int, NEW t \in Int, now <= t, Past(tl, now)
  PROVE  Past(tl, t)
<1>1. \A i \in DOMAIN tl : tl[i].start \in Int /\ tl[i].end \in Int \cup {None}
  BY Entries
<1> QED BY <1>1 DEF Past

(* What starts after everything known is the last entry, and is apart.      *)
LEMMA InsertedLast ==
  ASSUME NEW tl \in Seq(Incarnation), SortedSeq(tl), NEW now \in Int, Past(tl, now), Apart(tl),
         NEW inc \in Incarnation, inc.end = None, now <= inc.start,
         NEW t \in Int, inc.start <= t
  PROVE  /\ Past(Inserted(tl, inc), t) /\ Apart(Inserted(tl, inc))
         /\ Len(Inserted(tl, inc)) = Len(tl) + 1
<1> DEFINE n == Len(tl)
           s == inc.start
           shut == IF n > 0 /\ tl[n].end = None THEN [tl EXCEPT ![n].end = s] ELSE tl
           r == InsertAt(shut, n + 1, inc)
<1>1. /\ n \in Nat /\ DOMAIN tl = 1 .. n /\ s \in Int /\ None \notin Int
      /\ \A j \in 1 .. n : /\ tl[j] \in Incarnation
                           /\ tl[j].start \in Int /\ tl[j].end \in Int \cup {None}
                           /\ tl[j].start <= now /\ (tl[j].end # None => tl[j].end <= now)
  BY Entries, Fields, RegistryAssumption DEF Past
<1>2. Bisect(tl, s) = n
  <2>1. Bisect(tl, s) \in 0 .. n /\ \A j \in 1 .. n : j <= Bisect(tl, s) <=> tl[j].start <= s
    BY <1>1, BisectSplits
  <2>2. \A j \in 1 .. n : tl[j].start <= s
    BY <1>1
  <2>3. n > 0 => n <= Bisect(tl, s)
    BY <1>1, <2>1, <2>2
  <2> QED BY <1>1, <2>1, <2>3
<1>3. Inserted(tl, inc) = r
  BY <1>1, <1>2 DEF Inserted
<1>4. /\ shut \in Seq(Incarnation) /\ Len(shut) = n
      /\ \A j \in 1 .. n : /\ shut[j].start = tl[j].start
                           /\ shut[j].end \in Int /\ shut[j].end <= s
                           /\ j < n => shut[j].end = tl[j].end
  <2>0. ASSUME NEW j \in 1 .. n, tl[j].end # None
        PROVE  tl[j].end \in Int /\ tl[j].end <= s
    BY <1>1, <2>0
  <2>1. \A j \in 1 .. n : j < n => tl[j].end # None
    BY <1>1 DEF Apart
  <2>2. CASE n > 0 /\ tl[n].end = None
    <3> DEFINE e == [tl[n] EXCEPT !.end = s]
    <3>1. n \in 1 .. n /\ tl[n] \in Incarnation
      BY <1>1, <2>2
    <3>2. e \in Incarnation /\ e.end = s /\ e.start = tl[n].start
      BY <1>1, <3>1 DEF Incarnation
    <3>3. shut = [tl EXCEPT ![n] = e]
      BY <2>2
    <3> HIDE DEF e, shut
    <3>4. /\ shut \in Seq(Incarnation) /\ Len(shut) = n
          /\ \A j \in 1 .. n : shut[j] = IF j = n THEN e ELSE tl[j]
      BY <1>1, <3>1, <3>2, <3>3
    <3> HIDE DEF n, s
    <3>5. s <= s
      BY <1>1
    <3> QED BY <1>1, <2>0, <2>1, <3>2, <3>4, <3>5
  <2>3. CASE ~ (n > 0 /\ tl[n].end = None)
    <3>1. shut = tl
      BY <2>3
    <3>2. \A j \in 1 .. n : tl[j].end # None
      BY <1>1, <2>1, <2>3
    <3> HIDE DEF shut
    <3> QED BY <1>1, <2>0, <3>1, <3>2
  <2> QED BY <2>2, <2>3
<1> HIDE DEF shut
<1>5. /\ DOMAIN r = 1 .. n + 1 /\ Len(r) = n + 1
      /\ \A j \in 1 .. n + 1 : r[j] = IF j = n + 1 THEN inc ELSE shut[j]
  <2> DEFINE k == n + 1
  <2>1. k \in 1 .. Len(shut) + 1
    BY <1>1, <1>4
  <2> HIDE DEF k
  <2>2. /\ DOMAIN InsertAt(shut, k, inc) = 1 .. Len(shut) + 1
        /\ Len(InsertAt(shut, k, inc)) = Len(shut) + 1
        /\ \A j \in 1 .. Len(shut) + 1 : InsertAt(shut, k, inc)[j] =
             IF j < k THEN shut[j] ELSE IF j = k THEN inc ELSE shut[j - 1]
    BY <1>4, <2>1, InsertAtFacts
  <2>3. \A j \in 1 .. n + 1 : j < k \/ j = k
    BY <1>1 DEF k
  <2> QED BY <1>1, <1>4, <2>2, <2>3 DEF k
<1> HIDE DEF r
<1>6. \A j \in 1 .. n + 1 : j = n + 1 \/ j \in 1 .. n
  BY <1>1
<1>7. Past(r, t)
  <2>1. ASSUME NEW j \in 1 .. n PROVE r[j].start <= t /\ r[j].end <= t
    <3>1. r[j] = shut[j]
      BY <1>1, <1>5
    <3> QED BY <1>1, <1>4, <3>1
  <2>2. r[n + 1] = inc
    BY <1>1, <1>5
  <2> QED BY <1>5, <1>6, <2>1, <2>2 DEF Past
<1>8. Apart(r)
  <2>1. ASSUME NEW i \in 1 .. n + 1, NEW j \in 1 .. n + 1, i < j
        PROVE  r[i].end # None /\ r[i].end <= r[j].start
    <3>1. i \in 1 .. n /\ r[i] = shut[i] /\ shut[i].end \in Int /\ shut[i].end <= s
      BY <1>1, <1>4, <1>5, <2>1
    <3>2. CASE j = n + 1
      BY <1>1, <1>5, <3>1, <3>2
    <3>3. CASE j \in 1 .. n
      <4>1. i < n /\ r[j] = shut[j] /\ j # n + 1
        BY <1>1, <1>5, <2>1, <3>1, <3>3
      <4>2. r[j].start = tl[j].start /\ r[i].end = tl[i].end
        BY <1>4, <3>1, <3>3, <4>1
      <4>3. tl[i].end # None /\ tl[i].end <= tl[j].start
        BY <1>1, <2>1, <3>1, <3>3 DEF Apart
      <4> QED BY <4>2, <4>3
    <3> QED BY <1>6, <3>2, <3>3
  <2> QED BY <1>5, <2>1 DEF Apart
<1> QED BY <1>3, <1>5, <1>7, <1>8

(* A parent inferred now is the last of its PID, and nobody else moves.    *)
LEMMA LinkedLast ==
  ASSUME NEW tls, NEW reps, AllSound(tls, reps), NEW now \in Int, SettledBy(tls, now),
         NEW t \in Int, now <= t - 1, NEW par \in Pids \cup {None}
  PROVE  LET after == Linked(tls, par, t).timelines
         IN  /\ SettledBy(after, t) /\ Grown(tls, after)
             /\ \A p \in Pids \ {par} : after[p] = tls[p]
<1> DEFINE inc == Placeholder(t, None, None, None)
           link == Linked(tls, par, t)
<1>1. SettledBy(tls, t)
  <2>1. now <= t
    OBVIOUS
  <2>2. ASSUME NEW p \in Pids PROVE Past(tls[p], t)
    BY <2>1, Later DEF SettledBy, AllSound
  <2> QED BY <2>2 DEF SettledBy
<1>1a. \A p \in Pids : Len(tls[p]) \in Nat
  BY LenProperties DEF AllSound
<1>2. CASE par = None \/ Resolve(tls[par], t) # 0
  <2>1. link.timelines = tls
    BY <1>2 DEF Linked
  <2> QED BY <1>1, <1>1a, <2>1 DEF Grown
<1>3. CASE par # None /\ ~ (Resolve(tls[par], t) # 0)
  <2>1. link.timelines = [tls EXCEPT ![par] = Inserted(@, inc)]
    BY <1>3 DEF Linked
  <2>2. par \in Pids /\ tls[par] \in Seq(Incarnation) /\ SortedSeq(tls[par])
        /\ Past(tls[par], now) /\ Apart(tls[par])
    BY <1>3 DEF AllSound, Sound, SettledBy
  <2>3. inc \in Incarnation /\ inc.end = None /\ inc.start = t - 1 /\ t - 1 <= t
    BY Placeholders DEF Placeholder
  <2> HIDE DEF inc, link
  <2>4. /\ Past(Inserted(tls[par], inc), t) /\ Apart(Inserted(tls[par], inc))
        /\ Len(Inserted(tls[par], inc)) = Len(tls[par]) + 1
    BY <2>2, <2>3, InsertedLast
  <2>5. \A p \in Pids : link.timelines[p] = IF p = par THEN Inserted(tls[par], inc) ELSE tls[p]
    BY <2>1 DEF AllSound
  <2>6. SettledBy(link.timelines, t)
    BY <1>1, <2>4, <2>5 DEF SettledBy
  <2>7. ASSUME NEW p \in Pids
        PROVE  Len(link.timelines[p]) \in Nat /\ Len(tls[p]) <= Len(link.timelines[p])
    <3>1. Len(tls[p]) \in Nat
      BY <1>1a
    <3>2. CASE p = par
      <4>1. Len(link.timelines[p]) = Len(tls[p]) + 1
        BY <2>4, <2>5, <3>2
      <4> QED BY <3>1, <4>1
    <3>3. CASE p # par
      <4>1. link.timelines[p] = tls[p]
        BY <2>5, <3>3
      <4> QED BY <3>1, <4>1
    <3> QED BY <3>2, <3>3
  <2>8. Grown(tls, link.timelines)
    BY <2>7 DEF Grown
  <2> QED BY <2>5, <2>6, <2>8 DEF link
<1> QED BY <1>2, <1>3

(* So is the process itself.                                               *)
LEMMA InsertedSettles ==
  ASSUME NEW tls, NEW reps, AllSound(tls, reps), NEW now \in Int, NEW t \in Int, NEW r \in Int,
         NEW p \in Pids, SettledBy(tls, r), Past(tls[p], now),
         NEW inc \in Incarnation, inc.end = None,
         now <= inc.start, inc.start <= t, r <= t
  PROVE  /\ SettledBy([tls EXCEPT ![p] = Inserted(@, inc)], t)
         /\ Grown(tls, [tls EXCEPT ![p] = Inserted(@, inc)])
<1> DEFINE new == [tls EXCEPT ![p] = Inserted(@, inc)]
<1>1. tls[p] \in Seq(Incarnation) /\ SortedSeq(tls[p]) /\ Apart(tls[p])
  BY DEF AllSound, Sound, SettledBy
<1>2. /\ Past(Inserted(tls[p], inc), t) /\ Apart(Inserted(tls[p], inc))
      /\ Len(Inserted(tls[p], inc)) = Len(tls[p]) + 1
  BY <1>1, InsertedLast
<1>3. ASSUME NEW q \in Pids, q # p PROVE Past(tls[q], t) /\ Apart(tls[q])
  BY <1>3, Later DEF SettledBy, AllSound
<1>4. \A q \in Pids : new[q] = IF q = p THEN Inserted(tls[p], inc) ELSE tls[q]
  BY DEF AllSound
<1> HIDE DEF new
<1>5. SettledBy(new, t)
  BY <1>2, <1>3, <1>4 DEF SettledBy
<1>6. Grown(tls, new)
  <2>1. \A q \in Pids : Len(tls[q]) \in Nat
    BY LenProperties DEF AllSound
  <2> QED BY <1>2, <1>4, <2>1 DEF Grown
<1> QED BY <1>5, <1>6 DEF new

(* In order, an event comes two microseconds after the last one at least.  *)
LEMMA InOrderTimes ==
  ASSUME TypeOK, InOrder, NEW t \in Times, Observe(t)
  PROVE  t \in Int /\ clock \in Int /\ clock <= t - 2 /\ clock' = t /\ pace' = pace
<1>1. pace.gap \in Int /\ clock \in Nat /\ t \in Int
  BY RegistryAssumption DEF TypeOK, Times
<1>2. pace.gap > 1 /\ t >= clock + pace.gap /\ clock' = IF t > clock THEN t ELSE clock
  BY DEF InOrder, Observe
<1> QED BY <1>1, <1>2 DEF Observe

(* A start keeps the order events come in.                                  *)
LEMMA StartInOrder ==
  ASSUME IInv, InOrder, SettledBy(timeline, clock), NEW p \in Pids, NEW t \in Times,
         NEW n \in Names \cup {None}, NEW k \in Ticks \cup {None},
         NEW par \in (Parents \ {p}) \cup {None}, ObserveStart(p, t, n, k, par)
  PROVE  SettledBy(timeline', clock') /\ Grown(timeline, timeline')
<1> DEFINE same == {i \in DOMAIN timeline[p] : SameCreation(timeline[p][i], t, n, par)}
           link == Linked(timeline, par, t)
           inc == [start |-> t, end |-> None, name |-> n, ticks |-> k, parent |-> par,
                   parentNode |-> link.node, inferred |-> FALSE, endObserved |-> FALSE]
<1>1. /\ t \in Int /\ clock \in Int /\ clock <= t - 2 /\ clock' = t
      /\ clock <= t - 1 /\ clock <= t /\ t <= t
  BY InOrderTimes DEF IInv, ObserveStart
<1>2. par \in Pids \cup {None} /\ par # p /\ AllSound(timeline, reports)
      /\ timeline \in [Pids -> Seq(Incarnation)]
  BY RegistryAssumption DEF IInv, AllSound
<1>3. CASE same # {}
  <2>1. PICK i \in same : timeline' = [timeline EXCEPT ![p][i] = FillMissing(@, n, k, par)]
    BY <1>3 DEF ObserveStart
  <2>2. i \in DOMAIN timeline[p] /\ timeline[p] \in Seq(Incarnation)
    BY <1>2
  <2> DEFINE old == timeline[p][i]
             e == FillMissing(old, n, k, par)
  <2>3. e.start = old.start /\ e.end = old.end
    <3>1. old \in Incarnation
      BY <2>2
    <3> QED BY <3>1 DEF FillMissing, Incarnation
  <2>4. timeline' = [timeline EXCEPT ![p][i] = e]
    BY <2>1
  <2> HIDE DEF same, e
  <2>5. ASSUME NEW q \in Pids
        PROVE  /\ DOMAIN timeline'[q] = DOMAIN timeline[q]
               /\ \A j \in DOMAIN timeline[q] : /\ timeline'[q][j].start = timeline[q][j].start
                                                /\ timeline'[q][j].end = timeline[q][j].end
    BY <1>2, <2>2, <2>3, <2>4
  <2>9a. \A q \in Pids : Len(timeline'[q]) = Len(timeline[q])
    BY <1>2, <2>2, <2>4
  <2>6. SettledBy(timeline, t)
    BY <1>1, <1>2, Later DEF SettledBy
  <2>7. ASSUME NEW q \in Pids PROVE Past(timeline'[q], t) /\ Apart(timeline'[q])
    <3>1. Past(timeline[q], t) /\ Apart(timeline[q])
      BY <2>6 DEF SettledBy
    <3> QED BY <2>5, <3>1 DEF Past, Apart
  <2>8. Grown(timeline, timeline')
    <3>1. \A q \in Pids : Len(timeline[q]) \in Nat
      BY <1>2, LenProperties
    <3> QED BY <2>9a, <3>1 DEF Grown
  <2> QED BY <1>1, <2>7, <2>8 DEF SettledBy
<1>4. CASE same = {}
  <2>1. timeline' = [link.timelines EXCEPT ![p] = Inserted(@, inc)]
    BY <1>4 DEF ObserveStart
  <2>2. /\ AllSound(link.timelines, reports) /\ link.node \in NodeId \cup {None}
    BY <1>1, <1>2, LinkedIsSound
  <2>3. /\ SettledBy(link.timelines, t) /\ link.timelines[p] = timeline[p]
        /\ Grown(timeline, link.timelines)
    <3>1. /\ SettledBy(link.timelines, t) /\ Grown(timeline, link.timelines)
          /\ \A q \in Pids \ {par} : link.timelines[q] = timeline[q]
      BY <1>1, <1>2, LinkedLast
    <3> HIDE DEF link
    <3> QED BY <1>2, <3>1
  <2>4. Past(timeline[p], clock)
    BY DEF SettledBy
  <2> HIDE DEF link
  <2>5. inc \in Incarnation /\ inc.end = None /\ inc.start = t
    BY <1>1, <1>2, <2>2 DEF Incarnation
  <2> HIDE DEF inc
  <2> DEFINE tls == link.timelines
  <2>6. AllSound(tls, reports) /\ SettledBy(tls, t) /\ Past(tls[p], clock)
    BY <2>2, <2>3, <2>4
  <2> HIDE DEF tls
  <2>7. /\ SettledBy([tls EXCEPT ![p] = Inserted(@, inc)], t)
        /\ Grown(tls, [tls EXCEPT ![p] = Inserted(@, inc)])
    BY <1>1, <2>5, <2>6, InsertedSettles
  <2>8. \A q \in Pids : Len(timeline[q]) \in Nat /\ Len(tls[q]) \in Nat
    BY <1>2, <2>2, LenProperties DEF tls, AllSound
  <2> QED BY <1>1, <2>1, <2>3, <2>7, <2>8 DEF tls, Grown
<1> QED BY <1>3, <1>4

(* So does a process inferred from an event, with its parent before it.     *)
LEMMA ContextInOrder ==
  ASSUME IInv, InOrder, SettledBy(timeline, clock), NEW p \in Pids, NEW t \in Times,
         NEW n \in Names \cup {None}, NEW par \in (Parents \ {p}) \cup {None},
         ObserveContext(p, t, n, par)
  PROVE  SettledBy(timeline', clock') /\ Grown(timeline, timeline')
<1> DEFINE r == t - 1
           link == Linked(timeline, par, r)
           inc == Placeholder(t, n, par, link.node)
<1>1. /\ t \in Int /\ clock \in Int /\ clock <= t - 2 /\ clock' = t
      /\ clock <= r - 1 /\ clock <= r /\ r \in Int /\ clock <= t /\ r <= t
  BY InOrderTimes DEF IInv, ObserveContext
<1>2. par \in Pids \cup {None} /\ par # p /\ AllSound(timeline, reports)
      /\ timeline \in [Pids -> Seq(Incarnation)]
  BY RegistryAssumption DEF IInv, AllSound
<1>3. timeline' = Seen(timeline, p, t, n, par).timelines
  BY DEF ObserveContext
<1>4. CASE Resolve(timeline[p], t) # 0
  <2>1. timeline' = timeline
    BY <1>3, <1>4 DEF Seen
  <2>2. \A q \in Pids : Past(timeline[q], t) /\ Apart(timeline[q])
    BY <1>1, <1>2, Later DEF SettledBy
  <2>3. \A q \in Pids : Len(timeline[q]) \in Nat
    BY <1>2, LenProperties
  <2> QED BY <1>1, <2>1, <2>2, <2>3 DEF SettledBy, Grown
<1>5. CASE ~ (Resolve(timeline[p], t) # 0)
  <2>1. timeline' = [link.timelines EXCEPT ![p] = Inserted(@, inc)]
    BY <1>3, <1>5 DEF Seen
  <2> HIDE DEF r
  <2>2. /\ AllSound(link.timelines, reports) /\ link.node \in NodeId \cup {None}
        /\ link.node # None => link.node[1] = par /\ link.node[2] <= r
    BY <1>1, <1>2, LinkedIsSound
  <2>3. /\ SettledBy(link.timelines, r) /\ link.timelines[p] = timeline[p]
        /\ Grown(timeline, link.timelines)
    <3>1. /\ SettledBy(link.timelines, r) /\ Grown(timeline, link.timelines)
          /\ \A q \in Pids \ {par} : link.timelines[q] = timeline[q]
      BY <1>1, <1>2, LinkedLast
    <3> HIDE DEF link
    <3> QED BY <1>2, <3>1
  <2>4. Past(timeline[p], clock)
    BY DEF SettledBy
  <2> HIDE DEF link
  <2>5. inc \in Incarnation /\ inc.end = None
    <3>1. link.node # None => link.node[1] = par /\ link.node[2] <= t - 1
      BY <2>2 DEF r
    <3> QED BY <1>1, <1>2, <2>2, <3>1, Placeholders
  <2>6. inc.start = r
    BY DEF Placeholder, r
  <2> HIDE DEF inc
  <2> DEFINE tls == link.timelines
  <2>7. AllSound(tls, reports) /\ SettledBy(tls, r) /\ Past(tls[p], clock)
    BY <2>2, <2>3, <2>4
  <2> HIDE DEF tls
  <2>8. /\ SettledBy([tls EXCEPT ![p] = Inserted(@, inc)], t)
        /\ Grown(tls, [tls EXCEPT ![p] = Inserted(@, inc)])
    BY <1>1, <2>5, <2>6, <2>7, InsertedSettles
  <2>9. \A q \in Pids : Len(timeline[q]) \in Nat /\ Len(tls[q]) \in Nat
    BY <1>2, <2>2, LenProperties DEF tls, AllSound
  <2> QED BY <1>1, <2>1, <2>3, <2>8, <2>9 DEF tls, Grown
<1> QED BY <1>4, <1>5

(* In order, the process that stops is the last with its PID.              *)
LEMMA StopInOrder ==
  ASSUME IInv, InOrder, SettledBy(timeline, clock), NEW p \in Pids, NEW t \in Times,
         ObserveStop(p, t)
  PROVE  SettledBy(timeline', clock') /\ Grown(timeline, timeline')
<1> DEFINE tl == timeline[p]
           n == Len(tl)
           i == Resolve(tl, t)
           e == [tl[i] EXCEPT !.end = t, !.endObserved = TRUE]
<1>1. t \in Int /\ clock \in Int /\ clock <= t - 2 /\ clock' = t /\ clock <= t /\ t # None
  BY InOrderTimes, RegistryAssumption DEF IInv, ObserveStop
<1>2. /\ timeline \in [Pids -> Seq(Incarnation)] /\ tl \in Seq(Incarnation) /\ SortedSeq(tl)
      /\ Past(tl, clock) /\ Apart(tl)
  BY DEF IInv, AllSound, Sound, SettledBy
<1>3. /\ n \in Nat /\ DOMAIN tl = 1 .. n
      /\ \A j \in 1 .. n : tl[j] \in Incarnation /\ tl[j].start \in Int
  BY <1>2, Entries
<1>4. i = n /\ n # 0
  <2>1. i # 0 /\ i = Bisect(tl, t)
    BY DEF ObserveStop, Resolve
  <2>2. Bisect(tl, t) \in 0 .. n /\ \A j \in 1 .. n : j <= Bisect(tl, t) <=> tl[j].start <= t
    BY <1>1, <1>2, <1>3, BisectSplits
  <2>3. \A j \in 1 .. n : tl[j].start <= t
    BY <1>1, <1>2, <1>3 DEF Past
  <2>4. n > 0 => n <= Bisect(tl, t)
    BY <1>3, <2>2, <2>3
  <2> QED BY <1>3, <2>1, <2>2, <2>4
<1>5. timeline' = [timeline EXCEPT ![p][n] = e]
  <2>1. timeline' = [timeline EXCEPT ![p][i] = [@ EXCEPT !.end = t, !.endObserved = TRUE]]
    BY DEF ObserveStop
  <2>2. [timeline EXCEPT ![p][i] = [@ EXCEPT !.end = t, !.endObserved = TRUE]]
          = [timeline EXCEPT ![p][i] = e]
    OBVIOUS
  <2> HIDE DEF i, e, n
  <2> QED BY <1>4, <2>1, <2>2
<1>6. n \in 1 .. n /\ e.start = tl[n].start /\ e.end = t
  <2>1. tl[n] \in Incarnation
    BY <1>3, <1>4
  <2> QED BY <1>3, <1>4, <2>1 DEF Incarnation
<1> HIDE DEF i, e, n
<1>7. ASSUME NEW q \in Pids
      PROVE  /\ DOMAIN timeline'[q] = DOMAIN timeline[q]
             /\ \A j \in DOMAIN timeline[q] :
                  /\ timeline'[q][j].start = timeline[q][j].start
                  /\ timeline'[q][j].end = IF q = p /\ j = n THEN t ELSE timeline[q][j].end
  BY <1>2, <1>3, <1>5, <1>6
<1>8. ASSUME NEW q \in Pids PROVE Past(timeline'[q], t)
  <2>1. Past(timeline[q], t)
    BY <1>1, <1>2, Later DEF SettledBy
  <2> QED BY <1>1, <1>7, <2>1 DEF Past
<1>9. ASSUME NEW q \in Pids PROVE Apart(timeline'[q])
  <2>1. Apart(timeline[q])
    BY DEF SettledBy
  <2>2. \A j, k \in DOMAIN timeline[q] : j < k => ~ (q = p /\ j = n)
    BY <1>3
  <2> QED BY <1>7, <2>1, <2>2 DEF Apart
<1>10. Grown(timeline, timeline')
  <2>1. ASSUME NEW q \in Pids PROVE Len(timeline[q]) \in Nat /\ Len(timeline'[q]) = Len(timeline[q])
    BY <1>2, <1>3, <1>5, <1>6
  <2> QED BY <2>1 DEF Grown
<1> QED BY <1>1, <1>8, <1>9, <1>10 DEF SettledBy

(* So does a prune.                                                         *)
LEMMA PruneInOrder ==
  ASSUME IInv, SettledBy(timeline, clock), NEW t \in Times, Prune(t)
  PROVE  SettledBy(timeline', clock')
<1> DEFINE S(p) == {i \in DOMAIN timeline[p] : ~ (Expiry(timeline[p][i]) < t)}
<1>1. clock' = clock /\ timeline' = [p \in Pids |-> Kept(timeline[p], S(p))]
  BY DEF Prune
<1>2. ASSUME NEW p \in Pids PROVE Past(timeline'[p], clock) /\ Apart(timeline'[p])
  <2> DEFINE tl == timeline[p]
             new == timeline'[p]
  <2>1. tl \in Seq(Incarnation) /\ S(p) \in SUBSET DOMAIN tl /\ Past(tl, clock) /\ Apart(tl)
    BY DEF IInv, AllSound, SettledBy
  <2>2. new = Kept(tl, S(p))
    BY <1>1
  <2> HIDE DEF S, new
  <2>3. PICK pos \in [DOMAIN new -> S(p)] :
          \A k \in DOMAIN new : /\ new[k] = tl[pos[k]]
                                /\ \A l \in DOMAIN new : k < l => pos[k] < pos[l]
    BY <2>1, <2>2, KeptInOrder
  <2>4. \A k \in DOMAIN new : pos[k] \in DOMAIN tl
    BY <2>1
  <2> QED BY <2>1, <2>3, <2>4 DEF Past, Apart, new
<1> QED BY <1>1, <1>2 DEF SettledBy

(* While events come in order, what is known is over or last, and past.    *)
LEMMA OrderHolds == Spec => []OrderInv
<1>1. Init => OrderInv
  <2> SUFFICES ASSUME Init, NEW p \in Pids PROVE Past(timeline[p], clock) /\ Apart(timeline[p])
    BY DEF OrderInv, SettledBy
  <2> QED BY DEF Init, Past, Apart
<1>2. IInv /\ OrderInv /\ [Next]_vars => OrderInv'
  <2> SUFFICES ASSUME IInv, OrderInv, [Next]_vars, InOrder' PROVE SettledBy(timeline', clock')
    BY DEF OrderInv
  <2>1. CASE UNCHANGED vars
    BY <2>1 DEF vars, OrderInv, InOrder, SettledBy
  <2>2. CASE Next
    <3>1. pace' = pace
      <4>1. \A t \in Times : Prune(t) => pace' = pace
        BY DEF Prune
      <4>2. \A t \in Times, p \in Pids : ObserveStop(p, t) => pace' = pace
        BY DEF ObserveStop, Observe
      <4>3. \A t, p, n, par : ObserveContext(p, t, n, par) => pace' = pace
        BY DEF ObserveContext, Observe
      <4>4. \A t, p, n, par, k : ObserveStart(p, t, n, k, par) => pace' = pace
        BY DEF ObserveStart, Observe
      <4> QED BY <2>2, <4>1, <4>2, <4>3, <4>4 DEF Next
    <3>2. InOrder /\ SettledBy(timeline, clock)
      BY <3>1 DEF InOrder, OrderInv
    <3> QED BY <2>2, <3>2, StartInOrder, ContextInOrder, StopInOrder, PruneInOrder DEF Next
  <2> QED BY <2>1, <2>2
<1> QED BY <1>1, <1>2, InductiveInvariant, PTL DEF Spec

(* "Two processes that reused the same PID occupy disjoint intervals":     *)
(* whatever is observed, inferred and pruned, while events come in order.  *)
THEOREM ReusedPidsAreDisjoint == Spec => []DisjointInOrder
<1>1. OrderInv => DisjointInOrder
  BY DEF OrderInv, SettledBy, Apart, DisjointInOrder, IntervalsDisjoint
<1> QED BY <1>1, OrderHolds, PTL

(* In order, an event to come is answered from the last entry of its PID,  *)
(* if that covers it.                                                      *)
LEMMA LastAnswers ==
  ASSUME NEW tl \in Seq(Incarnation), SortedSeq(tl), NEW t \in Int, Past(tl, t)
  PROVE  /\ Len(tl) \in Nat
         /\ Resolve(tl, t) = IF tl # <<>> /\ Covers(tl[Len(tl)], t) THEN Len(tl) ELSE 0
<1> DEFINE n == Len(tl)
<1>1. n \in Nat /\ DOMAIN tl = 1 .. n /\ (tl = <<>> <=> n = 0)
  BY Entries, EmptySeq, LenProperties
<1>2. Bisect(tl, t) \in 0 .. n /\ \A j \in 1 .. n : j <= Bisect(tl, t) <=> tl[j].start <= t
  BY <1>1, BisectSplits
<1>3. n > 0 => n <= Bisect(tl, t)
  <2>1. ASSUME n > 0 PROVE n \in 1 .. n /\ tl[n].start <= t
    BY <1>1, <2>1 DEF Past
  <2> QED BY <1>2, <2>1
<1>4. Bisect(tl, t) = n
  BY <1>1, <1>2, <1>3
<1> QED BY <1>1, <1>4 DEF Resolve

(* A prune that forgets everything older than before leaves the last entry *)
(* or one that was over by then.                                           *)
LEMMA KeptAnswers ==
  ASSUME NEW tl \in Seq(Incarnation), SortedSeq(tl), NEW now \in Int, Past(tl, now), Apart(tl),
         NEW before \in Int, before <= now, NEW t \in Int, now <= t,
         NEW kept, kept = Kept(tl, {i \in DOMAIN tl : ~ (Expiry(tl[i]) < before)}),
         SortedSeq(kept), Past(kept, t)
  PROVE  LET i == Resolve(tl, t)
             k == Resolve(kept, t)
         IN  IF i = 0 THEN k = 0 ELSE k # 0 /\ kept[k] = tl[i]
<1> DEFINE S == {i \in DOMAIN tl : ~ (Expiry(tl[i]) < before)}
           n == Len(tl)
           m == Len(kept)
<1>1. /\ n \in Nat /\ DOMAIN tl = 1 .. n /\ None \notin Int /\ MaxLifetime \in Int
      /\ (tl = <<>> <=> n = 0)
      /\ \A j \in 1 .. n : tl[j].start \in Int /\ tl[j].end \in Int \cup {None}
  BY Entries, EmptySeq, LenProperties, RegistryAssumption
<1>2. kept = Kept(tl, S) /\ S \in SUBSET DOMAIN tl
  OBVIOUS
<1>3. Past(tl, t)
  BY Later
<1>4. Resolve(tl, t) = IF tl # <<>> /\ Covers(tl[n], t) THEN n ELSE 0
  BY <1>3, LastAnswers
<1>5. kept \in Seq(Incarnation)
  <2> HIDE DEF S
  <2> QED BY <1>2, KeptInOrder
<1>6. m \in Nat /\ Resolve(kept, t) = IF kept # <<>> /\ Covers(kept[m], t) THEN m ELSE 0
  BY <1>5, LastAnswers
<1>7. DOMAIN kept = 1 .. m /\ (kept = <<>> <=> m = 0)
  BY <1>5, EmptySeq, LenProperties
<1>8. PICK pos \in [DOMAIN kept -> S] :
        /\ \A k \in DOMAIN kept : kept[k] = tl[pos[k]]
        /\ \A i \in S : kept # <<>> /\ i <= pos[m]
  <2> DEFINE new == Kept(tl, S)
  <2> HIDE DEF S
  <2>1. \E pos \in [DOMAIN new -> S] :
          /\ \A k \in DOMAIN new : new[k] = tl[pos[k]]
          /\ \A i \in S : new # <<>> /\ i <= pos[Len(new)]
    <3>1. PICK pos \in [DOMAIN new -> S] :
            /\ \A k \in DOMAIN new :
                 /\ new[k] = tl[pos[k]]
                 /\ \A l \in DOMAIN new : k < l => pos[k] < pos[l]
            /\ \A i \in S : new # <<>> /\ i <= pos[Len(new)]
      BY <1>2, KeptInOrder
    <3> QED BY <3>1
  <2> QED BY <1>2, <2>1
<1>9. ASSUME NEW j \in 1 .. n, Covers(tl[j], t) PROVE j = n /\ j \in S
  <2>1. j = n
    <3>1. ASSUME j # n PROVE FALSE
      <4>0. n \in 1 .. n /\ j < n
        <5>1. n \in Nat
          BY <1>1
        <5> HIDE DEF n
        <5> QED BY <3>1, <5>1
      <4>1. tl[j].end # None /\ tl[j].end <= now
        BY <1>1, <4>0 DEF Apart, Past
      <4> QED BY <1>1, <1>9, <4>1 DEF Covers
    <3> QED BY <3>1
  <2>2. ~ (Expiry(tl[j]) < before)
    BY <1>1, <1>9 DEF Covers, Expiry
  <2> QED BY <1>1, <2>1, <2>2
<1>10. CASE Resolve(tl, t) = 0
  <2>1. ASSUME kept # <<>>, Covers(kept[m], t) PROVE FALSE
    <3>1. m \in 1 .. m
      BY <1>6, <1>7, <2>1
    <3>2. pos[m] \in 1 .. n /\ kept[m] = tl[pos[m]]
      BY <1>1, <1>7, <1>8, <3>1
    <3>3. pos[m] = n /\ Covers(tl[n], t)
      BY <1>9, <2>1, <3>2
    <3> QED BY <1>1, <1>4, <1>10, <3>2, <3>3
  <2> QED BY <1>6, <1>10, <2>1
<1>11. CASE Resolve(tl, t) # 0
  <2>1. n \in 1 .. n /\ Covers(tl[n], t) /\ Resolve(tl, t) = n
    BY <1>1, <1>4, <1>11
  <2>2. n \in S
    BY <1>9, <2>1
  <2>3. kept # <<>> /\ n <= pos[m]
    BY <1>8, <2>2
  <2>4. m \in 1 .. m
    BY <1>6, <1>7, <2>3
  <2>5. pos[m] \in 1 .. n /\ kept[m] = tl[pos[m]]
    BY <1>1, <1>7, <1>8, <2>4
  <2>6. pos[m] = n
    BY <1>1, <2>3, <2>5
  <2> HIDE DEF n, m, S
  <2> QED BY <1>6, <1>11, <2>1, <2>3, <2>4, <2>5, <2>6
<1> QED BY <1>10, <1>11

(* Pruning is invisible to the events still to come while events come in   *)
(* order: it forgets only what no answer will ever be given from.          *)
THEOREM PruningIsInvisible == Spec => PruneKeepsAnswers
<1> DEFINE Same == \A p \in Pids, t \in clock .. MaxTime : Answer(p, t)' = Answer(p, t)
           Shrunk == \E p \in Pids : Len(timeline'[p]) < Len(timeline[p])
           Claim == InOrder /\ Shrunk => Same
<1>1. IInv /\ OrderInv /\ IInv' /\ OrderInv' /\ [Next]_vars => [Claim]_vars
  <2> SUFFICES ASSUME IInv, OrderInv, IInv', OrderInv', Next, InOrder,
                      NEW q \in Pids, Len(timeline'[q]) < Len(timeline[q])
               PROVE  Same
    OBVIOUS
  <2>0. SettledBy(timeline, clock) /\ timeline \in [Pids -> Seq(Incarnation)]
    BY DEF OrderInv, IInv, AllSound
  <2>1. ~ Grown(timeline, timeline')
    <3>1. Len(timeline[q]) \in Nat
      BY <2>0, LenProperties
    <3> QED BY <3>1 DEF Grown
  <2>2. PICK before \in Times : Prune(before)
    BY <2>0, <2>1, StartInOrder, ContextInOrder, StopInOrder DEF Next
  <2>3. /\ clock \in Int /\ before \in Int /\ before <= clock /\ clock' = clock /\ pace' = pace
        /\ timeline' = [p \in Pids |->
             Kept(timeline[p], {i \in DOMAIN timeline[p] : ~ (Expiry(timeline[p][i]) < before)})]
    BY <2>2 DEF Prune, Times, IInv, TypeOK
  <2>4. ASSUME NEW p \in Pids, NEW t \in clock .. MaxTime PROVE Answer(p, t)' = Answer(p, t)
    <3> DEFINE tl == timeline[p]
               kept == timeline'[p]
               i == Resolve(tl, t)
               k == Resolve(kept, t)
    <3>1. /\ tl \in Seq(Incarnation) /\ SortedSeq(tl) /\ Past(tl, clock) /\ Apart(tl)
          /\ t \in Int /\ clock <= t
      BY <2>0, <2>3 DEF IInv, AllSound, Sound, SettledBy
    <3>2. kept = Kept(tl, {j \in DOMAIN tl : ~ (Expiry(tl[j]) < before)})
      BY <2>3
    <3>3. kept \in Seq(Incarnation) /\ SortedSeq(kept) /\ Past(kept, clock)
      <4>1. SettledBy(timeline', clock)
        BY <2>3 DEF OrderInv, InOrder
      <4> QED BY <4>1 DEF IInv, AllSound, Sound, SettledBy
    <3> HIDE DEF tl, kept
    <3>4. Past(kept, t)
      BY <2>3, <3>1, <3>3, Later
    <3>5. IF i = 0 THEN k = 0 ELSE k # 0 /\ kept[k] = tl[i]
      BY <2>3, <3>1, <3>2, <3>3, <3>4, KeptAnswers
    <3>6. /\ Answer(p, t) = IF i = 0 THEN None ELSE <<p, tl[i].start, tl[i].name>>
          /\ Answer(p, t)' = IF k = 0 THEN None ELSE <<p, kept[k].start, kept[k].name>>
      BY DEF Answer, tl, kept
    <3> HIDE DEF i, k
    <3> QED BY <3>5, <3>6
  <2> QED BY <2>4
<1> QED BY <1>1, InductiveInvariant, OrderHolds, PTL DEF Spec, PruneKeepsAnswers
=============================================================================
