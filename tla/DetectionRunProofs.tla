------------------------- MODULE DetectionRunProofs -------------------------
(* What holds of DetectionRun for any rules, shapes of events, spans, caps *)
(* and bounds. A day of retention and a dedup_ttl of ten minutes satisfy   *)
(* the assumption that relates them.                                       *)
EXTENDS DetectionRun, SequenceTheorems, FiniteSetTheorems, WellFoundedInduction, TLAPS

(* On a nonempty finite set f has a minimum: where the set of what is      *)
(* smaller is minimal.                                                     *)
LEMMA Minimum ==
  ASSUME NEW T, IsFiniteSet(T), T # {}, NEW f, \A x \in T : f[x] \in Nat
  PROVE  \E x \in T : \A y \in T : f[x] <= f[y]
<1> DEFINE Below(x) == {y \in T : f[y] < f[x]}
           B == {Below(x) : x \in T}
<1>1. B \subseteq SUBSET T
  OBVIOUS
<1>2. B # {}
  <2>1. PICK x : x \in T
    OBVIOUS
  <2>2. Below(x) \in B
    BY <2>1
  <2>3. QED BY <2>2
<1>3. IsWellFoundedOn(StrictSubsetOrdering(T), SUBSET T)
  BY FS_StrictSubsetOrderingWellFounded, FS_FiniteSubsetsOfFinite
<1>4. \E b \in B : \A c \in B : ~ (<<c, b>> \in StrictSubsetOrdering(T))
  <2> HIDE DEF B
  <2>1. QED BY <1>1, <1>2, <1>3, WFMin
<1>5. PICK x \in T : \A c \in B : ~ (<<c, Below(x)>> \in StrictSubsetOrdering(T))
  BY <1>4
<1>6. ASSUME NEW y \in T, f[y] < f[x] PROVE FALSE
  <2>1. Below(y) \in B /\ Below(x) \in SUBSET T /\ Below(y) \in SUBSET T
    OBVIOUS
  <2>2. y \in Below(x)
    BY <1>6
  <2>3. y \notin Below(y)
    <3>1. f[y] \in Nat
      OBVIOUS
    <3>2. ~ (f[y] < f[y])
      BY <3>1
    <3>3. QED BY <3>2
  <2>4. ASSUME NEW z \in Below(y) PROVE z \in Below(x)
    <3>1. z \in T /\ f[z] < f[y] /\ f[z] \in Nat /\ f[y] \in Nat /\ f[x] \in Nat
      BY <2>4
    <3>2. f[z] < f[x]
      BY <1>6, <3>1
    <3>3. QED BY <3>1, <3>2
  <2> HIDE DEF Below
  <2>5. Below(y) \subseteq Below(x) /\ Below(y) # Below(x)
    BY <2>2, <2>3, <2>4
  <2>6. <<Below(y), Below(x)>> \in StrictSubsetOrdering(T)
    BY <2>1, <2>5 DEF StrictSubsetOrdering
  <2>7. QED BY <1>5, <2>1, <2>6
<1>7. ASSUME NEW y \in T PROVE f[x] <= f[y]
  <2>1. f[x] \in Nat /\ f[y] \in Nat /\ ~ (f[y] < f[x])
    BY <1>6
  <2>2. QED BY <2>1
<1>8. QED BY <1>7

(* The cap: a set has at most M elements if each has fewer than M above    *)
(* it.                                                                     *)
LEMMA CapBound ==
  ASSUME NEW T, IsFiniteSet(T), NEW M \in Nat \ {0},
         NEW f, \A x \in T : f[x] \in Nat,
         \A x, y \in T : f[x] = f[y] => x = y,
         NEW above,
         \A x \in T : /\ IsFiniteSet(above[x]) /\ Cardinality(above[x]) < M
                     /\ \A y \in T : f[y] > f[x] => y \in above[x]
  PROVE  Cardinality(T) <= M
<1>1. CASE T = {}
  BY <1>1, FS_EmptySet
<1>2. CASE T # {}
  <2>1. PICK x \in T : \A y \in T : f[x] <= f[y]
    BY <1>2, Minimum
  <2>2. ASSUME NEW y \in T \ {x} PROVE y \in above[x]
    <3>1. f[y] # f[x] /\ f[x] <= f[y] /\ f[x] \in Nat /\ f[y] \in Nat
      BY <2>1
    <3>2. QED BY <3>1
  <2>3. T \ {x} \in SUBSET above[x]
    BY <2>2
  <2>4. Cardinality(T \ {x}) <= Cardinality(above[x])
    BY <2>3, FS_Subset
  <2>5. Cardinality(T \ {x}) = Cardinality(T) - 1 /\ Cardinality(T) \in Nat
    BY FS_RemoveElement, FS_CardinalityType
  <2>6. Cardinality(above[x]) \in Nat /\ Cardinality(above[x]) < M
    BY FS_CardinalityType
  <2>7. QED BY <2>4, <2>5, <2>6
<1>3. QED BY <1>1, <1>2

(* What an arrival does to the stream.                                     *)
LEMMA ArrivalFacts ==
  ASSUME StreamTypeOK, NEW e \in Event, Arrives(e)
  PROVE  /\ StreamTypeOK'
         /\ Len(stream) \in Nat /\ Len(stream') = Len(stream) + 1
         /\ Len(stream') \in 1 .. MaxEvents
         /\ stream'[Len(stream')] = e
         /\ \A i \in 1 .. Len(stream) : stream'[i] = stream[i] /\ stream[i] \in Event
<1>1. stream \in Seq(Event) /\ Len(stream) < MaxEvents /\ stream' = Append(stream, e)
  BY DEF StreamTypeOK, Arrives
<1>2. Len(stream) \in Nat /\ \A i \in 1 .. Len(stream) : stream[i] \in Event
  BY <1>1, LenProperties, ElementOfSeq
<1>3. /\ stream' \in Seq(Event) /\ Len(stream') = Len(stream) + 1
      /\ \A i \in 1 .. Len(stream) : stream'[i] = stream[i]
      /\ stream'[Len(stream) + 1] = e
  BY <1>1, AppendProperties
<1>4. MaxEvents \in Nat
  BY StreamAssumption
<1>5. QED BY <1>1, <1>2, <1>3, <1>4 DEF StreamTypeOK
-----------------------------------------------------------------------------
(* The invariant of the sequence rule: places in the stream, types, and    *)
(* the two properties.                                                     *)
InStream ==
  \A m \in AllMatches : m \in Seq(1 .. Len(stream)) /\ Len(m) \in 1 .. NumSteps

Lengths ==
  /\ \A m \in partials : Len(m) < NumSteps
  /\ \A m \in completed : Len(m) = NumSteps

SequenceInv == InStream /\ Lengths /\ CompletedIsWitnessed /\ OneMatchPerStep

(* The positions of a match are in the stream.                             *)
LEMMA Positions ==
  ASSUME NEW L \in Nat, NEW m \in Seq(1 .. L), Len(m) >= 1
  PROVE  /\ Len(m) \in Nat
         /\ \A k \in 1 .. Len(m) : m[k] \in 1 .. L
         /\ m[1] \in 1 .. L /\ m[Len(m)] \in 1 .. L
<1>1. Len(m) \in Nat /\ \A k \in 1 .. Len(m) : m[k] \in 1 .. L
  BY LenProperties, ElementOfSeq
<1>2. QED BY <1>1

(* A match stays one when the stream grows.                                *)
LEMMA StillWitnessed ==
  ASSUME StreamTypeOK, NEW e \in Event, Arrives(e),
         NEW m \in Seq(1 .. Len(stream)), Len(m) >= 1
  PROVE  /\ Witnessed(m)' <=> Witnessed(m)
         /\ m \in Seq(1 .. Len(stream'))
         /\ LastOf(stream', m) = LastOf(stream, m)
         /\ StartOf(stream', m) = StartOf(stream, m)
<1>1. /\ Len(stream) \in Nat /\ Len(stream') = Len(stream) + 1
      /\ \A i \in 1 .. Len(stream) : stream'[i] = stream[i]
  BY ArrivalFacts
<1>2. /\ Len(m) \in Nat
      /\ \A k \in 1 .. Len(m) : m[k] \in 1 .. Len(stream)
      /\ m[1] \in 1 .. Len(stream) /\ m[Len(m)] \in 1 .. Len(stream)
  BY <1>1, Positions
<1>3. /\ LastOf(stream', m) = LastOf(stream, m)
      /\ StartOf(stream', m) = StartOf(stream, m)
  BY <1>1, <1>2 DEF LastOf, StartOf
<1>4. \A k \in 1 .. Len(m) : stream'[m[k]] = stream[m[k]]
  BY <1>1, <1>2
<1>5. \A k \in 2 .. Len(m) : stream'[m[k - 1]] = stream[m[k - 1]]
  <2>1. \A k \in 2 .. Len(m) : k - 1 \in 1 .. Len(m)
    BY <1>2
  <2>2. QED BY <1>4, <2>1
<1>6. \A k \in 2 .. Len(m) : k \in 1 .. Len(m)
  BY <1>2
<1>7. Witnessed(m)' <=> Witnessed(m)
  BY <1>3, <1>4, <1>5, <1>6 DEF Witnessed
<1>8. 1 .. Len(stream) \subseteq 1 .. Len(stream')
  BY <1>1
<1>9. m \in Seq(1 .. Len(stream'))
  BY <1>8, SeqMonotonic
<1>10. QED BY <1>3, <1>7, <1>9

(* A match the current event advances.                                     *)
LEMMA ExtendedMatch ==
  ASSUME StreamTypeOK, SequenceInv, NEW e \in Event, Arrives(e),
         NEW p \in Oldest(stream'), NEW m, m = Append(p, Len(stream'))
  PROVE  /\ p \in partials /\ p \in Fresh(stream')
         /\ Len(p) \in 1 .. NumSteps - 1
         /\ Len(m) = Len(p) + 1
         /\ \A k \in 1 .. Len(p) : m[k] = p[k] /\ p[k] \in 1 .. Len(stream)
         /\ m[Len(p) + 1] = Len(stream')
         /\ m \in Seq(1 .. Len(stream'))
         /\ Witnessed(m)'
<1>1. /\ Len(stream) \in Nat /\ Len(stream') = Len(stream) + 1
      /\ stream'[Len(stream')] = e
      /\ \A i \in 1 .. Len(stream) : stream'[i] = stream[i] /\ stream[i] \in Event
  BY ArrivalFacts
<1>2. p \in Fresh(stream') /\ p \in partials
  BY DEF Oldest, Fresh
<1>3. p \in AllMatches
  BY <1>2 DEF AllMatches
<1>4. p \in Seq(1 .. Len(stream)) /\ Len(p) \in 1 .. NumSteps - 1
  BY <1>2, <1>3, SequenceAssumption DEF SequenceInv, InStream, Lengths
<1>5. Len(p) \in Nat /\ Len(p) >= 1
  BY <1>4, SequenceAssumption
<1>6. /\ \A k \in 1 .. Len(p) : p[k] \in 1 .. Len(stream)
      /\ p[1] \in 1 .. Len(stream) /\ p[Len(p)] \in 1 .. Len(stream)
  BY <1>1, <1>4, <1>5, Positions
<1>7. /\ p \in Seq(1 .. Len(stream'))
      /\ Witnessed(p)'
      /\ LastOf(stream', p) = LastOf(stream, p)
  BY <1>3, <1>4, <1>5, StillWitnessed DEF SequenceInv, CompletedIsWitnessed
<1>8. /\ Len(m) = Len(p) + 1 /\ m \in Seq(1 .. Len(stream'))
      /\ \A k \in 1 .. Len(p) : m[k] = p[k]
      /\ m[Len(p) + 1] = Len(stream')
  <2>1. Len(stream') \in 1 .. Len(stream')
    BY <1>1
  <2>2. QED BY <1>7, <2>1, AppendProperties
<1>9. Witnessed(m)'
  <2>1. PICK k \in Steps(stream') \ {1} : p \in Waiting(stream', k)
    BY DEF Oldest
  <2>2. /\ Len(p) = k - 1 /\ LastOf(stream', p) <= e.ts
        /\ e.ts - StartOf(stream', p) <= MaxSpan
        /\ k \in e.shape.steps
    BY <1>1, <2>1 DEF Waiting, Fresh, Now, Steps
  <2>3. k = Len(p) + 1
    <3>1. k \in Nat
      BY <2>2, StreamAssumption DEF Event
    <3>2. QED BY <1>5, <2>2, <3>1
  <2>4. \A i \in 1 .. Len(m) : i \in stream'[m[i]].shape.steps
    <3>1. \A i \in 1 .. Len(p) : i \in stream'[p[i]].shape.steps
      BY <1>7 DEF Witnessed
    <3>2. ASSUME NEW i \in 1 .. Len(m) PROVE i \in 1 .. Len(p) \/ i = Len(p) + 1
      BY <1>5, <1>8
    <3>3. QED BY <1>1, <1>8, <2>2, <2>3, <3>1, <3>2
  <2>5. ASSUME NEW i \in 2 .. Len(m)
        PROVE  m[i - 1] < m[i] /\ stream'[m[i - 1]].ts <= stream'[m[i]].ts
    <3>1. CASE i = Len(p) + 1
      <4>1. m[i - 1] = p[Len(p)] /\ m[i] = Len(stream')
        BY <1>5, <1>8, <3>1
      <4>2. QED BY <1>1, <1>6, <2>2, <4>1 DEF LastOf
    <3>2. CASE i # Len(p) + 1
      <4>1. i \in 2 .. Len(p) /\ i - 1 \in 1 .. Len(p) /\ i \in 1 .. Len(p)
        BY <1>5, <1>8, <3>2
      <4>2. QED BY <1>7, <1>8, <4>1 DEF Witnessed
    <3>3. QED BY <3>1, <3>2
  <2>6. LastOf(stream', m) - StartOf(stream', m) <= MaxSpan
    <3>1. m[1] = p[1] /\ m[Len(m)] = Len(stream')
      BY <1>5, <1>8
    <3>2. QED BY <1>1, <2>2, <3>1 DEF LastOf, StartOf
  <2>7. QED BY <2>4, <2>5, <2>6 DEF Witnessed
<1>10. QED BY <1>2, <1>4, <1>6, <1>8, <1>9

(* A match the current event opens.                                        *)
LEMMA OpenedMatch ==
  ASSUME StreamTypeOK, NEW e \in Event, Arrives(e), 1 \in Steps(stream'),
         NEW m, m = <<Len(stream')>>
  PROVE  /\ Len(m) = 1 /\ m[1] = Len(stream')
         /\ m \in Seq(1 .. Len(stream'))
         /\ Witnessed(m)'
<1>1. /\ Len(stream) \in Nat /\ Len(stream') = Len(stream) + 1
      /\ stream'[Len(stream')] = e
  BY ArrivalFacts
<1>2. Len(m) = 1 /\ m[1] = Len(stream')
  OBVIOUS
<1>3. Len(stream') \in 1 .. Len(stream')
  BY <1>1
<1>4. m \in Seq(1 .. Len(stream'))
  BY <1>3
<1>5. e.ts \in Int /\ MaxSpan \in Nat \ {0}
  BY SequenceAssumption DEF Event, Times
<1>6. LastOf(stream', m) - StartOf(stream', m) <= MaxSpan
  BY <1>1, <1>2, <1>5 DEF LastOf, StartOf
<1>7. \A k \in 1 .. Len(m) : k \in stream'[m[k]].shape.steps
  BY <1>2 DEF Steps
<1>8. 2 .. Len(m) = {}
  BY <1>2
<1>9. Witnessed(m)'
  BY <1>6, <1>7, <1>8 DEF Witnessed
<1>10. QED BY <1>2, <1>4, <1>9

(* No two matches the current event advances are of the same length.       *)
LEMMA OneAdvances ==
  ASSUME SequenceInv, NEW p \in Oldest(stream'), NEW q \in Oldest(stream'),
         Len(p) = Len(q), StreamTypeOK
  PROVE  p = q
<1>1. p \in partials /\ q \in partials
  BY DEF Oldest, Fresh
<1>2. /\ p \in Seq(1 .. Len(stream)) /\ Len(p) \in 1 .. NumSteps
      /\ q \in Seq(1 .. Len(stream)) /\ Len(q) \in 1 .. NumSteps
      /\ Len(stream) \in Nat /\ NumSteps \in Nat
  BY <1>1, LenProperties, SequenceAssumption DEF SequenceInv, InStream, AllMatches, StreamTypeOK
<1>3. p[1] \in Nat /\ q[1] \in Nat
  BY <1>2, Positions
<1>4. PICK k \in Steps(stream') \ {1} :
        p \in Waiting(stream', k) /\ \A n \in Waiting(stream', k) : p[1] <= n[1]
  BY DEF Oldest
<1>5. PICK j \in Steps(stream') \ {1} :
        q \in Waiting(stream', j) /\ \A n \in Waiting(stream', j) : q[1] <= n[1]
  BY DEF Oldest
<1>6. q \in Waiting(stream', k) /\ p \in Waiting(stream', j)
  BY <1>4, <1>5 DEF Waiting
<1>7. p[1] = q[1]
  BY <1>3, <1>4, <1>5, <1>6
<1>8. p \in AllMatches /\ q \in AllMatches /\ 1 \in 1 .. NumSteps
      /\ 1 <= Len(p) /\ 1 <= Len(q)
  BY <1>1, <1>2 DEF AllMatches
<1>9. QED BY <1>7, <1>8 DEF SequenceInv, OneMatchPerStep

(* After the current event there are the matches it left alone, those it   *)
(* advanced or completed, and the one it may have opened.                  *)
Movable == Advancing(stream') \cup Completing(stream')
Kept == completed \cup (Fresh(stream') \ Movable)
Moved == {Append(p, Len(stream')) : p \in Movable}
Started == IF 1 \in Steps(stream') THEN {<<Len(stream')>>} ELSE {}

(* There is nothing else.                                                  *)
LEMMA WhatThereIs ==
  ASSUME SequenceObserve(stream'), Steps(stream') # {}
  PROVE  AllMatches' \subseteq Kept \cup Moved \cup Started
<1>1. completed' \subseteq Kept \cup Moved
  BY DEF SequenceObserve, Extended, Kept, Moved, Movable
<1>2. Remaining(stream') \subseteq Kept \cup Moved
  BY DEF Remaining, Extended, Kept, Moved, Movable
<1>3. Opened(stream', Remaining(stream')) \subseteq Remaining(stream') \cup Started
  BY DEF Opened, Opens, Started
<1>4. partials' \subseteq Opened(stream', Remaining(stream'))
  BY DEF SequenceObserve, Capped
<1>5. QED BY <1>1, <1>2, <1>3, <1>4 DEF AllMatches

(* Whatever is moved was the oldest to wait for its step.                  *)
LEMMA MovableIsOldest == Movable \subseteq Oldest(stream')
BY DEF Movable, Advancing, Completing

(* Each of these is in the stream and witnessed.                           *)
LEMMA EachIsMatch ==
  ASSUME StreamTypeOK, SequenceInv, NEW e \in Event, Arrives(e),
         NEW m \in Kept \cup Moved \cup Started
  PROVE  m \in Seq(1 .. Len(stream')) /\ Len(m) \in 1 .. NumSteps /\ Witnessed(m)'
<1>1. CASE m \in Kept
  <2>1. m \in AllMatches
    BY <1>1 DEF Kept, AllMatches, Fresh
  <2>2. m \in Seq(1 .. Len(stream)) /\ Len(m) \in 1 .. NumSteps /\ Witnessed(m)
    BY <2>1 DEF SequenceInv, InStream, CompletedIsWitnessed
  <2>3. Len(m) >= 1
    BY <2>2, SequenceAssumption
  <2>4. QED BY <2>2, <2>3, StillWitnessed
<1>2. CASE m \in Moved
  <2>1. PICK p \in Movable : m = Append(p, Len(stream'))
    BY <1>2 DEF Moved
  <2>2. p \in Oldest(stream')
    BY <2>1, MovableIsOldest
  <2>3. /\ Len(p) \in 1 .. NumSteps - 1 /\ Len(m) = Len(p) + 1
        /\ m \in Seq(1 .. Len(stream')) /\ Witnessed(m)'
    BY <2>1, <2>2, ExtendedMatch
  <2>4. QED BY <2>3, SequenceAssumption
<1>3. CASE m \in Started
  <2>1. 1 \in Steps(stream') /\ m = <<Len(stream')>>
    BY <1>3 DEF Started
  <2>2. Len(m) = 1 /\ m \in Seq(1 .. Len(stream')) /\ Witnessed(m)'
    BY <2>1, OpenedMatch
  <2>3. QED BY <2>2, SequenceAssumption
<1>4. QED BY <1>1, <1>2, <1>3

(* No two of them share a step.                                            *)
Apart(m, n) == \A k \in 1 .. NumSteps : k <= Len(m) /\ k <= Len(n) => m[k] # n[k]

(* Two different matches of the rule, after an event as before it, share   *)
(* no step.                                                                *)
LEMMA EachTwoApart ==
  ASSUME StreamTypeOK, SequenceInv, NEW e \in Event, Arrives(e),
         NEW m \in Kept \cup Moved \cup Started,
         NEW n \in Kept \cup Moved \cup Started, m # n
  PROVE  Apart(m, n)
<1>1. Len(stream) \in Nat /\ Len(stream') = Len(stream) + 1
  BY ArrivalFacts
<1>2. ASSUME NEW a \in Kept
      PROVE  /\ a \in AllMatches /\ Len(a) \in Nat
             /\ \A k \in 1 .. Len(a) : a[k] \in 1 .. Len(stream)
  <2>1. a \in AllMatches
    BY <1>2 DEF Kept, AllMatches, Fresh
  <2>2. a \in Seq(1 .. Len(stream)) /\ Len(a) \in 1 .. NumSteps
    BY <2>1 DEF SequenceInv, InStream
  <2>3. Len(a) >= 1
    BY <2>2, SequenceAssumption
  <2>4. QED BY <1>1, <2>1, <2>2, <2>3, Positions
<1>3. ASSUME NEW p \in Movable, NEW a, a = Append(p, Len(stream'))
      PROVE  /\ p \in AllMatches /\ p \notin Kept
             /\ Len(p) \in 1 .. NumSteps - 1 /\ Len(a) = Len(p) + 1
             /\ \A k \in 1 .. Len(p) : a[k] = p[k] /\ p[k] \in 1 .. Len(stream)
             /\ a[Len(p) + 1] = Len(stream')
  <2>1. p \in Oldest(stream')
    BY MovableIsOldest
  <2>2. /\ p \in partials /\ Len(p) \in 1 .. NumSteps - 1 /\ Len(a) = Len(p) + 1
        /\ \A k \in 1 .. Len(p) : a[k] = p[k] /\ p[k] \in 1 .. Len(stream)
        /\ a[Len(p) + 1] = Len(stream')
    BY <1>3, <2>1, ExtendedMatch
  <2>3. p \notin completed
    BY <2>2, SequenceAssumption DEF SequenceInv, Lengths
  <2>4. QED BY <2>2, <2>3 DEF Kept, AllMatches
<1>4. ASSUME NEW a \in Started PROVE Len(a) = 1 /\ a[1] = Len(stream')
  BY <1>4 DEF Started
<1>5. ASSUME NEW a \in AllMatches, NEW b \in AllMatches, a # b PROVE Apart(a, b)
  BY <1>5 DEF SequenceInv, OneMatchPerStep, Apart
<1>6. ASSUME NEW a \in Kept, NEW b \in Moved PROVE Apart(a, b) /\ Apart(b, a)
  <2>1. PICK p \in Movable : b = Append(p, Len(stream'))
    BY DEF Moved
  <2>2. Apart(a, p)
    BY <1>2, <1>3, <1>5, <2>1
  <2>3. ASSUME NEW k \in 1 .. NumSteps, k <= Len(a), k <= Len(b) PROVE a[k] # b[k]
    <3>1. a[k] \in 1 .. Len(stream)
      BY <1>2, <2>3
    <3>2. CASE k <= Len(p)
      BY <1>3, <2>1, <2>2, <2>3, <3>2 DEF Apart
    <3>3. CASE k > Len(p)
      <4>1. k = Len(p) + 1
        BY <1>3, <2>1, <2>3, <3>3
      <4>2. QED BY <1>1, <1>3, <2>1, <3>1, <4>1
    <3>4. QED
      <4>1. Len(p) \in Int /\ k \in Int
        BY <1>3, <2>1
      <4>2. QED BY <3>2, <3>3, <4>1
  <2>4. QED BY <2>3 DEF Apart
<1>7. ASSUME NEW a \in Moved, NEW b \in Moved, a # b PROVE Apart(a, b)
  <2>1. PICK p \in Movable : a = Append(p, Len(stream'))
    BY DEF Moved
  <2>2. PICK q \in Movable : b = Append(q, Len(stream'))
    BY DEF Moved
  <2>3. p # q
    BY <1>7, <2>1, <2>2
  <2>4. Apart(p, q)
    BY <1>3, <1>5, <2>1, <2>2, <2>3
  <2>5. Len(p) # Len(q)
    BY <2>1, <2>2, <2>3, MovableIsOldest, OneAdvances
  <2>6. Len(p) \in Int /\ Len(q) \in Int /\ Len(a) = Len(p) + 1 /\ Len(b) = Len(q) + 1
    BY <1>3, <2>1, <2>2
  <2>7. ASSUME NEW k \in 1 .. NumSteps, k <= Len(a), k <= Len(b) PROVE a[k] # b[k]
    <3>1. CASE k <= Len(p) /\ k <= Len(q)
      BY <1>3, <2>1, <2>2, <2>4, <3>1 DEF Apart
    <3>2. CASE k = Len(p) + 1 /\ k <= Len(q)
      BY <1>1, <1>3, <2>1, <2>2, <3>2
    <3>3. CASE k <= Len(p) /\ k = Len(q) + 1
      BY <1>1, <1>3, <2>1, <2>2, <3>3
    <3>4. QED BY <2>5, <2>6, <2>7, <3>1, <3>2, <3>3
  <2>8. QED BY <2>7 DEF Apart
<1>8. ASSUME NEW a \in Kept \cup Moved, NEW b \in Started PROVE Apart(a, b) /\ Apart(b, a)
  <2>1. Len(b) = 1 /\ b[1] = Len(stream')
    BY <1>4
  <2>2. ASSUME 1 <= Len(a) PROVE a[1] \in 1 .. Len(stream)
    <3>1. CASE a \in Kept
      BY <1>2, <2>2, <3>1
    <3>2. CASE a \in Moved
      <4>1. PICK p \in Movable : a = Append(p, Len(stream'))
        BY <3>2 DEF Moved
      <4>2. 1 \in 1 .. Len(p)
        BY <1>3, <4>1
      <4>3. QED BY <1>3, <4>1, <4>2
    <3>3. QED BY <3>1, <3>2
  <2>3. ASSUME NEW k \in 1 .. NumSteps, k <= Len(a), k <= Len(b) PROVE a[k] # b[k]
    <3>1. k = 1
      BY <2>1, <2>3, SequenceAssumption
    <3>2. QED BY <1>1, <2>1, <2>2, <2>3, <3>1
  <2>4. QED BY <2>3 DEF Apart
<1>9. Started = {} \/ Started = {<<Len(stream')>>}
  BY DEF Started
<1>10. CASE m \in Kept /\ n \in Kept
  BY <1>2, <1>5, <1>10
<1>11. CASE m \in Kept \cup Moved /\ n \in Kept \cup Moved
  BY <1>6, <1>7, <1>10, <1>11
<1>12. CASE m \in Started \/ n \in Started
  BY <1>8, <1>9, <1>12
<1>13. QED BY <1>11, <1>12

(* The cap on open matches.                                                *)
LEMMA CappedBound ==
  ASSUME NEW ms, NEW L \in Nat,
         \A m \in ms : m \in Seq(1 .. L) /\ Len(m) >= 1,
         \A m, n \in ms : m # n => m[1] # n[1]
  PROVE  IsFiniteSet(Capped(ms)) /\ Cardinality(Capped(ms)) <= MaxPartials
<1> DEFINE f == [m \in ms |-> m[1]]
<1>1. \A m \in ms : f[m] = m[1] /\ m[1] \in 1 .. L
  BY Positions
<1>2. f \in Injection(ms, 1 .. L)
  <2>1. f \in [ms -> 1 .. L]
    BY <1>1
  <2>2. \A x, y \in DOMAIN f : f[x] = f[y] => x = y
    BY <1>1
  <2> HIDE DEF f
  <2>3. QED BY <2>1, <2>2 DEF Injection, IsInjective
<1>3. IsFiniteSet(1 .. L)
  BY FS_Interval
<1>4. IsFiniteSet(ms)
  BY <1>2, <1>3, FS_Injection
<1> DEFINE above == [m \in ms |-> {n \in ms : n[1] > m[1]}]
<1>5. Capped(ms) \in SUBSET ms
  BY DEF Capped
<1>6. IsFiniteSet(Capped(ms))
  BY <1>4, <1>5, FS_Subset
<1>7. \A m \in Capped(ms) : f[m] \in Nat
  BY <1>1, <1>5
<1>8. \A m, n \in Capped(ms) : f[m] = f[n] => m = n
  BY <1>1, <1>5
<1>9. ASSUME NEW m \in Capped(ms)
      PROVE  /\ IsFiniteSet(above[m]) /\ Cardinality(above[m]) < MaxPartials
             /\ \A n \in Capped(ms) : f[n] > f[m] => n \in above[m]
  <2>1. m \in ms /\ above[m] = {n \in ms : n[1] > m[1]}
    BY <1>5
  <2>2. above[m] \in SUBSET ms
    BY <2>1
  <2>3. QED BY <1>1, <1>4, <1>5, <2>1, <2>2, FS_Subset DEF Capped
<1>10. MaxPartials \in Nat \ {0}
  BY SequenceAssumption
<1> HIDE DEF f, above
<1>11. QED BY <1>6, <1>7, <1>8, <1>9, <1>10, CapBound

(* The number of open matches.                                             *)
WithinCap == IsFiniteSet(partials) /\ Cardinality(partials) <= MaxPartials

(* An event keeps the invariant of the sequence rule.                      *)
LEMMA SequenceStep ==
  ASSUME StreamTypeOK, SequenceInv, WithinCap, NEW e \in Event, Arrives(e),
         SequenceObserve(stream')
  PROVE  SequenceInv' /\ WithinCap'
<1>1. CASE Steps(stream') = {}
  <2>1. UNCHANGED <<partials, completed>>
    BY <1>1 DEF SequenceObserve, sequenceVars
  <2>2. ASSUME NEW m \in AllMatches
        PROVE  m \in Seq(1 .. Len(stream')) /\ Len(m) \in 1 .. NumSteps /\ Witnessed(m)'
    <3>1. m \in Seq(1 .. Len(stream)) /\ Len(m) \in 1 .. NumSteps /\ Witnessed(m)
      BY DEF SequenceInv, InStream, CompletedIsWitnessed
    <3>2. Len(m) >= 1
      BY <3>1, SequenceAssumption
    <3>3. QED BY <3>1, <3>2, StillWitnessed
  <2>3. AllMatches' = AllMatches
    BY <2>1 DEF AllMatches
  <2>4. InStream' /\ CompletedIsWitnessed'
    BY <2>2, <2>3 DEF InStream, CompletedIsWitnessed
  <2>5. Lengths' /\ OneMatchPerStep' /\ WithinCap'
    BY <2>1, <2>3 DEF SequenceInv, Lengths, OneMatchPerStep, WithinCap
  <2>6. QED BY <2>4, <2>5 DEF SequenceInv
<1>2. CASE Steps(stream') # {}
  <2>1. AllMatches' \subseteq Kept \cup Moved \cup Started
    BY <1>2, WhatThereIs
  <2>2. InStream' /\ CompletedIsWitnessed'
    BY <2>1, EachIsMatch DEF InStream, CompletedIsWitnessed
  <2>3. OneMatchPerStep'
    BY <2>1, EachTwoApart DEF OneMatchPerStep, Apart
  <2>4. NumSteps \in Nat /\ NumSteps >= 2
    BY SequenceAssumption
  <2>5. ASSUME NEW m \in completed' PROVE Len(m) = NumSteps
    <3>1. CASE m \in completed
      BY <3>1 DEF SequenceInv, Lengths
    <3>2. CASE m \notin completed
      <4>1. PICK p \in Completing(stream') : m = Append(p, Len(stream'))
        BY <1>2, <2>5, <3>2 DEF SequenceObserve, Extended
      <4>2. p \in Oldest(stream') /\ Len(p) = NumSteps - 1
        BY <4>1 DEF Completing
      <4>3. Len(m) = Len(p) + 1
        BY <4>1, <4>2, ExtendedMatch
      <4>4. QED BY <2>4, <4>2, <4>3
    <3>3. QED BY <3>1, <3>2
  <2> DEFINE ms == Opened(stream', Remaining(stream'))
  <2>6. ASSUME NEW m \in ms PROVE Len(m) < NumSteps
    <3>1. CASE m \in Fresh(stream')
      BY <3>1 DEF Fresh, SequenceInv, Lengths
    <3>2. CASE m = <<Len(stream')>>
      BY <2>4, <3>2
    <3>3. CASE \E p \in Advancing(stream') : m = Append(p, Len(stream'))
      <4>1. PICK p \in Advancing(stream') : m = Append(p, Len(stream'))
        BY <3>3
      <4>2. p \in Oldest(stream') /\ p \notin Completing(stream')
        BY <4>1 DEF Advancing
      <4>3. Len(p) \in 1 .. NumSteps - 1 /\ Len(p) # NumSteps - 1 /\ Len(m) = Len(p) + 1
        BY <4>1, <4>2, ExtendedMatch DEF Completing
      <4>4. QED BY <2>4, <4>3
    <3>4. QED BY <3>1, <3>2, <3>3 DEF Opened, Remaining, Extended
  <2>7. partials' = Capped(ms)
    BY <1>2 DEF SequenceObserve
  <2>8. Lengths'
    BY <2>5, <2>6, <2>7 DEF Lengths, Capped
  <2>9. ms \subseteq Kept \cup Moved \cup Started
    BY DEF Opened, Remaining, Extended, Kept, Moved, Movable, Started, Opens
  <2>10. \A m \in ms : m \in Seq(1 .. Len(stream')) /\ Len(m) >= 1
    <3>1. \A m \in ms : m \in Seq(1 .. Len(stream')) /\ Len(m) \in 1 .. NumSteps
      BY <2>9, EachIsMatch
    <3>2. QED BY <2>4, <3>1
  <2>11. \A m, n \in ms : m # n => m[1] # n[1]
    <3>1. \A m, n \in ms : m # n => Apart(m, n)
      BY <2>9, EachTwoApart
    <3>2. 1 \in 1 .. NumSteps
      BY <2>4
    <3>3. QED BY <2>10, <3>1, <3>2 DEF Apart
  <2>12. Len(stream') \in Nat
    BY ArrivalFacts
  <2> HIDE DEF ms
  <2>13. WithinCap'
    BY <2>7, <2>10, <2>11, <2>12, CappedBound DEF WithinCap
  <2>14. QED BY <2>2, <2>3, <2>8, <2>13 DEF SequenceInv
<1>3. QED BY <1>1, <1>2

(* So does a prune.                                                        *)
LEMMA SequencePruneStep ==
  ASSUME SequenceInv, WithinCap, NEW before, SequencePrune(before), UNCHANGED stream
  PROVE  SequenceInv' /\ WithinCap'
<1>1. partials' \subseteq partials /\ completed' = completed
  BY DEF SequencePrune
<1>2. AllMatches' \subseteq AllMatches
  BY <1>1 DEF AllMatches
<1>3. InStream' /\ CompletedIsWitnessed'
  BY <1>2 DEF SequenceInv, InStream, CompletedIsWitnessed, Witnessed
<1>4. Lengths' /\ OneMatchPerStep'
  BY <1>1, <1>2 DEF SequenceInv, Lengths, OneMatchPerStep
<1>5. partials' \in SUBSET partials /\ MaxPartials \in Nat
  BY <1>1, SequenceAssumption
<1>6. IsFiniteSet(partials') /\ Cardinality(partials') <= Cardinality(partials)
  BY <1>5, FS_Subset DEF WithinCap
<1>7. Cardinality(partials') \in Nat /\ Cardinality(partials) \in Nat
  BY <1>6, FS_CardinalityType DEF WithinCap
<1>8. WithinCap'
  BY <1>5, <1>6, <1>7 DEF WithinCap
<1>9. QED BY <1>3, <1>4, <1>8 DEF SequenceInv
-----------------------------------------------------------------------------
(* The windowed rule keeps its types and its cap.                          *)
LEMMA NewestBound ==
  ASSUME NEW w \in SUBSET (1 .. MaxEvents)
  PROVE  Newest(w) \subseteq w /\ Cardinality(Newest(w)) <= MaxWindow
<1> DEFINE f == [i \in w |-> i]
           above == [i \in w |-> {j \in w : j > i}]
<1>1. MaxEvents \in Nat /\ MaxWindow \in Nat \ {0}
  BY StreamAssumption, WindowAssumption
<1>2. IsFiniteSet(w)
  <2>1. IsFiniteSet(1 .. MaxEvents)
    BY <1>1, FS_Interval
  <2>2. QED BY <2>1, FS_Subset
<1>3. Newest(w) \in SUBSET w
  BY DEF Newest
<1>4. IsFiniteSet(Newest(w))
  BY <1>2, <1>3, FS_Subset
<1>5. \A i \in w : f[i] = i /\ f[i] \in Nat
  BY <1>1
<1>6. ASSUME NEW i \in Newest(w)
      PROVE  /\ IsFiniteSet(above[i]) /\ Cardinality(above[i]) < MaxWindow
             /\ \A j \in Newest(w) : f[j] > f[i] => j \in above[i]
  <2>1. i \in w /\ above[i] = {j \in w : j > i}
    BY <1>3
  <2>2. above[i] \in SUBSET w
    BY <2>1
  <2>3. QED BY <1>2, <1>3, <2>1, <2>2, FS_Subset DEF Newest
<1>7. /\ \A i \in Newest(w) : f[i] \in Nat
      /\ \A i, j \in Newest(w) : f[i] = f[j] => i = j
  BY <1>3, <1>5
<1> HIDE DEF f, above
<1>8. Cardinality(Newest(w)) <= MaxWindow
  BY <1>1, <1>4, <1>6, <1>7, CapBound
<1>9. QED BY <1>3, <1>8

(* An event keeps the types of the windowed rule.                          *)
LEMMA WindowStep ==
  ASSUME StreamTypeOK, WindowTypeOK, NEW e \in Event, Arrives(e), WindowObserve(stream')
  PROVE  WindowTypeOK'
<1> DEFINE w == Newest(Evicted(stream', window \cup {Len(stream')}))
<1>1. Len(stream') \in 1 .. MaxEvents /\ MaxWindow \in Nat
  BY ArrivalFacts, WindowAssumption
<1>2. Evicted(stream', window \cup {Len(stream')}) \in SUBSET (1 .. MaxEvents)
  BY <1>1 DEF Evicted, WindowTypeOK
<1>3. w \subseteq 1 .. MaxEvents /\ Cardinality(w) <= MaxWindow
  BY <1>2, NewestBound
<1>4. Cardinality({}) = 0
  BY FS_EmptySet
<1> HIDE DEF w
<1>5. window' \in {window, {}, w} /\ alarms' \subseteq alarms \cup {Len(stream')}
  BY DEF WindowObserve, windowVars, w
<1>6. window' \subseteq 1 .. MaxEvents /\ Cardinality(window') <= MaxWindow
  <2>1. CASE window' = window
    BY <2>1 DEF WindowTypeOK
  <2>2. CASE window' = {}
    BY <1>1, <1>4, <2>2
  <2>3. CASE window' = w
    BY <1>3, <2>3
  <2>4. QED BY <1>5, <2>1, <2>2, <2>3
<1>7. QED BY <1>1, <1>5, <1>6 DEF WindowTypeOK

(* A prune drops the window or leaves it.                                  *)
LEMMA WindowPruneStep ==
  ASSUME WindowTypeOK, NEW before, WindowPrune(before)
  PROVE  WindowTypeOK'
<1>1. window' \in {window, {}} /\ alarms' = alarms
  BY DEF WindowPrune
<1>2. Cardinality({}) = 0 /\ MaxWindow \in Nat
  BY FS_EmptySet, WindowAssumption
<1>3. window' \subseteq 1 .. MaxEvents /\ Cardinality(window') <= MaxWindow
  <2>1. CASE window' = window
    BY <2>1 DEF WindowTypeOK
  <2>2. CASE window' = {}
    BY <1>2, <2>2
  <2>3. QED BY <1>1, <2>1, <2>2
<1>4. QED BY <1>1, <1>3 DEF WindowTypeOK
-----------------------------------------------------------------------------
(* The risk meter's invariant: a host that may alert has been quiet.       *)
RiskInv ==
  /\ RiskTypeOK
  /\ OncePerHalfLife
  /\ ~latched => quiet

(* The meter stays between 0 and 100, and points do not lower it.          *)
LEMMA ScoreFacts ==
  ASSUME RiskTypeOK, NEW r \in Rules, NEW t \in Times
  PROVE  /\ ScoreAt(t) \in 0 .. 100
         /\ Points(r) \in Nat
         /\ AtMost100(ScoreAt(t) + Points(r)) \in 0 .. 100
         /\ ScoreAt(t) <= AtMost100(ScoreAt(t) + Points(r))
         /\ t \in Nat \ {0}
<1>1. score \in 0 .. 100 /\ lastSeen \in Nat /\ MaxTime \in Nat /\ t \in 1 .. MaxTime
  BY StreamAssumption DEF RiskTypeOK, Times
<1>2. ASSUME lastSeen # 0, t > lastSeen PROVE Decayed(score, t - lastSeen) \in 0 .. 100
  <2>1. t - lastSeen \in 1 .. MaxTime
    BY <1>1, <1>2
  <2>2. Decayed(score, t - lastSeen) \in 0 .. score
    BY <1>1, <2>1, DetectionAssumption
  <2>3. QED BY <1>1, <2>2
<1>3. ScoreAt(t) \in 0 .. 100
  BY <1>1, <1>2 DEF ScoreAt
<1>4. Points(r) \in Nat
  BY DEF Points, LevelToPoints
<1>5. QED BY <1>1, <1>3, <1>4 DEF AtMost100

(* A detection keeps the invariant and alerts only if there was quiet.     *)
LEMMA RiskStep ==
  ASSUME RiskInv, NEW r \in Rules, NEW t \in Times, RecordDetection(r, t)
  PROVE  /\ RiskInv'
         /\ breaches' # breaches =>
              quiet \/ (lastSeen # 0 /\ 2 * ScoreAt(lastSeen') < Threshold)
<1> DEFINE s == ScoreAt(t)
           sum == AtMost100(s + Points(r))
<1>1. /\ s \in 0 .. 100 /\ sum \in 0 .. 100 /\ s <= sum /\ t \in Nat \ {0}
  BY ScoreFacts DEF RiskInv
<1>2. Threshold \in Nat \ {0} /\ HalfLife \in Nat
  BY RiskAssumption
<1>3. /\ timeline \subseteq [rule : Rules, ts : Nat \ {0}] /\ IsFiniteSet(timeline)
      /\ latched \in BOOLEAN /\ quiet \in BOOLEAN
      /\ breaches \in Seq([score : 0 .. 100, length : Nat])
      /\ OncePerHalfLife /\ (~latched => quiet)
  BY DEF RiskInv, RiskTypeOK
<1> HIDE DEF s, sum
<1>4. CASE Recently(r, t)
  <2>1. /\ score' = s /\ lastSeen' = t /\ quiet' = (quiet \/ 2 * s < Threshold)
        /\ timeline' = timeline /\ latched' = latched /\ breaches' = breaches
    BY <1>4 DEF RecordDetection, s
  <2>2. RiskTypeOK'
    BY <1>1, <1>3, <2>1 DEF RiskTypeOK
  <2>3. OncePerHalfLife' /\ (~latched => quiet)'
    BY <1>3, <2>1 DEF OncePerHalfLife
  <2>4. QED BY <2>1, <2>2, <2>3 DEF RiskInv
<1>5. CASE ~ Recently(r, t)
  <2> DEFINE d == [rule |-> r, ts |-> t]
             armed == ~latched \/ 2 * sum < Threshold
             breach == sum >= Threshold /\ armed
  <2>1. /\ score' = sum /\ lastSeen' = t /\ timeline' = timeline \cup {d}
        /\ latched' = (breach \/ ~armed)
        /\ quiet' = ((quiet \/ 2 * s < Threshold) /\ ~breach)
        /\ breaches' = IF breach
                       THEN Append(breaches, [score |-> sum, length |-> Cardinality(timeline) + 1])
                       ELSE breaches
    BY <1>5 DEF RecordDetection, Calm, s, sum
  <2>2. breach => ~latched /\ quiet
    BY <1>1, <1>2, <1>3
  <2>3. ASSUME ~latched' PROVE quiet'
    <3>1. ~breach /\ armed
      BY <2>1, <2>3
    <3>2. quiet \/ 2 * sum < Threshold
      BY <1>3, <3>1
    <3>3. quiet \/ 2 * s < Threshold
      BY <1>1, <1>2, <3>2
    <3>4. QED BY <2>1, <3>1, <3>3
  <2>4. /\ timeline' \subseteq [rule : Rules, ts : Nat \ {0}] /\ IsFiniteSet(timeline')
        /\ breaches' \in Seq([score : 0 .. 100, length : Nat])
    <3>1. Cardinality(timeline) + 1 \in Nat
      BY <1>3, FS_CardinalityType
    <3>2. [score |-> sum, length |-> Cardinality(timeline) + 1] \in [score : 0 .. 100, length : Nat]
      BY <1>1, <3>1
    <3>3. Append(breaches, [score |-> sum, length |-> Cardinality(timeline) + 1])
            \in Seq([score : 0 .. 100, length : Nat])
      BY <1>3, <3>2, AppendProperties
    <3>4. IsFiniteSet(timeline \cup {d})
      BY <1>3, FS_AddElement
    <3>5. d \in [rule : Rules, ts : Nat \ {0}]
      BY <1>1
    <3> HIDE DEF d
    <3>6. QED BY <1>3, <2>1, <3>3, <3>4, <3>5
  <2>5. latched' \in BOOLEAN /\ quiet' \in BOOLEAN
    BY <2>1
  <2>6. RiskTypeOK'
    BY <1>1, <2>1, <2>4, <2>5 DEF RiskTypeOK
  <2>7. OncePerHalfLife'
    <3>1. ASSUME NEW c \in timeline, c.rule = r PROVE t - c.ts > HalfLife
      <4>1. ~ (c.ts >= t - HalfLife) /\ c.ts \in Nat
        BY <1>3, <1>5, <3>1 DEF Recently
      <4>2. QED BY <1>1, <1>2, <4>1
    <3>2. QED BY <1>3, <2>1, <3>1 DEF OncePerHalfLife
  <2>8. RiskInv'
    BY <2>3, <2>6, <2>7 DEF RiskInv
  <2>9. ASSUME breaches' # breaches PROVE quiet
    BY <2>1, <2>2, <2>9
  <2>10. QED BY <2>8, <2>9
<1>6. QED BY <1>4, <1>5

(* A prune keeps it and raises no alert.                                   *)
LEMMA RiskPruneStep ==
  ASSUME RiskInv, NEW before \in Times, RiskPrune(before)
  PROVE  RiskInv' /\ breaches' = breaches
<1>1. timeline' \in SUBSET timeline
  BY DEF RiskPrune
<1>2. IsFiniteSet(timeline')
  BY <1>1, FS_Subset DEF RiskInv, RiskTypeOK
<1>3. OncePerHalfLife'
  BY <1>1 DEF RiskInv, OncePerHalfLife
<1>4. RiskTypeOK' /\ (~latched => quiet)' /\ breaches' = breaches
  <2>1. CASE lastSeen # 0 /\ lastSeen < before
    <3>1. /\ score' = 0 /\ timeline' = {} /\ latched' = FALSE /\ lastSeen' = 0
          /\ quiet' = TRUE /\ breaches' = breaches
      BY <2>1 DEF RiskPrune
    <3>2. breaches \in Seq([score : 0 .. 100, length : Nat])
      BY DEF RiskInv, RiskTypeOK
    <3>3. RiskTypeOK'
      <4>1. score' \in 0 .. 100 /\ lastSeen' \in Nat
        BY <3>1
      <4>2. timeline' \subseteq [rule : Rules, ts : Nat \ {0}] /\ IsFiniteSet(timeline')
        BY <1>2, <3>1
      <4>3. latched' \in BOOLEAN /\ quiet' \in BOOLEAN
        BY <3>1
      <4>4. breaches' \in Seq([score : 0 .. 100, length : Nat])
        BY <3>1, <3>2
      <4>5. QED BY <4>1, <4>2, <4>3, <4>4 DEF RiskTypeOK
    <3>4. QED BY <3>1, <3>3
  <2>2. CASE ~ (lastSeen # 0 /\ lastSeen < before)
    <3>1. UNCHANGED <<score, latched, lastSeen, breaches, quiet>>
      BY <2>2 DEF RiskPrune
    <3>2. QED BY <1>1, <1>2, <3>1 DEF RiskInv, RiskTypeOK
  <2>3. QED BY <2>1, <2>2
<1>5. QED BY <1>3, <1>4 DEF RiskInv
-----------------------------------------------------------------------------
(* The invariant of the dedup table. An entry is the time of an alert that *)
(* went out; and in order, an alert is remembered at its time or a later   *)
(* one, unless it is too old for anything to repeat it.                    *)
DedupTypes ==
  /\ lastEmitted \in [Keys -> 0 .. MaxTime]
  /\ emitted \subseteq Detection /\ suppressed \subseteq Detection
  /\ \A d \in emitted \cup suppressed : d.event <= Len(stream)

KeyOf(d) == <<d.rule, d.actor>>
TimeOf(d) == stream[d.event].ts

EntryIsAlert ==
  \A k \in Keys : lastEmitted[k] # 0 =>
    \E a \in emitted : KeyOf(a) = k /\ TimeOf(a) = lastEmitted[k]

Remembered ==
  Ordered => \A a \in emitted :
    \/ lastEmitted[KeyOf(a)] >= TimeOf(a)
    \/ TimeOf(a) < stream[Len(stream)].ts - Retention

DedupInv == DedupTypes /\ EntryIsAlert /\ Remembered /\ OneAlertPerTtl

(* Types of a recorded detection.                                          *)
LEMMA DetectionFacts ==
  ASSUME StreamTypeOK, DedupTypes, NEW d \in emitted \cup suppressed
  PROVE  /\ d.rule \in Rules /\ d.actor \in Actors \cup {None} /\ KeyOf(d) \in Keys
         /\ d.event \in 1 .. Len(stream) /\ stream[d.event] \in Event
         /\ TimeOf(d) \in 1 .. MaxTime
<1>1. d \in Detection /\ d.event <= Len(stream)
  BY DEF DedupTypes
<1>2. Len(stream) \in Nat /\ MaxEvents \in Nat /\ stream \in Seq(Event)
  BY StreamAssumption, LenProperties DEF StreamTypeOK
<1>3. d.rule \in Rules /\ d.actor \in Actors \cup {None} /\ d.event \in 1 .. MaxEvents
  BY <1>1 DEF Detection
<1>4. d.event \in 1 .. Len(stream)
  BY <1>1, <1>2, <1>3
<1>5. stream[d.event] \in Event
  BY <1>2, <1>4, ElementOfSeq
<1>6. QED BY <1>3, <1>4, <1>5 DEF KeyOf, Keys, TimeOf, Event, Times

(* In order, the latest timestamp is the last one.                         *)
LEMMA ClockIsLast ==
  ASSUME StreamTypeOK, Ordered, Len(stream) >= 1
  PROVE  Clock = stream[Len(stream)].ts
<1> DEFINE t == stream[Len(stream)].ts
           IsClock(c) == /\ \A i \in DOMAIN stream : stream[i].ts <= c
                         /\ c = 0 \/ \E i \in DOMAIN stream : stream[i].ts = c
<1>1. /\ Len(stream) \in Nat /\ DOMAIN stream = 1 .. Len(stream)
      /\ \A i \in 1 .. Len(stream) : stream[i] \in Event
  BY LenProperties, ElementOfSeq DEF StreamTypeOK
<1>2. Len(stream) \in DOMAIN stream /\ MaxTime \in Nat
  BY <1>1, StreamAssumption
<1>3. \A i \in DOMAIN stream : stream[i].ts \in 1 .. MaxTime
  BY <1>1 DEF Event, Times
<1>4. t \in 0 .. MaxTime /\ IsClock(t)
  BY <1>1, <1>2, <1>3 DEF Ordered
<1>5. ASSUME NEW c \in 0 .. MaxTime, IsClock(c) PROVE c = t
  BY <1>1, <1>2, <1>3, <1>5 DEF Ordered
<1> HIDE DEF t, IsClock
<1>6. Clock = CHOOSE c \in 0 .. MaxTime : IsClock(c)
  BY DEF Clock, IsClock
<1>7. Clock = t
  BY <1>4, <1>5, <1>6
<1>8. QED BY <1>7 DEF t

(* An event keeps it.                                                      *)
LEMMA DedupStep ==
  ASSUME StreamTypeOK, DedupInv, NEW e \in Event, Arrives(e),
         NEW hits \in SUBSET Rules, NEW fresh,
         fresh = {r \in hits : ~Duplicate(r, e.actor, e.ts)},
         Emit(hits, fresh, e)
  PROVE  DedupInv'
<1> DEFINE n == Len(stream')
           Alerts(rs) == {[rule |-> r, actor |-> e.actor, event |-> n] : r \in rs}
<1>1. /\ Len(stream) \in Nat /\ n = Len(stream) + 1 /\ n \in 1 .. MaxEvents /\ n \in Nat
      /\ stream'[n] = e /\ StreamTypeOK'
      /\ \A i \in 1 .. Len(stream) : stream'[i] = stream[i] /\ stream[i] \in Event
  BY ArrivalFacts
<1>2. e.ts \in 1 .. MaxTime /\ e.actor \in Actors \cup {None}
      /\ MaxTime \in Nat /\ Ttl \in Nat \ {0} /\ Retention \in Nat /\ Ttl <= Retention
  BY StreamAssumption, DetectionAssumption DEF Event, Times
<1>3. DedupTypes /\ EntryIsAlert /\ Remembered /\ OneAlertPerTtl
  BY DEF DedupInv
<1>4. /\ emitted' = emitted \cup Alerts(fresh)
      /\ suppressed' = suppressed \cup Alerts(hits \ fresh)
      /\ lastEmitted' = [k \in Keys |-> IF k[1] \in fresh /\ k[2] = e.actor
                                        THEN e.ts ELSE lastEmitted[k]]
  BY DEF Emit, Detections
<1>5. /\ Alerts(fresh) \subseteq Detection /\ Alerts(hits \ fresh) \subseteq Detection
      /\ fresh \subseteq Rules
      /\ \A d \in Alerts(fresh) : d.rule \in fresh
      /\ \A d \in Alerts(hits \ fresh) : d.rule \in hits \ fresh
      /\ \A d \in Alerts(fresh) \cup Alerts(hits \ fresh) : d.actor = e.actor /\ d.event = n
  BY <1>1, <1>2 DEF Detection
<1> HIDE DEF n, Alerts
<1>6. ASSUME NEW d \in emitted \cup suppressed
      PROVE  /\ TimeOf(d)' = TimeOf(d) /\ d.event \in 1 .. Len(stream)
             /\ KeyOf(d) \in Keys /\ TimeOf(d) \in 1 .. MaxTime
             /\ d.rule \in Rules /\ d.actor \in Actors \cup {None}
  <2>1. /\ d.event \in 1 .. Len(stream) /\ KeyOf(d) \in Keys /\ TimeOf(d) \in 1 .. MaxTime
        /\ d.rule \in Rules /\ d.actor \in Actors \cup {None}
    BY <1>3, DetectionFacts
  <2>2. QED BY <1>1, <2>1 DEF TimeOf
<1>7. ASSUME NEW d \in Alerts(fresh) \cup Alerts(hits \ fresh)
      PROVE  TimeOf(d)' = e.ts /\ d.event = n /\ d.actor = e.actor /\ KeyOf(d) \in Keys
  BY <1>1, <1>2, <1>5 DEF TimeOf, KeyOf, Keys
<1>8. ASSUME NEW r \in hits
      PROVE  /\ <<r, e.actor>> \in Keys
             /\ lastEmitted[<<r, e.actor>>] \in 0 .. MaxTime
             /\ r \in fresh <=>
                  \/ lastEmitted[<<r, e.actor>>] = 0
                  \/ e.ts - lastEmitted[<<r, e.actor>>] \notin 0 .. Ttl - 1
  BY <1>2, <1>3 DEF Duplicate, Keys, DedupTypes
<1>9. DedupTypes'
  <2>1. lastEmitted' \in [Keys -> 0 .. MaxTime]
    BY <1>2, <1>3, <1>4 DEF DedupTypes
  <2>2. emitted' \subseteq Detection /\ suppressed' \subseteq Detection
    BY <1>3, <1>4, <1>5 DEF DedupTypes
  <2>3. \A d \in emitted' \cup suppressed' : d.event <= n
    <3>1. \A d \in emitted \cup suppressed : d.event <= n
      BY <1>1, <1>6
    <3>2. \A d \in Alerts(fresh) \cup Alerts(hits \ fresh) : d.event <= n
      <4>1. n \in Nat
        BY <1>1
      <4>2. n <= n
        BY <4>1
      <4>3. QED BY <1>5, <4>2
    <3>3. QED BY <1>4, <3>1, <3>2
  <2>4. QED BY <2>1, <2>2, <2>3 DEF DedupTypes, n
<1>10. EntryIsAlert'
  <2>1. ASSUME NEW k \in Keys, lastEmitted'[k] # 0
        PROVE  \E a \in emitted' : KeyOf(a) = k /\ TimeOf(a)' = lastEmitted'[k]
    <3>1. CASE k[1] \in fresh /\ k[2] = e.actor
      <4> DEFINE a == [rule |-> k[1], actor |-> e.actor, event |-> n]
      <4>1. a \in Alerts(fresh)
        BY <3>1 DEF Alerts
      <4>2. lastEmitted'[k] = e.ts
        BY <1>4, <3>1
      <4>3. KeyOf(a) = k
        BY <3>1 DEF KeyOf, Keys
      <4> HIDE DEF a
      <4>4. QED BY <1>4, <1>7, <4>1, <4>2, <4>3
    <3>2. CASE ~ (k[1] \in fresh /\ k[2] = e.actor)
      <4>1. lastEmitted'[k] = lastEmitted[k]
        BY <1>4, <3>2
      <4>2. PICK a \in emitted : KeyOf(a) = k /\ TimeOf(a) = lastEmitted[k]
        BY <1>3, <2>1, <4>1 DEF EntryIsAlert
      <4>3. TimeOf(a)' = TimeOf(a) /\ a \in emitted'
        BY <1>4, <1>6
      <4>4. QED BY <4>1, <4>2, <4>3
    <3>3. QED BY <3>1, <3>2
  <2>2. QED BY <2>1 DEF EntryIsAlert, KeyOf
<1>11. ASSUME Ordered'
       PROVE  /\ Ordered
              /\ \A i \in 1 .. Len(stream) : stream[i].ts <= e.ts
  BY <1>1, <1>11 DEF Ordered, n
<1>12. Remembered'
  <2>1. ASSUME Ordered', NEW a \in emitted'
        PROVE  \/ lastEmitted'[KeyOf(a)] >= TimeOf(a)'
               \/ TimeOf(a)' < e.ts - Retention
    <3>1. CASE a \in Alerts(fresh)
      <4>1. KeyOf(a)[1] \in fresh /\ KeyOf(a)[2] = e.actor
        BY <1>5, <3>1 DEF KeyOf
      <4>2. lastEmitted'[KeyOf(a)] = e.ts /\ TimeOf(a)' = e.ts
        BY <1>4, <1>7, <3>1, <4>1
      <4>3. QED BY <1>2, <4>2
    <3>2. CASE a \in emitted
      <4>1. TimeOf(a)' = TimeOf(a) /\ KeyOf(a) \in Keys /\ TimeOf(a) \in 1 .. MaxTime
            /\ a.event \in 1 .. Len(stream)
        BY <1>6, <3>2
      <4>2. TimeOf(a) <= e.ts /\ Ordered
        BY <1>11, <2>1, <4>1 DEF TimeOf
      <4>3. CASE KeyOf(a)[1] \in fresh /\ KeyOf(a)[2] = e.actor
        BY <1>2, <1>4, <4>1, <4>2, <4>3
      <4>4. CASE ~ (KeyOf(a)[1] \in fresh /\ KeyOf(a)[2] = e.actor)
        <5>1. lastEmitted'[KeyOf(a)] = lastEmitted[KeyOf(a)]
          BY <1>4, <4>1, <4>4
        <5>2. \/ lastEmitted[KeyOf(a)] >= TimeOf(a)
              \/ TimeOf(a) < stream[Len(stream)].ts - Retention
          BY <1>3, <3>2, <4>2 DEF Remembered
        <5>3. Len(stream) \in 1 .. Len(stream)
          BY <1>1, <4>1
        <5>4. stream[Len(stream)].ts \in 1 .. MaxTime /\ stream[Len(stream)].ts <= e.ts
          BY <1>1, <1>11, <2>1, <5>3 DEF Event, Times
        <5>5. QED BY <1>2, <4>1, <5>1, <5>2, <5>4
      <4>5. QED BY <4>3, <4>4
    <3>3. QED BY <1>4, <2>1, <3>1, <3>2
  <2>2. stream'[Len(stream')].ts = e.ts
    BY <1>1 DEF n
  <2>3. QED BY <2>1, <2>2 DEF Remembered, KeyOf
<1>13. ASSUME NEW d \in suppressed'
       PROVE  \E a \in emitted' :
                /\ SameKey(a, d) /\ a.event < d.event
                /\ TimeOf(d)' - TimeOf(a)' \in 0 .. Ttl - 1
  <2>1. CASE d \in suppressed
    <3>1. PICK a \in emitted : /\ SameKey(a, d) /\ a.event < d.event
                               /\ TimeOf(d) - TimeOf(a) \in 0 .. Ttl - 1
      BY <1>3, <2>1 DEF OneAlertPerTtl, TimeOf
    <3>2. TimeOf(a)' = TimeOf(a) /\ TimeOf(d)' = TimeOf(d) /\ a \in emitted'
      BY <1>4, <1>6, <2>1
    <3>3. QED BY <3>1, <3>2
  <2>2. CASE d \in Alerts(hits \ fresh)
    <3>1. d.rule \in hits \ fresh /\ d.actor = e.actor /\ d.event = n /\ TimeOf(d)' = e.ts
      BY <1>5, <1>7, <2>2
    <3>2. /\ <<d.rule, e.actor>> \in Keys
          /\ lastEmitted[<<d.rule, e.actor>>] # 0
          /\ e.ts - lastEmitted[<<d.rule, e.actor>>] \in 0 .. Ttl - 1
      BY <1>8, <3>1
    <3>3. PICK a \in emitted : /\ KeyOf(a) = <<d.rule, e.actor>>
                               /\ TimeOf(a) = lastEmitted[<<d.rule, e.actor>>]
      BY <1>3, <3>2 DEF EntryIsAlert
    <3>4. a.rule = d.rule /\ a.actor = d.actor
      BY <3>1, <3>3 DEF KeyOf
    <3>5. TimeOf(a)' = TimeOf(a) /\ a.event \in 1 .. Len(stream) /\ a \in emitted'
      BY <1>4, <1>6
    <3>6. QED BY <1>1, <3>1, <3>2, <3>3, <3>4, <3>5 DEF SameKey
  <2>3. QED BY <1>4, <2>1, <2>2
<1>14. ASSUME Ordered', NEW a \in emitted', NEW b \in emitted',
              SameKey(a, b), a.event < b.event
       PROVE  TimeOf(b)' - TimeOf(a)' >= Ttl
  <2>1. CASE a \in emitted /\ b \in emitted
    <3>1. TimeOf(b) - TimeOf(a) >= Ttl
      BY <1>3, <1>11, <1>14, <2>1 DEF OneAlertPerTtl, TimeOf
    <3>2. TimeOf(a)' = TimeOf(a) /\ TimeOf(b)' = TimeOf(b)
      BY <1>6, <2>1
    <3>3. QED BY <3>1, <3>2
  <2>2. CASE a \in emitted /\ b \in Alerts(fresh)
    <3>1. /\ TimeOf(a)' = TimeOf(a) /\ KeyOf(a) \in Keys /\ TimeOf(a) \in 1 .. MaxTime
          /\ a.event \in 1 .. Len(stream)
      BY <1>6, <2>2
    <3>2. b.rule \in fresh /\ b.actor = e.actor /\ TimeOf(b)' = e.ts
      BY <1>5, <1>7, <2>2
    <3>3. KeyOf(a) = <<b.rule, e.actor>>
      BY <1>14, <3>2 DEF SameKey, KeyOf
    <3>4. /\ lastEmitted[KeyOf(a)] \in 0 .. MaxTime
          /\ \/ lastEmitted[KeyOf(a)] = 0
             \/ e.ts - lastEmitted[KeyOf(a)] \notin 0 .. Ttl - 1
      BY <1>4, <1>8, <3>2, <3>3
    <3>5. \/ lastEmitted[KeyOf(a)] >= TimeOf(a)
          \/ TimeOf(a) < stream[Len(stream)].ts - Retention
      BY <1>3, <1>11, <1>14, <2>2 DEF Remembered
    <3>6. CASE lastEmitted[KeyOf(a)] >= TimeOf(a)
      <4>1. lastEmitted[KeyOf(a)] # 0
        BY <3>1, <3>4, <3>6
      <4>2. PICK c \in emitted : KeyOf(c) = KeyOf(a) /\ TimeOf(c) = lastEmitted[KeyOf(a)]
        BY <1>3, <3>1, <4>1 DEF EntryIsAlert
      <4>3. lastEmitted[KeyOf(a)] <= e.ts
        BY <1>6, <1>11, <1>14, <4>2 DEF TimeOf
      <4>4. e.ts - lastEmitted[KeyOf(a)] >= Ttl
        BY <1>2, <3>4, <4>1, <4>3
      <4>5. QED BY <1>2, <3>1, <3>2, <3>4, <3>6, <4>4
    <3>7. CASE TimeOf(a) < stream[Len(stream)].ts - Retention
      <4>1. Len(stream) \in 1 .. Len(stream)
        BY <1>1, <3>1
      <4>2. stream[Len(stream)].ts \in 1 .. MaxTime /\ stream[Len(stream)].ts <= e.ts
        BY <1>1, <1>11, <1>14, <4>1 DEF Event, Times
      <4>3. QED BY <1>2, <3>1, <3>2, <3>7, <4>2
    <3>8. QED BY <3>5, <3>6, <3>7
  <2>3. CASE a \in Alerts(fresh)
    <3>1. a.event = n
      BY <1>5, <2>3
    <3>2. CASE b \in emitted
      <4>1. b.event \in 1 .. Len(stream)
        BY <1>6, <3>2
      <4>2. QED BY <1>1, <1>14, <3>1, <4>1
    <3>3. CASE b \in Alerts(fresh)
      <4>1. b.event = n
        BY <1>5, <3>3
      <4>2. QED BY <1>1, <1>14, <3>1, <4>1
    <3>4. QED BY <1>4, <3>2, <3>3
  <2>4. QED BY <1>4, <2>1, <2>2, <2>3
<1>15. OneAlertPerTtl'
  BY <1>13, <1>14 DEF OneAlertPerTtl, TimeOf
<1>16. QED BY <1>9, <1>10, <1>12, <1>15 DEF DedupInv

(* So does a prune, because it is from too far back to forget an alert     *)
(* that could be repeated.                                                 *)
LEMMA DedupPruneStep ==
  ASSUME StreamTypeOK, DedupInv, NEW before \in Times, before <= Clock - Retention,
         DedupPrune(before), UNCHANGED stream
  PROVE  DedupInv'
<1>1. DedupTypes /\ EntryIsAlert /\ Remembered /\ OneAlertPerTtl
  BY DEF DedupInv
<1>2. /\ emitted' = emitted /\ suppressed' = suppressed /\ stream' = stream
      /\ lastEmitted' = [k \in Keys |-> IF lastEmitted[k] < before THEN 0 ELSE lastEmitted[k]]
  BY DEF DedupPrune
<1>3. MaxTime \in Nat /\ before \in 1 .. MaxTime /\ Retention \in Nat
  BY StreamAssumption, DetectionAssumption DEF Times
<1>4. DedupTypes'
  <2>1. lastEmitted' \in [Keys -> 0 .. MaxTime]
    BY <1>1, <1>2, <1>3 DEF DedupTypes
  <2>2. QED BY <1>1, <1>2, <2>1 DEF DedupTypes
<1>5. EntryIsAlert'
  <2>1. \A k \in Keys : lastEmitted'[k] # 0 => lastEmitted'[k] = lastEmitted[k]
    BY <1>2
  <2>2. QED BY <1>1, <1>2, <2>1 DEF EntryIsAlert, TimeOf, KeyOf
<1>6. ASSUME Ordered, NEW a \in emitted
      PROVE  \/ lastEmitted'[KeyOf(a)] >= TimeOf(a)
             \/ TimeOf(a) < stream[Len(stream)].ts - Retention
  <2>1. KeyOf(a) \in Keys /\ TimeOf(a) \in 1 .. MaxTime /\ a.event \in 1 .. Len(stream)
    BY <1>1, DetectionFacts
  <2>2. lastEmitted[KeyOf(a)] \in 0 .. MaxTime
    BY <1>1, <2>1 DEF DedupTypes
  <2>3. Len(stream) \in Nat /\ Len(stream) >= 1
    BY <2>1, LenProperties DEF StreamTypeOK
  <2>4. Clock = stream[Len(stream)].ts
    BY <1>6, <2>3, ClockIsLast
  <2>5. stream[Len(stream)].ts \in Int
    <3>1. stream[Len(stream)] \in Event
      BY <2>3, ElementOfSeq DEF StreamTypeOK
    <3>2. QED BY <1>3, <3>1 DEF Event, Times
  <2>6. \/ lastEmitted[KeyOf(a)] >= TimeOf(a)
        \/ TimeOf(a) < stream[Len(stream)].ts - Retention
    BY <1>1, <1>6 DEF Remembered
  <2>7. lastEmitted'[KeyOf(a)] = IF lastEmitted[KeyOf(a)] < before
                                 THEN 0 ELSE lastEmitted[KeyOf(a)]
    BY <1>2, <2>1
  <2>8. before <= stream[Len(stream)].ts - Retention
    BY <2>4
  <2>9. QED BY <1>3, <2>1, <2>2, <2>5, <2>6, <2>7, <2>8
<1>7. Remembered'
  BY <1>2, <1>6 DEF Remembered, Ordered, TimeOf, KeyOf
<1>8. OneAlertPerTtl'
  BY <1>1, <1>2 DEF OneAlertPerTtl, Ordered
<1>9. QED BY <1>4, <1>5, <1>7, <1>8 DEF DedupInv
-----------------------------------------------------------------------------
IInv ==
  /\ StreamTypeOK
  /\ SequenceInv /\ WithinCap
  /\ WindowTypeOK
  /\ RiskInv
  /\ DedupInv

(* The inductive invariant holds at first.                                 *)
LEMMA InitIInv == Init => IInv
<1> SUFFICES ASSUME Init PROVE IInv
  OBVIOUS
<1> USE DEF Init
<1>1. StreamTypeOK
  <2>1. MaxEvents \in Nat
    BY StreamAssumption
  <2>2. QED BY <2>1, EmptySeq DEF StreamTypeOK
<1>2. IsFiniteSet({}) /\ Cardinality({}) = 0
  BY FS_EmptySet
<1>3. SequenceInv /\ WithinCap
  <2>1. AllMatches = {} /\ partials = {} /\ completed = {}
    BY DEF SequenceInit, AllMatches
  <2>2. MaxPartials \in Nat
    BY SequenceAssumption
  <2>3. QED BY <1>2, <2>1, <2>2
        DEF SequenceInv, InStream, Lengths, CompletedIsWitnessed, OneMatchPerStep, WithinCap
<1>4. WindowTypeOK
  <2>1. MaxWindow \in Nat /\ window = {} /\ alarms = {}
    BY WindowAssumption DEF WindowInit
  <2>2. QED BY <1>2, <2>1 DEF WindowTypeOK
<1>5. RiskInv
  <2>1. /\ score = 0 /\ timeline = {} /\ latched = FALSE /\ lastSeen = 0
        /\ breaches = <<>> /\ quiet = TRUE
    BY DEF RiskInit
  <2>2. breaches \in Seq([score : 0 .. 100, length : Nat])
    BY <2>1, EmptySeq
  <2>3. RiskTypeOK
    <3>1. score \in 0 .. 100 /\ lastSeen \in Nat
      BY <2>1
    <3>2. timeline \subseteq [rule : Rules, ts : Nat \ {0}] /\ IsFiniteSet(timeline)
      BY <1>2, <2>1
    <3>3. latched \in BOOLEAN /\ quiet \in BOOLEAN
      BY <2>1
    <3>4. QED BY <2>2, <3>1, <3>2, <3>3 DEF RiskTypeOK
  <2>4. QED BY <2>1, <2>3 DEF RiskInv, OncePerHalfLife
<1>6. DedupInv
  <2>1. MaxTime \in Nat
    BY StreamAssumption
  <2>2. DedupTypes
    BY <2>1 DEF DedupTypes
  <2>3. EntryIsAlert /\ Remembered /\ OneAlertPerTtl
    BY DEF EntryIsAlert, Remembered, OneAlertPerTtl
  <2>4. QED BY <2>2, <2>3 DEF DedupInv
<1>7. QED BY <1>1, <1>3, <1>4, <1>5, <1>6 DEF IInv

(* Every event keeps the invariant, and an alert of the meter follows a    *)
(* quiet moment.                                                           *)
LEMMA EventStep ==
  ASSUME IInv, NEW e \in Event, ProcessEvent(e)
  PROVE  /\ IInv'
         /\ breaches' # breaches =>
              quiet \/ (lastSeen # 0 /\ 2 * ScoreAt(lastSeen') < Threshold)
<1>1. /\ StreamTypeOK /\ SequenceInv /\ WithinCap /\ WindowTypeOK /\ RiskInv /\ DedupInv
      /\ Arrives(e) /\ SequenceObserve(stream') /\ WindowObserve(stream')
  BY DEF IInv, ProcessEvent
<1> DEFINE hits == Hits(e)
           fresh == {r \in hits : ~Duplicate(r, e.actor, e.ts)}
<1>2. Emit(hits, fresh, e) /\ Weigh(fresh \ Behavioral, e)
  BY DEF ProcessEvent
<1>3. hits \in SUBSET Rules
  <2>1. e.shape \in Shapes
    BY DEF Event
  <2>2. QED BY <2>1, DetectionAssumption DEF Hits
<1> HIDE DEF hits
<1>4. StreamTypeOK'
  BY <1>1, ArrivalFacts
<1>5. SequenceInv' /\ WithinCap'
  BY <1>1, SequenceStep
<1>6. WindowTypeOK'
  BY <1>1, WindowStep
<1>7. DedupInv'
  BY <1>1, <1>2, <1>3, DedupStep
<1>8. RiskInv' /\ (breaches' # breaches =>
        quiet \/ (lastSeen # 0 /\ 2 * ScoreAt(lastSeen') < Threshold))
  <2>1. CASE fresh \ Behavioral = {}
    <3>1. UNCHANGED <<score, timeline, latched, lastSeen, breaches, quiet>>
      BY <1>2, <2>1 DEF Weigh, riskVars
    <3>2. RiskTypeOK' /\ OncePerHalfLife' /\ (~latched => quiet)'
      BY <1>1, <3>1 DEF RiskInv, RiskTypeOK, OncePerHalfLife
    <3>3. QED BY <3>1, <3>2 DEF RiskInv
  <2>2. CASE fresh \ Behavioral # {}
    <3>1. PICK r \in fresh \ Behavioral : RecordDetection(r, e.ts)
      BY <1>2, <2>2 DEF Weigh
    <3>2. r \in Rules /\ e.ts \in Times
      BY <1>3 DEF Event
    <3>3. QED BY <1>1, <3>1, <3>2, RiskStep
  <2>3. QED BY <2>1, <2>2
<1>9. QED BY <1>4, <1>5, <1>6, <1>7, <1>8 DEF IInv

(* A prune keeps it and raises no alert of the meter.                      *)
LEMMA PruneStep ==
  ASSUME IInv, NEW before \in Times, Prune(before)
  PROVE  IInv' /\ breaches' = breaches
<1>1. /\ StreamTypeOK /\ SequenceInv /\ WithinCap /\ WindowTypeOK /\ RiskInv /\ DedupInv
      /\ before <= Clock - Retention /\ UNCHANGED stream
      /\ SequencePrune(before) /\ WindowPrune(before) /\ RiskPrune(before) /\ DedupPrune(before)
  BY DEF IInv, Prune
<1>2. StreamTypeOK'
  BY <1>1 DEF StreamTypeOK
<1>3. SequenceInv' /\ WithinCap'
  BY <1>1, SequencePruneStep
<1>4. WindowTypeOK'
  BY <1>1, WindowPruneStep
<1>5. RiskInv' /\ breaches' = breaches
  BY <1>1, RiskPruneStep
<1>6. DedupInv'
  BY <1>1, DedupPruneStep
<1>7. QED BY <1>2, <1>3, <1>4, <1>5, <1>6 DEF IInv

(* So does a stuttering step.                                              *)
LEMMA StutterStep ==
  ASSUME IInv, UNCHANGED vars
  PROVE  IInv'
<1>1. UNCHANGED <<stream, partials, completed, window, alarms, score, timeline, latched,
                  lastSeen, breaches, quiet, lastEmitted, emitted, suppressed>>
  BY DEF vars, sequenceVars, windowVars, riskVars, dedupVars
<1>2. StreamTypeOK' /\ WindowTypeOK' /\ WithinCap'
  BY <1>1 DEF IInv, StreamTypeOK, WindowTypeOK, WithinCap
<1>3. SequenceInv'
  BY <1>1 DEF IInv, SequenceInv, InStream, Lengths, CompletedIsWitnessed, OneMatchPerStep,
     AllMatches, Witnessed, LastOf, StartOf
<1>4. RiskInv'
  BY <1>1 DEF IInv, RiskInv, RiskTypeOK, OncePerHalfLife
<1>5. DedupInv'
  BY <1>1 DEF IInv, DedupInv, DedupTypes, EntryIsAlert, Remembered, OneAlertPerTtl, Ordered,
     TimeOf, KeyOf
<1>6. QED BY <1>2, <1>3, <1>4, <1>5 DEF IInv

(* So does every step.                                                     *)
LEMMA NextIInv == IInv /\ [Next]_vars => IInv'
BY EventStep, PruneStep, StutterStep DEF Next

(* The invariant of the detectors: each one of the following is a part.    *)
THEOREM Invariance == Spec => []IInv
BY InitIInv, NextIInv, PTL DEF Spec

(* The state of the detectors keeps its types and the caps hold.           *)
THEOREM TypeCorrect == Spec => []TypeOK
<1>1. ASSUME IInv PROVE TypeOK
  <2>1. StreamTypeOK /\ WindowTypeOK /\ RiskTypeOK
    BY <1>1 DEF IInv, RiskInv
  <2>2. SequenceTypeOK
    <3>1. Len(stream) \in Nat /\ MaxEvents \in Nat /\ Len(stream) <= MaxEvents
      BY <2>1, LenProperties, StreamAssumption DEF StreamTypeOK
    <3>2. 1 .. Len(stream) \subseteq 1 .. MaxEvents
      BY <3>1
    <3>3. Seq(1 .. Len(stream)) \subseteq Match
      BY <3>2, SeqMonotonic DEF Match
    <3>4. \A m \in partials \cup completed : m \in Match /\ Len(m) \in 1 .. NumSteps
      BY <1>1, <3>3 DEF IInv, SequenceInv, InStream, AllMatches
    <3>5. \A m \in partials : Len(m) \in 1 .. NumSteps - 1
      BY <1>1, <3>4, SequenceAssumption DEF IInv, SequenceInv, Lengths
    <3>6. QED BY <1>1, <3>4, <3>5 DEF IInv, SequenceInv, Lengths, WithinCap, SequenceTypeOK
  <2>3. lastEmitted \in [Keys -> 0 .. MaxTime] /\ emitted \subseteq Detection /\ suppressed \subseteq Detection
    BY <1>1 DEF IInv, DedupInv, DedupTypes
  <2>4. QED BY <2>1, <2>2, <2>3 DEF TypeOK
<1>2. QED BY <1>1, Invariance, PTL

(* What a sequence rule fires for, or keeps open, has happened in order and *)
(* within maxspan, however late events come and whatever is pruned.         *)
THEOREM FiredIsWitnessed == Spec => []CompletedIsWitnessed
<1>1. IInv => CompletedIsWitnessed
  BY DEF IInv, SequenceInv
<1>2. QED BY <1>1, Invariance, PTL

(* No event is the same step of two matches of a sequence rule.            *)
THEOREM NoStepTwice == Spec => []OneMatchPerStep
<1>1. IInv => OneMatchPerStep
  BY DEF IInv, SequenceInv
<1>2. QED BY <1>1, Invariance, PTL

(* What a sequence rule fires for happened, and happened once.              *)
THEOREM FiredSoundly == Spec => []MatchesSound
BY FiredIsWitnessed, NoStepTwice, PTL DEF MatchesSound

(* A rule adds its points to a host at most once per half-life.            *)
THEOREM PointsOncePerHalfLife == Spec => []OncePerHalfLife
<1>1. IInv => OncePerHalfLife
  BY DEF IInv, RiskInv
<1>2. QED BY <1>1, Invariance, PTL

(* What is suppressed repeats an alert within dedup_ttl; without late       *)
(* events no alert does.                                                    *)
THEOREM DedupIsExact == Spec => []OneAlertPerTtl
<1>1. IInv => OneAlertPerTtl
  BY DEF IInv, DedupInv
<1>2. QED BY <1>1, Invariance, PTL

(* Between two alerts of the risk meter the host has been quiet.           *)
THEOREM BreachesAreApart == Spec => QuietBetweenBreaches
<1>1. IInv /\ [Next]_vars =>
        [breaches' # breaches => \/ quiet
                                 \/ lastSeen # 0 /\ 2 * ScoreAt(lastSeen') < Threshold]_riskVars
  <2>1. ASSUME IInv, [Next]_vars, breaches' # breaches
        PROVE  quiet \/ (lastSeen # 0 /\ 2 * ScoreAt(lastSeen') < Threshold)
    <3>1. CASE \E e \in Event : ProcessEvent(e)
      BY <2>1, <3>1, EventStep
    <3>2. CASE \E before \in Times : Prune(before)
      BY <2>1, <3>2, PruneStep
    <3>3. CASE UNCHANGED vars
      BY <2>1, <3>3 DEF vars, riskVars
    <3>4. QED BY <2>1, <3>1, <3>2, <3>3 DEF Next
  <2>2. QED BY <2>1
<1>2. QED BY <1>1, Invariance, PTL DEF Spec, QuietBetweenBreaches
-----------------------------------------------------------------------------
(* What has arrived in order, arrived in order before.                     *)
LEMMA OrderedArrival ==
  ASSUME StreamTypeOK, NEW e \in Event, Arrives(e), Ordered'
  PROVE  /\ Ordered
         /\ e.ts \in 1 .. MaxTime /\ MaxTime \in Nat
         /\ \A i \in 1 .. Len(stream) : stream[i].ts \in 1 .. MaxTime /\ stream[i].ts <= e.ts
         /\ \A i, j \in 1 .. Len(stream') : i <= j => stream'[i].ts <= stream'[j].ts
<1>1. /\ Len(stream) \in Nat /\ Len(stream') = Len(stream) + 1
      /\ stream'[Len(stream')] = e
      /\ \A i \in 1 .. Len(stream) : stream'[i] = stream[i] /\ stream[i] \in Event
  BY ArrivalFacts
<1>2. \A i, j \in 1 .. Len(stream') : i <= j => stream'[i].ts <= stream'[j].ts
  BY DEF Ordered
<1>3. ASSUME NEW i \in 1 .. Len(stream) PROVE stream[i].ts <= e.ts
  <2>1. i \in 1 .. Len(stream') /\ Len(stream') \in 1 .. Len(stream') /\ i <= Len(stream')
    BY <1>1
  <2>2. stream'[i].ts <= stream'[Len(stream')].ts
    BY <1>2, <2>1
  <2>3. QED BY <1>1, <2>2
<1>4. ASSUME NEW i \in 1 .. Len(stream), NEW j \in 1 .. Len(stream), i <= j
      PROVE  stream[i].ts <= stream[j].ts
  <2>1. i \in 1 .. Len(stream') /\ j \in 1 .. Len(stream')
    BY <1>1
  <2>2. QED BY <1>1, <1>2, <1>4, <2>1
<1>5. MaxTime \in Nat /\ e.ts \in 1 .. MaxTime
      /\ \A i \in 1 .. Len(stream) : stream[i].ts \in 1 .. MaxTime
  BY <1>1, StreamAssumption DEF Event, Times
<1>6. QED BY <1>2, <1>3, <1>4, <1>5 DEF Ordered

(* What the next event could still count together with: the events that    *)
(* count and that no alarm has used up.                                    *)
Live ==
  {i \in 1 .. Len(stream) : /\ stream[i].shape.value # None
                            /\ \A f \in alarms : ~(i <= f)}

(* The positions after i.                                                  *)
Above(S, i) == {k \in S : k > i}

(* The window holds nothing else, and misses only what is too old for any  *)
(* event to come or was pushed out by as many newer ones as it can hold.   *)
WindowInv ==
  /\ alarms \subseteq 1 .. Len(stream)
  /\ window \subseteq Live
  /\ Ordered =>
       \A i \in Live \ window :
         \/ stream[i].ts < stream[Len(stream)].ts - Window
         \/ Cardinality(Above(Live, i)) >= MaxWindow

(* The events an alarm at j would be about.                                *)
Recent(j) == {i \in Unspent(j) : stream[i].ts >= stream[j].ts - Window}

(* The newest of more positions are no fewer.                              *)
LEMMA MoreAbove ==
  ASSUME NEW L \in Nat, NEW S \in SUBSET (1 .. L), NEW T \in SUBSET S, NEW i
  PROVE  /\ Cardinality(Above(T, i)) <= Cardinality(Above(S, i))
         /\ Cardinality(Above(T, i)) \in Nat
         /\ Cardinality(Above(S, i)) \in Nat
<1> DEFINE A == Above(S, i)
           B == Above(T, i)
<1>1. IsFiniteSet(1 .. L)
  BY FS_Interval
<1>2. A \in SUBSET (1 .. L) /\ B \in SUBSET A
  BY DEF Above
<1> HIDE DEF A, B
<1>3. IsFiniteSet(A)
  BY <1>1, <1>2, FS_Subset
<1>4. IsFiniteSet(B) /\ Cardinality(B) <= Cardinality(A)
  BY <1>2, <1>3, FS_Subset
<1>5. Cardinality(A) \in Nat /\ Cardinality(B) \in Nat
  BY <1>3, <1>4, FS_CardinalityType
<1>6. QED BY <1>4, <1>5 DEF A, B

(* What is live and leaves the window, or has left it, is too old or has   *)
(* been pushed out.                                                        *)
LEMMA LeavesRightly ==
  ASSUME StreamTypeOK, WindowInv, NEW e \in Event, Arrives(e), Ordered',
         NEW E, E = Evicted(stream', window \cup {Len(stream')}),
         NEW U, U = Live \cup {Len(stream')},
         NEW i \in Live, i \notin Newest(E)
  PROVE  \/ stream'[i].ts < e.ts - Window
         \/ Cardinality(Above(U, i)) >= MaxWindow
<1>1. /\ Len(stream) \in Nat /\ Len(stream') = Len(stream) + 1
      /\ stream'[Len(stream')] = e
      /\ \A k \in 1 .. Len(stream) : stream'[k] = stream[k]
  BY ArrivalFacts
<1>2. /\ Ordered /\ e.ts \in Int
      /\ \A k \in 1 .. Len(stream) : stream[k].ts \in Int /\ stream[k].ts <= e.ts
  BY OrderedArrival
<1>3. MaxWindow \in Nat /\ Window \in Nat
  BY WindowAssumption
<1>4. /\ i \in 1 .. Len(stream) /\ Live \in SUBSET U /\ U \in SUBSET (1 .. Len(stream'))
      /\ Len(stream') \in Nat
  BY <1>1 DEF Live
<1>5. CASE i \notin window
  <2>1. CASE stream[i].ts < stream[Len(stream)].ts - Window
    <3>1. Len(stream) \in 1 .. Len(stream)
      BY <1>1, <1>4
    <3>2. QED BY <1>1, <1>2, <1>3, <1>4, <2>1, <3>1
  <2>2. CASE Cardinality(Above(Live, i)) >= MaxWindow
    <3> DEFINE a == Cardinality(Above(Live, i))
               b == Cardinality(Above(U, i))
    <3>1. a <= b /\ a \in Nat /\ b \in Nat
      BY <1>4, MoreAbove
    <3>2. a >= MaxWindow
      BY <2>2
    <3> HIDE DEF a, b
    <3>3. b >= MaxWindow
      BY <1>3, <3>1, <3>2
    <3>4. QED BY <3>3 DEF b
  <2>3. QED BY <1>2, <1>5, <2>1, <2>2 DEF WindowInv
<1>6. CASE i \in window /\ i \notin E
  <2>1. ~ (stream'[i].ts >= e.ts - Window)
    BY <1>1, <1>4, <1>6 DEF Evicted
  <2>2. QED BY <1>1, <1>2, <1>3, <1>4, <2>1
<1>7. CASE i \in E
  <2> DEFINE a == Cardinality(Above(E, i))
             b == Cardinality(Above(U, i))
  <2>1. E \in SUBSET U
    BY DEF Evicted, WindowInv
  <2>2. a <= b /\ a \in Nat /\ b \in Nat
    BY <1>4, <2>1, MoreAbove
  <2>3. ~ (a < MaxWindow)
    BY <1>7 DEF Newest, Above
  <2> HIDE DEF a, b
  <2>4. b >= MaxWindow
    BY <1>3, <2>2, <2>3
  <2>5. QED BY <2>4 DEF b
<1>8. QED BY <1>5, <1>6, <1>7

(* So the window, as an event finds it, is what the alarm would be about,  *)
(* unless that is more than it can hold.                                   *)
LEMMA WindowIsRecent ==
  ASSUME StreamTypeOK, WindowInv, NEW e \in Event, Arrives(e), Ordered',
         NEW E, E = Evicted(stream', window \cup {Len(stream')}),
         NEW U, U = Live \cup {Len(stream')},
         NEW R, R = {i \in U : stream'[i].ts >= e.ts - Window},
         Cardinality(R) <= MaxWindow
  PROVE  Newest(E) = R
<1>1. /\ Len(stream) \in Nat /\ Len(stream') = Len(stream) + 1
      /\ stream'[Len(stream')] = e
      /\ \A k \in 1 .. Len(stream) : stream'[k] = stream[k]
  BY ArrivalFacts
<1>2. /\ e.ts \in Int
      /\ \A k \in 1 .. Len(stream) : stream[k].ts \in Int
      /\ \A k, l \in 1 .. Len(stream') : k <= l => stream'[k].ts <= stream'[l].ts
  BY OrderedArrival
<1>3. MaxWindow \in Nat \ {0} /\ Window \in Nat
  BY WindowAssumption
<1>4. U \in SUBSET (1 .. Len(stream')) /\ Len(stream') \in U /\ R \in SUBSET U
  BY <1>1 DEF Live
<1>5. \A k \in 1 .. Len(stream') : stream'[k].ts \in Int
  <2>1. \A k \in 1 .. Len(stream') : k = Len(stream') \/ k \in 1 .. Len(stream)
    BY <1>1
  <2>2. QED BY <1>1, <1>2, <2>1
<1>6. E \in SUBSET U
  BY DEF Evicted, WindowInv
<1>7. Newest(E) \subseteq R
  <2>1. SUFFICES ASSUME NEW i \in Newest(E) PROVE i \in R
    OBVIOUS
  <2>2. i \in E
    BY DEF Newest
  <2>3. PICK j \in window \cup {Len(stream')} : j <= i /\ stream'[j].ts >= e.ts - Window
    BY <1>1, <2>2 DEF Evicted
  <2>4. j \in U /\ i \in U
    BY <1>6, <2>2, <2>3 DEF WindowInv
  <2>5. stream'[j].ts <= stream'[i].ts
    BY <1>2, <1>4, <2>3, <2>4
  <2>6. stream'[i].ts >= e.ts - Window
    <3>1. stream'[i].ts \in Int /\ stream'[j].ts \in Int /\ e.ts - Window \in Int
      BY <1>2, <1>3, <1>4, <1>5, <2>4
    <3>2. QED BY <2>3, <2>5, <3>1
  <2>7. QED BY <2>4, <2>6
<1>8. Len(stream') \in Newest(E)
  <2>1. Len(stream') \in E
    BY <1>1, <1>2, <1>3 DEF Evicted
  <2>2. {k \in E : k > Len(stream')} = {}
    <3>1. \A k \in 1 .. Len(stream') : ~ (k > Len(stream'))
      BY <1>1
    <3>2. QED BY <1>4, <1>6, <3>1
  <2>3. Cardinality({k \in E : k > Len(stream')}) = 0
    BY <2>2, FS_EmptySet
  <2>4. QED BY <1>3, <2>1, <2>3 DEF Newest
<1>9. ASSUME NEW i \in R, i \notin Newest(E) PROVE FALSE
  <2>1. i \in Live /\ stream'[i].ts >= e.ts - Window /\ i \in 1 .. Len(stream')
    BY <1>4, <1>8, <1>9
  <2> DEFINE A == Above(U, i)
  <2>2. Cardinality(A) >= MaxWindow
    <3>1. ~ (stream'[i].ts < e.ts - Window)
      BY <1>2, <1>3, <1>5, <2>1
    <3>2. \/ stream'[i].ts < e.ts - Window
          \/ Cardinality(Above(U, i)) >= MaxWindow
      BY <1>9, <2>1, LeavesRightly
    <3>3. QED BY <3>1, <3>2
  <2>3. A \in SUBSET (R \ {i})
    <3>1. SUFFICES ASSUME NEW k \in A PROVE k \in R /\ k # i
      OBVIOUS
    <3>2. k \in U /\ k > i /\ k \in 1 .. Len(stream')
      BY <1>4 DEF Above
    <3>3. i <= k /\ k # i
      BY <1>1, <2>1, <3>2
    <3>4. stream'[i].ts <= stream'[k].ts
      BY <1>2, <2>1, <3>2, <3>3
    <3>5. stream'[k].ts >= e.ts - Window
      BY <1>2, <1>3, <1>5, <2>1, <3>2, <3>4
    <3>6. QED BY <3>2, <3>3, <3>5
  <2> HIDE DEF A
  <2>4. IsFiniteSet(1 .. Len(stream'))
    BY <1>1, FS_Interval
  <2>5. R \in SUBSET (1 .. Len(stream'))
    BY <1>4
  <2>6. IsFiniteSet(R)
    BY <2>4, <2>5, FS_Subset
  <2>7. /\ IsFiniteSet(R \ {i}) /\ Cardinality(R \ {i}) = Cardinality(R) - 1
        /\ Cardinality(R) \in Nat
    BY <1>9, <2>6, FS_RemoveElement, FS_CardinalityType
  <2>8. Cardinality(A) <= Cardinality(R \ {i}) /\ Cardinality(A) \in Nat
    BY <2>3, <2>7, FS_Subset, FS_CardinalityType
  <2>9. QED BY <1>3, <2>2, <2>7, <2>8
<1>10. QED BY <1>7, <1>9

(* An event is counted with exactly those events.                          *)
LEMMA WindowFires ==
  ASSUME StreamTypeOK, WindowInv, FiresExactly, NEW e \in Event, Arrives(e),
         WindowObserve(stream')
  PROVE  WindowInv' /\ FiresExactly'
<1> DEFINE L == Len(stream')
           E == Evicted(stream', window \cup {L})
           U == Live \cup {L}
           counts == e.shape.value # None
           fires == Observed(stream', Newest(E)) >= Count
<1>1. /\ Len(stream) \in Nat /\ L = Len(stream) + 1
      /\ stream'[L] = e
      /\ \A k \in 1 .. Len(stream) : stream'[k] = stream[k]
      /\ DOMAIN stream = 1 .. Len(stream) /\ DOMAIN stream' = 1 .. L
  <2>1. stream \in Seq(Event) /\ stream' \in Seq(Event)
    BY ArrivalFacts DEF StreamTypeOK
  <2>2. QED BY <2>1, ArrivalFacts, LenProperties
<1>2. alarms \subseteq 1 .. Len(stream) /\ window \subseteq Live
  BY DEF WindowInv
<1>3. /\ ~counts => window' = window /\ alarms' = alarms
      /\ counts /\ fires => window' = {} /\ alarms' = alarms \cup {L}
      /\ counts /\ ~fires => window' = Newest(E) /\ alarms' = alarms
  BY <1>1 DEF WindowObserve, windowVars
<1>4. alarms' \subseteq 1 .. L
  BY <1>1, <1>2, <1>3
<1>5. E \subseteq U /\ Newest(E) \subseteq E
  BY <1>2 DEF Evicted, Newest
<1>6. U \subseteq 1 .. L /\ Live \subseteq 1 .. Len(stream)
  BY <1>1 DEF Live
<1>7. \A i \in 1 .. L : i = L \/ i \in 1 .. Len(stream)
  BY <1>1
<1>8. /\ ~counts => Live' = Live
      /\ counts /\ fires => Live' = {}
      /\ counts /\ ~fires => Live' = U
  <2>1. CASE counts /\ fires
    <3>1. L \in alarms' /\ \A i \in 1 .. L : i <= L
      BY <1>3, <2>1
    <3>2. QED BY <2>1, <3>1 DEF Live
  <2>2. CASE ~(counts /\ fires)
    <3>1. alarms' = alarms /\ \A f \in alarms : ~ (L <= f)
      BY <1>1, <1>2, <1>3, <2>2
    <3>2. \A i : i \in Live' <=> i \in Live \/ (i = L /\ counts)
      BY <1>1, <1>7, <3>1 DEF Live
    <3>3. QED BY <2>2, <3>2
  <2>3. QED BY <2>1, <2>2
<1> HIDE DEF fires
<1>9. WindowInv'
  <2>1. window' \subseteq Live'
    BY <1>2, <1>3, <1>5, <1>8
  <2>2. ASSUME Ordered', NEW i \in Live' \ window'
        PROVE  \/ stream'[i].ts < stream'[Len(stream')].ts - Window
               \/ Cardinality(Above(Live', i)) >= MaxWindow
    <3>1. /\ Ordered /\ e.ts \in Int /\ Window \in Nat
          /\ \A k \in 1 .. Len(stream) : stream[k].ts \in Int /\ stream[k].ts <= e.ts
      BY <2>2, OrderedArrival, WindowAssumption
    <3>2. CASE ~counts
      <4>1. i \in Live \ window /\ Live' = Live /\ i \in 1 .. Len(stream)
        BY <1>3, <1>6, <1>8, <2>2, <3>2
      <4>2. CASE stream[i].ts < stream[Len(stream)].ts - Window
        <5>1. Len(stream) \in 1 .. Len(stream)
          BY <1>1, <4>1
        <5>2. stream[i].ts < e.ts - Window
          BY <3>1, <4>1, <4>2, <5>1
        <5>3. QED BY <1>1, <4>1, <5>2
      <4>3. CASE Cardinality(Above(Live, i)) >= MaxWindow
        BY <4>1, <4>3
      <4>4. QED BY <3>1, <4>1, <4>2, <4>3 DEF WindowInv
    <3>3. CASE counts /\ ~fires
      <4>1. window' = Newest(E) /\ Live' = U
        BY <1>3, <1>8, <3>3
      <4>2. L \in Newest(E)
        <5>1. L \in E
          BY <1>1, <3>1 DEF Evicted
        <5>2. {k \in E : k > L} = {}
          <6>1. \A k \in 1 .. L : ~ (k > L)
            BY <1>1
          <6>2. QED BY <1>5, <1>6, <6>1
        <5>3. Cardinality({k \in E : k > L}) = 0 /\ MaxWindow \in Nat \ {0}
          BY <5>2, FS_EmptySet, WindowAssumption
        <5>4. QED BY <5>1, <5>3 DEF Newest
      <4>3. i \in Live /\ i \notin Newest(E)
        BY <2>2, <4>1, <4>2
      <4> HIDE DEF E, U
      <4>4. \/ stream'[i].ts < e.ts - Window
            \/ Cardinality(Above(U, i)) >= MaxWindow
        BY <2>2, <4>3, LeavesRightly DEF E, U
      <4>5. QED BY <1>1, <4>1, <4>4
    <3>4. CASE counts /\ fires
      BY <1>8, <2>2, <3>4
    <3>5. QED BY <3>2, <3>3, <3>4
  <2>3. QED BY <1>4, <2>1, <2>2 DEF WindowInv
<1>10. ASSUME Ordered', NEW j \in 1 .. Len(stream), stream[j].shape.value # None,
              Cardinality(Recent(j)') <= MaxWindow
       PROVE  j \in alarms' <=> Observed(stream', Recent(j)') >= Count
  <2>1. alarms' = alarms \/ alarms' = alarms \cup {L}
    BY <1>3
  <2>2. \A f \in alarms' : f < j => f \in alarms
    BY <1>1, <2>1
  <2>3. alarms \subseteq alarms' /\ (j \in alarms' <=> j \in alarms)
    BY <1>1, <2>1
  <2>4. \A i \in 1 .. j : i \in 1 .. Len(stream) /\ stream'[i] = stream[i]
    BY <1>1
  <2>5. Unspent(j)' = Unspent(j)
    BY <2>2, <2>3, <2>4 DEF Unspent
  <2>6. Unspent(j) \subseteq 1 .. j /\ stream'[j] = stream[j]
    BY <1>1 DEF Unspent
  <2>7. Recent(j)' = Recent(j)
    BY <2>4, <2>5, <2>6 DEF Recent
  <2>8. Recent(j) \subseteq 1 .. j
    BY <2>6 DEF Recent
  <2>9. {stream'[i].shape.value : i \in Recent(j)} = {stream[i].shape.value : i \in Recent(j)}
    BY <2>4, <2>8
  <2>10. Observed(stream', Recent(j)) = Observed(stream, Recent(j))
    BY <2>9 DEF Observed
  <2>11. Ordered
    BY <1>10, OrderedArrival
  <2>12. j \in alarms <=> Observed(stream, Recent(j)) >= Count
    BY <1>1, <1>10, <2>7, <2>11 DEF FiresExactly, Recent
  <2>13. QED BY <2>3, <2>7, <2>10, <2>12
<1>11. ASSUME NEW l, l = L, Ordered', counts, Cardinality(Recent(l)') <= MaxWindow
       PROVE  l \in alarms' <=> Observed(stream', Recent(l)') >= Count
  <2>1. alarms' = alarms \/ alarms' = alarms \cup {L}
    BY <1>3
  <2>2. \A f \in 1 .. L : f \in alarms' /\ f < L <=> f \in alarms
    BY <1>1, <1>2, <2>1
  <2>3. \A i \in 1 .. L : (\A f \in alarms' : ~ (i <= f /\ f < L)) <=> \A f \in alarms : ~ (i <= f)
    BY <1>1, <1>2, <1>4, <2>2
  <2>4. L \in 1 .. L /\ \A f \in alarms : ~ (L <= f)
    BY <1>1, <1>2
  <2>5. \A i : i \in Unspent(l)' <=> i \in U
    BY <1>1, <1>7, <1>11, <2>3, <2>4 DEF Unspent, Live
  <2>6. Unspent(l)' = U
    BY <2>5
  <2>7. Recent(l)' = {i \in U : stream'[i].ts >= e.ts - Window}
    BY <1>1, <1>11, <2>6 DEF Recent
  <2> HIDE DEF E, U
  <2>8. Newest(E) = Recent(l)'
    BY <1>11, <2>7, WindowIsRecent DEF E, U
  <2>9. L \in alarms' <=> fires
    <3>1. L \notin alarms
      BY <1>1, <1>2
    <3>2. QED BY <1>3, <1>11, <3>1
  <2>10. QED BY <1>11, <2>8, <2>9 DEF fires
<1>12. FiresExactly'
  <2>1. SUFFICES ASSUME Ordered', NEW j \in DOMAIN stream',
                        stream'[j].shape.value # None, Cardinality(Recent(j)') <= MaxWindow
                 PROVE  j \in alarms' <=> Observed(stream', Recent(j)') >= Count
    BY DEF FiresExactly, Recent
  <2>2. CASE j = L
    BY <1>1, <1>11, <2>1, <2>2
  <2>3. CASE j \in 1 .. Len(stream)
    BY <1>1, <1>10, <2>1, <2>3
  <2>4. QED BY <1>1, <1>7, <2>2, <2>3
<1>13. QED BY <1>9, <1>12

(* A prune that keeps to the window's span forgets nothing that counts.    *)
LEMMA WindowPruneForgets ==
  ASSUME StreamTypeOK, WindowInv, FiresExactly, UNCHANGED stream, Window <= Retention,
         NEW before \in Int, before <= Clock - Retention, WindowPrune(before)
  PROVE  WindowInv' /\ FiresExactly'
<1>1. alarms' = alarms /\ (window' = window \/ window' = {})
  BY DEF WindowPrune
<1>2. FiresExactly'
  BY <1>1 DEF FiresExactly, Unspent, Ordered, Observed
<1>3. Live' = Live /\ Ordered' = Ordered
  BY <1>1 DEF Live, Ordered
<1>4. ASSUME Ordered, NEW i \in Live, i \notin window'
      PROVE  \/ stream[i].ts < stream[Len(stream)].ts - Window
             \/ Cardinality(Above(Live, i)) >= MaxWindow
  <2>1. CASE i \notin window
    BY <1>4, <2>1 DEF WindowInv
  <2>2. CASE i \in window
    <3>1. PICK l \in window : (\A k \in window : k <= l) /\ stream[l].ts < before
      BY <1>4, <2>2 DEF WindowPrune
    <3>2. /\ Len(stream) \in Nat /\ i \in 1 .. Len(stream) /\ l \in 1 .. Len(stream)
          /\ \A k \in 1 .. Len(stream) : stream[k] \in Event
      BY LenProperties, ElementOfSeq DEF WindowInv, Live, StreamTypeOK
    <3>3. Len(stream) \in 1 .. Len(stream) /\ Len(stream) >= 1
      BY <3>2
    <3>4. Clock = stream[Len(stream)].ts
      BY <1>4, <3>3, ClockIsLast
    <3>5. stream[i].ts <= stream[l].ts
      BY <1>4, <2>2, <3>1, <3>2 DEF Ordered
    <3>6. /\ stream[i].ts \in Int /\ stream[l].ts \in Int /\ stream[Len(stream)].ts \in Int
          /\ Window \in Nat /\ Retention \in Nat
      BY <3>2, <3>3, WindowAssumption, DetectionAssumption DEF Event, Times
    <3>7. stream[i].ts < stream[Len(stream)].ts - Window
      <4> DEFINE t == stream[i].ts
                 u == stream[l].ts
                 v == stream[Len(stream)].ts
      <4>1. /\ t \in Int /\ u \in Int /\ v \in Int /\ t <= u /\ u < before
            /\ before <= v - Retention
        BY <3>1, <3>4, <3>5, <3>6
      <4> HIDE DEF t, u, v
      <4>2. t < v - Window
        BY <3>6, <4>1
      <4>3. QED BY <4>2 DEF t, v
    <3>8. QED BY <3>7
  <2>3. QED BY <2>1, <2>2
<1>5. WindowInv'
  BY <1>1, <1>3, <1>4 DEF WindowInv
<1>6. QED BY <1>2, <1>5

(* "At least count matching events within window": on a stream in order    *)
(* and with prunes that keep at least a window, a threshold or value_count *)
(* rule fires exactly on the events that complete such a group.            *)
THEOREM AlarmsAreExact == ASSUME Window <= Retention PROVE Spec => []FiresExactly
<1>1. Init => WindowInv /\ FiresExactly
  BY LenProperties DEF Init, WindowInit, WindowInv, FiresExactly, Live
<1>2. IInv /\ WindowInv /\ FiresExactly /\ [Next]_vars => WindowInv' /\ FiresExactly'
  <2> SUFFICES ASSUME IInv, WindowInv, FiresExactly, [Next]_vars
               PROVE  WindowInv' /\ FiresExactly'
    OBVIOUS
  <2>1. CASE \E e \in Event : ProcessEvent(e)
    BY <2>1, WindowFires DEF ProcessEvent, IInv
  <2>2. CASE \E before \in Times : Prune(before)
    <3>1. PICK before \in Times : Prune(before)
      BY <2>2
    <3>2. before \in Int
      BY DEF Times
    <3>3. QED BY <3>1, <3>2, WindowPruneForgets DEF Prune, IInv
  <2>3. CASE UNCHANGED vars
    <3>1. UNCHANGED <<stream, window, alarms>>
      BY <2>3 DEF vars, windowVars
    <3>2. Live' = Live /\ Ordered' = Ordered
      BY <3>1 DEF Live, Ordered
    <3>3. WindowInv'
      BY <3>1, <3>2 DEF WindowInv
    <3>4. FiresExactly'
      BY <3>1 DEF FiresExactly, Unspent, Ordered, Observed
    <3>5. QED BY <3>3, <3>4
  <2>4. QED BY <2>1, <2>2, <2>3 DEF Next
<1>3. QED BY <1>1, <1>2, Invariance, PTL DEF Spec
-----------------------------------------------------------------------------
(* The events that match the first step, and whether there is room for a   *)
(* match of each.                                                          *)
StepAt(i, k) == k \in stream[i].shape.steps
Firsts == {i \in DOMAIN stream : StepAt(i, 1)}
Roomy == Cardinality(Firsts) <= MaxPartials

(* c is an occurrence as far as its first j events, which no match the     *)
(* rule fired for has used.                                                *)
Begun(c, j) ==
  /\ \A k \in 1 .. j : c[k] \in 1 .. Len(stream) /\ StepAt(c[k], k)
  /\ \A k, l \in 1 .. j : k < l => c[k] < c[l]

Unspoilt(c, j) ==
  /\ FirstOfItsActor(c[1])
  /\ \A m \in completed : \A k \in 1 .. NumSteps, l \in 1 .. j : m[k] # c[l]

(* At time t it is within its span, and so is every match that opened      *)
(* earlier and was there for its second event.                             *)
InTime(c, j, t) ==
  /\ t - stream[c[1]].ts <= MaxSpan
  /\ j >= 2 => \A i \in 1 .. c[1] - 1 :
                 StepAt(i, 1) => \/ stream[c[2]].ts - stream[i].ts > MaxSpan
                                 \/ t - stream[i].ts <= MaxSpan

(* The match m has come as far, started no later and has one of its        *)
(* events: it carries the occurrence on, whether or not it is the one the  *)
(* occurrence opened.                                                      *)
Carries(m, c, j) ==
  /\ Len(m) >= j
  /\ m[1] <= c[1]
  /\ \E i \in 1 .. j :
       /\ m[i] = c[i]
       /\ m[1] = c[1] \/ (i >= 2 /\ stream[c[2]].ts - stream[m[1]].ts <= MaxSpan)

(* What an occurrence needs at every moment before its last event.         *)
CarriedOn ==
  Ordered /\ Roomy =>
    \A c \in [1 .. NumSteps -> 1 .. MaxEvents], j \in 1 .. NumSteps - 1 :
      Begun(c, j) /\ Unspoilt(c, j) /\ InTime(c, j, stream[Len(stream)].ts)
        => \E m \in partials : Carries(m, c, j)

(* No open match ends before it starts.                                    *)
Forward == \A m \in partials : StartOf(stream, m) <= LastOf(stream, m)

(* Where there is room for all, the cap drops none.                        *)
LEMMA CappedIsAll ==
  ASSUME NEW ms, NEW S, IsFiniteSet(S), Cardinality(S) <= MaxPartials,
         \A m \in ms : m[1] \in S,
         \A m, n \in ms : m # n => m[1] # n[1],
         \A x \in S : x \in Nat
  PROVE  Capped(ms) = ms
<1>1. SUFFICES ASSUME NEW m \in ms
               PROVE  Cardinality({n \in ms : n[1] > m[1]}) < MaxPartials
  BY DEF Capped
<1> DEFINE T == {n \in ms : n[1] > m[1]}
           f == [n \in T |-> n[1]]
           R == S \ {m[1]}
<1>2. f \in Injection(T, R)
  <2>1. \A n \in T : f[n] \in R
    <3>1. SUFFICES ASSUME NEW n \in T PROVE n[1] \in S /\ n[1] # m[1]
      OBVIOUS
    <3>2. n \in ms /\ n[1] \in Nat /\ m[1] \in Nat /\ n[1] > m[1]
      OBVIOUS
    <3>3. QED BY <3>2
  <2>2. f \in [T -> R]
    BY <2>1
  <2>3. \A x, y \in DOMAIN f : f[x] = f[y] => x = y
    OBVIOUS
  <2> HIDE DEF f, T, R
  <2>4. QED BY <2>2, <2>3 DEF Injection, IsInjective
<1>3. /\ IsFiniteSet(R) /\ Cardinality(R) = Cardinality(S) - 1
      /\ Cardinality(S) \in Nat
  BY FS_RemoveElement, FS_CardinalityType
<1> HIDE DEF T, R, f
<1>4. IsFiniteSet(T) /\ Cardinality(T) <= Cardinality(R) /\ Cardinality(T) \in Nat
  BY <1>2, <1>3, FS_Injection, FS_CardinalityType
<1>5. MaxPartials \in Nat
  BY SequenceAssumption
<1>6. Cardinality(T) < MaxPartials
  BY <1>3, <1>4, <1>5
<1>7. QED BY <1>6 DEF T

(* The events that match the first step only grow in number.               *)
LEMMA RoomBefore ==
  ASSUME StreamTypeOK, NEW e \in Event, Arrives(e)
  PROVE  /\ Roomy' => Roomy
         /\ IsFiniteSet(Firsts') /\ Firsts' \subseteq 1 .. Len(stream')
         /\ DOMAIN stream = 1 .. Len(stream) /\ DOMAIN stream' = 1 .. Len(stream')
<1>1. /\ Len(stream) \in Nat /\ Len(stream') = Len(stream) + 1
      /\ \A k \in 1 .. Len(stream) : stream'[k] = stream[k]
      /\ StreamTypeOK'
  BY ArrivalFacts
<1>2. DOMAIN stream = 1 .. Len(stream) /\ DOMAIN stream' = 1 .. Len(stream')
  BY <1>1, LenProperties DEF StreamTypeOK
<1>3. Firsts' \in SUBSET (1 .. Len(stream')) /\ Firsts \in SUBSET Firsts'
  BY <1>1, <1>2 DEF Firsts, StepAt
<1>4. IsFiniteSet(1 .. Len(stream'))
  BY <1>1, FS_Interval
<1>5. IsFiniteSet(Firsts')
  BY <1>3, <1>4, FS_Subset
<1>6. IsFiniteSet(Firsts) /\ Cardinality(Firsts) <= Cardinality(Firsts')
  BY <1>3, <1>5, FS_Subset
<1>7. Cardinality(Firsts) \in Nat /\ Cardinality(Firsts') \in Nat /\ MaxPartials \in Nat
  BY <1>5, <1>6, FS_CardinalityType, SequenceAssumption
<1>8. Roomy' => Roomy
  BY <1>6, <1>7 DEF Roomy
<1>9. QED BY <1>2, <1>3, <1>5, <1>8

(* With room for all, an event keeps open whatever it does not drop itself.*)
LEMMA StaysOpen ==
  ASSUME StreamTypeOK, SequenceInv, NEW e \in Event, Arrives(e),
         SequenceObserve(stream'), Steps(stream') # {}, Roomy'
  PROVE  partials' = Opened(stream', Remaining(stream'))
<1> DEFINE ms == Opened(stream', Remaining(stream'))
<1>1. partials' = Capped(ms)
  BY DEF SequenceObserve
<1>2. ms \subseteq Kept \cup Moved \cup Started
  BY DEF Opened, Remaining, Extended, Kept, Moved, Movable, Started, Opens
<1>3. 1 \in 1 .. NumSteps
  BY SequenceAssumption
<1>4. ASSUME NEW m \in ms PROVE m[1] \in Firsts' /\ 1 <= Len(m)
  <2>1. m \in Seq(1 .. Len(stream')) /\ Len(m) \in 1 .. NumSteps /\ Witnessed(m)'
    BY <1>2, EachIsMatch
  <2>2. Len(m) >= 1 /\ Len(stream') \in Nat /\ 1 \in 1 .. Len(m)
    BY <2>1, ArrivalFacts, SequenceAssumption
  <2>3. m[1] \in 1 .. Len(stream')
    BY <2>1, <2>2, Positions
  <2>4. 1 \in stream'[m[1]].shape.steps
    BY <2>1, <2>2 DEF Witnessed
  <2>5. QED BY <2>2, <2>3, <2>4, RoomBefore DEF Firsts, StepAt
<1>5. \A m, n \in ms : m # n => m[1] # n[1]
  <2>1. \A m, n \in ms : m # n => Apart(m, n)
    BY <1>2, EachTwoApart
  <2>2. QED BY <1>3, <1>4, <2>1 DEF Apart
<1>6. IsFiniteSet(Firsts') /\ Cardinality(Firsts') <= MaxPartials
      /\ \A x \in Firsts' : x \in Nat
  <2>1. Firsts' \subseteq 1 .. Len(stream') /\ Len(stream') \in Nat
    BY RoomBefore, ArrivalFacts
  <2>2. QED BY <2>1, RoomBefore DEF Roomy
<1> DEFINE S == Firsts'
<1> HIDE DEF ms
<1>7. Capped(ms) = ms
  <2>1. \A m \in ms : m[1] \in S
    BY <1>4
  <2>2. IsFiniteSet(S) /\ Cardinality(S) <= MaxPartials /\ \A x \in S : x \in Nat
    BY <1>6
  <2> HIDE DEF S
  <2>3. QED BY <1>5, <2>1, <2>2, CappedIsAll
<1>8. QED BY <1>1, <1>7 DEF ms

(* If a match waits for a step of the event, the oldest that does moves.   *)
LEMMA OldestWaits ==
  ASSUME StreamTypeOK, SequenceInv, WithinCap, NEW k \in Steps(stream') \ {1},
         NEW m \in Waiting(stream', k)
  PROVE  \E q \in Oldest(stream') : q \in Waiting(stream', k) /\ q[1] <= m[1]
<1> DEFINE W == Waiting(stream', k)
           f == [q \in W |-> q[1]]
<1>1. W \in SUBSET partials
  BY DEF Waiting, Fresh
<1>2. IsFiniteSet(W)
  BY <1>1, FS_Subset DEF WithinCap
<1>3. ASSUME NEW q \in W PROVE f[q] = q[1] /\ f[q] \in Nat
  <2>1. q \in AllMatches
    BY <1>1 DEF AllMatches
  <2>2. q \in Seq(1 .. Len(stream)) /\ Len(q) \in 1 .. NumSteps /\ Len(stream) \in Nat
    BY <2>1, LenProperties DEF SequenceInv, InStream, StreamTypeOK
  <2>3. Len(q) >= 1
    BY <2>2, SequenceAssumption
  <2>4. q[1] \in 1 .. Len(stream)
    BY <2>2, <2>3, Positions
  <2>5. QED BY <2>2, <2>4
<1>4. m \in W
  OBVIOUS
<1> HIDE DEF f, W
<1>5. PICK q \in W : \A n \in W : f[q] <= f[n]
  BY <1>2, <1>3, <1>4, Minimum
<1>6. \A n \in W : q[1] <= n[1]
  BY <1>3, <1>5
<1>7. q \in Oldest(stream')
  BY <1>6 DEF Oldest, W, Waiting
<1>8. QED BY <1>4, <1>6, <1>7 DEF W

(* What carries an occurrence on is not too old for the event that is in   *)
(* time for the occurrence.                                                *)
LEMMA CarrierIsFresh ==
  ASSUME StreamTypeOK, SequenceInv, CarriedOn, NEW e \in Event, Arrives(e),
         Ordered', Roomy',
         NEW c \in [1 .. NumSteps -> 1 .. MaxEvents], NEW j \in 1 .. NumSteps - 1,
         Begun(c, j), Unspoilt(c, j), InTime(c, j, e.ts)
  PROVE  \E m \in partials : /\ Carries(m, c, j)
                             /\ m \in Fresh(stream')
                             /\ LastOf(stream', m) <= Now(stream')
<1>1. /\ Len(stream) \in Nat /\ Len(stream') = Len(stream) + 1
      /\ stream'[Len(stream')] = e
      /\ \A k \in 1 .. Len(stream) : stream'[k] = stream[k]
  BY ArrivalFacts
<1>2. /\ Ordered /\ Roomy /\ e.ts \in Int
      /\ \A k \in 1 .. Len(stream) : stream[k].ts \in Int /\ stream[k].ts <= e.ts
  BY OrderedArrival, RoomBefore
<1>3. MaxSpan \in Nat /\ NumSteps \in Nat /\ j \in Nat /\ 1 \in 1 .. j /\ (j >= 2 => 2 \in 1 .. j)
  BY SequenceAssumption
<1>4. /\ c[1] \in 1 .. Len(stream) /\ (j >= 2 => c[2] \in 1 .. Len(stream))
      /\ Len(stream) \in 1 .. Len(stream)
  <2>1. c[1] \in 1 .. Len(stream) /\ (j >= 2 => c[2] \in 1 .. Len(stream))
    BY <1>3 DEF Begun
  <2>2. QED BY <1>1, <2>1
<1> DEFINE last == stream[Len(stream)].ts
<1>5. last \in Int /\ last <= e.ts
  BY <1>2, <1>4
<1> HIDE DEF last
<1>6. \A i \in 1 .. Len(stream) : e.ts - stream[i].ts <= MaxSpan => last - stream[i].ts <= MaxSpan
  BY <1>2, <1>3, <1>5
<1>7. InTime(c, j, last)
  <2>1. last - stream[c[1]].ts <= MaxSpan
    BY <1>4, <1>6 DEF InTime
  <2>2. \A i \in 1 .. c[1] - 1 : i \in 1 .. Len(stream)
    BY <1>1, <1>4
  <2>3. QED BY <1>6, <2>1, <2>2 DEF InTime
<1>8. PICK m \in partials : Carries(m, c, j)
  BY <1>2, <1>7 DEF CarriedOn, last
<1>9. m \in AllMatches
  BY DEF AllMatches
<1>10. m \in Seq(1 .. Len(stream)) /\ Len(m) \in 1 .. NumSteps /\ Witnessed(m)
  BY <1>9 DEF SequenceInv, InStream, CompletedIsWitnessed
<1>11. Len(m) >= 1 /\ 1 \in 1 .. Len(m)
  BY <1>3, <1>10
<1>12. m[1] \in 1 .. Len(stream) /\ m[Len(m)] \in 1 .. Len(stream)
  BY <1>1, <1>10, <1>11, Positions
<1>13. StepAt(m[1], 1)
  BY <1>10, <1>11 DEF Witnessed, StepAt
<1>14. e.ts - stream[m[1]].ts <= MaxSpan
  <2>1. CASE m[1] = c[1]
    BY <2>1 DEF InTime
  <2>2. CASE m[1] # c[1]
    <3>1. PICK i \in 1 .. j : i >= 2 /\ stream[c[2]].ts - stream[m[1]].ts <= MaxSpan
      BY <1>8, <2>2 DEF Carries
    <3>2. j >= 2
      BY <1>3, <3>1
    <3>3. m[1] \in 1 .. c[1] - 1
      BY <1>1, <1>4, <1>8, <1>12, <2>2 DEF Carries
    <3>4. \/ stream[c[2]].ts - stream[m[1]].ts > MaxSpan
          \/ e.ts - stream[m[1]].ts <= MaxSpan
      BY <1>13, <3>2, <3>3 DEF InTime
    <3>5. stream[c[2]].ts \in Int /\ stream[m[1]].ts \in Int
      BY <1>2, <1>4, <1>12, <3>2
    <3>6. QED BY <1>2, <1>3, <3>1, <3>4, <3>5
  <2>3. QED BY <2>1, <2>2
<1>15. m \in Fresh(stream')
  BY <1>1, <1>12, <1>14 DEF Fresh, Now, StartOf
<1>16. LastOf(stream', m) <= Now(stream')
  BY <1>1, <1>2, <1>12 DEF LastOf, Now
<1>17. QED BY <1>8, <1>15, <1>16

(* After the event there is still a match that carries it on, be it the    *)
(* same one or its extension: if it had fired, it would have used an event *)
(* of the occurrence.                                                      *)
LEMMA StillCarried ==
  ASSUME StreamTypeOK, SequenceInv, NEW e \in Event, Arrives(e),
         SequenceObserve(stream'), Roomy',
         NEW c \in [1 .. NumSteps -> 1 .. MaxEvents],
         NEW h \in 1 .. NumSteps - 1, NEW j \in h .. NumSteps - 1,
         Begun(c, h), Unspoilt(c, j)',
         NEW m \in partials, m \in Fresh(stream'), Carries(m, c, h), Len(m) >= j
  PROVE  \E a \in partials' : Carries(a, c, j)'
<1>1. /\ Len(stream) \in Nat /\ Len(stream') = Len(stream) + 1
      /\ \A k \in 1 .. Len(stream) : stream'[k] = stream[k]
  BY ArrivalFacts
<1>2. /\ NumSteps \in Nat /\ h \in Nat /\ j \in Nat /\ h <= j /\ j < NumSteps
      /\ \A i \in 1 .. h : i \in 1 .. j /\ i \in 1 .. NumSteps
  BY SequenceAssumption
<1>3. m \in AllMatches
  BY DEF AllMatches
<1>4. m \in Seq(1 .. Len(stream)) /\ Len(m) \in 1 .. NumSteps
  BY <1>3 DEF SequenceInv, InStream
<1>5. Len(m) \in Nat /\ Len(m) >= 1
  BY <1>2, <1>4
<1>6. m[1] \in 1 .. Len(stream)
  BY <1>1, <1>4, <1>5, Positions
<1>7. PICK i \in 1 .. h :
        /\ m[i] = c[i]
        /\ m[1] = c[1] \/ (i >= 2 /\ stream[c[2]].ts - stream[m[1]].ts <= MaxSpan)
  BY DEF Carries
<1>8. /\ m[1] <= c[1]
      /\ m[1] = c[1] \/ (i >= 2 /\ stream'[c[2]].ts - stream'[m[1]].ts <= MaxSpan)
  <2>1. i >= 2 => c[2] \in 1 .. Len(stream)
    <3>1. i >= 2 => 2 \in 1 .. h
      BY <1>2
    <3>2. QED BY <3>1 DEF Begun
  <2>2. i >= 2 => stream'[c[2]] = stream[c[2]]
    BY <1>1, <2>1
  <2>3. stream'[m[1]] = stream[m[1]]
    BY <1>1, <1>6
  <2>4. QED BY <1>7, <2>2, <2>3 DEF Carries
<1>9. ASSUME NEW a, Len(a) >= j, a[1] = m[1], a[i] = m[i] PROVE Carries(a, c, j)'
  BY <1>2, <1>7, <1>8, <1>9 DEF Carries
<1>a. PICK x : x = Append(m, Len(stream'))
  OBVIOUS
<1>10. /\ Len(x) = Len(m) + 1 /\ x[1] = m[1] /\ x[i] = m[i]
  <2>1. Len(stream') \in 1 .. Len(stream') /\ 1 .. Len(stream) \subseteq 1 .. Len(stream')
    BY <1>1
  <2>2. m \in Seq(1 .. Len(stream'))
    BY <1>4, <2>1, SeqMonotonic
  <2>3. 1 \in 1 .. Len(m) /\ i \in 1 .. Len(m)
    BY <1>2, <1>5
  <2>4. QED BY <1>a, <2>1, <2>2, <2>3, AppendProperties
<1>11. CASE Steps(stream') = {}
  BY <1>9, <1>11 DEF SequenceObserve, sequenceVars
<1>12. CASE Steps(stream') # {}
  <2>1. partials' = Opened(stream', Remaining(stream'))
    BY <1>12, StaysOpen
  <2>2. Remaining(stream') \subseteq partials'
    BY <2>1 DEF Opened
  <2>3. m \notin Completing(stream')
    <3>1. SUFFICES ASSUME m \in Completing(stream') PROVE FALSE
      OBVIOUS
    <3>2. x \in completed'
      BY <1>12, <1>a, <3>1 DEF SequenceObserve, Extended
    <3>3. QED BY <1>2, <1>7, <1>10, <3>2 DEF Unspoilt
  <2>4. CASE m \in Advancing(stream')
    <3>1. x \in Remaining(stream')
      BY <1>a, <2>4 DEF Remaining, Extended
    <3>2. Len(x) >= j
      BY <1>2, <1>5, <1>10
    <3>3. Carries(x, c, j)'
      BY <1>9, <1>10, <3>2
    <3>4. QED BY <2>2, <3>1, <3>3
  <2>5. CASE m \notin Advancing(stream')
    <3>1. m \in Remaining(stream')
      BY <2>3, <2>5 DEF Remaining
    <3>2. QED BY <1>9, <2>2, <3>1
  <2>6. QED BY <2>4, <2>5
<1>13. QED BY <1>11, <1>12

(* An event that is the next one of an occurrence moves a match to it,     *)
(* unless one is further already.                                          *)
LEMMA NextIsCarried ==
  ASSUME StreamTypeOK, SequenceInv, WithinCap, NEW e \in Event, Arrives(e), Ordered', Roomy',
         SequenceObserve(stream'),
         NEW c \in [1 .. NumSteps -> 1 .. MaxEvents],
         NEW h \in 1 .. NumSteps - 1, NEW j, j = h + 1, j < NumSteps,
         Begun(c, h), Unspoilt(c, j)', j \in Steps(stream'), c[j] = Len(stream'),
         NEW m \in partials, m \in Fresh(stream'), LastOf(stream', m) <= Now(stream'),
         Carries(m, c, h), Len(m) = h
  PROVE  \E a \in partials' : Carries(a, c, j)'
<1>1. /\ Len(stream) \in Nat /\ Len(stream') = Len(stream) + 1
      /\ stream'[Len(stream')] = e
      /\ \A k \in 1 .. Len(stream) : stream'[k] = stream[k]
  BY ArrivalFacts
<1>2. NumSteps \in Nat /\ h \in Nat /\ h >= 1 /\ j \in Nat /\ j >= 2 /\ j \in 1 .. j
      /\ j \in 1 .. NumSteps /\ MaxSpan \in Nat
  BY SequenceAssumption
<1>3. j \in Steps(stream') \ {1}
  BY <1>2
<1>4. m \in Waiting(stream', j)
  BY <1>2 DEF Waiting
<1>5. PICK q \in Oldest(stream') : q \in Waiting(stream', j) /\ q[1] <= m[1]
  BY <1>3, <1>4, OldestWaits
<1>6. q \in Fresh(stream') /\ Len(q) = h
  BY <1>2, <1>5 DEF Waiting
<1>a. PICK x : x = Append(q, Len(stream'))
  OBVIOUS
<1>7. /\ Len(x) = h + 1 /\ x[j] = Len(stream') /\ x[1] = q[1]
      /\ q[1] \in 1 .. Len(stream)
  <2>1. /\ Len(x) = Len(q) + 1 /\ x[Len(q) + 1] = Len(stream')
        /\ \A k \in 1 .. Len(q) : x[k] = q[k] /\ q[k] \in 1 .. Len(stream)
    BY <1>a, ExtendedMatch
  <2>2. 1 \in 1 .. Len(q)
    BY <1>2, <1>6
  <2>3. QED BY <1>6, <2>1, <2>2
<1>8. Completing(stream') = {}
  <2>1. SUFFICES ASSUME NEW p \in Completing(stream') PROVE FALSE
    OBVIOUS
  <2> DEFINE y == Append(p, Len(stream'))
  <2>2. p \in Oldest(stream') /\ Len(p) = NumSteps - 1
    BY DEF Completing
  <2>3. y[NumSteps] = Len(stream')
    BY <1>2, <2>2, ExtendedMatch
  <2> HIDE DEF y
  <2>4. y \in completed'
    BY <1>3 DEF SequenceObserve, Extended, y
  <2>5. NumSteps \in 1 .. NumSteps
    BY <1>2
  <2>6. QED BY <1>2, <2>3, <2>4, <2>5 DEF Unspoilt
<1>9. x \in partials'
  <2>1. q \in Advancing(stream')
    BY <1>8, <1>5 DEF Advancing
  <2>2. x \in Remaining(stream')
    BY <1>a, <2>1 DEF Remaining, Extended
  <2>3. partials' = Opened(stream', Remaining(stream'))
    BY <1>3, StaysOpen
  <2>4. QED BY <2>2, <2>3 DEF Opened
<1>10. Carries(x, c, j)'
  <2>1. Len(x) >= j
    BY <1>2, <1>7
  <2>2. c[1] \in 1 .. Len(stream) /\ m[1] <= c[1] /\ m[1] \in Int
    <3>1. 1 \in 1 .. h
      BY <1>2
    <3>2. m \in Seq(1 .. Len(stream)) /\ Len(m) >= 1
      BY <1>2 DEF SequenceInv, InStream, AllMatches
    <3>3. m[1] \in 1 .. Len(stream)
      BY <1>1, <3>2, Positions
    <3>4. QED BY <1>1, <3>1, <3>3 DEF Begun, Carries
  <2>3. x[1] <= c[1]
    BY <1>1, <1>5, <1>7, <2>2
  <2>4. stream'[c[2]].ts - stream'[x[1]].ts <= MaxSpan
    <3>1. c[2] \in 1 .. Len(stream')
      <4>1. CASE h = 1
        BY <1>1, <1>2, <4>1
      <4>2. CASE h # 1
        <5>1. 2 \in 1 .. h
          BY <1>2, <4>2
        <5>2. c[2] \in 1 .. Len(stream)
          BY <5>1 DEF Begun
        <5>3. QED BY <1>1, <5>2
      <4>3. QED BY <4>1, <4>2
    <3>2. /\ e.ts - stream'[x[1]].ts <= MaxSpan
          /\ x[1] \in 1 .. Len(stream)
      BY <1>1, <1>6, <1>7 DEF Fresh, Now, StartOf
    <3>3. /\ e.ts \in Int
          /\ \A k \in 1 .. Len(stream') : stream'[k].ts \in Int /\ stream'[k].ts <= e.ts
      <4>1. /\ e.ts \in Int
            /\ \A k \in 1 .. Len(stream) : stream[k].ts \in Int /\ stream[k].ts <= e.ts
        BY OrderedArrival
      <4>2. \A k \in 1 .. Len(stream') : k \in 1 .. Len(stream) \/ k = Len(stream')
        BY <1>1
      <4>3. e.ts <= e.ts
        BY <4>1
      <4>4. QED BY <1>1, <4>1, <4>2, <4>3
    <3>4. x[1] \in 1 .. Len(stream')
      BY <1>1, <3>2
    <3> DEFINE t == stream'[x[1]].ts
               u == stream'[c[2]].ts
    <3>5. t \in Int /\ u \in Int /\ u <= e.ts /\ e.ts - t <= MaxSpan
      BY <3>1, <3>2, <3>3, <3>4
    <3> HIDE DEF t, u
    <3>6. u - t <= MaxSpan
      BY <1>2, <3>3, <3>5
    <3>7. QED BY <3>6 DEF t, u
  <2>5. QED BY <1>2, <1>7, <2>1, <2>3, <2>4 DEF Carries
<1>11. QED BY <1>9, <1>10

(* The occurrence so far, read in the stream before the event.             *)
LEMMA SoFar ==
  ASSUME StreamTypeOK, SequenceInv, NEW e \in Event, Arrives(e),
         completed \subseteq completed',
         NEW c \in [1 .. NumSteps -> 1 .. MaxEvents],
         NEW j \in 1 .. NumSteps, Begun(c, j)', Unspoilt(c, j)',
         NEW t, t = stream'[Len(stream')].ts, InTime(c, j, t)',
         NEW h \in 1 .. j, h < NumSteps, c[h] \in 1 .. Len(stream),
         h = j \/ c[j] = Len(stream')
  PROVE  Begun(c, h) /\ Unspoilt(c, h) /\ InTime(c, h, e.ts)
<1>1. /\ Len(stream) \in Nat /\ Len(stream') = Len(stream) + 1
      /\ stream'[Len(stream')] = e
      /\ \A k \in 1 .. Len(stream) : stream'[k] = stream[k]
  BY ArrivalFacts
<1>2. NumSteps \in Nat /\ h \in 1 .. h /\ 1 \in 1 .. h
  BY SequenceAssumption
<1>3. ASSUME NEW k \in 1 .. h PROVE c[k] \in 1 .. Len(stream) /\ c[k] \in 1 .. Len(stream')
  <2>1. k \in 1 .. j /\ h \in 1 .. j
    BY <1>2
  <2>2. c[k] \in 1 .. Len(stream')
    BY <2>1 DEF Begun
  <2>3. k < h => c[k] < c[h]
    BY <2>1 DEF Begun
  <2>4. k = h \/ k < h
    BY <1>2
  <2>5. QED BY <1>1, <2>2, <2>3, <2>4
<1>4. Begun(c, h)
  <2>1. \A k, l \in 1 .. h : k < l => c[k] < c[l]
    BY <1>2 DEF Begun
  <2>2. \A k \in 1 .. h : StepAt(c[k], k)
    BY <1>1, <1>2, <1>3 DEF Begun, StepAt
  <2>3. QED BY <1>3, <2>1, <2>2 DEF Begun
<1>5. c[1] \in 1 .. Len(stream)
  BY <1>2, <1>3
<1>6. \A i \in 1 .. c[1] - 1 : i \in 1 .. Len(stream)
  BY <1>1, <1>5
<1>7. FirstOfItsActor(c[1])
  BY <1>1, <1>5, <1>6 DEF Unspoilt, FirstOfItsActor
<1>8. Unspoilt(c, h)
  <2>1. \A l \in 1 .. h : l \in 1 .. j
    BY <1>2
  <2>2. QED BY <1>7, <2>1 DEF Unspoilt
<1>9. InTime(c, h, e.ts)
  <2>1. e.ts - stream[c[1]].ts <= MaxSpan
    BY <1>1, <1>5 DEF InTime
  <2>2. ASSUME h >= 2, NEW i \in 1 .. c[1] - 1, StepAt(i, 1)
        PROVE  \/ stream[c[2]].ts - stream[i].ts > MaxSpan
               \/ e.ts - stream[i].ts <= MaxSpan
    <3>1. 2 \in 1 .. h /\ j >= 2
      BY <1>2, <2>2
    <3>2. stream'[c[2]] = stream[c[2]] /\ stream'[i] = stream[i]
      BY <1>1, <1>3, <1>6, <3>1
    <3>3. QED BY <1>1, <2>2, <3>1, <3>2 DEF InTime, StepAt
  <2>3. QED BY <2>1, <2>2 DEF InTime
<1>10. QED BY <1>4, <1>8, <1>9

(* An event carries on every occurrence it does not complete.              *)
LEMMA EventCarries ==
  ASSUME StreamTypeOK, SequenceInv, WithinCap, CarriedOn, NEW e \in Event, Arrives(e),
         SequenceObserve(stream')
  PROVE  CarriedOn'
<1>1. /\ Len(stream) \in Nat /\ Len(stream') = Len(stream) + 1
      /\ stream'[Len(stream')] = e
      /\ \A k \in 1 .. Len(stream) : stream'[k] = stream[k]
  BY ArrivalFacts
<1>2. SUFFICES ASSUME Ordered', Roomy',
                      NEW c \in [1 .. NumSteps -> 1 .. MaxEvents],
                      NEW j \in 1 .. NumSteps - 1,
                      Begun(c, j)', Unspoilt(c, j)',
                      NEW t, t = stream'[Len(stream')].ts, InTime(c, j, t)'
               PROVE  \E m \in partials' : Carries(m, c, j)'
  BY DEF CarriedOn
<1>3. /\ NumSteps \in Nat /\ j \in Nat /\ j >= 1 /\ j < NumSteps
      /\ j \in 1 .. NumSteps /\ j \in 1 .. j /\ 1 \in 1 .. j
  BY SequenceAssumption
<1>4. completed \subseteq completed'
  BY DEF SequenceObserve, sequenceVars
<1>5. c[j] \in 1 .. Len(stream') /\ StepAt(c[j], j)'
  BY <1>2, <1>3 DEF Begun
<1>6. CASE c[j] \in 1 .. Len(stream)
  <2>1. Begun(c, j) /\ Unspoilt(c, j) /\ InTime(c, j, e.ts)
    BY <1>2, <1>3, <1>4, <1>6, SoFar
  <2>2. PICK m \in partials : Carries(m, c, j) /\ m \in Fresh(stream')
    BY <1>2, <2>1, CarrierIsFresh
  <2>3. j \in j .. NumSteps - 1 /\ Len(m) >= j
    BY <1>3, <2>2 DEF Carries
  <2>4. QED BY <1>2, <2>1, <2>2, <2>3, StillCarried
<1>7. CASE c[j] = Len(stream') /\ j >= 2
  <2> DEFINE h == j - 1
  <2>1. h \in 1 .. NumSteps - 1 /\ h \in 1 .. j /\ h < NumSteps /\ h < j /\ h + 1 = j /\ h \in Nat
    BY <1>3, <1>7
  <2> HIDE DEF h
  <2>2. c[h] \in 1 .. Len(stream)
    <3>1. c[h] < c[j] /\ c[h] \in 1 .. Len(stream')
      BY <1>2, <1>3, <2>1 DEF Begun
    <3>2. QED BY <1>1, <1>7, <3>1
  <2>3. Begun(c, h) /\ Unspoilt(c, h) /\ InTime(c, h, e.ts)
    BY <1>2, <1>3, <1>4, <1>7, <2>1, <2>2, SoFar
  <2>4. PICK m \in partials :
          Carries(m, c, h) /\ m \in Fresh(stream') /\ LastOf(stream', m) <= Now(stream')
    BY <1>2, <2>1, <2>3, CarrierIsFresh
  <2>5. Len(m) \in Nat /\ Len(m) >= h
    <3>1. m \in Seq(1 .. Len(stream))
      BY DEF SequenceInv, InStream, AllMatches
    <3>2. QED BY <2>4, <3>1, LenProperties DEF Carries
  <2>6. CASE Len(m) = h
    <3>1. j \in Steps(stream')
      BY <1>5, <1>7 DEF StepAt, Steps
    <3>2. QED BY <1>2, <1>3, <1>7, <2>1, <2>3, <2>4, <2>6, <3>1, NextIsCarried
  <2>7. CASE Len(m) # h
    <3>1. Len(m) >= j /\ j \in h .. NumSteps - 1
      BY <1>3, <2>1, <2>5, <2>7
    <3>2. QED BY <1>2, <2>1, <2>3, <2>4, <3>1, StillCarried
  <2>8. QED BY <2>6, <2>7
<1>8. CASE c[j] = Len(stream') /\ j = 1
  <2>1. PICK x : x = <<Len(stream')>>
    OBVIOUS
  <2>2. Len(x) = 1 /\ x[1] = Len(stream')
    BY <2>1
  <2>3. 1 \in Steps(stream')
    BY <1>5, <1>8 DEF StepAt, Steps
  <2>4. partials' = Opened(stream', Remaining(stream'))
    BY <1>2, <2>3, StaysOpen
  <2>5. Opens(stream', Remaining(stream'))
    <3>1. SUFFICES ASSUME e.actor # None, NEW m \in Remaining(stream'), Len(m) = 1,
                          OriginOf(stream', m) = e.actor
                   PROVE  FALSE
      BY <1>1, <2>3 DEF Opens
    <3>2. ASSUME NEW p \in Advancing(stream'), m = Append(p, Len(stream')) PROVE FALSE
      <4>1. p \in Oldest(stream')
        BY <3>2 DEF Advancing
      <4>2. Len(p) \in 1 .. NumSteps - 1 /\ Len(m) = Len(p) + 1
        BY <3>2, <4>1, ExtendedMatch
      <4>3. QED BY <3>1, <4>2
    <3>3. m \in Fresh(stream')
      BY <3>2 DEF Remaining, Extended
    <3>4. m \in AllMatches
      BY <3>3 DEF Fresh, AllMatches
    <3>5. m \in Seq(1 .. Len(stream)) /\ Witnessed(m)
      BY <3>4 DEF SequenceInv, InStream, CompletedIsWitnessed
    <3>6. m[1] \in 1 .. Len(stream) /\ 1 \in stream[m[1]].shape.steps
      <4>1. 1 \in 1 .. Len(m)
        BY <3>1
      <4>2. m[1] \in 1 .. Len(stream)
        <5>1. Len(m) >= 1
          BY <3>1
        <5>2. QED BY <1>1, <3>5, <5>1, Positions
      <4>3. QED BY <3>5, <4>1, <4>2 DEF Witnessed
    <3>7. m[1] \in 1 .. c[1] - 1
      BY <1>1, <1>8, <3>6
    <3>8. FirstOfItsActor(c[1])' /\ stream'[c[1]] = e /\ stream'[m[1]] = stream[m[1]]
      BY <1>1, <1>2, <1>8, <3>6 DEF Unspoilt
    <3>9. QED BY <3>1, <3>6, <3>7, <3>8 DEF FirstOfItsActor, OriginOf
  <2>6. x \in partials'
    BY <2>1, <2>4, <2>5 DEF Opened
  <2>7. Carries(x, c, j)'
    <3>1. x[1] = c[1] /\ x[1] <= c[1] /\ Len(x) >= j
      BY <1>1, <1>8, <2>2
    <3>2. QED BY <1>3, <3>1 DEF Carries
  <2>8. QED BY <2>6, <2>7
<1>9. c[j] \in 1 .. Len(stream) \/ c[j] = Len(stream')
  BY <1>1, <1>5
<1>10. QED BY <1>3, <1>6, <1>7, <1>8, <1>9

(* The last event of an occurrence finds a match that waits for it.        *)
LEMMA EventCompletes ==
  ASSUME StreamTypeOK, SequenceInv, WithinCap, CarriedOn, OccurrencesFire,
         NEW e \in Event, Arrives(e), SequenceObserve(stream')
  PROVE  OccurrencesFire'
<1>1. /\ Len(stream) \in Nat /\ Len(stream') = Len(stream) + 1
      /\ stream'[Len(stream')] = e
      /\ \A k \in 1 .. Len(stream) : stream'[k] = stream[k]
      /\ DOMAIN stream = 1 .. Len(stream) /\ DOMAIN stream' = 1 .. Len(stream')
      /\ Len(stream') <= MaxEvents /\ MaxEvents \in Nat
  BY ArrivalFacts, RoomBefore, StreamAssumption DEF StreamTypeOK
<1>2. SUFFICES ASSUME Ordered', Roomy',
                      NEW c \in [1 .. NumSteps -> DOMAIN stream'],
                      Occurrence(c)', FirstOfItsActor(c[1])', NoneRunsOut(c)',
                      \A m \in completed' :
                        m[NumSteps] < c[NumSteps] =>
                          {m[k] : k \in 1 .. NumSteps} \cap {c[k] : k \in 1 .. NumSteps} = {}
               PROVE  \E m \in completed' : m[NumSteps] = c[NumSteps]
  BY DEF OccurrencesFire, Roomy, Firsts, StepAt
<1>3. /\ NumSteps \in Nat /\ NumSteps >= 2
      /\ 1 \in 1 .. NumSteps /\ 2 \in 1 .. NumSteps /\ NumSteps \in 1 .. NumSteps
  BY SequenceAssumption
<1>4. completed \subseteq completed' /\ Ordered /\ Roomy
  BY <1>2, OrderedArrival, RoomBefore DEF SequenceObserve, sequenceVars
<1>5. \A k \in 1 .. NumSteps : c[k] \in 1 .. Len(stream') /\ (k < NumSteps => c[k] < c[NumSteps])
  BY <1>1, <1>2, <1>3 DEF Occurrence
<1>6. CASE c[NumSteps] \in 1 .. Len(stream)
  <2>1. \A k \in 1 .. NumSteps : c[k] \in 1 .. Len(stream)
    <3>1. SUFFICES ASSUME NEW k \in 1 .. NumSteps PROVE c[k] \in 1 .. Len(stream)
      OBVIOUS
    <3>2. k = NumSteps \/ k < NumSteps
      BY <1>3
    <3>3. QED BY <1>1, <1>5, <1>6, <3>2
  <2>2. c \in [1 .. NumSteps -> DOMAIN stream]
    BY <1>1, <2>1
  <2>3. \A i \in 1 .. c[1] - 1 : i \in 1 .. Len(stream) /\ stream'[i] = stream[i]
    BY <1>1, <1>3, <2>1
  <2>4. \A k \in 1 .. NumSteps : stream'[c[k]] = stream[c[k]]
    BY <1>1, <2>1
  <2>5. Occurrence(c)
    BY <1>2, <1>3, <2>4 DEF Occurrence
  <2>6. FirstOfItsActor(c[1])
    BY <1>2, <1>3, <2>3, <2>4 DEF FirstOfItsActor
  <2>7. NoneRunsOut(c)
    BY <1>2, <1>3, <2>3, <2>4 DEF NoneRunsOut
  <2>8. \E m \in completed : m[NumSteps] = c[NumSteps]
    BY <1>2, <1>4, <2>2, <2>5, <2>6, <2>7 DEF OccurrencesFire, Roomy, Firsts, StepAt
  <2>9. QED BY <1>4, <2>8
<1>7. CASE c[NumSteps] = Len(stream')
  <2> DEFINE h == NumSteps - 1
  <2>1. h \in 1 .. NumSteps - 1 /\ h \in 1 .. NumSteps /\ h < NumSteps /\ h + 1 = NumSteps
        /\ h \in Nat
    BY <1>3
  <2> HIDE DEF h
  <2>2. \A k \in 1 .. h : c[k] \in 1 .. Len(stream) /\ k \in 1 .. NumSteps
    <3>1. SUFFICES ASSUME NEW k \in 1 .. h PROVE c[k] \in 1 .. Len(stream) /\ k \in 1 .. NumSteps
      OBVIOUS
    <3>2. k \in 1 .. NumSteps /\ k < NumSteps
      BY <1>3, <2>1
    <3>3. QED BY <1>1, <1>5, <1>7, <3>2
  <2>3. c \in [1 .. NumSteps -> 1 .. MaxEvents]
    BY <1>1
  <2>4. 1 \in 1 .. h /\ c[1] \in 1 .. Len(stream)
    BY <2>1, <2>2
  <2>5. Begun(c, h)
    BY <1>1, <1>2, <2>2 DEF Begun, Occurrence, StepAt
  <2>6. \A i \in 1 .. c[1] - 1 : i \in 1 .. Len(stream) /\ stream'[i] = stream[i]
    BY <1>1, <2>4
  <2>7. FirstOfItsActor(c[1])
    BY <1>1, <1>2, <2>4, <2>6 DEF FirstOfItsActor
  <2>8. Unspoilt(c, h)
    <3>1. ASSUME NEW m \in completed, NEW k \in 1 .. NumSteps, NEW l \in 1 .. h PROVE m[k] # c[l]
      <4>1. m \in Seq(1 .. Len(stream)) /\ Len(m) = NumSteps
        BY DEF SequenceInv, InStream, Lengths, AllMatches
      <4>2. m[NumSteps] \in 1 .. Len(stream)
        BY <1>1, <1>3, <4>1, Positions
      <4>3. m[NumSteps] < c[NumSteps]
        BY <1>1, <1>7, <4>2
      <4>4. m \in completed' /\ l \in 1 .. NumSteps
        BY <1>4, <2>2
      <4>5. QED BY <1>2, <4>3, <4>4
    <3>2. QED BY <2>7, <3>1 DEF Unspoilt
  <2>9. InTime(c, h, e.ts)
    <3>1. e.ts - stream[c[1]].ts <= MaxSpan
      BY <1>1, <1>2, <1>7, <2>4 DEF Occurrence
    <3>2. ASSUME h >= 2, NEW i \in 1 .. c[1] - 1, StepAt(i, 1)
          PROVE  \/ stream[c[2]].ts - stream[i].ts > MaxSpan
                 \/ e.ts - stream[i].ts <= MaxSpan
      <4>1. 2 \in 1 .. h
        BY <2>1, <3>2
      <4>2. stream'[c[2]] = stream[c[2]] /\ stream'[i] = stream[i]
        BY <1>1, <2>2, <2>6, <4>1
      <4>3. QED BY <1>1, <1>2, <1>7, <3>2, <4>2 DEF NoneRunsOut, StepAt
    <3>3. QED BY <3>1, <3>2 DEF InTime
  <2>10. PICK m \in partials :
           Carries(m, c, h) /\ m \in Fresh(stream') /\ LastOf(stream', m) <= Now(stream')
    BY <1>2, <2>1, <2>3, <2>5, <2>8, <2>9, CarrierIsFresh
  <2>11. Len(m) = h
    <3>1. Len(m) >= h /\ Len(m) < NumSteps /\ Len(m) \in Nat
      BY <2>10, LenProperties DEF Carries, SequenceInv, InStream, Lengths, AllMatches
    <3>2. QED BY <1>3, <2>1, <3>1
  <2>12. NumSteps \in Steps(stream') \ {1}
    BY <1>1, <1>2, <1>3, <1>7 DEF Occurrence, Steps
  <2>13. m \in Waiting(stream', NumSteps)
    BY <1>3, <2>1, <2>10, <2>11 DEF Waiting
  <2>14. PICK q \in Oldest(stream') : q \in Waiting(stream', NumSteps)
    BY <2>12, <2>13, OldestWaits
  <2>15. q \in Completing(stream') /\ Len(q) = NumSteps - 1
    BY <2>14 DEF Completing, Waiting
  <2>16. PICK x : x = Append(q, Len(stream'))
    OBVIOUS
  <2>17. x \in completed'
    BY <2>12, <2>15, <2>16 DEF SequenceObserve, Extended
  <2>18. x[NumSteps] = Len(stream')
    BY <1>3, <2>15, <2>16, ExtendedMatch
  <2>19. QED BY <1>7, <2>17, <2>18
<1>8. QED BY <1>1, <1>3, <1>5, <1>6, <1>7

(* Open matches keep running forward.                                      *)
LEMMA EventGoesForward ==
  ASSUME StreamTypeOK, SequenceInv, Forward, NEW e \in Event, Arrives(e),
         SequenceObserve(stream')
  PROVE  Forward'
<1>1. /\ Len(stream) \in Nat /\ Len(stream') = Len(stream) + 1
      /\ stream'[Len(stream')] = e
      /\ \A k \in 1 .. Len(stream) : stream'[k] = stream[k] /\ stream[k] \in Event
  BY ArrivalFacts
<1>2. ASSUME NEW m \in partials
      PROVE  /\ StartOf(stream', m) = StartOf(stream, m)
             /\ LastOf(stream', m) = LastOf(stream, m)
             /\ StartOf(stream, m) <= LastOf(stream, m)
             /\ m[1] \in 1 .. Len(stream) /\ m[Len(m)] \in 1 .. Len(stream)
  <2>1. m \in Seq(1 .. Len(stream)) /\ Len(m) \in 1 .. NumSteps
    BY DEF SequenceInv, InStream, AllMatches
  <2>2. Len(m) >= 1
    BY <2>1, SequenceAssumption
  <2>3. QED BY <1>1, <2>1, <2>2, StillWitnessed, Positions DEF Forward
<1>3. SUFFICES ASSUME NEW m \in partials' PROVE StartOf(stream', m) <= LastOf(stream', m)
  BY DEF Forward
<1>4. CASE m \in partials
  BY <1>2, <1>4
<1>5. CASE m = <<Len(stream')>>
  <2>1. Len(m) = 1 /\ m[1] = Len(stream') /\ e.ts \in Int
    BY <1>5 DEF Event, Times
  <2>2. QED BY <1>1, <2>1 DEF StartOf, LastOf
<1>6. CASE \E p \in Advancing(stream') : m = Append(p, Len(stream'))
  <2>1. PICK p \in Advancing(stream') : m = Append(p, Len(stream'))
    BY <1>6
  <2>2. p \in Oldest(stream')
    BY <2>1 DEF Advancing
  <2>3. /\ p \in partials /\ Len(p) \in 1 .. NumSteps - 1 /\ Len(m) = Len(p) + 1
        /\ m[1] = p[1] /\ m[Len(m)] = Len(stream')
    <3>1. /\ p \in partials /\ Len(p) \in 1 .. NumSteps - 1 /\ Len(m) = Len(p) + 1
          /\ \A k \in 1 .. Len(p) : m[k] = p[k]
          /\ m[Len(p) + 1] = Len(stream')
      BY <2>1, <2>2, ExtendedMatch
    <3>2. 1 \in 1 .. Len(p)
      BY <3>1
    <3>3. QED BY <3>1, <3>2
  <2>4. LastOf(stream', p) <= e.ts
    BY <1>1, <2>2 DEF Oldest, Waiting, Now
  <2>5. StartOf(stream', m) = StartOf(stream', p) /\ LastOf(stream', m) = e.ts
    BY <1>1, <2>3 DEF StartOf, LastOf
  <2>6. /\ StartOf(stream', p) <= LastOf(stream', p)
        /\ StartOf(stream', p) \in Int /\ LastOf(stream', p) \in Int /\ e.ts \in Int
    <3>1. stream[p[1]] \in Event /\ stream[p[Len(p)]] \in Event
      BY <1>1, <1>2, <2>3
    <3>2. QED BY <1>2, <2>3, <3>1 DEF StartOf, LastOf, Event, Times
  <2>7. QED BY <2>4, <2>5, <2>6
<1>7. QED
  <2>1. m \in partials \/ m \in Opened(stream', Remaining(stream'))
    BY DEF SequenceObserve, sequenceVars, Capped
  <2>2. QED BY <1>4, <1>5, <1>6, <2>1 DEF Opened, Remaining, Extended, Fresh

(* A prune that keeps to maxspan drops no match an occurrence needs.       *)
LEMMA PruneCarries ==
  ASSUME StreamTypeOK, SequenceInv, Forward, CarriedOn, UNCHANGED stream, MaxSpan <= Retention,
         NEW before \in Int, before <= Clock - Retention, SequencePrune(before)
  PROVE  Forward' /\ CarriedOn'
<1>1. /\ partials' = {m \in partials : LastOf(stream, m) >= before}
      /\ completed' = completed /\ stream' = stream
  BY DEF SequencePrune
<1>2. Forward'
  BY <1>1 DEF Forward, StartOf, LastOf
<1>3. SUFFICES ASSUME Ordered, Roomy, NEW c \in [1 .. NumSteps -> 1 .. MaxEvents],
                      NEW j \in 1 .. NumSteps - 1, Begun(c, j), Unspoilt(c, j),
                      InTime(c, j, stream[Len(stream)].ts)
               PROVE  \E m \in partials' : Carries(m, c, j)
  BY <1>1, <1>2 DEF CarriedOn, Ordered, Roomy, Firsts, StepAt, Begun, Unspoilt, InTime,
     Carries, FirstOfItsActor
<1>4. PICK m \in partials : Carries(m, c, j)
  BY <1>3 DEF CarriedOn
<1>5. /\ Len(stream) \in Nat /\ \A k \in 1 .. Len(stream) : stream[k] \in Event
  BY LenProperties, ElementOfSeq DEF StreamTypeOK
<1>6. /\ MaxSpan \in Nat /\ Retention \in Nat /\ NumSteps \in Nat /\ j \in Nat
      /\ 1 \in 1 .. j /\ (j >= 2 => 2 \in 1 .. j)
  BY SequenceAssumption, DetectionAssumption
<1>7. c[1] \in 1 .. Len(stream) /\ (j >= 2 => c[2] \in 1 .. Len(stream))
  BY <1>3, <1>6 DEF Begun
<1>8. Len(stream) \in 1 .. Len(stream) /\ Len(stream) >= 1
  BY <1>5, <1>7
<1>9. Clock = stream[Len(stream)].ts
  BY <1>3, <1>8, ClockIsLast
<1>10. m \in Seq(1 .. Len(stream)) /\ Len(m) \in 1 .. NumSteps /\ Witnessed(m)
  BY DEF SequenceInv, InStream, CompletedIsWitnessed, AllMatches
<1>11. Len(m) >= 1 /\ 1 \in 1 .. Len(m)
  BY <1>6, <1>10
<1>12. m[1] \in 1 .. Len(stream) /\ m[Len(m)] \in 1 .. Len(stream)
  BY <1>5, <1>10, <1>11, Positions
<1>13. StepAt(m[1], 1)
  BY <1>10, <1>11 DEF Witnessed, StepAt
<1> DEFINE last == stream[Len(stream)].ts
           start == stream[m[1]].ts
           end == stream[m[Len(m)]].ts
           second == stream[c[2]].ts
<1>14. last \in Int /\ start \in Int /\ end \in Int /\ (j >= 2 => second \in Int)
  BY <1>5, <1>7, <1>8, <1>12 DEF Event, Times
<1>15. start <= end
  BY DEF Forward, StartOf, LastOf
<1>16. last - start <= MaxSpan
  <2>1. CASE m[1] = c[1]
    BY <1>3, <2>1 DEF InTime
  <2>2. CASE m[1] # c[1]
    <3>1. j >= 2 /\ second - start <= MaxSpan
      <4>1. PICK i \in 1 .. j : i >= 2 /\ second - start <= MaxSpan
        BY <1>4, <2>2 DEF Carries
      <4>2. QED BY <1>6, <4>1
    <3>2. m[1] \in 1 .. c[1] - 1
      BY <1>4, <1>5, <1>7, <1>12, <2>2 DEF Carries
    <3>3. second - start > MaxSpan \/ last - start <= MaxSpan
      BY <1>3, <1>13, <3>1, <3>2 DEF InTime
    <3> HIDE DEF second, start, last
    <3>4. QED BY <1>6, <1>14, <3>1, <3>3
  <2>3. QED BY <2>1, <2>2
<1>17. before <= last - Retention
  BY <1>9
<1> HIDE DEF last, start, second, end
<1>18. end >= before
  BY <1>6, <1>14, <1>15, <1>16, <1>17
<1>19. m \in partials'
  BY <1>1, <1>18 DEF end, LastOf
<1>20. QED BY <1>4, <1>19

(* "Ordered steps that must occur for the same entity within maxspan": on  *)
(* a stream in order, with prunes that keep at least a maxspan and room    *)
(* for a match of every first step, a sequence rule of any number of steps *)
(* fires on the last event of every such occurrence.                       *)
THEOREM OccurrencesAreSeen == ASSUME MaxSpan <= Retention PROVE Spec => []OccurrencesFire
<1> DEFINE Inv == Forward /\ CarriedOn /\ OccurrencesFire
<1>1. Init => Inv
  <2> SUFFICES ASSUME Init PROVE Inv
    OBVIOUS
  <2>1. stream = <<>> /\ partials = {} /\ DOMAIN stream = {} /\ Len(stream) = 0
    BY DEF Init, SequenceInit
  <2>2. NumSteps \in Nat /\ 1 \in 1 .. NumSteps
    BY SequenceAssumption
  <2>3. Forward
    BY <2>1 DEF Forward
  <2>4. CarriedOn
    <3>1. ASSUME NEW c, NEW j \in 1 .. NumSteps - 1, Begun(c, j) PROVE FALSE
      <4>1. 1 \in 1 .. j
        BY <2>2
      <4>2. c[1] \in 1 .. 0
        BY <2>1, <3>1, <4>1 DEF Begun
      <4>3. QED BY <4>2
    <3>2. QED BY <3>1 DEF CarriedOn
  <2>5. OccurrencesFire
    <3>1. ASSUME NEW c \in [1 .. NumSteps -> DOMAIN stream] PROVE FALSE
      BY <2>1, <2>2
    <3>2. QED BY <3>1 DEF OccurrencesFire
  <2>6. QED BY <2>3, <2>4, <2>5
<1>2. IInv /\ Inv /\ [Next]_vars => Inv'
  <2> SUFFICES ASSUME IInv, Inv, [Next]_vars PROVE Inv'
    OBVIOUS
  <2>1. CASE \E e \in Event : ProcessEvent(e)
    BY <2>1, EventGoesForward, EventCarries, EventCompletes DEF ProcessEvent, IInv
  <2>2. CASE \E before \in Times : Prune(before)
    <3>1. PICK before \in Times : Prune(before)
      BY <2>2
    <3>2. before \in Int
      BY DEF Times
    <3>3. Forward' /\ CarriedOn'
      BY <3>1, <3>2, PruneCarries DEF Prune, IInv
    <3>4. stream' = stream /\ completed' = completed
      BY <3>1 DEF Prune, SequencePrune
    <3>5. OccurrencesFire'
      BY <3>4 DEF OccurrencesFire, Ordered, Occurrence, FirstOfItsActor, NoneRunsOut
    <3>6. QED BY <3>3, <3>5
  <2>3. CASE UNCHANGED vars
    <3>1. UNCHANGED <<stream, partials, completed>>
      BY <2>3 DEF vars, sequenceVars
    <3>2. Forward' /\ OccurrencesFire'
      BY <3>1 DEF Forward, StartOf, LastOf, OccurrencesFire, Ordered, Occurrence,
         FirstOfItsActor, NoneRunsOut
    <3>3. CarriedOn'
      <4>1. stream' = stream /\ partials' = partials /\ completed' = completed
        BY <3>1
      <4>2. Ordered' = Ordered /\ Roomy' = Roomy
        BY <4>1 DEF Ordered, Roomy, Firsts, StepAt
      <4>3. ASSUME NEW c, NEW j
            PROVE  /\ Begun(c, j)' = Begun(c, j) /\ Unspoilt(c, j)' = Unspoilt(c, j)
                   /\ \A t : InTime(c, j, t)' = InTime(c, j, t)
                   /\ \A m : Carries(m, c, j)' = Carries(m, c, j)
        BY <4>1 DEF Begun, Unspoilt, InTime, Carries, StepAt, FirstOfItsActor
      <4>4. QED BY <4>1, <4>2, <4>3 DEF CarriedOn
    <3>4. QED BY <3>2, <3>3
  <2>4. QED BY <2>1, <2>2, <2>3 DEF Next
<1>3. QED BY <1>1, <1>2, Invariance, PTL DEF Spec
=============================================================================
