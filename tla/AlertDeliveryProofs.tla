------------------------ MODULE AlertDeliveryProofs ------------------------
(* What holds of AlertDelivery for any alerts, retry budget and bounds.    *)
EXTENDS AlertDelivery, SequenceTheorems, TLAPS

(* The ids in a file, as lines are appended, concatenated and cut off.     *)
LEMMA ToSetFacts ==
  ASSUME NEW S, NEW s \in Seq(S)
  PROVE  /\ ToSet(s) \subseteq S
         /\ \A i \in 1 .. Len(s) : s[i] \in ToSet(s)
         /\ \A x \in ToSet(s) : \E i \in 1 .. Len(s) : s[i] = x
BY LenProperties, ElementOfSeq DEF ToSet

(* A line appended to a file adds its id and no other.                     *)
LEMMA ToSetAppend ==
  ASSUME NEW S, NEW s \in Seq(S), NEW x \in S
  PROVE  ToSet(Append(s, x)) = ToSet(s) \cup {x}
<1> DEFINE t == Append(s, x)
<1>1. /\ t \in Seq(S) /\ Len(t) = Len(s) + 1 /\ Len(s) \in Nat
      /\ \A i \in 1 .. Len(s) : t[i] = s[i]
      /\ t[Len(s) + 1] = x
  BY AppendProperties, LenProperties
<1>2. DOMAIN t = 1 .. Len(s) + 1 /\ DOMAIN s = 1 .. Len(s)
  BY <1>1, LenProperties
<1>3. ASSUME NEW y \in ToSet(t) PROVE y \in ToSet(s) \cup {x}
  <2>1. PICK i \in 1 .. Len(s) + 1 : t[i] = y
    BY <1>2 DEF ToSet
  <2>2. CASE i = Len(s) + 1
    BY <1>1, <2>1, <2>2
  <2>3. CASE i \in 1 .. Len(s)
    BY <1>1, <1>2, <2>1, <2>3 DEF ToSet
  <2>4. QED BY <1>1, <2>2, <2>3
<1>4. ASSUME NEW y \in ToSet(s) \cup {x} PROVE y \in ToSet(t)
  <2>1. CASE y = x
    <3>1. Len(s) + 1 \in DOMAIN t
      BY <1>1, <1>2
    <3>2. QED BY <1>1, <2>1, <3>1 DEF ToSet
  <2>2. CASE y \in ToSet(s)
    <3>1. PICK i \in 1 .. Len(s) : s[i] = y
      BY <1>2, <2>2 DEF ToSet
    <3>2. i \in DOMAIN t /\ t[i] = y
      BY <1>1, <1>2, <3>1
    <3>3. QED BY <3>2 DEF ToSet
  <2>3. QED BY <2>1, <2>2
<1>5. QED BY <1>3, <1>4

(* A file flushed onto another has the ids of both.                        *)
LEMMA ToSetConcat ==
  ASSUME NEW S, NEW s \in Seq(S), NEW t \in Seq(S)
  PROVE  ToSet(s \o t) = ToSet(s) \cup ToSet(t)
<1> DEFINE u == s \o t
<1>1. /\ u \in Seq(S) /\ Len(u) = Len(s) + Len(t)
      /\ \A i \in 1 .. Len(s) + Len(t) :
           u[i] = IF i <= Len(s) THEN s[i] ELSE t[i - Len(s)]
      /\ Len(s) \in Nat /\ Len(t) \in Nat
  BY ConcatProperties, LenProperties
<1>2. DOMAIN u = 1 .. Len(s) + Len(t) /\ DOMAIN s = 1 .. Len(s) /\ DOMAIN t = 1 .. Len(t)
  BY <1>1, LenProperties
<1>3. ASSUME NEW y \in ToSet(u) PROVE y \in ToSet(s) \cup ToSet(t)
  <2>1. PICK i \in 1 .. Len(s) + Len(t) : u[i] = y
    BY <1>2 DEF ToSet
  <2>2. CASE i <= Len(s)
    BY <1>1, <1>2, <2>1, <2>2 DEF ToSet
  <2>3. CASE ~(i <= Len(s))
    <3>1. i - Len(s) \in DOMAIN t /\ t[i - Len(s)] = y
      BY <1>1, <1>2, <2>1, <2>3
    <3>2. QED BY <3>1 DEF ToSet
  <2>4. QED BY <2>2, <2>3
<1>4. ASSUME NEW y \in ToSet(s) PROVE y \in ToSet(u)
  <2>1. PICK i \in 1 .. Len(s) : s[i] = y
    BY <1>2 DEF ToSet
  <2>2. i \in DOMAIN u /\ u[i] = y
    BY <1>1, <1>2, <2>1
  <2>3. QED BY <2>2 DEF ToSet
<1>5. ASSUME NEW y \in ToSet(t) PROVE y \in ToSet(u)
  <2>1. PICK i \in 1 .. Len(t) : t[i] = y
    BY <1>2 DEF ToSet
  <2>2. i + Len(s) \in DOMAIN u /\ u[i + Len(s)] = y
    BY <1>1, <1>2, <2>1
  <2>3. QED BY <2>2 DEF ToSet
<1>6. QED BY <1>3, <1>4, <1>5

(* A file cut off has ids the whole file had.                              *)
LEMMA ToSetSubSeq ==
  ASSUME NEW S, NEW s \in Seq(S), NEW m \in Nat \ {0}, NEW n \in 0 .. Len(s)
  PROVE  SubSeq(s, m, n) \in Seq(S) /\ ToSet(SubSeq(s, m, n)) \subseteq ToSet(s)
<1> DEFINE u == SubSeq(s, m, n)
<1>1. Len(s) \in Nat /\ DOMAIN s = 1 .. Len(s) /\ m \in Int /\ n \in Int
  BY LenProperties
<1>2. \A i \in m .. n : s[i] \in S
  BY <1>1, ElementOfSeq
<1>3. /\ u \in Seq(S)
      /\ Len(u) = IF m <= n THEN n - m + 1 ELSE 0
      /\ \A i \in 1 .. n - m + 1 : u[i] = s[m + i - 1]
  BY <1>1, <1>2, SubSeqProperties
<1>4. ASSUME NEW y \in ToSet(u) PROVE y \in ToSet(s)
  <2>1. PICK i \in 1 .. Len(u) : u[i] = y
    BY <1>3, LenProperties DEF ToSet
  <2>2. m + i - 1 \in DOMAIN s /\ s[m + i - 1] = y
    BY <1>1, <1>3, <2>1
  <2>3. QED BY <2>2 DEF ToSet
<1>5. QED BY <1>3, <1>4
-----------------------------------------------------------------------------
(* Whatever part of the pending lines reaches the file, the file only      *)
(* grows, and only by lines that were buffered or are being written.       *)
LEMMA PendingLines ==
  ASSUME TypeOK
  PROVE  /\ Pending \in Seq(Alerts)
         /\ ToSet(Pending) \subseteq ToSet(buf) \cup (IF pc = "write" THEN {cur} ELSE {})
         /\ pc = "write" /\ cur \notin seen => cur \in ToSet(Pending)
<1>1. CASE pc = "write" /\ cur \notin seen
  <2>1. cur \in Alerts /\ buf \in Seq(Alerts) /\ Pending = Append(buf, cur)
    BY <1>1 DEF TypeOK, Pending
  <2>2. QED BY <1>1, <2>1, AppendProperties, ToSetAppend
<1>2. CASE ~(pc = "write" /\ cur \notin seen)
  BY <1>2 DEF TypeOK, Pending
<1>3. QED BY <1>1, <1>2

(* A flush, whole or cut short, and a kill only move lines from the buffer *)
(* to the file.                                                            *)
LEMMA SinkGrows ==
  ASSUME TypeOK,
         \/ Flushed
         \/ \E k \in 0 .. Len(Pending) : FlushedUpTo(k)
         \/ /\ \E k \in 0 .. Len(Pending) : file' = file \o SubSeq(Pending, 1, k)
            /\ buf' = <<>>
  PROVE  /\ file' \in Seq(Alerts) /\ buf' \in Seq(Alerts)
         /\ ToSet(file) \subseteq ToSet(file')
         /\ ToSet(file') \cup ToSet(buf') \subseteq
              ToSet(file) \cup ToSet(buf) \cup (IF pc = "write" THEN {cur} ELSE {})
<1>1. /\ file \in Seq(Alerts) /\ Pending \in Seq(Alerts)
      /\ ToSet(Pending) \subseteq ToSet(buf) \cup (IF pc = "write" THEN {cur} ELSE {})
  BY PendingLines DEF TypeOK
<1>2. Len(Pending) \in Nat
  BY <1>1, LenProperties
<1>3. <<>> \in Seq(Alerts) /\ ToSet(<<>>) = {}
  BY EmptySeq DEF ToSet
<1>4. CASE Flushed
  <2>1. file' \in Seq(Alerts) /\ ToSet(file') = ToSet(file) \cup ToSet(Pending)
    BY <1>1, <1>4, ConcatProperties, ToSetConcat DEF Flushed
  <2>2. QED BY <1>1, <1>3, <1>4, <2>1 DEF Flushed
<1>5. CASE ~Flushed
  <2>1. PICK k \in 0 .. Len(Pending) :
          /\ file' = file \o SubSeq(Pending, 1, k)
          /\ buf' = <<>> \/ buf' = SubSeq(Pending, k + 1, Len(Pending))
    BY <1>5 DEF FlushedUpTo
  <2>2. /\ SubSeq(Pending, 1, k) \in Seq(Alerts)
        /\ ToSet(SubSeq(Pending, 1, k)) \subseteq ToSet(Pending)
        /\ SubSeq(Pending, k + 1, Len(Pending)) \in Seq(Alerts)
        /\ ToSet(SubSeq(Pending, k + 1, Len(Pending))) \subseteq ToSet(Pending)
    BY <1>1, <1>2, ToSetSubSeq
  <2>3. /\ file' \in Seq(Alerts)
        /\ ToSet(file') = ToSet(file) \cup ToSet(SubSeq(Pending, 1, k))
    <3> DEFINE part == SubSeq(Pending, 1, k)
    <3> HIDE DEF part
    <3>1. part \in Seq(Alerts)
      BY <2>2 DEF part
    <3>2. file \o part \in Seq(Alerts) /\ ToSet(file \o part) = ToSet(file) \cup ToSet(part)
      BY <1>1, <3>1, ConcatProperties, ToSetConcat
    <3>3. QED BY <2>1, <3>2 DEF part
  <2>4. buf' \in Seq(Alerts) /\ ToSet(buf') \subseteq ToSet(Pending)
    BY <1>3, <2>1, <2>2
  <2>5. QED BY <1>1, <2>2, <2>3, <2>4
<1>6. QED BY <1>4, <1>5
-----------------------------------------------------------------------------
(* The index never claims more than the file holds, and an acknowledgement *)
(* under way is about a line in the file.                                  *)
IndexTrue ==
  /\ seen \subseteq ToSet(file)
  /\ pc = "ack" => InFile(cur)

(* What is being delivered is owed: neither unknown to the spool nor out   *)
(* already, and it has left the batch.                                     *)
CurIsOwed ==
  pc # "idle" => status[cur] \in {"pending", "dead"} /\ cur \notin batch

Recorded ==
  /\ DeliveredInFile
  /\ SpooledBeforeWritten
  /\ UndeliveredKeepsPayload
  /\ BatchStillPending
  /\ CurIsOwed

IInv == TypeOK /\ IndexTrue /\ Recorded

(* Steps that leave the sink alone.                                        *)
LEMMA SpoolSteps ==
  ASSUME IInv,
         \/ Claim \/ MarkDelivered \/ MarkFailed \/ Recovered \/ Interrupt
         \/ SpoolFails \/ StopStreaming \/ DrainEnds
         \/ \E a \in Alerts : \/ Redeliver(a) \/ Generate(a) \/ BackoffElapses(a)
                             \/ RequeueDead(a) \/ CorruptRow(a)
  PROVE  IInv'
<1> USE DEF spool, sink, control, bounds
<1> USE DEF IInv, Recorded, IndexTrue, DeliveredInFile, SpooledBeforeWritten,
            UndeliveredKeepsPayload, BatchStillPending, CurIsOwed, InFile, Status
<1>1. CASE Claim
  <2>1. TypeOK'
    BY <1>1 DEF Claim, TypeOK, Ready
  <2>2. QED BY <1>1, <2>1 DEF Claim, TypeOK, Ready
<1>2. CASE MarkDelivered
  <2>1. cur \in Alerts
    BY <1>2 DEF MarkDelivered, TypeOK
  <2>2. TypeOK'
    BY <1>2, <2>1 DEF MarkDelivered, TypeOK
  <2>3. QED BY <1>2, <2>1, <2>2 DEF MarkDelivered, TypeOK
<1>3. CASE MarkFailed
  <2>1. cur \in Alerts /\ attempts[cur] + 1 \in Nat
    BY <1>3 DEF MarkFailed, TypeOK
  <2>2. TypeOK'
    BY <1>3, <2>1 DEF MarkFailed, TypeOK
  <2>3. QED BY <1>3, <2>1, <2>2 DEF MarkFailed, TypeOK
<1>4. CASE Recovered \/ StopStreaming \/ DrainEnds
  <2>1. TypeOK'
    BY <1>4 DEF Recovered, StopStreaming, DrainEnds, TypeOK
  <2>2. QED BY <1>4, <2>1 DEF Recovered, StopStreaming, DrainEnds
<1>5. CASE Interrupt \/ SpoolFails
  <2>1. TypeOK'
    BY <1>5, DeliveryAssumption
       DEF Interrupt, SpoolFails, Abort, AfterAbort, Fault, TypeOK
  <2>2. QED BY <1>5, <2>1 DEF Interrupt, SpoolFails, Abort
<1>6. ASSUME NEW a \in Alerts, Redeliver(a) PROVE IInv'
  <2>1. TypeOK'
    BY <1>6 DEF Redeliver, TypeOK
  <2>2. QED BY <1>6, <2>1 DEF Redeliver
<1>7. ASSUME NEW a \in Alerts, Generate(a) PROVE IInv'
  <2>0. made[a] \in 0 .. MaxMade /\ made[a] + 1 \in 0 .. MaxMade
    BY <1>7, DeliveryAssumption DEF Generate, TypeOK
  <2>1. TypeOK'
    <3>1. made' \in [Alerts -> 0 .. MaxMade]
      BY <1>7, <2>0 DEF Generate, TypeOK
    <3>2. status' \in [Alerts -> Status] /\ payload' \in [Alerts -> {"null", "json", "bad"}]
      BY <1>7 DEF Generate, TypeOK
    <3>3. pc' \in {"idle", "write", "ack", "nack"} /\ (pc' # "idle" => cur' \in Alerts)
      BY <1>7 DEF Generate, TypeOK
    <3>4. QED BY <1>7, <3>1, <3>2, <3>3 DEF Generate, TypeOK
  <2>2. /\ UNCHANGED <<file, buf, seen>> /\ batch = {} /\ batch' = {} /\ pc = "idle"
        /\ \A b \in Alerts : b # a => status'[b] = status[b] /\ payload'[b] = payload[b]
        /\ status[a] # "absent" => status'[a] = status[a] /\ payload'[a] = payload[a]
        /\ status[a] = "absent" => status'[a] = "pending" /\ payload'[a] = "json"
    BY <1>7 DEF Generate, TypeOK
  <2>3. pc' # "idle" => cur' = a /\ status[a] # "delivered" /\ pc' = "write"
    BY <1>7 DEF Generate, TypeOK
  <2>4. IndexTrue'
    BY <2>2, <2>3
  <2>5. (DeliveredInFile /\ SpooledBeforeWritten /\ UndeliveredKeepsPayload)'
    BY <2>2
  <2>6. BatchStillPending' /\ CurIsOwed'
    BY <2>1, <2>2, <2>3 DEF TypeOK
  <2>7. QED BY <2>1, <2>4, <2>5, <2>6
<1>8. ASSUME NEW a \in Alerts, BackoffElapses(a) PROVE IInv'
  <2>1. TypeOK'
    BY <1>8 DEF BackoffElapses, TypeOK
  <2>2. QED BY <1>8, <2>1 DEF BackoffElapses
<1>9. ASSUME NEW a \in Alerts, RequeueDead(a) PROVE IInv'
  <2>1. TypeOK'
    BY <1>9, DeliveryAssumption DEF RequeueDead, TypeOK
  <2>2. QED BY <1>9, <2>1 DEF RequeueDead, TypeOK
<1>10. ASSUME NEW a \in Alerts, CorruptRow(a) PROVE IInv'
  <2>1. TypeOK'
    BY <1>10, DeliveryAssumption DEF CorruptRow, Fault, TypeOK
  <2>2. QED BY <1>10, <2>1 DEF CorruptRow, TypeOK
<1>11. QED BY <1>1, <1>2, <1>3, <1>4, <1>5, <1>6, <1>7, <1>8, <1>9, <1>10

(* A step that leaves the table alone and moves only lines that were on    *)
(* their way keeps the table and the file in agreement.                    *)
Moved ==
  /\ file' \in Seq(Alerts) /\ buf' \in Seq(Alerts)
  /\ ToSet(file) \subseteq ToSet(file')
  /\ ToSet(file') \cup ToSet(buf') \subseteq
       ToSet(file) \cup ToSet(buf) \cup (IF pc = "write" THEN {cur} ELSE {})

(* Lines on their way from buffer to file keep the table and the file in   *)
(* agreement.                                                              *)
LEMMA MovedKeepsRecord ==
  ASSUME IInv, Moved, UNCHANGED <<spool, cur>>,
         batch' \subseteq batch,
         pc' # "idle" => pc # "idle"
  PROVE  Recorded'
<1> USE DEF spool, IInv, Recorded
<1>1. DeliveredInFile'
  BY DEF DeliveredInFile, InFile, Moved
<1>2. SpooledBeforeWritten'
  BY DEF SpooledBeforeWritten, CurIsOwed, InFile, Moved
<1>3. UndeliveredKeepsPayload' /\ BatchStillPending' /\ CurIsOwed'
  BY DEF UndeliveredKeepsPayload, BatchStillPending, CurIsOwed
<1>4. QED BY <1>1, <1>2, <1>3

(* Every way the code has of touching the sink is such a move.             *)
LEMMA LinesMove ==
  ASSUME TypeOK,
         \/ Flushed
         \/ UNCHANGED <<file, buf>>
         \/ \E k \in 0 .. Len(Pending) : FlushedUpTo(k)
         \/ /\ \E k \in 0 .. Len(Pending) : file' = file \o SubSeq(Pending, 1, k)
            /\ buf' = <<>>
  PROVE  Moved
<1>1. CASE UNCHANGED <<file, buf>>
  <2>1. <<>> \in Seq(Alerts) /\ ToSet(<<>>) = {}
    BY EmptySeq DEF ToSet
  <2>2. QED BY <1>1, <2>1 DEF TypeOK, Moved
<1>2. CASE ~UNCHANGED <<file, buf>>
  BY <1>2, SinkGrows DEF Moved
<1>3. QED BY <1>1, <1>2

(* The line being written is in the file once the buffer was flushed.      *)
LEMMA FlushedWritesCur ==
  ASSUME TypeOK, Flushed, pc = "write", cur \notin seen
  PROVE  cur \in ToSet(file')
<1>1. file \in Seq(Alerts) /\ Pending \in Seq(Alerts) /\ cur \in ToSet(Pending)
  BY PendingLines DEF TypeOK
<1>2. QED BY <1>1, ToSetConcat DEF Flushed

(* Steps of the process that move lines or forget what was in memory.      *)
LEMMA SinkSteps ==
  ASSUME IInv,
         Start \/ Write \/ WriteFails \/ CloseSink \/ InterruptInWrite \/ Kill
  PROVE  IInv'
<1> USE DEF spool, sink, control, bounds
<1>0. TypeOK /\ IndexTrue
  BY DEF IInv
<1>1. CASE Start
  <2>1. ToSet(file) \subseteq Alerts /\ Moved
    BY <1>0, <1>1, ToSetFacts, LinesMove DEF TypeOK, Start
  <2>2. TypeOK'
    BY <1>0, <1>1, <2>1 DEF Start, TypeOK
  <2>3. IndexTrue'
    BY <1>0, <1>1 DEF Start, IndexTrue, InFile
  <2>4. Recorded'
    BY <1>1, <2>1, MovedKeepsRecord DEF Start
  <2>5. QED BY <2>2, <2>3, <2>4 DEF IInv
<1>2. CASE Write
  <2>1. Moved
    <3>1. Flushed \/ UNCHANGED <<file, buf>>
      BY <1>2 DEF Write
    <3>2. QED BY <1>0, <3>1, LinesMove
  <2>2. cur \in Alerts /\ cur' = cur
    BY <1>0, <1>2 DEF Write, TypeOK
  <2>3. TypeOK'
    BY <1>0, <1>2, <2>1, <2>2 DEF Write, TypeOK, Moved
  <2>4. seen' \subseteq ToSet(file') /\ cur' \in ToSet(file')
    <3>1. CASE cur \in seen
      BY <1>0, <1>2, <2>2, <3>1 DEF Write, IndexTrue
    <3>2. CASE cur \notin seen
      <4>1. cur \in ToSet(file')
        BY <1>0, <1>2, <3>2, FlushedWritesCur DEF Write
      <4>2. QED BY <1>0, <1>2, <2>1, <2>2, <3>2, <4>1 DEF Write, IndexTrue, Moved
    <3>3. QED BY <3>1, <3>2
  <2>5. Recorded'
    BY <1>2, <2>1, MovedKeepsRecord DEF Write
  <2>6. QED BY <2>3, <2>4, <2>5 DEF IInv, IndexTrue, InFile
<1>3. CASE WriteFails
  <2>1. Moved
    <3>1. Len(Pending) \in Nat
      BY <1>0, PendingLines, LenProperties
    <3>2. \/ Flushed
          \/ UNCHANGED <<file, buf>>
          \/ \E k \in 0 .. Len(Pending) : FlushedUpTo(k)
      <4>1. ASSUME NEW k \in 0 .. Len(Pending) - 1, FlushedUpTo(k)
            PROVE  \E m \in 0 .. Len(Pending) : FlushedUpTo(m)
        <5>1. k \in 0 .. Len(Pending)
          BY <3>1
        <5>2. QED BY <4>1, <5>1
      <4>2. QED BY <1>3, <4>1 DEF WriteFails
    <3>3. QED BY <1>0, <3>2, LinesMove
  <2>2. cur \in Alerts /\ pc = "write" /\ cur \notin seen /\ pc' = "nack" /\ cur' = cur
    BY <1>0, <1>3 DEF WriteFails, TypeOK
  <2>3. faults' \in 0 .. MaxFaults
    BY <1>0, <1>3, DeliveryAssumption DEF WriteFails, Fault, TypeOK
  <2>4. seen' = seen \/ (Flushed /\ seen' = seen \cup {cur})
    BY <1>3 DEF WriteFails
  <2>5. TypeOK'
    BY <1>0, <1>3, <2>1, <2>2, <2>3, <2>4 DEF WriteFails, TypeOK, Moved
  <2>6. seen' \subseteq ToSet(file')
    <3>1. CASE seen' = seen
      BY <1>0, <2>1, <3>1 DEF IndexTrue, Moved
    <3>2. CASE Flushed /\ seen' = seen \cup {cur}
      BY <1>0, <2>1, <2>2, <3>2, FlushedWritesCur DEF IndexTrue, Moved
    <3>3. QED BY <2>4, <3>1, <3>2
  <2>7. Recorded'
    BY <1>3, <2>1, MovedKeepsRecord DEF WriteFails
  <2>8. QED BY <2>2, <2>5, <2>6, <2>7 DEF IInv, IndexTrue
<1>4. CASE CloseSink
  <2>1. Moved
    <3>1. Len(Pending) \in Nat
      BY <1>0, PendingLines, LenProperties
    <3>2. ASSUME NEW k \in 0 .. Len(Pending) - 1 PROVE k \in 0 .. Len(Pending)
      BY <3>1
    <3>3. \/ Flushed
          \/ /\ \E k \in 0 .. Len(Pending) : file' = file \o SubSeq(Pending, 1, k)
             /\ buf' = <<>>
      BY <1>4, <3>2 DEF CloseSink
    <3>4. QED BY <1>0, <3>3, LinesMove
  <2>2. faults' \in 0 .. MaxFaults /\ torn' \in BOOLEAN
    BY <1>0, <1>4, DeliveryAssumption DEF CloseSink, Fault, TypeOK
  <2>3. TypeOK'
    BY <1>0, <1>4, <2>1, <2>2 DEF CloseSink, TypeOK, Moved
  <2>4. IndexTrue'
    BY <1>0, <1>4, <2>1 DEF CloseSink, IndexTrue, InFile, Moved
  <2>5. Recorded'
    BY <1>4, <2>1, MovedKeepsRecord DEF CloseSink
  <2>6. QED BY <2>3, <2>4, <2>5 DEF IInv
<1>5. CASE InterruptInWrite
  <2>1. Moved
    <3>1. Flushed \/ \E k \in 0 .. Len(Pending) : FlushedUpTo(k)
      <4>1. 0 \in 0 .. Len(Pending)
        BY <1>0, PendingLines, LenProperties
      <4>2. QED BY <1>5, <4>1 DEF InterruptInWrite
    <3>2. QED BY <1>0, <3>1, LinesMove
  <2>2. faults' \in 0 .. MaxFaults
    BY <1>0, <1>5, DeliveryAssumption DEF InterruptInWrite, Fault, TypeOK
  <2>3. phase' \in {"draining", "closing"} /\ pc' = "idle" /\ batch' = {} /\ cur' = cur
    BY <1>5 DEF InterruptInWrite, Abort, AfterAbort
  <2>4. TypeOK'
    BY <1>0, <1>5, <2>1, <2>2, <2>3 DEF InterruptInWrite, TypeOK, Moved
  <2>5. IndexTrue'
    BY <1>0, <1>5, <2>1, <2>3 DEF InterruptInWrite, IndexTrue, Moved
  <2>6. Recorded'
    BY <1>5, <2>1, <2>3, MovedKeepsRecord DEF InterruptInWrite
  <2>7. QED BY <2>4, <2>5, <2>6 DEF IInv
<1>6. CASE Kill
  <2>1. Moved
    BY <1>0, <1>6, LinesMove DEF Kill
  <2>2. crashes' \in 0 .. MaxCrashes /\ torn' \in BOOLEAN
    <3>1. crashes' \in 0 .. MaxCrashes
      BY <1>0, <1>6, DeliveryAssumption DEF Kill, TypeOK
    <3>2. PICK k \in 0 .. Len(Pending) :
            torn' \in IF k < Len(Pending) THEN BOOLEAN ELSE {FALSE}
      BY <1>6 DEF Kill
    <3>3. torn' \in BOOLEAN
      BY <3>2
    <3>4. QED BY <3>1, <3>3
  <2>3. TypeOK'
    BY <1>0, <1>6, <2>1, <2>2 DEF Kill, TypeOK, Moved
  <2>4. IndexTrue'
    BY <1>6 DEF Kill, IndexTrue
  <2>5. Recorded'
    BY <1>6, <2>1, MovedKeepsRecord DEF Kill
  <2>6. QED BY <2>3, <2>4, <2>5 DEF IInv
<1>7. QED BY <1>1, <1>2, <1>3, <1>4, <1>5, <1>6
-----------------------------------------------------------------------------
(* The invariant is inductive.                                             *)
THEOREM InductiveInvariant == Spec => []IInv
<1>1. Init => IInv
  <2> SUFFICES ASSUME Init PROVE IInv
    OBVIOUS
  <2>1. <<>> \in Seq(Alerts) /\ ToSet(<<>>) = {}
    BY EmptySeq DEF ToSet
  <2>2. /\ 0 \in 0 .. MaxMade /\ 0 \in 0 .. MaxCrashes
        /\ 0 \in 0 .. MaxRequeues /\ 0 \in 0 .. MaxFaults
    BY DeliveryAssumption
  <2>3. /\ status \in [Alerts -> Status] /\ attempts \in [Alerts -> Nat]
        /\ payload \in [Alerts -> {"null", "json", "bad"}]
        /\ backoff \in [Alerts -> BOOLEAN] /\ made \in [Alerts -> 0 .. MaxMade]
    BY <2>2 DEF Init, Status
  <2>4. TypeOK
    BY <2>1, <2>2, <2>3 DEF Init, TypeOK
  <2>5. IndexTrue /\ Recorded
    BY <2>1 DEF Init, IndexTrue, Recorded, DeliveredInFile, SpooledBeforeWritten,
                UndeliveredKeepsPayload, BatchStillPending, CurIsOwed, InFile
  <2>6. QED BY <2>4, <2>5 DEF IInv
<1>2. IInv /\ [Next]_vars => IInv'
  <2> SUFFICES ASSUME IInv, [Next]_vars PROVE IInv'
    OBVIOUS
  <2>1. CASE UNCHANGED vars
    BY <2>1 DEF vars, spool, sink, control, bounds, IInv, TypeOK, IndexTrue, Recorded,
                DeliveredInFile, SpooledBeforeWritten, UndeliveredKeepsPayload,
                BatchStillPending, CurIsOwed, InFile
  <2>2. CASE Next
    BY <2>2, SpoolSteps, SinkSteps DEF Next, Deliver, Stop, Disturb
  <2>3. QED BY <2>1, <2>2
<1>3. QED BY <1>1, <1>2, PTL DEF Spec

(* The types of spool, sink and consumer, for any alerts and bounds.       *)
THEOREM TypeCorrect == Spec => []TypeOK
<1>1. IInv => TypeOK
  BY DEF IInv
<1>2. QED BY <1>1, InductiveInvariant, PTL

(* mark_delivered never runs ahead of the file: whatever is killed,        *)
(* interrupted or fails, an alert the spool calls delivered is in          *)
(* alerts.ndjson.                                                          *)
THEOREM NothingAckedIsLost == Spec => []DeliveredInFile
<1>1. IInv => DeliveredInFile
  BY DEF IInv, Recorded
<1>2. QED BY <1>1, InductiveInvariant, PTL

(* persist always comes first: nothing is written or even buffered that    *)
(* the spool does not know.                                                *)
THEOREM NothingWrittenUnrecorded == Spec => []SpooledBeforeWritten
<1>1. IInv => SpooledBeforeWritten
  BY DEF IInv, Recorded
<1>2. QED BY <1>1, InductiveInvariant, PTL

(* A claim is never stale and never destroys: claimed alerts stay pending  *)
(* until their turn, and what is still owed keeps its payload.             *)
THEOREM ClaimsAreSound == Spec => []ClaimsStaySound
<1>1. IInv => ClaimsStaySound
  BY DEF IInv, ClaimsStaySound, Recorded
<1>2. QED BY <1>1, InductiveInvariant, PTL

(* Delivery is final: no call of the spool takes a delivered alert back.   *)
(* CurIsOwed is what rules out mark_failed of an alert already delivered.  *)
THEOREM NothingReopens == Spec => DeliveredIsFinal
<1> DEFINE Final == \A a \in Alerts : status[a] = "delivered" => status'[a] = "delivered"
<1>1. IInv /\ [Next]_vars => [Final]_vars
  <2> SUFFICES ASSUME IInv, Next, NEW a \in Alerts, status[a] = "delivered"
               PROVE  status'[a] = "delivered"
    OBVIOUS
  <2> USE DEF spool
  <2>1. CASE MarkDelivered \/ MarkFailed
    BY <2>1 DEF MarkDelivered, MarkFailed, IInv, Recorded, CurIsOwed, TypeOK
  <2>2. CASE Claim
    BY <2>2 DEF Claim, Ready
  <2>3. CASE \E b \in Alerts : Generate(b) \/ RequeueDead(b)
    BY <2>3 DEF Generate, RequeueDead, IInv, TypeOK
  <2>4. CASE UNCHANGED status
    BY <2>4
  <2>5. QED
    BY <2>1, <2>2, <2>3, <2>4
    DEF Next, Deliver, Stop, Disturb, Start, Recovered, Redeliver, Write, WriteFails,
        StopStreaming, DrainEnds, CloseSink, Interrupt, InterruptInWrite, SpoolFails,
        Kill, CorruptRow, BackoffElapses
<1>2. QED BY <1>1, InductiveInvariant, PTL DEF Spec, DeliveredIsFinal
-----------------------------------------------------------------------------
(* A row nobody has persisted has not failed yet: with RetryBudget itself, *)
(* what is needed to account for every attempt.                            *)
Budget ==
  /\ RetryBudget
  /\ \A a \in Alerts : status[a] = "absent" => attempts[a] = 0

(* The steps that touch a row keep the account: a claim buries only rows   *)
(* that cannot be read, a failure of an alert generated again over a dead  *)
(* row counts on from where the row was left.                              *)
LEMMA BudgetSteps ==
  ASSUME IInv, Budget, Next
  PROVE  Budget'
<1> USE DEF spool, Budget, RetryBudget
<1>0. /\ TypeOK /\ UndeliveredKeepsPayload
      /\ MaxAttempts \in Nat \ {0}
      /\ \A a \in Alerts : attempts[a] \in Nat /\ backoff[a] \in BOOLEAN
  BY DeliveryAssumption DEF IInv, Recorded, TypeOK
<1>1. CASE Claim
  <2> DEFINE bad == {a \in Ready : payload[a] # "json"}
  <2>1. /\ \A a \in Alerts : \/ status'[a] = status[a]
                             \/ a \in bad /\ status'[a] = "dead"
        /\ \A a \in bad : payload[a] = "bad"
    <3>1. status' = [a \in Alerts |-> IF a \in bad THEN "dead" ELSE status[a]]
      BY <1>1 DEF Claim
    <3>2. \A a \in bad : payload[a] = "bad"
      BY <1>0 DEF Ready, TypeOK, UndeliveredKeepsPayload
    <3>3. QED BY <3>1, <3>2
  <2> HIDE DEF bad
  <2>2. UNCHANGED <<attempts, payload, backoff>>
    BY <1>1 DEF Claim
  <2>3. QED BY <2>1, <2>2
<1>2. ASSUME NEW a \in Alerts, Generate(a) PROVE Budget'
  <2>1. \A b \in Alerts : \/ status'[b] = status[b] /\ payload'[b] = payload[b]
                          \/ status[b] = "absent" /\ status'[b] = "pending"
    BY <1>0, <1>2 DEF Generate, TypeOK
  <2>2. UNCHANGED <<attempts, backoff>>
    BY <1>2 DEF Generate
  <2>3. QED BY <1>0, <2>1, <2>2
<1>3. CASE MarkDelivered
  <2>1. \A a \in Alerts : \/ UNCHANGED <<status[a], payload[a], backoff[a]>>
                          \/ status'[a] = "delivered" /\ ~backoff'[a]
    BY <1>0, <1>3 DEF MarkDelivered, TypeOK
  <2>2. UNCHANGED attempts
    BY <1>3 DEF MarkDelivered
  <2>3. QED BY <2>1, <2>2
<1>4. CASE MarkFailed
  <2>1. /\ cur \in Alerts /\ status[cur] \in {"pending", "dead"}
        /\ UNCHANGED payload
        /\ \A a \in Alerts \ {cur} : UNCHANGED <<status[a], attempts[a], backoff[a]>>
    BY <1>0, <1>4 DEF MarkFailed, IInv, Recorded, CurIsOwed, TypeOK
  <2>2. attempts'[cur] = attempts[cur] + 1
    BY <1>0, <1>4, <2>1 DEF MarkFailed, TypeOK
  <2>3. CASE attempts[cur] + 1 >= MaxAttempts
    <3>1. status'[cur] = "dead" /\ backoff'[cur] = FALSE
      BY <1>0, <1>4, <2>1, <2>3 DEF MarkFailed, IsExhausted, TypeOK
    <3>2. QED BY <2>1, <2>2, <2>3, <3>1
  <2>4. CASE ~(attempts[cur] + 1 >= MaxAttempts)
    <3>1. status'[cur] = status[cur] /\ backoff'[cur] = TRUE
      BY <1>0, <1>4, <2>1, <2>4 DEF MarkFailed, IsExhausted, TypeOK
    <3>2. /\ attempts'[cur] < MaxAttempts /\ attempts'[cur] > 0
          /\ status[cur] = "dead" => payload[cur] = "bad"
      BY <1>0, <2>1, <2>2, <2>4
    <3>3. QED BY <2>1, <3>1, <3>2
  <2>5. QED BY <2>3, <2>4
<1>5. ASSUME NEW a \in Alerts, BackoffElapses(a) PROVE Budget'
  <2>1. \A b \in Alerts : backoff'[b] => backoff[b]
    BY <1>0, <1>5 DEF BackoffElapses, TypeOK
  <2>2. UNCHANGED <<status, attempts, payload>>
    BY <1>5 DEF BackoffElapses
  <2>3. QED BY <2>1, <2>2
<1>6. ASSUME NEW a \in Alerts, RequeueDead(a) PROVE Budget'
  <2>1. \A b \in Alerts :
          \/ UNCHANGED <<status[b], attempts[b], backoff[b]>>
          \/ status'[b] = "pending" /\ attempts'[b] = 0 /\ ~backoff'[b]
    BY <1>0, <1>6 DEF RequeueDead, TypeOK
  <2>2. UNCHANGED payload
    BY <1>6 DEF RequeueDead
  <2>3. QED BY <1>0, <2>1, <2>2
<1>7. ASSUME NEW a \in Alerts, CorruptRow(a) PROVE Budget'
  <2>1. \A b \in Alerts : payload'[b] = payload[b] \/ payload'[b] = "bad"
    BY <1>0, <1>7 DEF CorruptRow, TypeOK
  <2>2. UNCHANGED <<status, attempts, backoff>>
    BY <1>7 DEF CorruptRow
  <2>3. QED BY <2>1, <2>2
<1>8. CASE UNCHANGED spool
  BY <1>8
<1>9. QED
  BY <1>1, <1>2, <1>3, <1>4, <1>5, <1>6, <1>7, <1>8
  DEF Next, Deliver, Stop, Disturb, Start, Recovered, Redeliver, Write, WriteFails,
      StopStreaming, DrainEnds, CloseSink, Interrupt, InterruptInWrite, SpoolFails, Kill

(* Every retry is accounted for and the row always precedes its line: an   *)
(* alert waits only with attempts left, is dead only once they are used up *)
(* or its payload is unreadable, and backs off only after a failure.       *)
THEOREM RowsTellTheirAttempts == Spec => []RowsSound
<1>1. Init => Budget
  BY DeliveryAssumption DEF Init, Budget, RetryBudget
<1>2. IInv /\ Budget /\ [Next]_vars => Budget'
  <2>1. ASSUME UNCHANGED vars, Budget PROVE Budget'
    BY <2>1 DEF vars, spool, Budget, RetryBudget
  <2>2. QED BY <2>1, BudgetSteps
<1>3. IInv /\ Budget => RowsSound
  BY DEF IInv, Recorded, Budget, RowsSound
<1>4. QED BY <1>1, <1>2, <1>3, InductiveInvariant, PTL DEF Spec
-----------------------------------------------------------------------------
(* Where a flush never fails and no interrupt lands inside a write, the    *)
(* buffer is empty between two calls, the index is exact while a process   *)
(* lives, and nothing is in flight once it closes.                         *)
CleanFaults == "flush" \notin Faults /\ "interrupt" \notin Faults

Clean ==
  /\ buf = <<>>
  /\ phase # "down" => seen = ToSet(file)
  /\ phase \in {"down", "closing"} => pc = "idle"
  /\ NoDuplicateLines

(* A line whose alert the file does not have duplicates none.              *)
LEMMA AppendNew ==
  ASSUME NoDuplicateLines, file \in Seq(Alerts), NEW a \in Alerts, a \notin ToSet(file),
         file' = Append(file, a)
  PROVE  NoDuplicateLines'
<1>1. /\ Len(file) \in Nat /\ DOMAIN file = 1 .. Len(file)
      /\ file' \in Seq(Alerts) /\ Len(file') = Len(file) + 1
      /\ file'[Len(file) + 1] = a
      /\ \A i \in 1 .. Len(file) : file'[i] = file[i]
  BY AppendProperties, LenProperties
<1>2. DOMAIN file' = 1 .. Len(file) + 1
  BY <1>1, LenProperties
<1>3. \A i \in 1 .. Len(file) : file[i] # a
  BY <1>1 DEF ToSet
<1>4. SUFFICES ASSUME NEW i \in 1 .. Len(file) + 1, NEW j \in 1 .. Len(file) + 1,
                      file'[i] = file'[j]
               PROVE  i = j
  BY <1>2 DEF NoDuplicateLines
<1>5. CASE i \in 1 .. Len(file) /\ j \in 1 .. Len(file)
  BY <1>1, <1>4, <1>5 DEF NoDuplicateLines
<1>6. CASE i = Len(file) + 1 \/ j = Len(file) + 1
  BY <1>1, <1>3, <1>4, <1>6
<1>7. QED BY <1>1, <1>5, <1>6

(* What a step may do to the file then: nothing, or add the one line that  *)
(* is being written and is not there yet.                                  *)
AddsLine ==
  /\ pc = "write" /\ cur \in Alerts /\ cur \notin ToSet(file)
  /\ file' = Append(file, cur)

(* At most the line being written is pending, and only if the file does    *)
(* not have it.                                                            *)
LEMMA CleanPending ==
  ASSUME TypeOK, Clean, phase # "down"
  PROVE  Pending = IF pc = "write" /\ cur \notin ToSet(file) THEN <<cur>> ELSE <<>>
BY DEF TypeOK, Clean, Pending

(* Whatever part of it reaches the file in a kill, no other line does.     *)
LEMMA CleanPrefix ==
  ASSUME TypeOK, Clean, phase # "down", NEW k \in 0 .. Len(Pending),
         file' = file \o SubSeq(Pending, 1, k)
  PROVE  file' = file \/ AddsLine
<1>1. file \in Seq(Alerts)
  BY DEF TypeOK
<1>2. CASE pc = "write" /\ cur \notin ToSet(file)
  <2>1. Pending = <<cur>> /\ cur \in Alerts
    BY <1>2, CleanPending DEF TypeOK
  <2>2. k = 0 \/ k = 1
    BY <2>1
  <2>3. CASE k = 0
    <3>1. SubSeq(<<cur>>, 1, 0) = <<>>
      OBVIOUS
    <3>2. QED BY <1>1, <2>1, <2>3, <3>1
  <2>4. CASE k = 1
    <3>1. SubSeq(<<cur>>, 1, 1) = <<cur>>
      <4>1. <<cur>> \in Seq(Alerts) /\ Len(<<cur>>) = 1
        BY <2>1
      <4>2. QED BY <4>1, SubSeqFull
    <3>2. file \o <<cur>> = Append(file, cur)
      BY <1>1, <2>1
    <3>3. QED BY <1>2, <2>1, <2>4, <3>1, <3>2 DEF AddsLine
  <2>5. QED BY <2>2, <2>3, <2>4
<1>3. CASE ~(pc = "write" /\ cur \notin ToSet(file))
  <2>1. Pending = <<>>
    BY <1>3, CleanPending
  <2>2. k = 0 /\ SubSeq(<<>>, 1, 0) = <<>>
    BY <2>1
  <2>3. QED BY <1>1, <2>1, <2>2
<1>4. QED BY <1>2, <1>3

(* A flush writes that line and nothing else.                              *)
LEMMA CleanFlush ==
  ASSUME TypeOK, Clean, phase # "down", Flushed
  PROVE  IF pc = "write" /\ cur \notin seen THEN AddsLine ELSE file' = file
<1>1. file \in Seq(Alerts) /\ seen = ToSet(file)
  BY DEF TypeOK, Clean
<1>2. CASE pc = "write" /\ cur \notin seen
  <2>1. Pending = <<cur>> /\ cur \in Alerts
    BY <1>1, <1>2, CleanPending DEF TypeOK
  <2>2. file \o <<cur>> = Append(file, cur)
    BY <1>1, <2>1
  <2>3. QED BY <1>1, <1>2, <2>1, <2>2 DEF AddsLine, Flushed
<1>3. CASE ~(pc = "write" /\ cur \notin seen)
  <2>1. Pending = <<>>
    BY <1>1, <1>3, CleanPending
  <2>2. QED BY <1>1, <1>3, <2>1 DEF Flushed
<1>4. QED BY <1>2, <1>3

(* Every step, classified by what it does to the file and the index.       *)
LEMMA CleanFileSteps ==
  ASSUME CleanFaults, TypeOK, Clean, Next
  PROVE  /\ buf' = <<>>
         /\ file' = file \/ (AddsLine /\ UNCHANGED spool)
         /\ phase' # "down" => seen' = ToSet(file')
<1> USE DEF spool, sink, control, bounds
<1>1. CASE Write \/ WriteFails
  <2>1. phase # "down" /\ pc = "write" /\ UNCHANGED spool /\ cur \in Alerts
    BY <1>1 DEF Write, WriteFails, Running, TypeOK
  <2>2. CASE Flushed /\ cur \notin seen /\ seen' = seen \cup {cur}
    <3>1. AddsLine
      BY <2>1, <2>2, CleanFlush
    <3>2. ToSet(file') = ToSet(file) \cup {cur}
      BY <3>1, ToSetAppend DEF AddsLine, TypeOK
    <3>3. QED BY <2>1, <2>2, <3>1, <3>2 DEF Flushed, Clean
  <2>3. CASE UNCHANGED <<file, buf, seen>>
    BY <2>1, <2>3 DEF Clean
  <2>4. QED BY <1>1, <2>2, <2>3 DEF Write, WriteFails, CleanFaults, Fault
<1>2. CASE CloseSink
  <2>1. phase # "down" /\ pc = "idle" /\ Flushed /\ phase' = "down"
    BY <1>2 DEF CloseSink, CleanFaults, Fault, Clean
  <2>2. file' = file
    BY <2>1, CleanFlush
  <2>3. QED BY <2>1, <2>2 DEF Flushed
<1>3. CASE Kill
  <2>1. /\ phase # "down" /\ phase' = "down" /\ buf' = <<>> /\ UNCHANGED spool
        /\ \E k \in 0 .. Len(Pending) : file' = file \o SubSeq(Pending, 1, k)
    BY <1>3 DEF Kill
  <2>2. QED BY <2>1, CleanPrefix
<1>4. CASE Start
  BY <1>4 DEF Start, Clean
<1>5. CASE UNCHANGED sink /\ (phase = "down" => phase' = "down")
  BY <1>5 DEF Clean
<1>6. QED
  BY <1>1, <1>2, <1>3, <1>4, <1>5
  DEF Next, Deliver, Stop, Disturb, Claim, Redeliver, Recovered, Generate, MarkDelivered,
      MarkFailed, BackoffElapses, StopStreaming, DrainEnds, Interrupt, InterruptInWrite,
      SpoolFails, RequeueDead, CorruptRow, Running, CleanFaults, Fault

(* No delivery is under way in a process that is closing or gone.          *)
LEMMA QuietWhenStopped ==
  ASSUME CleanFaults, Next, phase \in {"down", "closing"} => pc = "idle"
  PROVE  (phase \in {"down", "closing"} => pc = "idle")'
BY DEF Next, Deliver, Stop, Disturb, Start, Claim, Redeliver, Recovered, Generate, Write,
       WriteFails, MarkDelivered, MarkFailed, BackoffElapses, StopStreaming, DrainEnds,
       CloseSink, Abort, AfterAbort, Interrupt, InterruptInWrite, SpoolFails, Kill,
       RequeueDead, CorruptRow, Running, CleanFaults, Fault, control

(* Without a failed flush or an edited file, the index knows every line    *)
(* written, so no id is written twice.                                     *)
THEOREM CleanInvariant == ASSUME CleanFaults PROVE Spec => []Clean
<1>1. Init => Clean
  BY DEF Init, Clean, NoDuplicateLines
<1>2. TypeOK /\ Clean /\ [Next]_vars => Clean'
  <2> SUFFICES ASSUME TypeOK, Clean, [Next]_vars PROVE Clean'
    OBVIOUS
  <2>1. CASE UNCHANGED vars
    BY <2>1 DEF vars, sink, control, Clean, NoDuplicateLines
  <2>2. CASE Next
    <3>1. /\ buf' = <<>>
          /\ file' = file \/ AddsLine
          /\ phase' # "down" => seen' = ToSet(file')
      BY <2>2, CleanFaults, CleanFileSteps
    <3>2. (phase \in {"down", "closing"} => pc = "idle")'
      BY <2>2, CleanFaults, QuietWhenStopped DEF Clean
    <3>3. NoDuplicateLines'
      <4>1. CASE file' = file
        BY <4>1 DEF Clean, NoDuplicateLines
      <4>2. CASE AddsLine
        BY <4>2, AppendNew DEF Clean, AddsLine, TypeOK
      <4>3. QED BY <3>1, <4>1, <4>2
    <3>4. QED BY <3>1, <3>2, <3>3 DEF Clean
  <2>3. QED BY <2>1, <2>2
<1>3. QED BY <1>1, <1>2, TypeCorrect, PTL DEF Spec

(* "Recovery never double-emits", wherever the flush works and an interrupt *)
(* falls between two writes: kills, torn lines, failing fsyncs, regenerated *)
(* alerts and requeues included.                                           *)
THEOREM NeverTwice == ASSUME CleanFaults PROVE Spec => []NoDuplicateLines
<1>1. Clean => NoDuplicateLines
  BY DEF Clean
<1>2. QED BY <1>1, CleanInvariant, PTL
-----------------------------------------------------------------------------
(* Each step of the delivery is a step of the outbox or leaves it alone.   *)
LEMMA StepsOfTheOutbox ==
  ASSUME CleanFaults, IInv, Clean, Next
  PROVE  [Outbox!OutNext]_(Outbox!outVars)
<1> USE DEF Outbox!OutNext, Outbox!outVars, Outbox!Become
<1> USE DEF spool, sink, control
<1>0. TypeOK
  BY DEF IInv
<1>1. ASSUME NEW a \in Alerts, Generate(a) PROVE [Outbox!OutNext]_(Outbox!outVars)
  BY <1>1 DEF Generate, Outbox!Accept
<1>2. CASE Claim
  <2> DEFINE bad == {a \in Ready : payload[a] # "json"}
  <2>1. CASE bad = {}
    <3>1. status' = status
      BY <1>0, <1>2, <2>1 DEF Claim, TypeOK
    <3>2. QED BY <1>2, <3>1 DEF Claim
  <2>2. CASE bad # {}
    <3>1. bad \in SUBSET Alerts /\ \A a \in bad : status[a] = "pending"
      BY DEF Ready
    <3>2. Outbox!GiveUp(bad)
      BY <1>2, <2>2, <3>1 DEF Claim, Outbox!GiveUp
    <3>3. QED BY <3>1, <3>2
  <2>3. QED BY <2>1, <2>2
<1>3. CASE MarkDelivered
  <2>1. cur \in Alerts /\ status[cur] \in {"pending", "dead"} /\ cur \in ToSet(file)
    BY <1>0, <1>3 DEF MarkDelivered, IInv, IndexTrue, Recorded, CurIsOwed, InFile, TypeOK
  <2>2. Outbox!Settle(cur)
    BY <1>3, <2>1 DEF MarkDelivered, Outbox!Settle, Outbox!ToSet, ToSet
  <2>3. QED BY <2>1, <2>2
<1>4. CASE MarkFailed
  <2>1. cur \in Alerts /\ status[cur] \in {"pending", "dead"} /\ UNCHANGED file
    BY <1>0, <1>4 DEF MarkFailed, IInv, Recorded, CurIsOwed, TypeOK
  <2>2. UNCHANGED status \/ status' = [status EXCEPT ![cur] = "dead"]
    BY <1>4 DEF MarkFailed
  <2>3. CASE status[cur] = "dead"
    <3>1. UNCHANGED status
      BY <1>0, <2>1, <2>2, <2>3 DEF TypeOK
    <3>2. QED BY <2>1, <3>1
  <2>4. CASE status[cur] = "pending" /\ status' = [status EXCEPT ![cur] = "dead"]
    <3>1. status' = [a \in Alerts |-> IF a \in {cur} THEN "dead" ELSE status[a]]
      BY <1>0, <2>1, <2>4 DEF TypeOK
    <3>2. Outbox!GiveUp({cur})
      BY <2>1, <2>4, <3>1 DEF Outbox!GiveUp
    <3>3. QED BY <2>1, <3>2
  <2>5. QED BY <2>1, <2>2, <2>3, <2>4
<1>5. ASSUME NEW a \in Alerts, RequeueDead(a) PROVE [Outbox!OutNext]_(Outbox!outVars)
  BY <1>5 DEF RequeueDead, Outbox!Reopen
<1>6. CASE UNCHANGED status
  <2>1. CASE AddsLine
    <3>1. cur \in Alerts /\ status[cur] \in {"pending", "dead"}
      BY <1>0, <2>1 DEF AddsLine, IInv, Recorded, CurIsOwed
    <3>2. Outbox!Publish(cur)
      BY <1>6, <2>1, <3>1 DEF AddsLine, Outbox!Publish, Outbox!ToSet, ToSet
    <3>3. QED BY <3>1, <3>2
  <2>2. CASE file' = file
    BY <1>6, <2>2
  <2>3. QED BY <1>0, <2>1, <2>2, CleanFileSteps
<1>7. QED
  BY <1>1, <1>2, <1>3, <1>4, <1>5, <1>6
  DEF Next, Deliver, Stop, Disturb, Start, Recovered, Redeliver, Write, WriteFails,
      StopStreaming, DrainEnds, CloseSink, Interrupt, InterruptInWrite, SpoolFails,
      Kill, CorruptRow, BackoffElapses

(* Spool, sink and consumer together implement the outbox, through any     *)
(* kills and restarts, with the table as the fate of each alert and        *)
(* alerts.ndjson as the log.                                               *)
THEOREM DeliveryImplementsOutbox ==
  ASSUME CleanFaults PROVE Spec => ImplementsOutbox
<1>1. Init => Outbox!OutInit
  BY DEF Init, Outbox!OutInit
<1>2. IInv /\ Clean /\ [Next]_vars => [Outbox!OutNext]_(Outbox!outVars)
  <2>1. ASSUME UNCHANGED vars PROVE UNCHANGED Outbox!outVars
    BY <2>1 DEF vars, spool, sink, Outbox!outVars
  <2>2. QED BY <2>1, CleanFaults, StepsOfTheOutbox
<1>3. QED
  BY <1>1, <1>2, InductiveInvariant, CleanInvariant, PTL
  DEF Spec, ImplementsOutbox, Outbox!OutSpec
=============================================================================
