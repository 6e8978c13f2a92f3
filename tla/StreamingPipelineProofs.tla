----------------------- MODULE StreamingPipelineProofs -----------------------
(***************************************************************************)
(* Every event of a run is accounted for at every moment, and a consumer   *)
(* that left because the stream ended or was told to stop has left nothing *)
(* behind, for every capacity, policy, cap and number of events and        *)
(* interrupts, and for every interleaving of the two threads with what     *)
(* stops them.                                                             *)
(***************************************************************************)
EXTENDS StreamingPipeline, SequenceTheorems, FiniteSetTheorems, TLAPS

(* Where the producer is, and what it has done to the queue by then: it is  *)
(* in put while it is blocked there, was refused at most once, and is past  *)
(* the last put when it reports that it is done.                            *)
ProducerPlace ==
  /\ pc[P] \in {"idle", "done"} \/ (prod = "put" /\ sent[P] # 0)
  /\ pc[P] = "done" => prod \in {"finish", "close", "ended"}
  /\ pc[P] # "done" => refused = {}
  /\ prod = "check" => received < MaxItems \/ stop \/ expired
  /\ producerDone => prod \in {"close", "ended"}
  /\ run = "recovering" => prod = "none"

(* Why the consumer has left nothing behind, and nobody will.               *)
LeftNothing ==
  /\ cause = "closed" => closed /\ items = <<>>
  /\ cause = "idle" => producerDone /\ items = <<>>

Balanced ==
  received = processed + failed + Len(items) + Cardinality(refused) + abandoned
             + Hold(prod = "put") + Hold(run = "process")

IInv ==
  /\ TypeOK
  /\ Cardinality(refused) \in Nat /\ abandoned <= interrupts
  /\ ProducerPlace /\ LeftNothing /\ Balanced

(* The queue's own state, primed or not, is a list of lengths.              *)
LEMMA Lengths ==
  ASSUME Q!TypeOK
  PROVE  Len(items) \in Nat /\ Len(dropped) \in Nat /\ Len(got) \in Nat
BY LenProperties DEF Q!TypeOK

(* Taking a waiter off the list leaves a list of threads.                   *)
LEMMA WaitersType ==
  ASSUME Q!TypeOK, NEW t
  PROVE  Q!WaitersWithout(t) \in Seq(Q!Threads)
<1>1. CASE Q!Contains(waiters, t)
  <2> DEFINE k == CHOOSE i \in 1 .. Len(waiters) : waiters[i] = t
  <2>1. k \in 1 .. Len(waiters)
    BY <1>1 DEF Q!Contains
  <2>2. waiters \in Seq(Q!Threads) /\ Len(waiters) \in Nat
    BY LenProperties DEF Q!TypeOK
  <2> HIDE DEF k
  <2>3. /\ \A i \in 1 .. k - 1 : waiters[i] \in Q!Threads
        /\ \A i \in k + 1 .. Len(waiters) : waiters[i] \in Q!Threads
    BY <2>1, <2>2, ElementOfSeq
  <2>4. /\ SubSeq(waiters, 1, k - 1) \in Seq(Q!Threads)
        /\ SubSeq(waiters, k + 1, Len(waiters)) \in Seq(Q!Threads)
    BY <2>1, <2>2, <2>3, SubSeqProperties
  <2> QED BY <1>1, <2>4, ConcatProperties DEF Q!WaitersWithout, Q!RemoveAt, k
<1>2. CASE ~ Q!Contains(waiters, t)
  BY <1>2 DEF Q!WaitersWithout, Q!TypeOK
<1> QED BY <1>1, <1>2

(* Giving the lock up: the caller ends up where it says, and another thread *)
(* at most is woken.                                                        *)
LEMMA Release ==
  ASSUME Q!TypeOK, NEW t \in Q!Threads, NEW s \in Q!Status, NEW ws \in Seq(Q!Threads),
         \/ Q!WaitOn(t, ws) /\ s = "waiting"
         \/ Q!NotifyOne(t, s, ws) /\ s = "idle"
         \/ Q!Leave(t, s, ws)
  PROVE  /\ waiters' \in Seq(Q!Threads) /\ pc' \in [Q!Threads -> Q!Status]
         /\ pc'[t] = s
         /\ \A u \in Q!Threads \ {t} :
              pc'[u] = pc[u] \/ (pc[u] = "waiting" /\ pc'[u] = "notified")
<1> USE DEF Q!Status
<1>0. pc \in [Q!Threads -> Q!Status]
  BY DEF Q!TypeOK
<1>1. CASE Q!WaitOn(t, ws) /\ s = "waiting"
  BY <1>0, <1>1, AppendProperties DEF Q!WaitOn
<1>2. CASE Q!Leave(t, s, ws)
  BY <1>0, <1>2 DEF Q!Leave
<1>3. CASE Q!NotifyOne(t, s, ws) /\ s = "idle"
  <2>1. CASE ws = <<>>
    BY <1>0, <1>3, <2>1 DEF Q!NotifyOne
  <2>2. CASE ws # <<>>
    <3>1. Head(ws) \in Q!Threads /\ Tail(ws) \in Seq(Q!Threads)
      BY <2>2, HeadTailProperties
    <3> QED BY <1>0, <1>3, <2>2, <3>1 DEF Q!NotifyOne
  <2> QED BY <2>1, <2>2
<1> QED BY <1>1, <1>2, <1>3
-----------------------------------------------------------------------------
(* The queue's contents and counters, typed.                                *)
DataOK ==
  /\ items \in Seq(Q!Item)
  /\ enqueued \in Nat /\ dequeued \in Nat /\ maxDepth \in Nat
  /\ droppedNewest \in Nat /\ droppedOldest \in Nat
  /\ got \in Seq(Q!Item) /\ dropped \in Seq(Q!Item) /\ refused \subseteq Q!Item

(* What a put that is over has done with its event: refused it, or put it   *)
(* among the items or, it or another for it, among those dropped.          *)
Refused(x) ==
  /\ closed /\ refused' = refused \cup {x}
  /\ UNCHANGED <<items, dropped, dequeued>>
Placed ==
  /\ ~closed /\ UNCHANGED <<refused, dequeued>>
  /\ Len(items') + Len(dropped') = Len(items) + Len(dropped) + 1
  /\ Len(dropped') >= Len(dropped)

LEMMA PutData ==
  ASSUME Q!TypeOK, NEW x \in Q!Item, NEW ws,
         \/ closed /\ Q!Refuse(P, x, ws)
         \/ ~closed /\ Q!HasRoom /\ Q!Store(P, x, ws)
         \/ ~closed /\ Q!RejectNewest(P, x, ws)
         \/ ~closed /\ ~Q!HasRoom /\ Q!EvictOldest(P, x)
  PROVE  /\ DataOK'
         /\ \/ Refused(x) /\ Q!Leave(P, "done", ws)
            \/ Placed /\ \/ Q!NotifyOne(P, "idle", ws)
                         \/ Q!NotifyOne(P, "idle", waiters)
                         \/ Q!Leave(P, "idle", ws)
<1> USE DEF Q!counters, Q!history
<1>0. Len(items) \in Nat /\ Len(got) \in Nat /\ Len(dropped) \in Nat /\ DataOK
  BY Lengths DEF DataOK, Q!TypeOK
<1>1. CASE closed /\ Q!Refuse(P, x, ws)
  BY <1>0, <1>1 DEF Q!Refuse, DataOK, Refused
<1>2. CASE ~closed /\ Q!HasRoom /\ Q!Store(P, x, ws)
  <2>1. items' \in Seq(Q!Item) /\ Len(items') = Len(items) + 1
    BY <1>0, <1>2, AppendProperties DEF Q!Store, DataOK
  <2>2. DataOK'
    BY <1>0, <1>2, <2>1 DEF Q!Store, DataOK
  <2>3. Placed
    BY <1>0, <1>2, <2>1 DEF Q!Store, Placed
  <2> QED BY <1>2, <2>2, <2>3 DEF Q!Store
<1>3. CASE ~closed /\ Q!RejectNewest(P, x, ws)
  <2>1. dropped' \in Seq(Q!Item) /\ Len(dropped') = Len(dropped) + 1
    BY <1>0, <1>3, AppendProperties DEF Q!RejectNewest, DataOK
  <2>2. DataOK'
    BY <1>0, <1>3, <2>1 DEF Q!RejectNewest, DataOK
  <2>3. Placed
    BY <1>0, <1>3, <2>1 DEF Q!RejectNewest, Placed
  <2> QED BY <1>3, <2>2, <2>3 DEF Q!RejectNewest
<1>4. CASE ~closed /\ ~Q!HasRoom /\ Q!EvictOldest(P, x)
  <2>1. items # <<>>
    BY <1>0, <1>4, PipelineAssumption, EmptySeq DEF Q!HasRoom
  <2>2. Head(items) \in Q!Item /\ Tail(items) \in Seq(Q!Item) /\ Len(Tail(items)) = Len(items) - 1
    BY <1>0, <2>1, HeadTailProperties DEF DataOK
  <2>3. items' \in Seq(Q!Item) /\ Len(items') = Len(items)
    BY <1>0, <1>4, <2>2, AppendProperties DEF Q!EvictOldest
  <2>4. dropped' \in Seq(Q!Item) /\ Len(dropped') = Len(dropped) + 1
    BY <1>0, <1>4, <2>2, AppendProperties DEF Q!EvictOldest, DataOK
  <2>5. DataOK'
    BY <1>0, <1>4, <2>3, <2>4 DEF Q!EvictOldest, DataOK
  <2>6. Placed
    BY <1>0, <1>4, <2>3, <2>4 DEF Q!EvictOldest, Placed
  <2> QED BY <1>4, <2>5, <2>6 DEF Q!EvictOldest
<1> QED BY <1>1, <1>2, <1>3, <1>4

(* A put, or the rest of one, ends refused, placed, or waiting.             *)
LEMMA PutOutcome ==
  ASSUME Q!TypeOK, Q!Put(P) \/ (Q!PutResume(P) /\ sent[P] # 0)
  PROVE  /\ Q!TypeOK' /\ UNCHANGED closed /\ sent'[P] # 0
         /\ \/ pc'[P] = "done" /\ \E x \in Q!Item : Refused(x)
            \/ pc'[P] = "idle" /\ Placed
            \/ pc'[P] = "waiting" /\ UNCHANGED <<items, dropped, dequeued, refused>>
<1> DEFINE x == IF Q!Put(P) THEN <<P, sent[P] + 1>> ELSE Q!Current(P)
           ws == IF Q!Put(P) THEN waiters ELSE Q!WaitersWithout(P)
           n == IF Q!Put(P) THEN sent[P] + 1 ELSE sent[P]
<1> USE DEF Q!counters, Q!history
<1>0. /\ P \in Q!Threads /\ pc \in [Q!Threads -> Q!Status] /\ timed \in [Q!Threads -> BOOLEAN]
      /\ sent \in [{P} -> 0 .. MaxItems] /\ MaxItems \in Nat /\ sent[P] \in 0 .. MaxItems
  BY PipelineAssumption DEF Q!TypeOK, Q!Threads
<1>1. n \in 1 .. MaxItems /\ x = <<P, n>> /\ x \in Q!Item
  <2>1. CASE Q!Put(P)
    BY <1>0, <2>1 DEF Q!Put, Q!Item
  <2>2. CASE ~ Q!Put(P)
    BY <1>0, <2>2 DEF Q!Item, Q!Current
  <2> QED BY <2>1, <2>2
<1>2. ws \in Seq(Q!Threads) /\ waiters \in Seq(Q!Threads)
  BY WaitersType DEF Q!TypeOK
<1>3. UNCHANGED <<overflow, closed>> /\ sent' = [sent EXCEPT ![P] = n] /\ timed' \in [Q!Threads -> BOOLEAN]
  <2>1. CASE Q!Put(P)
    BY <1>0, <2>1 DEF Q!Put
  <2>2. CASE ~ Q!Put(P)
    <3>1. UNCHANGED <<overflow, closed, timed, sent>> /\ n = sent[P]
      BY <2>2 DEF Q!PutResume
    <3> QED BY <1>0, <3>1
  <2> QED BY <2>1, <2>2
<1>4. \/ \/ closed /\ Q!Refuse(P, x, ws)
         \/ ~closed /\ Q!HasRoom /\ Q!Store(P, x, ws)
         \/ ~closed /\ Q!RejectNewest(P, x, ws)
         \/ ~closed /\ ~Q!HasRoom /\ Q!EvictOldest(P, x)
      \/ Q!WaitOn(P, ws) /\ UNCHANGED <<items, Q!counters, Q!history>>
  <2>1. CASE Q!Put(P)
    BY <2>1 DEF Q!Put
  <2>2. CASE ~ Q!Put(P)
    BY <2>2 DEF Q!PutResume
  <2> QED BY <2>1, <2>2
<1> HIDE DEF x, ws, n
<1>5. sent' \in [{P} -> 0 .. MaxItems] /\ sent'[P] # 0
  BY <1>0, <1>1, <1>3
<1>6. ASSUME DataOK', waiters' \in Seq(Q!Threads), pc' \in [Q!Threads -> Q!Status]
      PROVE  Q!TypeOK'
  BY <1>3, <1>5, <1>6 DEF Q!TypeOK, DataOK
<1>7. CASE Q!WaitOn(P, ws) /\ UNCHANGED <<items, Q!counters, Q!history>>
  <2>1. waiters' \in Seq(Q!Threads) /\ pc' \in [Q!Threads -> Q!Status] /\ pc'[P] = "waiting"
    BY <1>0, <1>2, <1>7, Release DEF Q!Status
  <2>2. DataOK'
    BY <1>7 DEF DataOK, Q!TypeOK
  <2> QED BY <1>3, <1>5, <1>6, <1>7, <2>1, <2>2
<1>8. CASE ~ (Q!WaitOn(P, ws) /\ UNCHANGED <<items, Q!counters, Q!history>>)
  <2>1. /\ DataOK'
        /\ \/ Refused(x) /\ Q!Leave(P, "done", ws)
           \/ Placed /\ \/ Q!NotifyOne(P, "idle", ws)
                        \/ Q!NotifyOne(P, "idle", waiters)
                        \/ Q!Leave(P, "idle", ws)
    BY <1>1, <1>4, <1>8, PutData
  <2>2. CASE Refused(x) /\ Q!Leave(P, "done", ws)
    <3>1. waiters' \in Seq(Q!Threads) /\ pc' \in [Q!Threads -> Q!Status] /\ pc'[P] = "done"
      BY <1>0, <1>2, <2>2, Release DEF Q!Status
    <3> QED BY <1>1, <1>3, <1>5, <1>6, <2>1, <2>2, <3>1
  <2>3. CASE Placed /\ \/ Q!NotifyOne(P, "idle", ws)
                       \/ Q!NotifyOne(P, "idle", waiters)
                       \/ Q!Leave(P, "idle", ws)
    <3>1. waiters' \in Seq(Q!Threads) /\ pc' \in [Q!Threads -> Q!Status] /\ pc'[P] = "idle"
      BY <1>0, <1>2, <2>3, Release DEF Q!Status
    <3> QED BY <1>3, <1>5, <1>6, <2>1, <2>3, <3>1
  <2> QED BY <2>1, <2>2, <2>3
<1> QED BY <1>7, <1>8
-----------------------------------------------------------------------------
(* What a step of the queue that is not the producer's does to it: nothing, *)
(* or it wakes it.                                                          *)
MaybeWoken ==
  \/ pc'[P] = pc[P]
  \/ pc[P] = "waiting" /\ pc'[P] \in {"notified", "expired"}

(* A get, or the rest of one, takes an event, sees CLOSED, or has nothing.  *)
LEMMA GetOutcome ==
  ASSUME Q!TypeOK, Q!Get(C) \/ Q!GetResume(C)
  PROVE  /\ Q!TypeOK' /\ UNCHANGED <<closed, sent, dropped, refused>> /\ MaybeWoken
         /\ \/ /\ pc'[C] = "idle" /\ dequeued' = dequeued + 1
               /\ items # <<>> /\ Len(items') = Len(items) - 1
            \/ pc'[C] = "done" /\ closed /\ items = <<>> /\ UNCHANGED <<items, dequeued>>
            \/ pc'[C] \in {"idle", "waiting"} /\ UNCHANGED <<items, dequeued>>
<1> DEFINE ws == IF Q!Get(C) THEN waiters ELSE Q!WaitersWithout(C)
<1> USE DEF Q!counters, Q!history
<1>0. /\ C \in Q!Threads /\ P \in Q!Threads \ {C}
      /\ pc \in [Q!Threads -> Q!Status] /\ timed \in [Q!Threads -> BOOLEAN]
  BY DEF Q!TypeOK, Q!Threads, P, C
<1>1. ws \in Seq(Q!Threads)
  BY WaitersType DEF Q!TypeOK
<1>2. UNCHANGED <<overflow, closed, sent>> /\ timed' \in [Q!Threads -> BOOLEAN]
  BY <1>0 DEF Q!Get, Q!GetResume
<1>3. \/ Q!Take(C, ws)
      \/ Q!ReturnClosed(C, ws)
      \/ Q!WaitOn(C, ws) /\ UNCHANGED <<items, Q!counters, Q!history>>
      \/ Q!Leave(C, "idle", ws) /\ UNCHANGED <<items, Q!counters, Q!history>>
  BY DEF Q!Get, Q!GetResume
<1> HIDE DEF ws
<1>4. ASSUME NEW s \in {"idle", "done", "waiting"}, DataOK',
             \/ Q!WaitOn(C, ws) /\ s = "waiting"
             \/ Q!NotifyOne(C, s, ws) /\ s = "idle"
             \/ Q!Leave(C, s, ws)
      PROVE  Q!TypeOK' /\ MaybeWoken /\ pc'[C] = s
  <2>1. s \in Q!Status
    BY DEF Q!Status
  <2>2. /\ waiters' \in Seq(Q!Threads) /\ pc' \in [Q!Threads -> Q!Status] /\ pc'[C] = s
        /\ pc'[P] = pc[P] \/ (pc[P] = "waiting" /\ pc'[P] = "notified")
    BY <1>0, <1>1, <1>4, <2>1, Release
  <2>3. Q!TypeOK'
    BY <1>2, <1>4, <2>2 DEF Q!TypeOK, DataOK
  <2> QED BY <2>2, <2>3 DEF MaybeWoken
<1>5. DataOK /\ Len(items) \in Nat /\ Len(got) \in Nat
  BY Lengths DEF DataOK, Q!TypeOK
<1>6. CASE Q!Take(C, ws)
  <2>1. /\ Head(items) \in Q!Item /\ Tail(items) \in Seq(Q!Item)
        /\ Len(Tail(items)) = Len(items) - 1 /\ items # <<>>
    BY <1>5, <1>6, HeadTailProperties DEF Q!Take, DataOK
  <2>2. got' \in Seq(Q!Item)
    BY <1>5, <1>6, <2>1, AppendProperties DEF Q!Take, DataOK
  <2>3. DataOK'
    BY <1>5, <1>6, <2>1, <2>2 DEF Q!Take, DataOK
  <2>4. Q!TypeOK' /\ MaybeWoken /\ pc'[C] = "idle"
    BY <1>4, <1>6, <2>3 DEF Q!Take
  <2> QED BY <1>2, <1>6, <2>1, <2>4 DEF Q!Take
<1>7. CASE Q!ReturnClosed(C, ws)
  <2>1. DataOK'
    BY <1>5, <1>7 DEF Q!ReturnClosed, DataOK
  <2>2. Q!TypeOK' /\ MaybeWoken /\ pc'[C] = "done"
    BY <1>4, <1>7, <2>1 DEF Q!ReturnClosed
  <2> QED BY <1>2, <1>7, <2>2 DEF Q!ReturnClosed
<1>8. CASE \/ Q!WaitOn(C, ws) /\ UNCHANGED <<items, Q!counters, Q!history>>
           \/ Q!Leave(C, "idle", ws) /\ UNCHANGED <<items, Q!counters, Q!history>>
  <2>1. DataOK'
    BY <1>5, <1>8 DEF DataOK
  <2>2. Q!TypeOK' /\ MaybeWoken /\ pc'[C] \in {"idle", "waiting"}
    BY <1>4, <1>8, <2>1
  <2> QED BY <1>2, <1>8, <2>2
<1> QED BY <1>3, <1>6, <1>7, <1>8

(* Closing the queue wakes the producer and touches no event.               *)
LEMMA CloseOutcome ==
  ASSUME Q!TypeOK, QueueClose
  PROVE  /\ Q!TypeOK' /\ MaybeWoken /\ closed'
         /\ UNCHANGED <<items, sent, dropped, dequeued, refused>>
<1> USE DEF Q!counters, Q!history
<1>1. CASE Q!Close
  <2>1. waiters' \in Seq(Q!Threads) /\ pc' \in [Q!Threads -> Q!Status]
    BY <1>1, EmptySeq DEF Q!Close, Q!WakeAll, Q!TypeOK, Q!Status
  <2>2. MaybeWoken
    BY <1>1 DEF Q!Close, Q!WakeAll, Q!TypeOK, Q!Threads, MaybeWoken
  <2>3. Q!TypeOK'
    BY <1>1, <2>1 DEF Q!Close, Q!TypeOK
  <2> QED BY <1>1, <2>2, <2>3 DEF Q!Close
<1>2. CASE closed /\ UNCHANGED queue
  BY <1>2 DEF queue, Q!TypeOK, MaybeWoken
<1> QED BY <1>1, <1>2 DEF QueueClose

(* So does a timeout that elapses, and an interrupt of the consumer.        *)
LEMMA TimeoutOutcome ==
  ASSUME Q!TypeOK, NEW t \in Q!Threads, Q!Timeout(t)
  PROVE  /\ Q!TypeOK' /\ MaybeWoken
         /\ UNCHANGED <<closed, items, sent, dropped, dequeued, refused>>
<1> USE DEF Q!counters, Q!history
<1>1. pc' \in [Q!Threads -> Q!Status]
  BY DEF Q!Timeout, Q!TypeOK, Q!Status
<1>2. MaybeWoken
  BY DEF Q!Timeout, Q!TypeOK, MaybeWoken
<1>3. Q!TypeOK'
  BY <1>1 DEF Q!Timeout, Q!TypeOK
<1> QED BY <1>2, <1>3 DEF Q!Timeout

LEMMA InterruptOutcome ==
  ASSUME Q!TypeOK, waiters' = Q!WaitersWithout(C), pc' = [pc EXCEPT ![C] = "idle"],
         UNCHANGED <<overflow, items, closed, timed, sent, enqueued, dequeued,
                     droppedNewest, droppedOldest, maxDepth, got, dropped, refused>>
  PROVE  Q!TypeOK' /\ pc'[P] = pc[P]
<1>1. waiters' \in Seq(Q!Threads)
  BY WaitersType
<1>2. pc' \in [Q!Threads -> Q!Status] /\ pc'[P] = pc[P]
  BY DEF Q!TypeOK, Q!Threads, Q!Status, P, C
<1> QED BY <1>1, <1>2 DEF Q!TypeOK
-----------------------------------------------------------------------------
(* What the pipeline's steps have to go by: the types, apart from the       *)
(* queue's, and what a step keeps that puts nothing in and takes nothing    *)
(* out of the queue.                                                        *)
PipeOK ==
  /\ drain \in DrainPolicies /\ cap \in Caps
  /\ stop \in BOOLEAN /\ expired \in BOOLEAN /\ producerDone \in BOOLEAN
  /\ prod \in {"none", "next", "source", "check", "put", "finish", "close", "ended"}
  /\ Consuming \/ Finishing \/ Over \/ run = "recovering"
  /\ cause \in {"none", "closed", "idle", "discard", "max_events", "interrupt", "error"}
  /\ sourceClosed \in BOOLEAN
  /\ received \in 0 .. MaxItems /\ processed \in Nat /\ failed \in Nat
  /\ abandoned \in 0 .. MaxInterrupts
  /\ requester \in {"idle", "close", "done"}
  /\ interrupts \in 0 .. MaxInterrupts

LEMMA TypeParts ==
  /\ TypeOK <=> Q!TypeOK /\ PipeOK
  /\ TypeOK' <=> Q!TypeOK' /\ PipeOK'
BY DEF TypeOK, PipeOK

QueueKept ==
  /\ Q!TypeOK' /\ MaybeWoken /\ (closed => closed')
  /\ UNCHANGED <<items, sent, dropped, dequeued, refused>>

LEMMA QueueAlone ==
  ASSUME Q!TypeOK, UNCHANGED queue \/ QueueClose \/ (\E t \in Q!Threads : Q!Timeout(t))
  PROVE  QueueKept
<1>1. CASE UNCHANGED queue
  BY <1>1 DEF queue, Q!TypeOK, MaybeWoken, QueueKept
<1>2. CASE QueueClose
  BY <1>2, CloseOutcome DEF QueueKept
<1>3. CASE \E t \in Q!Threads : Q!Timeout(t)
  BY <1>3, TimeoutOutcome DEF QueueKept
<1> QED BY <1>1, <1>2, <1>3

(* Steps that leave the contents of the queue alone, one of whose threads   *)
(* may have been woken.                                                     *)
LEMMA ProducerWalks ==
  ASSUME IInv, EnterSource \/ SourceYields \/ SourceEnds \/ Receive \/ ProducerFinishes
  PROVE  IInv'
<1> USE DEF config, signals, counts
<1>0. /\ PipeOK /\ QueueKept /\ MaxItems \in Nat /\ Len(items) \in Nat
      /\ Cardinality(refused) \in Nat /\ ProducerPlace /\ LeftNothing /\ Balanced /\ abandoned <= interrupts
  BY TypeParts, QueueAlone, Lengths, PipelineAssumption
     DEF IInv, EnterSource, SourceYields, SourceEnds, Receive, ProducerFinishes
<1>1. PipeOK'
  <2>1. CASE EnterSource \/ SourceYields \/ SourceEnds \/ ProducerFinishes
    BY <1>0, <2>1 DEF EnterSource, SourceYields, SourceEnds, ProducerFinishes, PipeOK, Consuming, Finishing, Over
  <2>2. CASE Receive
    BY <1>0, <2>2 DEF Receive, ProducerPlace, PipeOK, Consuming, Finishing, Over
  <2> QED BY <2>1, <2>2
<1>2. ProducerPlace'
  BY <1>0 DEF EnterSource, SourceYields, SourceEnds, Receive, ProducerFinishes, ProducerPlace, MaybeWoken,
    QueueKept, PipeOK
<1>3. LeftNothing'
  BY <1>0 DEF EnterSource, SourceYields, SourceEnds, Receive, ProducerFinishes, LeftNothing, QueueKept
<1>4. Balanced' /\ Cardinality(refused)' \in Nat /\ (abandoned <= interrupts)'
  BY <1>0 DEF EnterSource, SourceYields, SourceEnds, Receive, ProducerFinishes, Balanced, Hold, QueueKept, PipeOK
<1> QED BY <1>0, <1>1, <1>2, <1>3, <1>4, TypeParts DEF IInv, QueueKept

(* A put: the event in hand is refused, placed or still in hand.            *)
LEMMA ProducerPuts ==
  ASSUME IInv, PutEvent
  PROVE  IInv'
<1> USE DEF config, signals
<1>0. /\ Q!TypeOK /\ PipeOK /\ MaxItems \in Nat /\ ProducerPlace /\ LeftNothing /\ Balanced
      /\ Len(items) \in Nat /\ Len(dropped) \in Nat
  BY TypeParts, Lengths, PipelineAssumption DEF IInv
<1>1. Q!Put(P) \/ (Q!PutResume(P) /\ sent[P] # 0)
  BY <1>0 DEF PutEvent, ProducerPlace, Q!PutResume, Q!Awake
<1>2. /\ Q!TypeOK' /\ UNCHANGED closed /\ sent'[P] # 0
      /\ \/ pc'[P] = "done" /\ \E x \in Q!Item : Refused(x)
         \/ pc'[P] = "idle" /\ Placed
         \/ pc'[P] = "waiting" /\ UNCHANGED <<items, dropped, dequeued, refused>>
  BY <1>0, <1>1, PutOutcome
<1>3. /\ prod = "put" /\ ~producerDone /\ pc[P] # "done" /\ run # "recovering"
      /\ refused = {} /\ Cardinality(refused) = 0
  BY <1>0, FS_EmptySet DEF PutEvent, ProducerPlace
<1>4. Len(items') \in Nat /\ Len(dropped') \in Nat
  BY <1>2, LenProperties DEF Q!TypeOK
<1>5. /\ UNCHANGED <<drain, cap, stop, expired, producerDone, run, cause, sourceClosed, received,
                     processed, abandoned, requester, interrupts>>
      /\ failed' = failed + (Len(dropped') - Len(dropped))
      /\ prod' = CASE pc'[P] = "idle" -> "next" [] pc'[P] = "done" -> "finish" [] OTHER -> "put"
  BY DEF PutEvent, OnDrop
<1>6. CASE pc'[P] = "done" /\ \E x \in Q!Item : Refused(x)
  <2>1. PICK x \in Q!Item : Refused(x)
    BY <1>6
  <2>2. refused' = {x} /\ Cardinality(refused') = 1
    BY <1>3, <2>1, FS_Singleton DEF Refused
  <2>3. prod' = "finish" /\ failed' = failed /\ UNCHANGED <<items, dropped>> /\ closed
    BY <1>0, <1>5, <1>6, <2>1 DEF Refused, PipeOK
  <2>4. PipeOK'
    BY <1>0, <1>5, <2>3 DEF PipeOK, Consuming, Finishing, Over
  <2>5. ProducerPlace' /\ LeftNothing'
    BY <1>0, <1>2, <1>3, <1>5, <1>6, <2>3 DEF ProducerPlace, LeftNothing
  <2>6. Balanced'
    <3>1. /\ Hold(prod = "put") = 1 /\ Hold(prod' = "put") = 0
          /\ Hold(run' = "process") = Hold(run = "process") /\ Hold(run = "process") \in Nat
      BY <1>3, <1>5, <2>3 DEF Hold
    <3>2. /\ Len(items') = Len(items) /\ received' = received /\ processed' = processed
          /\ abandoned' = abandoned
      BY <1>5, <2>3
    <3>3. received \in Nat /\ processed \in Nat /\ failed \in Nat /\ abandoned \in Nat
      BY <1>0, PipelineAssumption DEF PipeOK
    <3>4. received = processed + failed + Len(items) + 0 + abandoned + 1 + Hold(run = "process")
      BY <1>0, <1>3, <3>1 DEF Balanced
    <3>5. received = processed + failed + Len(items) + 1 + abandoned + 0 + Hold(run = "process")
      BY <1>0, <3>1, <3>3, <3>4
    <3> QED BY <2>2, <2>3, <3>1, <3>2, <3>5 DEF Balanced
  <2> QED BY <1>2, <1>5, <2>2, <2>4, <2>5, <2>6, TypeParts DEF IInv
<1>7. CASE pc'[P] = "idle" /\ Placed
  <2>1. /\ prod' = "next" /\ failed' \in Nat /\ ~closed /\ refused' = {} /\ Cardinality(refused') = 0
        /\ failed' + Len(items') = failed + Len(items) + 1
    BY <1>0, <1>3, <1>4, <1>5, <1>7 DEF Placed, PipeOK
  <2>2. PipeOK'
    BY <1>0, <1>5, <2>1 DEF PipeOK, Consuming, Finishing, Over
  <2>3. ProducerPlace' /\ LeftNothing'
    BY <1>0, <1>2, <1>3, <1>5, <1>7, <2>1 DEF ProducerPlace, LeftNothing
  <2>4. Balanced'
    <3>1. /\ Hold(prod = "put") = 1 /\ Hold(prod' = "put") = 0
          /\ Hold(run' = "process") = Hold(run = "process") /\ Hold(run = "process") \in Nat
      BY <1>3, <1>5, <2>1 DEF Hold
    <3>2. received' = received /\ processed' = processed /\ abandoned' = abandoned
      BY <1>5
    <3>3. received \in Nat /\ processed \in Nat /\ failed \in Nat /\ abandoned \in Nat
      BY <1>0, PipelineAssumption DEF PipeOK
    <3>4. received = processed + failed + Len(items) + 0 + abandoned + 1 + Hold(run = "process")
      BY <1>0, <1>3, <3>1 DEF Balanced
    <3>5. received = processed + failed' + Len(items') + 0 + abandoned + 0 + Hold(run = "process")
      <4>1. /\ Len(items) \in Nat /\ Len(items') \in Nat /\ failed' \in Nat
            /\ failed' + Len(items') = failed + Len(items) + 1 /\ Hold(run = "process") \in Nat
        BY <1>0, <1>4, <2>1, <3>1
      <4> DEFINE h == Hold(run = "process")
                 l == Len(items)
                 l1 == Len(items')
      <4>2. received = processed + failed + l + 0 + abandoned + 1 + h
        BY <3>4
      <4>3. l \in Nat /\ l1 \in Nat /\ h \in Nat /\ failed' + l1 = failed + l + 1 /\ failed' \in Nat
        BY <4>1
      <4> HIDE DEF h, l, l1
      <4>4. received = processed + failed' + l1 + 0 + abandoned + 0 + h
        <5>1. processed + failed + l + 0 + abandoned + 1 + h = processed + (failed + l + 1) + 0 + abandoned + 0 + h
          BY <3>3, <4>3
        <5>2. processed + failed' + l1 + 0 + abandoned + 0 + h = processed + (failed' + l1) + 0 + abandoned + 0 + h
          BY <3>3, <4>3
        <5> QED BY <4>2, <4>3, <5>1, <5>2
      <4> QED BY <4>4 DEF h, l, l1
    <3> QED BY <2>1, <3>1, <3>2, <3>5 DEF Balanced
  <2> QED BY <1>2, <1>5, <2>1, <2>2, <2>3, <2>4, TypeParts DEF IInv
<1>8. CASE pc'[P] = "waiting" /\ UNCHANGED <<items, dropped, dequeued, refused>>
  <2>1. prod' = "put" /\ failed' = failed
    BY <1>0, <1>5, <1>8 DEF PipeOK
  <2>2. PipeOK'
    BY <1>0, <1>5, <2>1 DEF PipeOK, Consuming, Finishing, Over
  <2>3. ProducerPlace' /\ LeftNothing' /\ Balanced'
    BY <1>0, <1>2, <1>3, <1>5, <1>8, <2>1 DEF ProducerPlace, LeftNothing, Balanced
  <2> QED BY <1>2, <1>3, <1>5, <1>8, <2>2, <2>3, TypeParts DEF IInv
<1> QED BY <1>2, <1>6, <1>7, <1>8

(* Closing the queue, whichever of the three that do it does it first, and  *)
(* timeouts that elapse.                                                    *)
LEMMA Wakes ==
  ASSUME IInv, ProducerCloses \/ RunCloses \/ RequestStop \/ Elapse(P) \/ Elapse(C)
  PROVE  IInv'
<1> USE DEF config, signals, counts
<1>0. /\ PipeOK /\ QueueKept /\ Len(items) \in Nat
      /\ Cardinality(refused) \in Nat /\ ProducerPlace /\ LeftNothing /\ Balanced /\ abandoned <= interrupts
  BY TypeParts, QueueAlone, Lengths
     DEF IInv, ProducerCloses, RunCloses, RequestStop, Elapse, Q!Threads
<1>1. PipeOK'
  BY <1>0 DEF ProducerCloses, RunCloses, RequestStop, Elapse, PipeOK, Consuming, Finishing, Over
<1>2. ProducerPlace'
  <2>1. \/ /\ UNCHANGED <<prod, received, producerDone, refused, sent, expired>>
           /\ stop => stop'
        \/ ProducerCloses
    BY <1>0 DEF RunCloses, RequestStop, Elapse, QueueKept
  <2>2. run' = "recovering" => run = "recovering"
    BY DEF ProducerCloses, RunCloses, RequestStop, Elapse
  <2>3. CASE ProducerCloses
    BY <1>0, <2>2, <2>3 DEF ProducerCloses, ProducerPlace, MaybeWoken, QueueKept
  <2>4. CASE ~ ProducerCloses
    BY <1>0, <2>1, <2>2, <2>4 DEF ProducerPlace, MaybeWoken, QueueKept
  <2> QED BY <2>3, <2>4
<1>3. LeftNothing'
  BY <1>0 DEF ProducerCloses, RunCloses, RequestStop, Elapse, LeftNothing, QueueKept
<1>4. Balanced' /\ Cardinality(refused)' \in Nat /\ (abandoned <= interrupts)'
  BY <1>0 DEF ProducerCloses, RunCloses, RequestStop, Elapse, Balanced, Hold, QueueKept, PipeOK
<1> QED BY <1>0, <1>1, <1>2, <1>3, <1>4, TypeParts DEF IInv, QueueKept

(* The consumer takes an event, sees CLOSED or goes on without one.         *)
LEMMA ConsumerGets ==
  ASSUME IInv, GetEvent
  PROVE  IInv'
<1> USE DEF config, signals, counts
<1>0. /\ Q!TypeOK /\ PipeOK /\ ProducerPlace /\ LeftNothing /\ Balanced
      /\ Len(items) \in Nat /\ Cardinality(refused) \in Nat /\ abandoned <= interrupts
      /\ dequeued \in Nat
  BY TypeParts, Lengths DEF IInv, Q!TypeOK
<1>1. /\ Q!TypeOK' /\ UNCHANGED <<closed, sent, dropped, refused>> /\ MaybeWoken
      /\ \/ /\ pc'[C] = "idle" /\ dequeued' = dequeued + 1
            /\ items # <<>> /\ Len(items') = Len(items) - 1
         \/ pc'[C] = "done" /\ closed /\ items = <<>> /\ UNCHANGED <<items, dequeued>>
         \/ pc'[C] \in {"idle", "waiting"} /\ UNCHANGED <<items, dequeued>>
  BY <1>0, GetOutcome DEF GetEvent
<1>2. /\ run = "get"
      /\ UNCHANGED <<drain, cap, stop, expired, producerDone, prod, sourceClosed, received,
                     processed, failed, abandoned, requester, interrupts>>
      /\ \/ pc'[C] = "waiting" /\ UNCHANGED <<run, cause>>
         \/ pc'[C] = "done" /\ run' = "stopping" /\ cause' = "closed"
         \/ /\ pc'[C] = "idle" /\ UNCHANGED cause
            /\ run' = IF dequeued' > dequeued THEN "process" ELSE "empty"
  BY DEF GetEvent, Leave
<1>3. PipeOK'
  BY <1>0, <1>2 DEF PipeOK, Consuming, Finishing, Over
<1>4. ProducerPlace'
  BY <1>0, <1>1, <1>2 DEF ProducerPlace, MaybeWoken
<1>5. LeftNothing'
  BY <1>0, <1>1, <1>2 DEF LeftNothing
<1>6. Balanced'
  <2>1. CASE pc'[C] = "idle" /\ dequeued' = dequeued + 1 /\ Len(items') = Len(items) - 1
    BY <1>0, <1>1, <1>2, <2>1 DEF Balanced, Hold, PipeOK
  <2>2. CASE UNCHANGED <<items, dequeued>>
    BY <1>0, <1>1, <1>2, <2>2 DEF Balanced, Hold, PipeOK
  <2> QED BY <1>1, <2>1, <2>2
<1> QED BY <1>0, <1>1, <1>2, <1>3, <1>4, <1>5, <1>6, TypeParts DEF IInv

(* The other steps of the thread in run() and of what stops it.             *)
RunWalks ==
  \/ StartStreaming \/ LoopTop \/ Idle \/ Process \/ DeliveryRaises
  \/ SetStop \/ CloseSource \/ Join \/ Sweep \/ StopEvent \/ DurationElapses

LEMMA RunSteps ==
  ASSUME IInv, RunWalks
  PROVE  IInv'
<1> USE DEF config, signals, counts, Leave
<1>0. /\ PipeOK /\ QueueKept /\ Len(items) \in Nat
      /\ Cardinality(refused) \in Nat /\ ProducerPlace /\ LeftNothing /\ Balanced /\ abandoned <= interrupts
  <2>1. UNCHANGED queue
    BY DEF RunWalks, StartStreaming, LoopTop, Idle, Process, DeliveryRaises, SetStop, CloseSource, Join,
           Sweep, StopEvent, DurationElapses
  <2> QED BY <2>1, TypeParts, QueueAlone, Lengths DEF IInv
<1>1. PipeOK'
  <2>1. CASE StartStreaming
    BY <1>0, <2>1 DEF StartStreaming, PipeOK, Consuming, Finishing, Over
  <2>2. CASE LoopTop
    BY <1>0, <2>2 DEF LoopTop, PipeOK, Consuming, Finishing, Over
  <2>3. CASE Idle
    BY <1>0, <2>3 DEF Idle, PipeOK, Consuming, Finishing, Over
  <2>4. CASE Process
    BY <1>0, <2>4 DEF Process, PipeOK, Consuming, Finishing, Over
  <2>5. CASE DeliveryRaises
    BY <1>0, <2>5 DEF DeliveryRaises, PipeOK, Consuming, Finishing, Over
  <2>6. CASE SetStop
    BY <1>0, <2>6 DEF SetStop, PipeOK, Consuming, Finishing, Over
  <2>7. CASE CloseSource
    BY <1>0, <2>7 DEF CloseSource, PipeOK, Consuming, Finishing, Over
  <2>8. CASE Join
    BY <1>0, <2>8 DEF Join, PipeOK, Consuming, Finishing, Over
  <2>9. CASE Sweep
    BY <1>0, <2>9 DEF Sweep, PipeOK, Consuming, Finishing, Over
  <2>10. CASE StopEvent
    BY <1>0, <2>10 DEF StopEvent, PipeOK, Consuming, Finishing, Over
  <2>11. CASE DurationElapses
    BY <1>0, <2>11 DEF DurationElapses, PipeOK, Consuming, Finishing, Over
  <2> QED BY <2>1, <2>2, <2>3, <2>4, <2>5, <2>6, <2>7, <2>8, <2>9, <2>10, <2>11 DEF RunWalks
<1>2. ProducerPlace'
  <2>1. CASE StartStreaming
    BY <1>0, <2>1 DEF StartStreaming, ProducerPlace, MaybeWoken, QueueKept
  <2>2. CASE ~ StartStreaming
    <3>1. /\ UNCHANGED <<prod, producerDone, received, sent, refused>>
          /\ (stop => stop') /\ (expired => expired') /\ run' # "recovering"
      BY <1>0, <2>2 DEF RunWalks, LoopTop, Idle, Process, DeliveryRaises, SetStop, CloseSource, Join,
             Sweep, StopEvent, DurationElapses, QueueKept
    <3>2. prod' = "check" => received' < MaxItems \/ stop' \/ expired'
      BY <1>0, <3>1 DEF ProducerPlace, PipeOK
    <3> QED BY <1>0, <3>1, <3>2 DEF ProducerPlace, MaybeWoken, QueueKept
  <2> QED BY <2>1, <2>2
<1>3. LeftNothing'
  BY <1>0 DEF RunWalks, StartStreaming, LoopTop, Idle, Process, DeliveryRaises, SetStop, CloseSource, Join,
              Sweep, StopEvent, DurationElapses, LeftNothing, QueueKept
<1>4. Cardinality(refused)' \in Nat /\ (abandoned <= interrupts)'
  BY <1>0 DEF RunWalks, StartStreaming, LoopTop, Idle, Process, DeliveryRaises, SetStop, CloseSource, Join,
              Sweep, StopEvent, DurationElapses, QueueKept
<1>5. Balanced'
  <2>0. /\ Hold(run = "process") \in Nat /\ Hold(prod = "put") \in Nat
        /\ received \in Nat /\ processed \in Nat /\ failed \in Nat /\ abandoned \in Nat
    BY <1>0, PipelineAssumption DEF Hold, PipeOK
  <2>1. /\ Len(items') = Len(items) /\ Cardinality(refused') = Cardinality(refused)
        /\ received' = received /\ abandoned' = abandoned
        /\ Hold(prod' = "put") = Hold(prod = "put")
    BY <1>0 DEF RunWalks, StartStreaming, LoopTop, Idle, Process, DeliveryRaises, SetStop, CloseSource, Join,
                Sweep, StopEvent, DurationElapses, QueueKept, ProducerPlace, Hold
  <2>2. processed' + failed' + Hold(run' = "process") = processed + failed + Hold(run = "process")
    <3>1. CASE run = "process" /\ (Process \/ DeliveryRaises)
      BY <2>0, <3>1 DEF Process, DeliveryRaises, Hold
    <3>2. CASE ~ (run = "process" /\ (Process \/ DeliveryRaises))
      <4>1. processed' = processed /\ failed' = failed /\ Hold(run' = "process") = Hold(run = "process")
        BY <3>2 DEF RunWalks, StartStreaming, LoopTop, Idle, Process, DeliveryRaises, SetStop, CloseSource,
                    Join, Sweep, StopEvent, DurationElapses, Hold
      <4> QED BY <4>1
    <3> QED BY <3>1, <3>2
  <2>3. processed' \in Nat /\ failed' \in Nat /\ Hold(run' = "process") \in Nat
    BY <1>1 DEF PipeOK, Hold
  <2>4. received = processed + failed + Len(items) + Cardinality(refused) + abandoned
                   + Hold(prod = "put") + Hold(run = "process")
    BY <1>0 DEF Balanced
  <2>5. received = processed' + failed' + Len(items) + Cardinality(refused) + abandoned
                   + Hold(prod = "put") + Hold(run' = "process")
    <3> DEFINE h == Hold(run = "process")
               k == Hold(run' = "process")
               m == Hold(prod = "put")
               l == Len(items)
               q == Cardinality(refused)
    <3>1. l \in Nat /\ q \in Nat /\ m \in Nat /\ h \in Nat /\ k \in Nat
      BY <1>0, <2>0, <2>3
    <3>2. received = processed + failed + l + q + abandoned + m + h
      BY <2>4
    <3>3. processed' + failed' + k = processed + failed + h
      BY <2>2
    <3> HIDE DEF h, k, m, l, q
    <3>4. /\ processed \in Nat /\ failed \in Nat /\ abandoned \in Nat
          /\ processed' \in Nat /\ failed' \in Nat
      BY <2>0, <2>3
    <3>5. processed + failed + l + q + abandoned + m + h = (processed + failed + h) + (l + q + abandoned + m)
      BY <3>1, <3>4
    <3>6. processed' + failed' + l + q + abandoned + m + k = (processed' + failed' + k) + (l + q + abandoned + m)
      BY <3>1, <3>4
    <3>7. received = processed' + failed' + l + q + abandoned + m + k
      BY <3>2, <3>3, <3>5, <3>6
    <3> QED BY <3>7 DEF h, k, m, l, q
  <2> QED BY <2>1, <2>5 DEF Balanced
<1> QED BY <1>0, <1>1, <1>2, <1>3, <1>4, <1>5, TypeParts DEF IInv, QueueKept

(* An interrupt: the event it takes out of the consumer's hands is counted. *)
LEMMA Interrupted ==
  ASSUME IInv, Interrupt
  PROVE  IInv'
<1> USE DEF config, signals, counts, Leave
<1>0. /\ Q!TypeOK /\ PipeOK /\ ProducerPlace /\ LeftNothing /\ Balanced
      /\ Len(items) \in Nat /\ Cardinality(refused) \in Nat /\ abandoned <= interrupts
      /\ MaxInterrupts \in Nat
  BY TypeParts, Lengths, PipelineAssumption DEF IInv, Q!TypeOK
<1>1. /\ Q!TypeOK' /\ pc'[P] = pc[P]
      /\ UNCHANGED <<closed, items, sent, dropped, dequeued, refused>>
  <2>1. CASE waiters' = Q!WaitersWithout(C) /\ pc' = [pc EXCEPT ![C] = "idle"]
    BY <1>0, <2>1, InterruptOutcome DEF Interrupt
  <2>2. CASE UNCHANGED <<waiters, pc>>
    BY <1>0, <2>2 DEF Interrupt, Q!TypeOK
  <2> QED BY <2>1, <2>2 DEF Interrupt
<1>2. PipeOK' /\ abandoned' <= interrupts'
  BY <1>0 DEF Interrupt, PipeOK, Consuming, Finishing, Over
<1>3. ProducerPlace'
  BY <1>0, <1>1 DEF Interrupt, ProducerPlace, Consuming
<1>4. LeftNothing'
  BY <1>0, <1>1 DEF Interrupt, LeftNothing
<1>5. Balanced'
  BY <1>0, <1>1 DEF Interrupt, Balanced, Hold, PipeOK, Consuming
<1> QED BY <1>0, <1>1, <1>2, <1>3, <1>4, <1>5, TypeParts DEF IInv
-----------------------------------------------------------------------------
LEMMA InitSound == Init => IInv
<1> SUFFICES ASSUME Init PROVE IInv
  OBVIOUS
<1>1. Q!TypeOK /\ items = <<>> /\ refused = {} /\ closed = FALSE /\ pc[P] = "idle"
  <2>1. <<>> \in Seq(Q!Item) /\ <<>> \in Seq(Q!Threads)
    BY EmptySeq
  <2>2. pc = [t \in Q!Threads |-> "idle"] /\ P \in Q!Threads /\ "idle" \in Q!Status
    BY DEF Init, Q!Init, Q!Status, Q!Threads
  <2>3. items = <<>> /\ refused = {} /\ closed = FALSE /\ pc[P] = "idle"
    BY <2>2 DEF Init, Q!Init
  <2>4. overflow \in Policies /\ waiters = <<>> /\ got = <<>> /\ dropped = <<>>
    BY DEF Init, Q!Init
  <2>5. pc \in [Q!Threads -> Q!Status]
    BY <2>2
  <2>6. timed \in [Q!Threads -> BOOLEAN] /\ sent \in [{P} -> 0 .. MaxItems]
    BY PipelineAssumption DEF Init, Q!Init
  <2>7. /\ enqueued \in Nat /\ dequeued \in Nat /\ maxDepth \in Nat
        /\ droppedNewest \in Nat /\ droppedOldest \in Nat
    BY DEF Init, Q!Init
  <2> QED BY <2>1, <2>3, <2>4, <2>5, <2>6, <2>7 DEF Q!TypeOK
<1>2. Len(items) = 0 /\ Cardinality(refused) = 0
  BY <1>1, EmptySeq, FS_EmptySet
<1>3. PipeOK
  <2>1. /\ drain \in DrainPolicies /\ cap \in Caps /\ stop = FALSE /\ expired = FALSE
        /\ producerDone = FALSE /\ prod = "none" /\ run = "recovering" /\ cause = "none"
        /\ sourceClosed = FALSE /\ requester = "idle"
    BY DEF Init
  <2>2. /\ received \in 0 .. MaxItems /\ processed \in Nat /\ failed \in Nat
        /\ abandoned \in 0 .. MaxInterrupts /\ interrupts \in 0 .. MaxInterrupts
    BY PipelineAssumption DEF Init
  <2> QED BY <2>1, <2>2 DEF PipeOK
<1> QED BY <1>1, <1>2, <1>3, TypeParts DEF Init, IInv, ProducerPlace, LeftNothing, Balanced, Hold

(* Where every event is, and that nothing is left, at every moment.         *)
THEOREM InductiveInvariant == Spec => []IInv
<1>1. IInv /\ [Next]_vars => IInv'
  <2> SUFFICES ASSUME IInv, [Next]_vars PROVE IInv'
    OBVIOUS
  <2>1. CASE ProducerStep
    BY <2>1, ProducerWalks, ProducerPuts, Wakes DEF ProducerStep
  <2>2. CASE SourceYields \/ SourceEnds
    BY <2>2, ProducerWalks
  <2>3. CASE RunStep
    BY <2>3, RunSteps, ConsumerGets, Wakes DEF RunStep, RunWalks
  <2>4. CASE DeliveryRaises \/ StopEvent \/ DurationElapses
    BY <2>4, RunSteps DEF RunWalks
  <2>5. CASE RequestStop \/ Elapse(P) \/ Elapse(C)
    BY <2>5, Wakes
  <2>6. CASE Interrupt
    BY <2>6, Interrupted
  <2>7. CASE UNCHANGED vars
    BY <2>7 DEF vars, queue, config, signals, counts, IInv, TypeOK, Q!TypeOK, ProducerPlace, LeftNothing,
                Balanced, Consuming, Finishing, Over
  <2> QED BY <2>1, <2>2, <2>3, <2>4, <2>5, <2>6, <2>7 DEF Next
<1> QED BY <1>1, InitSound, PTL DEF Spec

(* Every event counted as received is processed, failed, queued, in the     *)
(* hands of a thread, refused or abandoned; and none is left behind.        *)
THEOREM EventsAreSettled == Spec => []EventsSettled
<1>1. IInv => EventsSettled
  BY DEF IInv, LeftNothing, Balanced, EventsSettled, EventsAccounted, DrainedOnStop
<1> QED BY <1>1, InductiveInvariant, PTL
-----------------------------------------------------------------------------
(* The thread in run() sets _stop before it waits for the producer; one it  *)
(* does not wait for any longer is asleep in the source, or has seen _stop  *)
(* or will see it before it counts or puts another event.                  *)
Parting ==
  /\ run \in {"closing", "teardown", "joining", "sweeping", "returned"} => stop
  /\ run \in {"sweeping", "returned"} => prod \in {"source", "check", "finish", "close", "ended"}

(* They part that way in every run.                                        *)
LEMMA PartingHolds == Spec => []Parting
<1> USE DEF signals
<1>1. Init => Parting
  BY DEF Init, Parting
<1>2. Parting /\ [Next]_vars => Parting'
  <2> SUFFICES ASSUME Parting, [Next]_vars PROVE Parting'
    OBVIOUS
  <2>1. CASE UNCHANGED vars
    BY <2>1 DEF vars, Parting
  <2>2. CASE ProducerStep \/ SourceYields \/ SourceEnds
    <3>1. UNCHANGED <<run, stop>>
      BY <2>2 DEF ProducerStep, SourceYields, SourceEnds, EnterSource, Receive, PutEvent,
                  ProducerFinishes, ProducerCloses
    <3>2. CASE prod \in {"source", "check", "finish", "close", "ended"} /\ (stop \/ prod # "check")
      BY <2>2, <3>1, <3>2 DEF Parting, ProducerStep, SourceYields, SourceEnds, EnterSource, Receive,
                  PutEvent, ProducerFinishes, ProducerCloses
    <3> QED BY <3>1, <3>2 DEF Parting
  <2>3. CASE RunStep \/ DeliveryRaises
    BY <2>3 DEF Parting, RunStep, DeliveryRaises, StartStreaming, LoopTop, GetEvent, Idle, Process,
                SetStop, RunCloses, CloseSource, Join, Sweep, Leave
  <2>4. CASE StopEvent \/ DurationElapses \/ RequestStop \/ Elapse(P) \/ Elapse(C)
    BY <2>4 DEF Parting, StopEvent, DurationElapses, RequestStop, Elapse
  <2>5. CASE Interrupt
    BY <2>5 DEF Parting, Interrupt, Leave, Consuming
  <2> QED BY <2>1, <2>2, <2>3, <2>4, <2>5 DEF Next
<1> QED BY <1>1, <1>2, PTL DEF Spec

(* The result run returns is final: no step of any thread changes the       *)
(* counts any more, though the producer may outlive the run.               *)
THEOREM ResultNeverChanges == Spec => ResultIsFinal
<1> DEFINE Final == run = "returned" => UNCHANGED counts
<1>1. Parting /\ [Next]_vars => [Final]_vars
  <2> SUFFICES ASSUME Parting, Next, run = "returned" PROVE UNCHANGED counts
    OBVIOUS
  <2>1. stop /\ prod # "put"
    BY DEF Parting
  <2>2. CASE ProducerStep \/ SourceYields \/ SourceEnds
    BY <2>1, <2>2 DEF ProducerStep, SourceYields, SourceEnds, EnterSource, Receive, PutEvent,
                ProducerFinishes, ProducerCloses, counts
  <2>3. CASE RunStep \/ DeliveryRaises \/ Interrupt
    BY <2>3 DEF RunStep, DeliveryRaises, StartStreaming, LoopTop, GetEvent, Idle, Process,
                SetStop, RunCloses, CloseSource, Join, Sweep, Interrupt, Over
  <2>4. CASE StopEvent \/ DurationElapses \/ RequestStop \/ Elapse(P) \/ Elapse(C)
    BY <2>4 DEF StopEvent, DurationElapses, RequestStop, Elapse
  <2> QED BY <2>2, <2>3, <2>4 DEF Next
<1> QED BY <1>1, PartingHolds, PTL DEF Spec, ResultIsFinal
==============================================================================
