---------------------- MODULE BoundedEventQueueProofs ----------------------
(* What holds of BoundedEventQueue for any threads, capacity and policies. *)
EXTENDS BoundedEventQueue, SequenceTheorems, FiniteSetTheorems, TLAPS

(* Removing a waiter from the condition's list leaves a list of threads.   *)
LEMMA WaitersWithoutType ==
  ASSUME TypeOK, NEW t
  PROVE  WaitersWithout(t) \in Seq(Threads)
<1>1. CASE Contains(waiters, t)
  <2> DEFINE k == CHOOSE i \in 1 .. Len(waiters) : waiters[i] = t
  <2>1. k \in 1 .. Len(waiters)
    BY <1>1 DEF Contains
  <2>2. waiters \in Seq(Threads) /\ Len(waiters) \in Nat
    BY LenProperties DEF TypeOK
  <2>3. \A i \in 1 .. k - 1 : waiters[i] \in Threads
    BY <2>1, <2>2, ElementOfSeq
  <2>4. \A i \in k + 1 .. Len(waiters) : waiters[i] \in Threads
    BY <2>1, <2>2, ElementOfSeq
  <2>5. SubSeq(waiters, 1, k - 1) \in Seq(Threads)
    BY <2>1, <2>2, <2>3, SubSeqProperties
  <2>6. SubSeq(waiters, k + 1, Len(waiters)) \in Seq(Threads)
    BY <2>1, <2>2, <2>4, SubSeqProperties
  <2>7. QED
    BY <1>1, <2>5, <2>6, ConcatProperties DEF WaitersWithout, RemoveAt
<1>2. CASE ~Contains(waiters, t)
  BY <1>2 DEF WaitersWithout, TypeOK
<1>3. QED BY <1>1, <1>2

(* What each way of giving the lock up does to the waiter list and pc; the *)
(* only thread it can put in flight is the caller.                         *)
LEMMA WaitingTypes ==
  ASSUME TypeOK, NEW t \in Threads, NEW ws \in Seq(Threads), NEW s \in Status,
         WaitOn(t, ws) \/ NotifyOne(t, s, ws) \/ Leave(t, s, ws)
  PROVE  /\ waiters' \in Seq(Threads)
         /\ pc' \in [Threads -> Status]
         /\ \A u \in Threads : u # t /\ InFlight(u)' => InFlight(u)
<1>1. CASE WaitOn(t, ws)
  BY <1>1, AppendProperties DEF WaitOn, TypeOK, Status, InFlight
<1>2. CASE Leave(t, s, ws)
  BY <1>2 DEF Leave, TypeOK, InFlight
<1>3. CASE NotifyOne(t, s, ws)
  <2>1. CASE ws = <<>>
    BY <1>3, <2>1 DEF NotifyOne, TypeOK, InFlight
  <2>2. CASE ws # <<>>
    <3>1. Head(ws) \in Threads /\ Tail(ws) \in Seq(Threads)
      BY <2>2, HeadTailProperties
    <3>2. QED BY <1>3, <2>2, <3>1 DEF NotifyOne, TypeOK, Status, InFlight
  <2>3. QED BY <2>1, <2>2
<1>4. QED BY <1>1, <1>2, <1>3

(* notify_all leaves a list of threads, and the statuses it sets are       *)
(* statuses.                                                               *)
LEMMA WakeAllTypes ==
  ASSUME TypeOK, WakeAll
  PROVE  /\ waiters' \in Seq(Threads)
         /\ pc' \in [Threads -> Status]
         /\ \A u \in Threads : InFlight(u)' => InFlight(u)
BY EmptySeq DEF WakeAll, TypeOK, Status, InFlight
-----------------------------------------------------------------------------
(* The part of the state a put or get changes besides the waiter list.     *)
DataOK ==
  /\ items \in Seq(Item)
  /\ enqueued \in Nat /\ dequeued \in Nat /\ maxDepth \in Nat
  /\ droppedNewest \in Nat /\ droppedOldest \in Nat
  /\ got \in Seq(Item)
  /\ dropped \in Seq(Item)
  /\ refused \subseteq Item

(* A producer that is blocked has begun a put, so it has an item to store. *)
BlockedHasItem == \A p \in Producers : InFlight(p) => sent[p] # 0

IInv == TypeOK /\ BlockedHasItem /\ CountersBalance

(* Every outcome of put, get and get_nowait, whoever called and whichever  *)
(* waiters it leaves, preserves the types and the balance of the counters. *)
LEMMA OutcomesPreserve ==
  ASSUME DataOK, NEW t, NEW x \in Item, NEW ws,
         \/ Refuse(t, x, ws)
         \/ HasRoom /\ Store(t, x, ws)
         \/ RejectNewest(t, x, ws)
         \/ ~HasRoom /\ EvictOldest(t, x)
         \/ Take(t, ws)
         \/ ReturnClosed(t, ws)
         \/ UNCHANGED <<items, counters, history>>
  PROVE  DataOK' /\ (CountersBalance => CountersBalance')
<1> USE DEF counters, history, CountersBalance, DepthWithinCapacity, StatsAddUp
<1>1. Len(items) \in Nat /\ Len(got) \in Nat /\ Len(dropped) \in Nat
  BY LenProperties DEF DataOK
<1>2. CASE Refuse(t, x, ws)
  BY <1>2 DEF Refuse, DataOK
<1>3. CASE HasRoom /\ Store(t, x, ws)
  <2>1. items' \in Seq(Item) /\ Len(items') = Len(items) + 1
    BY <1>3, AppendProperties DEF Store, DataOK
  <2>2. Capacity \in Nat
    BY QueueAssumption
  <2>3. Len(items) + 1 <= Capacity
    BY <1>1, <1>3, <2>2 DEF HasRoom
  <2>4. DataOK'
    BY <1>1, <1>3, <2>1 DEF Store, DataOK
  <2>5. CountersBalance => CountersBalance'
    BY <1>1, <1>3, <2>1, <2>2, <2>3 DEF Store, DataOK
  <2>6. QED BY <2>4, <2>5
<1>4. CASE RejectNewest(t, x, ws)
  <2>1. dropped' \in Seq(Item) /\ Len(dropped') = Len(dropped) + 1
    BY <1>4, AppendProperties DEF RejectNewest, DataOK
  <2>2. DataOK'
    BY <1>1, <1>4, <2>1 DEF RejectNewest, DataOK
  <2>3. CountersBalance => CountersBalance'
    BY <1>1, <1>4, <2>1 DEF RejectNewest, DataOK
  <2>4. QED BY <2>2, <2>3
<1>5. CASE ~HasRoom /\ EvictOldest(t, x)
  <2>1. items # <<>>
    BY <1>1, <1>5, QueueAssumption, EmptySeq DEF HasRoom
  <2>2. /\ Head(items) \in Item /\ Tail(items) \in Seq(Item)
        /\ Len(Tail(items)) = Len(items) - 1
    BY <2>1, HeadTailProperties DEF DataOK
  <2>3. items' \in Seq(Item) /\ Len(items') = Len(items)
    BY <1>1, <1>5, <2>2, AppendProperties DEF EvictOldest
  <2>4. dropped' \in Seq(Item) /\ Len(dropped') = Len(dropped) + 1
    BY <1>5, <2>2, AppendProperties DEF EvictOldest, DataOK
  <2>5. DataOK'
    BY <1>1, <1>5, <2>3, <2>4 DEF EvictOldest, DataOK
  <2>6. /\ droppedOldest' = droppedOldest + 1 /\ enqueued' = enqueued + 1
        /\ UNCHANGED <<dequeued, droppedNewest, maxDepth, got>>
    BY <1>5 DEF EvictOldest
  <2>7. CountersBalance => CountersBalance'
    BY <1>1, <2>3, <2>4, <2>6, QueueAssumption DEF DataOK
  <2>8. QED BY <2>5, <2>7
<1>6. CASE Take(t, ws)
  <2>1. /\ Head(items) \in Item /\ Tail(items) \in Seq(Item)
        /\ Len(Tail(items)) = Len(items) - 1
    BY <1>6, HeadTailProperties DEF Take, DataOK
  <2>2. got' \in Seq(Item) /\ Len(got') = Len(got) + 1
    BY <1>6, <2>1, AppendProperties DEF Take, DataOK
  <2>3. /\ items' \in Seq(Item) /\ Len(items') = Len(items) - 1
        /\ dequeued' = dequeued + 1
        /\ UNCHANGED <<enqueued, droppedNewest, droppedOldest, maxDepth,
                       dropped, refused>>
    BY <1>6, <2>1 DEF Take
  <2>4. DataOK'
    BY <2>2, <2>3 DEF DataOK
  <2>5. CountersBalance => CountersBalance'
    BY <1>1, <2>2, <2>3, QueueAssumption DEF DataOK
  <2>6. QED BY <2>4, <2>5
<1>7. CASE ReturnClosed(t, ws) \/ UNCHANGED <<items, counters, history>>
  BY <1>7 DEF ReturnClosed, DataOK
<1>8. QED BY <1>2, <1>3, <1>4, <1>5, <1>6, <1>7
-----------------------------------------------------------------------------
(* A put, its late half, a get, its late half and a get_nowait each end in *)
(* one way of giving the lock up and one outcome.                          *)
LEMMA PutStep ==
  ASSUME IInv, NEW p \in Producers, Put(p)
  PROVE  IInv'
<1> USE QueueAssumption
<1> DEFINE x == <<p, sent[p] + 1>>
<1>1. p \in Threads /\ waiters \in Seq(Threads) /\ DataOK /\ TypeOK
  BY DEF Threads, IInv, TypeOK, DataOK
<1>2. x \in Item
  BY DEF Put, IInv, TypeOK, Item
<1>3. WaitOn(p, waiters) \/ \E s \in Status : NotifyOne(p, s, waiters) \/ Leave(p, s, waiters)
  BY DEF Put, Refuse, Store, RejectNewest, EvictOldest, Status
<1>4. /\ waiters' \in Seq(Threads) /\ pc' \in [Threads -> Status]
      /\ \A u \in Threads : u # p /\ InFlight(u)' => InFlight(u)
  BY <1>1, <1>3, WaitingTypes DEF Status
<1>5. \/ Refuse(p, x, waiters)
      \/ HasRoom /\ Store(p, x, waiters)
      \/ RejectNewest(p, x, waiters)
      \/ ~HasRoom /\ EvictOldest(p, x)
      \/ UNCHANGED <<items, counters, history>>
  BY DEF Put
<1>6. DataOK' /\ (CountersBalance => CountersBalance')
  BY <1>1, <1>2, <1>5, OutcomesPreserve
<1>7. /\ sent' \in [Producers -> 0 .. MaxItems] /\ sent'[p] # 0
      /\ \A q \in Producers \ {p} : sent'[q] = sent[q]
  BY <1>1 DEF Put, TypeOK
<1>8. timed' \in [Threads -> BOOLEAN] /\ overflow' \in Policies /\ closed' \in BOOLEAN
  BY <1>1 DEF Put, TypeOK
<1>9. TypeOK'
  BY <1>4, <1>6, <1>7, <1>8 DEF TypeOK, DataOK
<1>10. BlockedHasItem'
  BY <1>4, <1>7 DEF BlockedHasItem, IInv, Threads
<1>11. QED BY <1>6, <1>9, <1>10 DEF IInv

(* A put that resumes from its wait re-checks the queue and preserves      *)
(* IInv.                                                                   *)
LEMMA PutResumeStep ==
  ASSUME IInv, NEW p \in Producers, PutResume(p)
  PROVE  IInv'
<1> DEFINE x == Current(p)
           ws == WaitersWithout(p)
<1>1. p \in Threads /\ ws \in Seq(Threads) /\ DataOK /\ TypeOK
  BY WaitersWithoutType DEF Threads, IInv, TypeOK, DataOK
<1>2. x \in Item
  <2>1. sent[p] # 0
    BY DEF PutResume, Awake, IInv, BlockedHasItem, InFlight
  <2>2. QED BY <1>1, <2>1, QueueAssumption DEF Current, TypeOK, Item
<1>3. WaitOn(p, ws) \/ \E s \in Status : NotifyOne(p, s, ws) \/ Leave(p, s, ws)
  BY DEF PutResume, Refuse, Store, RejectNewest, Status
<1>4. /\ waiters' \in Seq(Threads) /\ pc' \in [Threads -> Status]
      /\ \A u \in Threads : u # p /\ InFlight(u)' => InFlight(u)
  BY <1>1, <1>3, WaitingTypes DEF Status
<1>5. \/ Refuse(p, x, ws)
      \/ HasRoom /\ Store(p, x, ws)
      \/ RejectNewest(p, x, ws)
      \/ UNCHANGED <<items, counters, history>>
  BY DEF PutResume
<1>6. DataOK' /\ (CountersBalance => CountersBalance')
  BY <1>1, <1>2, <1>5, OutcomesPreserve
<1>7. UNCHANGED <<overflow, closed, timed, sent>> /\ InFlight(p)
  BY DEF PutResume, Awake, InFlight
<1>8. TypeOK'
  BY <1>1, <1>4, <1>6, <1>7 DEF TypeOK, DataOK
<1>9. BlockedHasItem'
  BY <1>4, <1>7 DEF BlockedHasItem, IInv, Threads
<1>10. QED BY <1>6, <1>8, <1>9 DEF IInv

(* get, get_nowait, and a get that resumes from its wait, preserve IInv.   *)
LEMMA GetSteps ==
  ASSUME IInv, NEW c \in Consumers, Get(c) \/ GetResume(c) \/ GetNowait(c)
  PROVE  IInv'
<1>1. PICK ws \in Seq(Threads) :
        /\ \/ Take(c, ws) \/ ReturnClosed(c, ws)
           \/ UNCHANGED <<items, counters, history>>
        /\ WaitOn(c, ws) \/ \E s \in Status : NotifyOne(c, s, ws) \/ Leave(c, s, ws)
  <2>1. waiters \in Seq(Threads) /\ WaitersWithout(c) \in Seq(Threads)
    BY WaitersWithoutType DEF IInv, TypeOK
  <2>2. QED
    BY <2>1 DEF Get, GetResume, GetNowait, Take, ReturnClosed, Status
<1>2. c \in Threads /\ DataOK /\ TypeOK
  BY DEF Threads, IInv, TypeOK, DataOK
<1>3. /\ waiters' \in Seq(Threads) /\ pc' \in [Threads -> Status]
      /\ \A u \in Threads : u # c /\ InFlight(u)' => InFlight(u)
  BY <1>1, <1>2, WaitingTypes DEF Status
<1>4. DataOK' /\ (CountersBalance => CountersBalance')
  <2>1. CASE Item = {}
    <3>1. items = <<>>
      BY <1>2, <2>1, HeadTailProperties DEF DataOK
    <3>2. UNCHANGED <<items, counters, history>>
      BY <1>1, <3>1 DEF Take, ReturnClosed
    <3>3. QED BY <1>2, <3>2 DEF DataOK, CountersBalance, DepthWithinCapacity,
                                StatsAddUp, counters, history
  <2>2. CASE Item # {}
    BY <1>1, <1>2, <2>2, OutcomesPreserve
  <2>3. QED BY <2>1, <2>2
<1>5. /\ UNCHANGED <<overflow, closed, sent>>
      /\ timed' \in [Threads -> BOOLEAN]
  BY <1>2, QueueAssumption DEF Get, GetResume, GetNowait, TypeOK
<1>6. TypeOK'
  BY <1>2, <1>3, <1>4, <1>5 DEF TypeOK, DataOK
<1>7. BlockedHasItem'
  <2>1. \A p \in Producers : p \in Threads /\ p # c
    BY QueueAssumption DEF Threads
  <2>2. QED BY <1>3, <1>5, <2>1 DEF BlockedHasItem, IInv
<1>8. QED BY <1>4, <1>6, <1>7 DEF IInv

(* The timeout of a waiting thread, close and drain preserve IInv.         *)
LEMMA OtherSteps ==
  ASSUME IInv, (\E t \in Threads : Timeout(t)) \/ Close \/ Drain
  PROVE  IInv'
<1> USE DEF counters, history
<1>0. TypeOK
  BY DEF IInv
<1>1. CASE \E t \in Threads : Timeout(t)
  <2>1. PICK t \in Threads : Timeout(t)
    BY <1>1
  <2>2. pc' \in [Threads -> Status] /\ \A u \in Threads : InFlight(u)' => InFlight(u)
    BY <1>0, <2>1 DEF Timeout, TypeOK, Status, InFlight
  <2>3. TypeOK'
    BY <1>0, <2>1, <2>2 DEF Timeout, TypeOK
  <2>4. QED
    BY <2>1, <2>2, <2>3 DEF Timeout, IInv, BlockedHasItem, CountersBalance,
       DepthWithinCapacity, StatsAddUp, Threads
<1>2. CASE Close
  <2>1. /\ waiters' \in Seq(Threads) /\ pc' \in [Threads -> Status]
        /\ \A u \in Threads : InFlight(u)' => InFlight(u)
    BY <1>0, <1>2, WakeAllTypes DEF Close
  <2>2. TypeOK'
    BY <1>0, <1>2, <2>1 DEF Close, TypeOK
  <2>3. QED
    BY <1>2, <2>1, <2>2 DEF Close, IInv, BlockedHasItem, CountersBalance,
       DepthWithinCapacity, StatsAddUp, Threads
<1>3. CASE Drain
  <2>1. /\ waiters' \in Seq(Threads) /\ pc' \in [Threads -> Status]
        /\ \A u \in Threads : InFlight(u)' => InFlight(u)
    BY <1>0, <1>3, WakeAllTypes DEF Drain
  <2>2. /\ Len(items) \in Nat /\ Len(got) \in Nat
        /\ got' \in Seq(Item) /\ Len(got') = Len(got) + Len(items)
    BY <1>0, <1>3, LenProperties, ConcatProperties DEF Drain, TypeOK
  <2>3. /\ items' \in Seq(Item) /\ Len(items') = 0
    BY <1>3, EmptySeq DEF Drain
  <2>4. /\ dequeued' = dequeued + Len(items)
        /\ UNCHANGED <<overflow, closed, timed, sent, enqueued, droppedNewest,
                       droppedOldest, maxDepth, dropped, refused>>
    BY <1>3 DEF Drain
  <2>5. TypeOK'
    BY <1>0, <2>1, <2>2, <2>3, <2>4 DEF TypeOK
  <2>6. CountersBalance'
    <3>1. DepthWithinCapacity'
      BY <1>0, <2>3, <2>4 DEF IInv, CountersBalance, DepthWithinCapacity, TypeOK
    <3>2. StatsAddUp
      BY DEF IInv, CountersBalance
    <3>3. enqueued' = dequeued' + droppedOldest' + Len(items')
      BY <1>0, <2>2, <2>3, <2>4, <3>2 DEF StatsAddUp, TypeOK
    <3>4. dequeued' = Len(got') /\ droppedNewest' + droppedOldest' = Len(dropped')
      BY <2>2, <2>4, <3>2 DEF StatsAddUp
    <3>5. QED BY <3>1, <3>3, <3>4 DEF CountersBalance, StatsAddUp
  <2>7. BlockedHasItem'
    BY <2>1, <2>4 DEF IInv, BlockedHasItem, Threads
  <2>8. QED BY <2>5, <2>6, <2>7 DEF IInv
<1>4. QED BY <1>1, <1>2, <1>3

(* Every reachable state of the queue satisfies IInv.                      *)
THEOREM InductiveInvariant == Spec => []IInv
<1>1. Init => IInv
  <2> SUFFICES ASSUME Init PROVE IInv
    OBVIOUS
  <2>1. TypeOK
    <3>1. <<>> \in Seq(Item) /\ <<>> \in Seq(Threads)
      BY EmptySeq
    <3>2. pc \in [Threads -> Status] /\ timed \in [Threads -> BOOLEAN]
      BY DEF Init, Status
    <3>3. sent \in [Producers -> 0 .. MaxItems]
      BY QueueAssumption DEF Init
    <3>4. QED BY <3>1, <3>2, <3>3 DEF Init, TypeOK
  <2>2. BlockedHasItem
    BY DEF Init, BlockedHasItem, InFlight, Threads
  <2>3. CountersBalance
    BY QueueAssumption, EmptySeq
       DEF Init, CountersBalance, DepthWithinCapacity, StatsAddUp
  <2>4. QED BY <2>1, <2>2, <2>3 DEF IInv
<1>2. IInv /\ [Next]_vars => IInv'
  <2> SUFFICES ASSUME IInv, [Next]_vars PROVE IInv'
    OBVIOUS
  <2>1. CASE Next
    BY <2>1, PutStep, PutResumeStep, GetSteps, OtherSteps DEF Next
  <2>2. CASE UNCHANGED vars
    BY <2>2 DEF vars, counters, history, IInv, TypeOK, BlockedHasItem, InFlight,
       CountersBalance, DepthWithinCapacity, StatsAddUp
  <2>3. QED BY <2>1, <2>2
<1>3. QED BY <1>1, <1>2, PTL DEF Spec

(* The state of the queue keeps its types.                                 *)
THEOREM TypeCorrect == Spec => []TypeOK
<1>1. IInv => TypeOK
  BY DEF IInv
<1>2. QED BY <1>1, InductiveInvariant, PTL

(* The queue never exceeds its capacity, under any policy and any mix of   *)
(* threads, and max_depth never understates what it held.                  *)
THEOREM CapacityHolds == Spec => []DepthWithinCapacity
<1>1. IInv => DepthWithinCapacity
  BY DEF IInv, CountersBalance
<1>2. QED BY <1>1, InductiveInvariant, PTL

(* stats accounts for every item: nothing enters or leaves uncounted.      *)
THEOREM CountersAlwaysBalance == Spec => []CountersBalance
<1>1. IInv => CountersBalance
  BY DEF IInv, CountersBalance
<1>2. QED BY <1>1, InductiveInvariant, PTL

(* Only a put that stores its item raises enqueued, and none does so once  *)
(* the queue is closed: blocked ones re-check _closed when they resume.    *)
THEOREM NothingEnters == Spec => NothingEntersAfterClose
<1> DEFINE Shut == closed => enqueued' = enqueued
<1>1. [Next]_vars => [Shut]_vars
  <2> SUFFICES ASSUME Next, closed PROVE enqueued' = enqueued
    OBVIOUS
  <2> USE DEF counters, history
  <2>1. ASSUME NEW p \in Producers, Put(p) \/ PutResume(p) PROVE enqueued' = enqueued
    BY <2>1 DEF Put, PutResume, Refuse
  <2>2. ASSUME NEW c \in Consumers, Get(c) \/ GetResume(c) \/ GetNowait(c)
        PROVE  enqueued' = enqueued
    BY <2>2 DEF Get, GetResume, GetNowait, Take, ReturnClosed
  <2>3. ASSUME Close \/ Drain \/ \E t \in Threads : Timeout(t) PROVE enqueued' = enqueued
    BY <2>3 DEF Close, Drain, Timeout
  <2>4. QED BY <2>1, <2>2, <2>3 DEF Next
<1>2. QED BY <1>1, PTL DEF Spec, NothingEntersAfterClose

(* A consumer leaves only when it was told CLOSED: nothing but its own get *)
(* makes a thread "done".                                                  *)
LEMMA DoneStays ==
  ASSUME pc \in [Threads -> Status], NEW c \in Threads, pc'[c] = "done"
  PROVE  /\ WakeAll => pc[c] = "done"
         /\ \A t \in Threads, s \in Status, ws \in Seq(Threads) :
              /\ s # "done" \/ t # c
              /\ Leave(t, s, ws) \/ NotifyOne(t, s, ws) \/ WaitOn(t, ws)
              => pc[c] = "done"
<1>1. WakeAll => pc[c] = "done"
  BY DEF WakeAll
<1>2. ASSUME NEW t \in Threads, NEW s \in Status, NEW ws \in Seq(Threads),
             s # "done" \/ t # c,
             Leave(t, s, ws) \/ NotifyOne(t, s, ws) \/ WaitOn(t, ws)
      PROVE  pc[c] = "done"
  <2>1. CASE ws = <<>> \/ ~NotifyOne(t, s, ws)
    BY <1>2, <2>1 DEF Leave, NotifyOne, WaitOn
  <2>2. CASE ws # <<>> /\ NotifyOne(t, s, ws)
    <3>1. Head(ws) \in Threads
      BY <2>2, HeadTailProperties
    <3>2. QED BY <1>2, <2>2, <3>1 DEF NotifyOne, Status
  <2>3. QED BY <2>1, <2>2
<1>3. QED BY <1>1, <1>2

(* No item is stranded: get answers CLOSED only on a closed, empty queue,  *)
(* and it stays closed and empty from then on.                             *)
THEOREM NothingStranded == Spec => []NothingLeftBehind
<1>1. Init => NothingLeftBehind
  BY DEF Init, NothingLeftBehind, Threads
<1>2. TypeOK /\ NothingLeftBehind /\ [Next]_vars => NothingLeftBehind'
  <2> SUFFICES ASSUME TypeOK, NothingLeftBehind, [Next]_vars,
                      NEW c \in Consumers, pc'[c] = "done"
               PROVE  closed' /\ items' = <<>>
    BY DEF NothingLeftBehind
  <2> USE DEF counters, history
  <2>0. /\ c \in Threads /\ c \notin Producers /\ pc \in [Threads -> Status]
        /\ waiters \in Seq(Threads)
        /\ {"idle", "done"} \subseteq Status
    BY QueueAssumption DEF Threads, TypeOK, Status
  <2>1. pc[c] = "done" => closed /\ items = <<>>
    BY DEF NothingLeftBehind
  <2>2. CASE UNCHANGED vars
    BY <2>1, <2>2 DEF vars
  <2>3. ASSUME NEW p \in Producers, Put(p) \/ PutResume(p)
        PROVE  closed' /\ items' = <<>>
    <3>1. p \in Threads /\ p # c /\ WaitersWithout(p) \in Seq(Threads)
      BY <2>0, WaitersWithoutType DEF Threads, TypeOK
    <3>2. pc[c] = "done"
      BY <2>0, <2>3, <3>1, DoneStays
      DEF Put, PutResume, Refuse, Store, RejectNewest, EvictOldest
    <3>3. QED BY <2>1, <2>3, <3>2 DEF Put, PutResume, Refuse
  <2>4. ASSUME NEW d \in Consumers, Get(d) \/ GetResume(d) \/ GetNowait(d)
        PROVE  closed' /\ items' = <<>>
    <3>1. d \in Threads /\ WaitersWithout(d) \in Seq(Threads)
      BY <2>0, WaitersWithoutType DEF Threads, TypeOK
    <3>2. CASE ReturnClosed(d, waiters) \/ ReturnClosed(d, WaitersWithout(d))
      BY <2>4, <3>2 DEF ReturnClosed, Get, GetResume, GetNowait, Take
    <3>3. CASE ~(ReturnClosed(d, waiters) \/ ReturnClosed(d, WaitersWithout(d)))
      <4>1. pc[c] = "done"
        BY <2>0, <2>4, <3>1, <3>3, DoneStays DEF Get, GetResume, GetNowait, Take
      <4>2. QED BY <2>1, <2>4, <3>3, <4>1 DEF Get, GetResume, GetNowait, Take
    <3>4. QED BY <3>2, <3>3
  <2>5. CASE Close \/ Drain
    BY <2>0, <2>1, <2>5, DoneStays DEF Close, Drain
  <2>6. ASSUME NEW t \in Threads, Timeout(t) PROVE closed' /\ items' = <<>>
    <3>1. pc[c] = "done"
      BY <2>0, <2>6 DEF Timeout
    <3>2. QED BY <2>1, <2>6, <3>1 DEF Timeout
  <2>7. QED BY <2>2, <2>3, <2>4, <2>5, <2>6 DEF Next
<1>3. QED BY <1>1, <1>2, TypeCorrect, PTL DEF Spec
-----------------------------------------------------------------------------
(* How often an item occurs in a list, and how that changes.               *)
LEMMA OccurrencesType ==
  ASSUME NEW s \in Seq(Item), NEW x
  PROVE  /\ Occurrences(s, x) \in Nat
         /\ Occurrences(s, x) = 0 <=> \A i \in DOMAIN s : s[i] # x
<1> DEFINE At == {i \in DOMAIN s : s[i] = x}
<1>1. Len(s) \in Nat /\ DOMAIN s = 1 .. Len(s)
  BY LenProperties
<1>2. IsFiniteSet(At)
  <2>1. IsFiniteSet(1 .. Len(s)) /\ At \in SUBSET (1 .. Len(s))
    BY <1>1, FS_Interval
  <2> QED BY <2>1, FS_Subset
<1>3. Cardinality(At) \in Nat /\ (Cardinality(At) = 0 <=> At = {})
  BY <1>2, FS_CardinalityType, FS_EmptySet
<1> QED BY <1>3 DEF Occurrences

(* Joining two lists adds their occurrences up.                            *)
LEMMA OccurrencesConcat ==
  ASSUME NEW s \in Seq(Item), NEW t \in Seq(Item), NEW x
  PROVE  Occurrences(s \o t, x) = Occurrences(s, x) + Occurrences(t, x)
<1> DEFINE At(r) == {i \in DOMAIN r : r[i] = x}
           Moved == {Len(s) + i : i \in At(t)}
           shift == [i \in At(t) |-> Len(s) + i]
<1>1. /\ Len(s) \in Nat /\ DOMAIN s = 1 .. Len(s)
      /\ Len(t) \in Nat /\ DOMAIN t = 1 .. Len(t)
      /\ s \o t \in Seq(Item) /\ Len(s \o t) = Len(s) + Len(t)
      /\ \A i \in 1 .. Len(s) + Len(t) : (s \o t)[i] = IF i <= Len(s) THEN s[i] ELSE t[i - Len(s)]
  BY LenProperties, ConcatProperties
<1>2. DOMAIN (s \o t) = 1 .. Len(s) + Len(t)
  BY <1>1, LenProperties
<1>3. IsFiniteSet(At(s)) /\ IsFiniteSet(At(t))
  <2>1. At(s) \in SUBSET (1 .. Len(s)) /\ At(t) \in SUBSET (1 .. Len(t))
    BY <1>1
  <2>2. IsFiniteSet(1 .. Len(s)) /\ IsFiniteSet(1 .. Len(t))
    BY <1>1, FS_Interval
  <2> QED BY <2>1, <2>2, FS_Subset
<1>4. IsFiniteSet(Moved) /\ Cardinality(Moved) = Cardinality(At(t))
  <2>1. shift \in Bijection(At(t), Moved)
    BY <1>1 DEF Bijection, Injection, IsInjective, Surjection
  <2> QED BY <1>3, <2>1, FS_Bijection DEF ExistsBijection
<1>5. At(s \o t) = At(s) \cup Moved
  <2>1. ASSUME NEW i \in At(s \o t) PROVE i \in At(s) \cup Moved
    <3>1. i \in 1 .. Len(s) + Len(t) /\ (s \o t)[i] = x
      BY <1>2
    <3>2. CASE i <= Len(s)
      BY <1>1, <3>1, <3>2
    <3>3. CASE ~ (i <= Len(s))
      <4>1. i - Len(s) \in 1 .. Len(t) /\ t[i - Len(s)] = x /\ i = Len(s) + (i - Len(s))
        BY <1>1, <3>1, <3>3
      <4> QED BY <1>1, <4>1
    <3> QED BY <3>2, <3>3
  <2>2. ASSUME NEW i \in At(s) PROVE i \in At(s \o t)
    BY <1>1, <1>2
  <2>3. ASSUME NEW j \in At(t) PROVE Len(s) + j \in At(s \o t)
    <3>1. j \in 1 .. Len(t) /\ t[j] = x
      BY <1>1
    <3>2. Len(s) + j \in 1 .. Len(s) + Len(t) /\ ~ (Len(s) + j <= Len(s)) /\ (Len(s) + j) - Len(s) = j
      BY <1>1, <3>1
    <3> QED BY <1>1, <1>2, <3>1, <3>2
  <2> QED BY <2>1, <2>2, <2>3
<1>6. At(s) \cap Moved = {}
  BY <1>1
<1>7. Cardinality(At(s) \cup Moved) = Cardinality(At(s)) + Cardinality(At(t))
  <2>1. /\ Cardinality(At(s)) \in Nat /\ Cardinality(Moved) \in Nat
        /\ Cardinality(At(s) \cap Moved) = 0
    BY <1>3, <1>4, <1>6, FS_CardinalityType, FS_EmptySet
  <2>2. Cardinality(At(s) \cup Moved) = Cardinality(At(s)) + Cardinality(Moved) - Cardinality(At(s) \cap Moved)
    BY <1>3, <1>4, FS_Union
  <2> HIDE DEF At, Moved
  <2> QED BY <1>4, <2>1, <2>2
<1> QED BY <1>5, <1>7 DEF Occurrences

(* 1 if p holds, 0 otherwise.                                              *)
One(p) == IF p THEN 1 ELSE 0

(* A list of one item holds that item once and no other.                   *)
LEMMA OccurrencesSingle ==
  ASSUME NEW y \in Item, NEW x
  PROVE  <<y>> \in Seq(Item) /\ Occurrences(<<y>>, x) = One(x = y)
<1> DEFINE At == {i \in DOMAIN <<y>> : <<y>>[i] = x}
<1>1. At = IF x = y THEN {1} ELSE {}
  OBVIOUS
<1>2. Occurrences(<<y>>, x) = Cardinality(At)
  BY DEF Occurrences
<1> HIDE DEF At
<1>3. Cardinality({}) = 0 /\ Cardinality({1}) = 1
  BY FS_EmptySet, FS_Singleton
<1>4. Cardinality(At) = One(x = y)
  BY <1>1, <1>3 DEF One
<1>5. <<y>> \in Seq(Item)
  OBVIOUS
<1> QED BY <1>2, <1>4, <1>5

(* Appending an item adds one occurrence of it.                            *)
LEMMA OccurrencesAppend ==
  ASSUME NEW s \in Seq(Item), NEW y \in Item, NEW x
  PROVE  Occurrences(Append(s, y), x) = Occurrences(s, x) + One(x = y)
<1> DEFINE single == <<y>>
<1>1. Append(s, y) = s \o single
  BY AppendIsConcat
<1>2. single \in Seq(Item) /\ Occurrences(single, x) = One(x = y)
  BY OccurrencesSingle
<1> HIDE DEF single
<1>3. Occurrences(s \o single, x) = Occurrences(s, x) + Occurrences(single, x)
  BY <1>2, OccurrencesConcat
<1> QED BY <1>1, <1>2, <1>3

(* A list is its head followed by its tail.                                *)
LEMMA HeadThenTail ==
  ASSUME NEW s \in Seq(Item), s # <<>>
  PROVE  s = <<Head(s)>> \o Tail(s)
<1> DEFINE single == <<Head(s)>>
<1>0. Head(s) \in Item /\ Tail(s) \in Seq(Item) /\ single \in Seq(Item) /\ <<>> \in Seq(Item)
  BY HeadTailProperties, EmptySeq
<1>1. Len(single) = 1 /\ single[1] = Head(s)
  OBVIOUS
<1>2. /\ Len(s) \in Nat \ {0} /\ Len(Tail(s)) = Len(s) - 1 /\ s[1] = Head(s)
      /\ \A i \in 1 .. Len(Tail(s)) : Tail(s)[i] = s[i+1]
  BY HeadTailProperties, EmptySeq
<1> DEFINE r == single \o Tail(s)
<1>3. /\ r \in Seq(Item) /\ Len(r) = Len(s)
      /\ \A i \in 1 .. Len(s) : r[i] = IF i <= 1 THEN single[i] ELSE Tail(s)[i - 1]
  BY <1>0, <1>1, <1>2, ConcatProperties
<1>4. \A i \in 1 .. Len(s) : r[i] = s[i]
  <2> SUFFICES ASSUME NEW i \in 1 .. Len(s) PROVE r[i] = s[i]
    OBVIOUS
  <2>1. CASE i = 1
    BY <1>1, <1>2, <1>3, <2>1
  <2>2. CASE i # 1
    <3>1. i - 1 \in 1 .. Len(Tail(s)) /\ (i - 1) + 1 = i /\ ~ (i <= 1)
      BY <1>2, <2>2
    <3> QED BY <1>2, <1>3, <3>1
  <2> QED BY <2>1, <2>2
<1> HIDE DEF r
<1>5. r = s
  BY <1>3, <1>4, SeqEqual
<1> QED BY <1>5 DEF r

(* Taking the head off takes one occurrence of it.                         *)
LEMMA OccurrencesTail ==
  ASSUME NEW s \in Seq(Item), s # <<>>, NEW x
  PROVE  Occurrences(s, x) = Occurrences(Tail(s), x) + One(x = Head(s))
<1> DEFINE single == <<Head(s)>>
<1>1. Head(s) \in Item /\ Tail(s) \in Seq(Item) /\ single \in Seq(Item) /\ <<>> \in Seq(Item)
  BY HeadTailProperties, EmptySeq
<1>2. s = single \o Tail(s)
  BY HeadThenTail
<1>3. Occurrences(single, x) = One(x = Head(s))
  BY <1>1, OccurrencesSingle
<1>4. Occurrences(single \o Tail(s), x) = Occurrences(single, x) + Occurrences(Tail(s), x)
  BY <1>1, OccurrencesConcat
<1> HIDE DEF single
<1>5. Occurrences(single, x) \in Nat /\ Occurrences(Tail(s), x) \in Nat
  BY <1>1, OccurrencesType
<1>6. Occurrences(s, x) = Occurrences(single, x) + Occurrences(Tail(s), x)
  BY <1>2, <1>4
<1> QED BY <1>3, <1>5, <1>6
-----------------------------------------------------------------------------
(* The places an item can be in other than a producer's hands, and whether *)
(* it is there.                                                            *)
Settled(x) ==
  Occurrences(items, x) + Occurrences(got, x) + Occurrences(dropped, x) + One(x \in refused)
InHand(x) == InFlight(x[1]) /\ x[2] = sent[x[1]]

(* An item is in one place if its put has begun, and in none if not.       *)
EachOnce == \A x \in Item : Settled(x) + One(InHand(x)) = One(x[2] <= sent[x[1]])

(* Items keep being counted by natural numbers.                            *)
LEMMA SettledTypes ==
  ASSUME DataOK, NEW x
  PROVE  /\ Occurrences(items, x) \in Nat /\ Occurrences(got, x) \in Nat
         /\ Occurrences(dropped, x) \in Nat /\ One(x \in refused) \in Nat /\ Settled(x) \in Nat
BY OccurrencesType DEF DataOK, Settled, One

(* However a put ends, its item and no other is settled.                   *)
LEMMA PutSettles ==
  ASSUME DataOK, NEW t, NEW y \in Item, NEW ws, y \notin refused,
         \/ Refuse(t, y, ws) \/ Store(t, y, ws) \/ RejectNewest(t, y, ws)
         \/ ~HasRoom /\ EvictOldest(t, y),
         NEW x \in Item
  PROVE  Settled(x)' = Settled(x) + One(x = y)
<1> USE DEF counters, history
<1> DEFINE i == Occurrences(items, x)
           g == Occurrences(got, x)
           d == Occurrences(dropped, x)
           r == One(x \in refused)
           e == One(x = y)
<1>1. i \in Nat /\ g \in Nat /\ d \in Nat /\ r \in Nat /\ e \in Nat
  BY SettledTypes DEF One
<1>2. Settled(x) = i + g + d + r
  BY DEF Settled
<1>3. Settled(x)' = Occurrences(items', x) + Occurrences(got', x) + Occurrences(dropped', x) + One(x \in refused')
  BY DEF Settled
<1>4. items \in Seq(Item) /\ got \in Seq(Item) /\ dropped \in Seq(Item)
  BY DEF DataOK
<1>5. CASE Refuse(t, y, ws)
  <2>1. items' = items /\ got' = got /\ dropped' = dropped /\ refused' = refused \cup {y}
    BY <1>5 DEF Refuse
  <2>2. One(x \in refused') = r + e
    BY <2>1 DEF One
  <2>3. Settled(x)' = i + g + d + (r + e)
    BY <1>3, <2>1, <2>2
  <2> HIDE DEF i, g, d, r, e
  <2> QED BY <1>1, <1>2, <2>3 DEF e
<1>6. CASE Store(t, y, ws)
  <2>1. items' = Append(items, y) /\ got' = got /\ dropped' = dropped /\ refused' = refused
    BY <1>6 DEF Store
  <2>2. Occurrences(items', x) = i + e
    BY <1>4, <2>1, OccurrencesAppend
  <2>3. Settled(x)' = (i + e) + g + d + r
    BY <1>3, <2>1, <2>2
  <2> HIDE DEF i, g, d, r, e
  <2> QED BY <1>1, <1>2, <2>3 DEF e
<1>7. CASE RejectNewest(t, y, ws)
  <2>1. items' = items /\ got' = got /\ dropped' = Append(dropped, y) /\ refused' = refused
    BY <1>7 DEF RejectNewest
  <2>2. Occurrences(dropped', x) = d + e
    BY <1>4, <2>1, OccurrencesAppend
  <2>3. Settled(x)' = i + g + (d + e) + r
    BY <1>3, <2>1, <2>2
  <2> HIDE DEF i, g, d, r, e
  <2> QED BY <1>1, <1>2, <2>3 DEF e
<1>8. CASE ~HasRoom /\ EvictOldest(t, y)
  <2> DEFINE u == Tail(items)
             h == One(x = Head(items))
             j == Occurrences(u, x)
  <2>1. /\ items' = Append(u, y) /\ got' = got /\ dropped' = Append(dropped, Head(items))
        /\ refused' = refused
    BY <1>8 DEF EvictOldest
  <2>2. items # <<>>
    BY <1>8, QueueAssumption, EmptySeq DEF HasRoom
  <2>3. Head(items) \in Item /\ u \in Seq(Item)
    BY <1>4, <2>2, HeadTailProperties
  <2>4. i = j + h
    BY <1>4, <2>2, OccurrencesTail
  <2>5. Occurrences(items', x) = j + e
    <3> HIDE DEF u
    <3>1. Occurrences(Append(u, y), x) = j + e
      BY <2>3, OccurrencesAppend
    <3> QED BY <2>1, <3>1
  <2>6. Occurrences(dropped', x) = d + h
    BY <1>4, <2>1, <2>3, OccurrencesAppend
  <2>7. j \in Nat /\ h \in Nat
    BY <2>3, OccurrencesType DEF One
  <2>8. Settled(x)' = (j + e) + g + (d + h) + r
    BY <1>3, <2>1, <2>5, <2>6
  <2> HIDE DEF i, g, d, r, e, j, h, u
  <2>9. (j + e) + g + (d + h) + r = ((j + h) + g + d + r) + e
    BY <1>1, <2>7
  <2> QED BY <1>2, <2>4, <2>8, <2>9 DEF e
<1> QED BY <1>5, <1>6, <1>7, <1>8

(* Taking items out of the queue settles and unsettles none.               *)
LEMMA TakeKeeps ==
  ASSUME DataOK, NEW t, NEW ws,
         \/ Take(t, ws) \/ ReturnClosed(t, ws) \/ Drain
         \/ UNCHANGED <<items, counters, history>>,
         NEW x \in Item
  PROVE  Settled(x)' = Settled(x)
<1> USE DEF counters, history
<1> DEFINE i == Occurrences(items, x)
           g == Occurrences(got, x)
           d == Occurrences(dropped, x)
           r == One(x \in refused)
<1>1. i \in Nat /\ g \in Nat /\ d \in Nat /\ r \in Nat
  BY SettledTypes
<1>2. Settled(x) = i + g + d + r
  BY DEF Settled
<1>3. Settled(x)' = Occurrences(items', x) + Occurrences(got', x) + Occurrences(dropped', x) + One(x \in refused')
  BY DEF Settled
<1>4. items \in Seq(Item) /\ got \in Seq(Item)
  BY DEF DataOK
<1>5. CASE Take(t, ws)
  <2> DEFINE u == Tail(items)
             h == One(x = Head(items))
             j == Occurrences(u, x)
  <2>1. /\ items # <<>> /\ items' = u /\ got' = Append(got, Head(items))
        /\ dropped' = dropped /\ refused' = refused
    BY <1>5 DEF Take
  <2>2. Head(items) \in Item /\ u \in Seq(Item)
    BY <1>4, <2>1, HeadTailProperties
  <2>3. i = j + h /\ Occurrences(got', x) = g + h
    BY <1>4, <2>1, <2>2, OccurrencesTail, OccurrencesAppend
  <2>4. j \in Nat /\ h \in Nat
    BY <2>2, OccurrencesType DEF One
  <2>5. Settled(x)' = j + (g + h) + d + r
    BY <1>3, <2>1, <2>3
  <2> HIDE DEF i, g, d, r, j, h, u
  <2>6. j + (g + h) + d + r = (j + h) + g + d + r
    BY <1>1, <2>4
  <2> QED BY <1>2, <2>3, <2>5, <2>6
<1>6. CASE Drain
  <2>1. items' = <<>> /\ got' = got \o items /\ dropped' = dropped /\ refused' = refused
    BY <1>6 DEF Drain
  <2>2. Occurrences(items', x) = 0
    <3>1. <<>> \in Seq(Item) /\ DOMAIN <<>> = {}
      BY EmptySeq
    <3> QED BY <2>1, <3>1, OccurrencesType
  <2>3. Occurrences(got', x) = g + i
    BY <1>4, <2>1, OccurrencesConcat
  <2>4. Settled(x)' = 0 + (g + i) + d + r
    BY <1>3, <2>1, <2>2, <2>3
  <2> HIDE DEF i, g, d, r
  <2> QED BY <1>1, <1>2, <2>4
<1>7. CASE ReturnClosed(t, ws) \/ UNCHANGED <<items, counters, history>>
  BY <1>7 DEF ReturnClosed, Settled
<1> QED BY <1>5, <1>6, <1>7
-----------------------------------------------------------------------------
(* The items taken and those still queued, in order.                       *)
Line == got \o items

(* The line consists of items.                                             *)
LEMMA LineType ==
  ASSUME DataOK
  PROVE  /\ Line \in Seq(Item) /\ DOMAIN Line = 1 .. Len(got) + Len(items)
         /\ Len(got) \in Nat /\ Len(items) \in Nat
         /\ \A k \in 1 .. Len(got) + Len(items) :
              /\ Line[k] = IF k <= Len(got) THEN got[k] ELSE items[k - Len(got)]
              /\ Line[k] \in Item
<1>1. got \in Seq(Item) /\ items \in Seq(Item)
  BY DEF DataOK
<1>2. /\ Line \in Seq(Item) /\ Len(Line) = Len(got) + Len(items)
      /\ \A k \in 1 .. Len(got) + Len(items) : Line[k] = IF k <= Len(got) THEN got[k] ELSE items[k - Len(got)]
  BY <1>1, ConcatProperties DEF Line
<1>3. /\ Len(got) \in Nat /\ Len(items) \in Nat /\ DOMAIN Line = 1 .. Len(Line)
      /\ \A k \in 1 .. Len(Line) : Line[k] \in Item
  BY <1>1, <1>2, LenProperties, ElementOfSeq
<1> QED BY <1>2, <1>3

(* What is in the line has been sent, and is in nobody's hands.            *)
LEMMA LineIsSent ==
  ASSUME TypeOK, EachOnce, NEW k \in DOMAIN Line
  PROVE  Line[k] \in Item /\ Line[k][2] <= sent[Line[k][1]] /\ ~InHand(Line[k])
<1> DEFINE x == Line[k]
<1>0. DataOK
  BY DEF TypeOK, DataOK
<1>1. x \in Item
  BY <1>0, LineType
<1>2. Occurrences(got, x) # 0 \/ Occurrences(items, x) # 0
  <2>1. k \in 1 .. Len(got) + Len(items) /\ Len(got) \in Nat /\ Len(items) \in Nat
    BY <1>0, LineType
  <2>2. got \in Seq(Item) /\ items \in Seq(Item) /\ DOMAIN got = 1 .. Len(got) /\ DOMAIN items = 1 .. Len(items)
    BY <1>0, LenProperties DEF DataOK
  <2>3. CASE k <= Len(got)
    <3>1. k \in DOMAIN got /\ got[k] = x
      BY <1>0, <2>1, <2>2, <2>3, LineType
    <3> QED BY <2>2, <3>1, OccurrencesType
  <2>4. CASE ~ (k <= Len(got))
    <3>1. k - Len(got) \in DOMAIN items /\ items[k - Len(got)] = x
      BY <1>0, <2>1, <2>2, <2>4, LineType
    <3> QED BY <2>2, <3>1, OccurrencesType
  <2> QED BY <2>3, <2>4
<1>3. /\ Settled(x) = Occurrences(items, x) + Occurrences(got, x) + Occurrences(dropped, x) + One(x \in refused)
      /\ Occurrences(items, x) \in Nat /\ Occurrences(got, x) \in Nat
      /\ Occurrences(dropped, x) \in Nat /\ One(x \in refused) \in Nat
  BY <1>0, SettledTypes DEF Settled
<1>4. Settled(x) \in Nat /\ Settled(x) # 0
  BY <1>2, <1>3
<1>5. Settled(x) + One(InHand(x)) = One(x[2] <= sent[x[1]])
  BY <1>1 DEF EachOnce
<1> HIDE DEF x
<1>6. x[2] <= sent[x[1]] /\ ~InHand(x)
  BY <1>4, <1>5 DEF One
<1> QED BY <1>1, <1>6 DEF x

(* Steps that store nothing leave the line as it is.                       *)
LEMMA LineKept ==
  ASSUME DataOK, NEW t, NEW y, NEW ws,
         \/ Refuse(t, y, ws) \/ RejectNewest(t, y, ws) \/ Take(t, ws) \/ ReturnClosed(t, ws) \/ Drain
         \/ UNCHANGED <<items, counters, history>>
  PROVE  Line' = Line
<1> USE DEF counters, history, Line
<1>0. got \in Seq(Item) /\ items \in Seq(Item)
  BY DEF DataOK
<1>1. CASE Refuse(t, y, ws) \/ RejectNewest(t, y, ws) \/ ReturnClosed(t, ws) \/ UNCHANGED <<items, counters, history>>
  BY <1>1 DEF Refuse, RejectNewest, ReturnClosed
<1>2. CASE Drain
  <2>1. got' = got \o items /\ items' = <<>> /\ got \o items \in Seq(Item)
    BY <1>0, <1>2, ConcatProperties DEF Drain
  <2> QED BY <2>1, ConcatEmptySeq
<1>3. CASE Take(t, ws)
  <2> DEFINE h == Head(items)
             single == <<h>>
             u == Tail(items)
  <2>1. items # <<>> /\ got' = Append(got, h) /\ items' = u
    BY <1>3 DEF Take
  <2>2. h \in Item /\ u \in Seq(Item) /\ single \in Seq(Item)
    BY <1>0, <2>1, HeadTailProperties
  <2>3. Append(got, h) = got \o single
    BY <1>0, <2>2, AppendIsConcat
  <2>4. items = single \o u
    BY <1>0, <2>1, HeadThenTail
  <2> HIDE DEF h, single, u
  <2>5. (got \o single) \o u = got \o (single \o u)
    <3>1. \A a, b, c \in Seq(Item) : (a \o b) \o c = a \o (b \o c)
      BY ConcatAssociative
    <3> QED BY <1>0, <2>2, <3>1, Zenon
  <2> QED BY <2>1, <2>3, <2>4, <2>5
<1> QED BY <1>1, <1>2, <1>3

(* A step that stores an item numbered above the same producer's in the    *)
(* line, evicting the oldest or not, keeps the line in order.              *)
LEMMA LineGrows ==
  ASSUME DataOK, ProducerOrder, NEW t, NEW y \in Item, NEW ws,
         Store(t, y, ws) \/ (~HasRoom /\ EvictOldest(t, y)),
         \A k \in DOMAIN Line : Line[k][1] = y[1] => Line[k][2] < y[2]
  PROVE  ProducerOrder'
<1> USE DEF counters, history
<1> DEFINE g == Len(got)
           n == Len(items)
           old == IF Store(t, y, ws) THEN n ELSE n - 1
           from(k) == IF Store(t, y, ws) \/ k <= g THEN k ELSE k + 1
<1>0. /\ got \in Seq(Item) /\ items \in Seq(Item) /\ g \in Nat /\ n \in Nat /\ DOMAIN Line = 1 .. g + n
      /\ \A k \in 1 .. g + n : Line[k] = IF k <= g THEN got[k] ELSE items[k - g]
  BY LineType DEF DataOK
<1>1. /\ old \in Nat /\ old <= n /\ items' \in Seq(Item) /\ Len(items') = old + 1 /\ got' = got
      /\ items'[old + 1] = y
      /\ \A k \in 1 .. old : items'[k] = IF Store(t, y, ws) THEN items[k] ELSE items[k + 1]
      /\ Store(t, y, ws) \/ old + 1 = n
  <2>1. CASE Store(t, y, ws)
    <3>1. items' = Append(items, y) /\ got' = got
      BY <2>1 DEF Store
    <3> QED BY <1>0, <2>1, <3>1, AppendProperties
  <2>2. CASE ~ Store(t, y, ws)
    <3>1. items' = Append(Tail(items), y) /\ got' = got /\ items # <<>>
      BY <2>2, QueueAssumption, EmptySeq DEF EvictOldest, HasRoom
    <3>2. /\ Tail(items) \in Seq(Item) /\ Len(Tail(items)) = n - 1 /\ n # 0
          /\ \A k \in 1 .. n - 1 : Tail(items)[k] = items[k + 1]
      BY <1>0, <3>1, HeadTailProperties, EmptySeq
    <3> QED BY <1>0, <2>2, <3>1, <3>2, AppendProperties
  <2> QED BY <2>1, <2>2
<1>2. /\ DOMAIN Line' = 1 .. g + old + 1
      /\ \A k \in 1 .. g + old + 1 : Line'[k] = IF k <= g THEN got[k] ELSE items'[k - g]
  <2>1. got \in Seq(Item) /\ items' \in Seq(Item) /\ Line' = got \o items'
    BY <1>0, <1>1 DEF Line
  <2>2. /\ Line' \in Seq(Item) /\ Len(Line') = g + Len(items')
        /\ \A k \in 1 .. g + Len(items') : Line'[k] = IF k <= g THEN got[k] ELSE items'[k - g]
    BY <2>1, ConcatProperties
  <2>3. DOMAIN Line' = 1 .. Len(Line')
    BY <2>2, LenProperties
  <2>4. g + Len(items') = g + old + 1
    BY <1>0, <1>1
  <2> QED BY <2>2, <2>3, <2>4
<1> HIDE DEF g, n
<1>3. ASSUME NEW k \in 1 .. g + old
      PROVE  from(k) \in DOMAIN Line /\ Line'[k] = Line[from(k)]
  <2>1. CASE k <= g
    BY <1>0, <1>1, <1>2, <2>1
  <2>2. CASE ~ (k <= g)
    <3>1. k - g \in 1 .. old /\ Line'[k] = items'[k - g]
      BY <1>0, <1>1, <1>2, <2>2
    <3>2. CASE Store(t, y, ws)
      BY <1>0, <1>1, <2>2, <3>1, <3>2
    <3>3. CASE ~ Store(t, y, ws)
      <4>1. k + 1 \in 1 .. g + n /\ ~ (k + 1 <= g) /\ (k + 1) - g = (k - g) + 1
        BY <1>0, <1>1, <2>2, <3>3
      <4> QED BY <1>0, <1>1, <2>2, <3>1, <3>3, <4>1
    <3> QED BY <3>2, <3>3
  <2> QED BY <2>1, <2>2
<1>4. Line'[g + old + 1] = y
  <2> HIDE DEF old
  <2>0. g \in Nat /\ old \in Nat
    BY <1>0, <1>1
  <2>1. g + old + 1 \in 1 .. g + old + 1 /\ ~ (g + old + 1 <= g) /\ (g + old + 1) - g = old + 1
    BY <2>0
  <2> QED BY <1>1, <1>2, <2>1
<1>5. ASSUME NEW i \in DOMAIN Line', NEW j \in DOMAIN Line', i < j, Line'[i][1] = Line'[j][1]
      PROVE  Line'[i][2] < Line'[j][2]
  <2>1. i \in 1 .. g + old /\ Line'[i] = Line[from(i)] /\ from(i) \in DOMAIN Line
    <3>1. i \in 1 .. g + old
      BY <1>0, <1>1, <1>2, <1>5
    <3> QED BY <1>3, <3>1
  <2>2. CASE j = g + old + 1
    BY <1>4, <1>5, <2>1, <2>2
  <2>3. CASE j # g + old + 1
    <3>1. j \in 1 .. g + old
      <4> HIDE DEF old
      <4>1. g \in Nat /\ old \in Nat /\ j \in 1 .. g + old + 1
        BY <1>0, <1>1, <1>2
      <4> QED BY <2>3, <4>1
    <3>2. Line'[j] = Line[from(j)] /\ from(j) \in DOMAIN Line
      BY <1>3, <3>1
    <3>3. from(i) < from(j)
      BY <1>0, <1>1, <1>5, <2>1, <3>1
    <3> HIDE DEF from
    <3> QED BY <1>5, <2>1, <3>2, <3>3 DEF ProducerOrder, Line
  <2> QED BY <2>2, <2>3
<1> QED BY <1>5 DEF ProducerOrder, Line
-----------------------------------------------------------------------------
(* Giving the lock up changes whether the caller is in flight, and for      *)
(* nobody else.                                                            *)
LEMMA HandsKept ==
  ASSUME TypeOK, NEW t \in Threads, NEW ws \in Seq(Threads)
  PROVE  /\ WaitOn(t, ws) => InFlight(t)' /\ \A u \in Threads \ {t} : InFlight(u)' <=> InFlight(u)
         /\ \A s \in {"idle", "done"} :
              NotifyOne(t, s, ws) \/ Leave(t, s, ws)
              => ~InFlight(t)' /\ \A u \in Threads \ {t} : InFlight(u)' <=> InFlight(u)
<1>1. WaitOn(t, ws) => InFlight(t)' /\ \A u \in Threads \ {t} : InFlight(u)' <=> InFlight(u)
  BY DEF WaitOn, TypeOK, InFlight
<1>2. ASSUME NEW s \in {"idle", "done"}, Leave(t, s, ws)
      PROVE  ~InFlight(t)' /\ \A u \in Threads \ {t} : InFlight(u)' <=> InFlight(u)
  BY <1>2 DEF Leave, TypeOK, InFlight
<1>3. ASSUME NEW s \in {"idle", "done"}, NotifyOne(t, s, ws)
      PROVE  ~InFlight(t)' /\ \A u \in Threads \ {t} : InFlight(u)' <=> InFlight(u)
  <2>1. CASE ws = <<>>
    BY <1>3, <2>1 DEF NotifyOne, TypeOK, InFlight
  <2>2. CASE ws # <<>>
    <3>1. Head(ws) \in Threads
      BY <2>2, HeadTailProperties
    <3> QED BY <1>3, <2>2, <3>1 DEF NotifyOne, TypeOK, InFlight
  <2> QED BY <2>1, <2>2
<1> QED BY <1>1, <1>2, <1>3

(* A put, or the rest of one, settles its item or keeps it in hand.        *)
LEMMA PutAccounts ==
  ASSUME IInv, EachOnce, ProducerOrder, NEW p \in Producers, Put(p) \/ PutResume(p)
  PROVE  EachOnce' /\ ProducerOrder'
<1> USE DEF counters, history
<1> DEFINE n == IF Put(p) THEN sent[p] + 1 ELSE sent[p]
           y == <<p, n>>
           ws == IF Put(p) THEN waiters ELSE WaitersWithout(p)
           Others(x) == InHand(x) /\ x[1] # p
<1>0. /\ TypeOK /\ DataOK /\ p \in Threads /\ Producers \subseteq Threads
      /\ sent \in [Producers -> 0 .. MaxItems] /\ MaxItems \in Nat
  BY QueueAssumption DEF IInv, TypeOK, DataOK, Threads
<1>1. ws \in Seq(Threads)
  BY <1>0, WaitersWithoutType DEF TypeOK
<1>2. n \in 1 .. MaxItems /\ sent' = [sent EXCEPT ![p] = n] /\ (~ Put(p) => InFlight(p)) /\ (Put(p) => ~ InFlight(p))
  <2>1. CASE Put(p)
    <3>1. n = sent[p] + 1
      BY <2>1
    <3> HIDE DEF n
    <3>2. pc[p] = "idle" /\ sent[p] < MaxItems /\ sent' = [sent EXCEPT ![p] = sent[p] + 1]
      BY <2>1 DEF Put
    <3> QED BY <1>0, <2>1, <3>1, <3>2 DEF InFlight
  <2>2. CASE ~ Put(p)
    <3>1. sent[p] # 0 /\ InFlight(p) /\ sent' = sent
      BY <2>2 DEF PutResume, Awake, InFlight, IInv, BlockedHasItem
    <3>2. n = sent[p] /\ sent = [sent EXCEPT ![p] = sent[p]] /\ sent[p] \in 0 .. MaxItems
      BY <1>0, <2>2
    <3>3. n \in 1 .. MaxItems
      BY <1>0, <3>1, <3>2
    <3> QED BY <2>2, <3>1, <3>2, <3>3
  <2> QED BY <2>1, <2>2
<1>3. \/ Refuse(p, y, ws) \/ Store(p, y, ws) \/ RejectNewest(p, y, ws) \/ (~HasRoom /\ EvictOldest(p, y))
      \/ WaitOn(p, ws) /\ UNCHANGED <<items, counters, history>>
  <2>1. CASE Put(p)
    BY <2>1 DEF Put
  <2>2. CASE ~ Put(p)
    BY <2>2 DEF PutResume, Current
  <2> QED BY <2>1, <2>2
<1> HIDE DEF n, ws
<1>4. y \in Item /\ \A x \in Item : x[1] \in Producers /\ x[2] \in 1 .. MaxItems /\ (x = y <=> x[1] = p /\ x[2] = n)
  BY <1>2 DEF Item
<1> HIDE DEF y
<1>5. ASSUME NEW x \in Item
      PROVE  Settled(x) + One(Others(x)) + One(x = y) = One(x[2] <= sent'[x[1]])
  <2>0. Settled(x) + One(InHand(x)) = One(x[2] <= sent[x[1]]) /\ Settled(x) \in Nat
    BY <1>0, SettledTypes DEF EachOnce
  <2>1. CASE x[1] # p
    <3>1. sent'[x[1]] = sent[x[1]] /\ (Others(x) <=> InHand(x)) /\ x # y
      BY <1>0, <1>2, <1>4, <2>1
    <3> QED BY <2>0, <3>1 DEF One
  <2>2. CASE x[1] = p /\ Put(p)
    <3>1. ~ Others(x) /\ ~ InHand(x) /\ sent'[x[1]] = sent[p] + 1 /\ (x = y <=> x[2] = sent[p] + 1)
      BY <1>0, <1>2, <1>4, <2>2 DEF InHand, n
    <3>2. x[2] \in Nat /\ sent[p] \in Nat
      BY <1>0, <1>4
    <3> QED BY <2>0, <2>2, <3>1, <3>2 DEF One
  <2>3. CASE x[1] = p /\ ~ Put(p)
    <3>1. ~ Others(x) /\ (InHand(x) <=> x = y) /\ sent'[x[1]] = sent[x[1]]
      BY <1>0, <1>2, <1>4, <2>3 DEF InHand, n
    <3> QED BY <2>0, <3>1 DEF One
  <2> QED BY <2>1, <2>2, <2>3
<1>6. y \notin refused
  <2>1. Settled(y) + One(Others(y)) + One(y = y) = One(y[2] <= sent'[y[1]])
    BY <1>4, <1>5
  <2>2. Settled(y) = Occurrences(items, y) + Occurrences(got, y) + Occurrences(dropped, y) + One(y \in refused)
    BY DEF Settled
  <2>3. /\ Occurrences(items, y) \in Nat /\ Occurrences(got, y) \in Nat /\ Occurrences(dropped, y) \in Nat
        /\ Settled(y) \in Nat
    BY <1>0, SettledTypes
  <2>4. Settled(y) = 0
    BY <2>1, <2>3 DEF One
  <2> QED BY <2>2, <2>3, <2>4 DEF One
<1>7. \A k \in DOMAIN Line : Line[k][1] = y[1] => Line[k][2] < y[2]
  <2> SUFFICES ASSUME NEW k \in DOMAIN Line, Line[k][1] = y[1] PROVE Line[k][2] < y[2]
    OBVIOUS
  <2>1. Line[k] \in Item /\ Line[k][2] <= sent[p] /\ ~InHand(Line[k]) /\ Line[k][1] = p /\ y[1] = p /\ y[2] = n
    BY <1>0, <1>4, LineIsSent
  <2>2. Line[k][2] \in Nat /\ sent[p] \in Nat
    BY <1>0, <1>4, <2>1
  <2> QED BY <1>2, <2>1, <2>2 DEF InHand, n
<1>8. CASE WaitOn(p, ws) /\ UNCHANGED <<items, counters, history>>
  <2>1. ProducerOrder'
    BY <1>8 DEF ProducerOrder
  <2>2. ASSUME NEW x \in Item
        PROVE  Settled(x)' + One(InHand(x)') = One(x[2] <= sent'[x[1]])
    <3>1. Settled(x)' = Settled(x)
      BY <1>8 DEF Settled
    <3>2. InHand(x)' <=> Others(x) \/ x = y
      <4>1. InFlight(p)' /\ \A u \in Threads \ {p} : InFlight(u)' <=> InFlight(u)
        BY <1>0, <1>1, <1>8, HandsKept
      <4> QED BY <1>0, <1>2, <1>4, <4>1 DEF InHand
    <3>3. ~ (Others(x) /\ x = y) /\ Settled(x) \in Nat
      BY <1>0, <1>4, SettledTypes
    <3>4. Settled(x) + One(Others(x)) + One(x = y) = One(x[2] <= sent'[x[1]])
      BY <1>5
    <3>5. One(InHand(x)') = One(Others(x)) + One(x = y) /\ One(Others(x)) \in Nat /\ One(x = y) \in Nat
      BY <3>2, <3>3 DEF One
    <3> QED BY <3>1, <3>3, <3>4, <3>5
  <2> QED BY <2>1, <2>2 DEF EachOnce, Item
<1>9. CASE ~ (WaitOn(p, ws) /\ UNCHANGED <<items, counters, history>>)
  <2>0. Refuse(p, y, ws) \/ Store(p, y, ws) \/ RejectNewest(p, y, ws) \/ (~HasRoom /\ EvictOldest(p, y))
    BY <1>3, <1>9 DEF y
  <2>1. ProducerOrder'
    <3>1. CASE Store(p, y, ws) \/ (~HasRoom /\ EvictOldest(p, y))
      BY <1>0, <1>4, <1>7, <3>1, LineGrows
    <3>2. CASE Refuse(p, y, ws) \/ RejectNewest(p, y, ws)
      BY <1>0, <3>2, LineKept DEF ProducerOrder, Line
    <3> QED BY <2>0, <3>1, <3>2
  <2>2. ASSUME NEW x \in Item
        PROVE  Settled(x)' + One(InHand(x)') = One(x[2] <= sent'[x[1]])
    <3>1. Settled(x)' = Settled(x) + One(x = y)
      BY <1>0, <1>4, <1>6, <2>0, PutSettles
    <3>2. InHand(x)' <=> Others(x)
      <4>1. waiters \in Seq(Threads)
        BY <1>0 DEF TypeOK
      <4>2. /\ ~ InFlight(p)'
            /\ \A u \in Threads \ {p} : InFlight(u)' <=> InFlight(u)
        BY <1>0, <1>1, <2>0, <4>1, HandsKept DEF Refuse, Store, RejectNewest, EvictOldest
      <4> QED BY <1>0, <1>2, <1>4, <4>2 DEF InHand
    <3>3. Settled(x) + One(Others(x)) + One(x = y) = One(x[2] <= sent'[x[1]]) /\ Settled(x) \in Nat
      BY <1>0, <1>5, SettledTypes
    <3>4. One(InHand(x)') = One(Others(x)) /\ One(Others(x)) \in Nat /\ One(x = y) \in Nat
      BY <3>2 DEF One
    <3> QED BY <3>1, <3>3, <3>4
  <2> QED BY <2>1, <2>2 DEF EachOnce, Item
<1> QED BY <1>8, <1>9

(* Every other step leaves each item where it is, or takes it out.         *)
LEMMA OthersAccount ==
  ASSUME IInv, EachOnce, ProducerOrder,
         \/ \E c \in Consumers : Get(c) \/ GetResume(c) \/ GetNowait(c)
         \/ (\E t \in Threads : Timeout(t)) \/ Close \/ Drain
  PROVE  EachOnce' /\ ProducerOrder'
<1> USE DEF counters, history
<1>0. /\ TypeOK /\ DataOK /\ waiters \in Seq(Threads)
      /\ \A p \in Producers : p \in Threads /\ p \notin Consumers
  BY QueueAssumption DEF IInv, TypeOK, DataOK, Threads
<1>1. ASSUME NEW t, NEW ws, UNCHANGED sent,
             \A p \in Producers : InFlight(p)' <=> InFlight(p),
             Take(t, ws) \/ ReturnClosed(t, ws) \/ Drain \/ UNCHANGED <<items, counters, history>>
      PROVE  EachOnce' /\ ProducerOrder'
  <2>1. ProducerOrder'
    BY <1>0, <1>1, LineKept DEF ProducerOrder, Line
  <2>2. ASSUME NEW x \in Item
        PROVE  Settled(x)' = Settled(x) /\ (InHand(x)' <=> InHand(x))
    BY <1>0, <1>1, TakeKeeps DEF InHand, Item
  <2> QED BY <1>1, <2>1, <2>2 DEF EachOnce, One, Item
<1>2. CASE \E c \in Consumers : Get(c) \/ GetResume(c) \/ GetNowait(c)
  <2>1. PICK c \in Consumers : Get(c) \/ GetResume(c) \/ GetNowait(c)
    BY <1>2
  <2>2. PICK ws \in Seq(Threads) :
          /\ Take(c, ws) \/ ReturnClosed(c, ws) \/ UNCHANGED <<items, counters, history>>
          /\ WaitOn(c, ws) \/ \E s \in {"idle", "done"} : NotifyOne(c, s, ws) \/ Leave(c, s, ws)
    <3>1. WaitersWithout(c) \in Seq(Threads)
      BY <1>0, WaitersWithoutType
    <3> QED BY <1>0, <2>1, <3>1 DEF Get, GetResume, GetNowait, Take, ReturnClosed
  <2>3. c \in Threads /\ \A p \in Producers : p \in Threads \ {c}
    BY <1>0 DEF Threads
  <2>4. \A p \in Producers : InFlight(p)' <=> InFlight(p)
    BY <1>0, <2>2, <2>3, HandsKept
  <2>5. UNCHANGED sent
    BY <2>1 DEF Get, GetResume, GetNowait
  <2> QED BY <1>1, <2>2, <2>4, <2>5
<1>3. CASE \E t \in Threads : Timeout(t)
  <2>1. \A p \in Producers : InFlight(p)' <=> InFlight(p)
    BY <1>0, <1>3 DEF Timeout, InFlight, TypeOK
  <2> QED BY <1>1, <1>3, <2>1 DEF Timeout
<1>4. CASE Close \/ Drain
  <2>1. \A p \in Producers : InFlight(p)' <=> InFlight(p)
    BY <1>0, <1>4 DEF Close, Drain, WakeAll, InFlight
  <2> QED BY <1>1, <1>4, <2>1 DEF Close, Drain
<1> QED BY <1>2, <1>3, <1>4

(* Every item whose put has begun is in exactly one place, and those of one *)
(* producer leave the queue in the order it offered them: for any threads,  *)
(* capacity, policy and number of puts.                                    *)
THEOREM NothingIsLost == Spec => []NothingLostOrOvertaken
<1> DEFINE Inv == EachOnce /\ ProducerOrder
<1>1. Init => Inv
  <2> SUFFICES ASSUME Init PROVE Inv
    OBVIOUS
  <2>1. \A s \in {items, got, dropped} : \A x : Occurrences(s, x) = 0
    <3>1. \A x : Occurrences(<<>>, x) = 0
      <4>1. <<>> \in Seq(Item) /\ DOMAIN <<>> = {}
        BY EmptySeq
      <4> QED BY <4>1, OccurrencesType
    <3> QED BY <3>1 DEF Init
  <2>2. ASSUME NEW x \in Item PROVE Settled(x) + One(InHand(x)) = One(x[2] <= sent[x[1]])
    <3>1. Settled(x) = 0
      BY <2>1 DEF Settled, Init, One
    <3>2. ~ InHand(x) /\ ~ (x[2] <= sent[x[1]])
      BY QueueAssumption DEF Init, InHand, InFlight, Item, Threads
    <3> QED BY <3>1, <3>2 DEF One
  <2>3. ProducerOrder
    <3>1. DOMAIN (got \o items) = {}
      BY EmptySeq, ConcatEmptySeq DEF Init
    <3> QED BY <3>1 DEF ProducerOrder
  <2> QED BY <2>2, <2>3 DEF EachOnce
<1>2. IInv /\ Inv /\ [Next]_vars => Inv'
  <2> SUFFICES ASSUME IInv, Inv, [Next]_vars PROVE Inv'
    OBVIOUS
  <2>1. CASE Next
    BY <2>1, PutAccounts, OthersAccount DEF Next
  <2>2. CASE UNCHANGED vars
    BY <2>2 DEF vars, counters, history, EachOnce, ProducerOrder, Settled, InHand, InFlight, Item
  <2> QED BY <2>1, <2>2
<1>3. IInv /\ Inv => NothingLostOrOvertaken
  <2> SUFFICES ASSUME IInv, EachOnce, NEW p \in Producers, NEW n \in 1 .. sent[p]
               PROVE  LET x == <<p, n>>
                      IN  Occurrences(items, x) + Occurrences(got, x) + Occurrences(dropped, x)
                          + (IF x \in refused THEN 1 ELSE 0)
                          + (IF InFlight(p) /\ n = sent[p] THEN 1 ELSE 0) = 1
    BY DEF NothingLostOrOvertaken, EveryItemAccounted
  <2> DEFINE x == <<p, n>>
  <2>1. x \in Item /\ x[1] = p /\ x[2] = n /\ n <= sent[p]
    BY QueueAssumption DEF Item, IInv, TypeOK
  <2>2. Settled(x) + One(InHand(x)) = 1
    BY <2>1 DEF EachOnce, One
  <2> QED BY <2>1, <2>2 DEF Settled, InHand, One
<1> QED BY <1>1, <1>2, <1>3, InductiveInvariant, PTL DEF Spec
-----------------------------------------------------------------------------
(* No wakeup is lost while one consumer faces no more producers than there  *)
(* are slots. The consumer goes to sleep on an empty queue only; by then it *)
(* has taken what the last producer to fall asleep saw, and each of those   *)
(* takes woke a producer, so none is asleep: it heads the list, and the     *)
(* next item to be stored wakes it.                                         *)
EnoughSlots == IsFiniteSet(Producers) /\ Cardinality(Producers) <= Capacity

(* t is on the list ws.                                                    *)
Listed(ws, t) == \E i \in 1 .. Len(ws) : ws[i] = t

(* No thread twice, and the consumer in front.                              *)
WellListed(ws, c) ==
  /\ \A i, j \in 1 .. Len(ws) : ws[i] = ws[j] => i = j
  /\ \A i \in 1 .. Len(ws) : ws[i] = c => i = 1

(* How many producers are on the list.                                      *)
Behind(ws, c) == IF Listed(ws, c) THEN Len(ws) - 1 ELSE Len(ws)

(* The more producers are on the list, the fuller the queue is.             *)
Backlog(ws, c) == Behind(ws, c) >= 1 => Len(items) + Cardinality(Producers) >= Capacity + Behind(ws, c)

(* Who waits is on the list, and the list is as it should be.              *)
WaitersInv(c) ==
  /\ WellListed(waiters, c)
  /\ \A t \in Threads : /\ Listed(waiters, t) => pc[t] \in {"waiting", "expired"}
                        /\ pc[t] = "waiting" => Listed(waiters, t)
  /\ pc[c] = "waiting" => items = <<>>
  /\ Backlog(waiters, c)

(* The list a thread t that is not asleep finds, or leaves when it resumes. *)
WithoutMe(ws, t, c) ==
  /\ ws \in Seq(Threads) /\ WellListed(ws, c) /\ ~Listed(ws, t)
  /\ \A u \in Threads \ {t} : Listed(ws, u) <=> Listed(waiters, u)
  /\ Behind(ws, c) <= Behind(waiters, c)

(* The length of a list, the producers on it and their places.             *)
LEMMA BehindType ==
  ASSUME NEW ws \in Seq(Threads), NEW c
  PROVE  /\ Len(ws) \in Nat /\ Behind(ws, c) \in Nat
         /\ \A i \in 1 .. Len(ws) : ws[i] \in Threads
         /\ WellListed(ws, c) /\ Listed(ws, c) => Len(ws) >= 1 /\ ws[1] = c
BY LenProperties, ElementOfSeq DEF Behind, Listed, WellListed

(* A thread that resumes takes itself off the list, and moves nobody else. *)
LEMMA RemoveMe ==
  ASSUME TypeOK, NEW c, NEW t \in Threads, WellListed(waiters, c)
  PROVE  WithoutMe(WaitersWithout(t), t, c)
<1> DEFINE ws == WaitersWithout(t)
           n == Len(waiters)
<1>0. waiters \in Seq(Threads) /\ n \in Nat /\ ws \in Seq(Threads)
  BY WaitersWithoutType, LenProperties DEF TypeOK
<1>1. CASE Contains(waiters, t)
  <2> DEFINE k == CHOOSE i \in 1 .. Len(waiters) : waiters[i] = t
             from(i) == IF i < k THEN i ELSE i + 1
  <2>1. k \in 1 .. n /\ waiters[k] = t
    BY <1>1 DEF Contains
  <2> HIDE DEF k
  <2>2. /\ \A i \in 1 .. k - 1 : waiters[i] \in Threads
        /\ \A i \in k + 1 .. n : waiters[i] \in Threads
    BY <1>0, <2>1, ElementOfSeq
  <2>3. /\ SubSeq(waiters, 1, k - 1) \in Seq(Threads) /\ Len(SubSeq(waiters, 1, k - 1)) = k - 1
        /\ \A i \in 1 .. k - 1 : SubSeq(waiters, 1, k - 1)[i] = waiters[i]
    BY <1>0, <2>1, <2>2, SubSeqProperties
  <2>4. /\ SubSeq(waiters, k + 1, n) \in Seq(Threads) /\ Len(SubSeq(waiters, k + 1, n)) = n - k
        /\ \A i \in 1 .. n - k : SubSeq(waiters, k + 1, n)[i] = waiters[k + i]
    <3>1. /\ SubSeq(waiters, k + 1, n) \in Seq(Threads)
          /\ Len(SubSeq(waiters, k + 1, n)) = IF k + 1 <= n THEN n - (k + 1) + 1 ELSE 0
          /\ \A i \in 1 .. n - (k + 1) + 1 : SubSeq(waiters, k + 1, n)[i] = waiters[(k + 1) + i - 1]
      BY <1>0, <2>1, <2>2, SubSeqProperties
    <3>2. n - (k + 1) + 1 = n - k /\ \A i \in 1 .. n - k : (k + 1) + i - 1 = k + i
      BY <1>0, <2>1
    <3>3. IF k + 1 <= n THEN n - (k + 1) + 1 = n - k ELSE 0 = n - k
      BY <1>0, <2>1
    <3> QED BY <3>1, <3>2, <3>3
  <2>5. ws = SubSeq(waiters, 1, k - 1) \o SubSeq(waiters, k + 1, n)
    BY <1>1 DEF WaitersWithout, RemoveAt, k
  <2>6. /\ Len(ws) = n - 1
        /\ \A i \in 1 .. n - 1 : ws[i] = waiters[from(i)]
    <3>1. /\ Len(ws) = (k - 1) + (n - k)
          /\ \A i \in 1 .. (k - 1) + (n - k) :
               ws[i] = IF i <= k - 1 THEN SubSeq(waiters, 1, k - 1)[i] ELSE SubSeq(waiters, k + 1, n)[i - (k - 1)]
      BY <2>3, <2>4, <2>5, ConcatProperties
    <3>2. (k - 1) + (n - k) = n - 1
      BY <1>0, <2>1
    <3>3. ASSUME NEW i \in 1 .. n - 1 PROVE ws[i] = waiters[from(i)]
      <4>1. CASE i < k
        BY <1>0, <2>1, <2>3, <3>1, <3>2, <4>1
      <4>2. CASE ~ (i < k)
        <5>1. ~ (i <= k - 1) /\ i - (k - 1) \in 1 .. n - k /\ k + (i - (k - 1)) = i + 1
          BY <1>0, <2>1, <4>2
        <5> QED BY <2>4, <3>1, <3>2, <4>2, <5>1
      <4> QED BY <4>1, <4>2
    <3> QED BY <3>1, <3>2, <3>3
  <2> HIDE DEF ws, n
  <2>7. /\ \A i \in 1 .. n - 1 : from(i) \in 1 .. n /\ from(i) # k
        /\ \A i, j \in 1 .. n - 1 : from(i) = from(j) => i = j
        /\ \A i \in 1 .. n - 1 : from(i) = 1 => i = 1
    BY <1>0, <2>1
  <2>8. \A j \in 1 .. n : j # k => \E i \in 1 .. n - 1 : from(i) = j
    <3> SUFFICES ASSUME NEW j \in 1 .. n, j # k PROVE \E i \in 1 .. n - 1 : from(i) = j
      OBVIOUS
    <3>1. CASE j < k
      <4>1. j \in 1 .. n - 1 /\ from(j) = j
        BY <1>0, <2>1, <3>1
      <4> QED BY <4>1
    <3>2. CASE ~ (j < k)
      <4>1. j - 1 \in 1 .. n - 1 /\ from(j - 1) = j
        BY <1>0, <2>1, <3>2
      <4> QED BY <4>1
    <3> QED BY <3>1, <3>2
  <2> HIDE DEF from
  <2>9. /\ \A i, j \in 1 .. n : waiters[i] = waiters[j] => i = j
        /\ \A i \in 1 .. n : waiters[i] = c => i = 1
    BY DEF WellListed, n
  <2>10. \A i, j \in 1 .. Len(ws) : ws[i] = ws[j] => i = j
    BY <2>6, <2>7, <2>9
  <2>11. WellListed(ws, c)
    <3>1. ASSUME NEW i \in 1 .. Len(ws), ws[i] = c PROVE i = 1
      <4>1. from(i) \in 1 .. n /\ waiters[from(i)] = c
        BY <2>6, <2>7, <3>1
      <4> QED BY <2>6, <2>7, <2>9, <4>1
    <3> QED BY <2>10, <3>1 DEF WellListed
  <2>12. ~Listed(ws, t)
    BY <2>1, <2>6, <2>7, <2>9 DEF Listed
  <2>13. \A u \in Threads \ {t} : Listed(ws, u) <=> Listed(waiters, u)
    <3>1. ASSUME NEW u \in Threads \ {t}, NEW i \in 1 .. n - 1, ws[i] = u PROVE Listed(waiters, u)
      <4>1. from(i) \in 1 .. n /\ waiters[from(i)] = u
        BY <2>6, <2>7, <3>1
      <4> QED BY <4>1 DEF Listed, n
    <3>2. ASSUME NEW u \in Threads \ {t}, NEW j \in 1 .. n, waiters[j] = u PROVE Listed(ws, u)
      <4>1. j # k
        BY <2>1, <3>2
      <4>2. PICK i \in 1 .. n - 1 : from(i) = j
        BY <2>8, <4>1
      <4>3. i \in 1 .. Len(ws) /\ ws[i] = u
        BY <2>6, <3>2, <4>2
      <4> QED BY <4>3 DEF Listed
    <3> QED BY <2>6, <3>1, <3>2 DEF Listed, n
  <2>14. Behind(ws, c) <= Behind(waiters, c)
    <3>1. Listed(ws, c) => Listed(waiters, c)
      BY <2>6, <2>7 DEF Listed, n
    <3>2. Listed(waiters, c) => Listed(ws, c) \/ c = t
      <4>1. ASSUME NEW j \in 1 .. n, waiters[j] = c, c # t PROVE Listed(ws, c)
        BY <2>1, <2>6, <2>8, <4>1 DEF Listed
      <4> QED BY <4>1 DEF Listed, n
    <3> QED BY <1>0, <2>1, <2>6, <3>1, <3>2 DEF Behind, n
  <2> QED BY <1>0, <2>11, <2>12, <2>13, <2>14 DEF WithoutMe, ws
<1>2. CASE ~Contains(waiters, t)
  <2>1. ws = waiters /\ ~Listed(waiters, t)
    BY <1>0, <1>2, LenProperties DEF WaitersWithout, Contains, Listed
  <2>2. Behind(waiters, c) \in Nat
    BY <1>0, BehindType
  <2> QED BY <1>0, <2>1, <2>2 DEF WithoutMe
<1> QED BY <1>1, <1>2

(* A thread that is not on the list finds it without itself.               *)
LEMMA NotOnIt ==
  ASSUME TypeOK, NEW c, NEW t \in Threads, WellListed(waiters, c), ~Listed(waiters, t)
  PROVE  WithoutMe(waiters, t, c)
<1>1. waiters \in Seq(Threads)
  BY DEF TypeOK
<1>2. Behind(waiters, c) \in Nat
  BY <1>1, BehindType
<1> QED BY <1>1, <1>2 DEF WithoutMe

(* What is left of a list when its head has been woken.                    *)
LEMMA HeadWoken ==
  ASSUME NEW ws \in Seq(Threads), ws # <<>>, NEW c, WellListed(ws, c)
  PROVE  /\ Tail(ws) \in Seq(Threads) /\ Head(ws) \in Threads
         /\ WellListed(Tail(ws), c) /\ ~Listed(Tail(ws), c)
         /\ \A u : Listed(Tail(ws), u) <=> Listed(ws, u) /\ u # Head(ws)
         /\ Listed(ws, c) => c = Head(ws)
         /\ Behind(Tail(ws), c) <= Behind(ws, c)
         /\ ~Listed(ws, c) => Behind(Tail(ws), c) = Behind(ws, c) - 1
<1> DEFINE tl == Tail(ws)
           h == Head(ws)
           n == Len(ws)
<1>1. /\ tl \in Seq(Threads) /\ h \in Threads /\ n \in Nat \ {0} /\ h = ws[1]
      /\ Len(tl) = n - 1
      /\ \A i \in 1 .. n - 1 : tl[i] = ws[i + 1]
  BY HeadTailProperties, EmptySeq
<1>2. \A i \in 1 .. n - 1 : i + 1 \in 1 .. n /\ i + 1 # 1
  BY <1>1
<1>3. /\ \A i, j \in 1 .. n : ws[i] = ws[j] => i = j
      /\ \A i \in 1 .. n : ws[i] = c => i = 1
  BY DEF WellListed
<1>3a. 1 \in 1 .. n
  BY <1>1
<1> HIDE DEF tl, h, n
<1>4. ~Listed(tl, c)
  BY <1>1, <1>2, <1>3 DEF Listed
<1>5. WellListed(tl, c)
  <2>1. ASSUME NEW i \in 1 .. n - 1, NEW j \in 1 .. n - 1, tl[i] = tl[j] PROVE i = j
    <3>1. i + 1 = j + 1
      BY <1>1, <1>2, <1>3, <2>1
    <3> QED BY <1>1, <3>1
  <2> QED BY <1>1, <1>4, <2>1 DEF WellListed, Listed
<1>6. ASSUME NEW u PROVE Listed(tl, u) <=> Listed(ws, u) /\ u # h
  <2>1. ASSUME NEW i \in 1 .. n - 1, tl[i] = u PROVE Listed(ws, u) /\ u # h
    <3>1. i + 1 \in 1 .. n /\ ws[i + 1] = u /\ i + 1 # 1
      BY <1>1, <1>2, <2>1
    <3> QED BY <1>1, <1>3, <1>3a, <3>1 DEF Listed, n
  <2>2. ASSUME NEW j \in 1 .. n, ws[j] = u, u # h PROVE Listed(tl, u)
    <3>1. j - 1 \in 1 .. n - 1 /\ (j - 1) + 1 = j
      BY <1>1, <2>2
    <3>2. j - 1 \in 1 .. Len(tl) /\ tl[j - 1] = u
      BY <1>1, <2>2, <3>1
    <3> QED BY <3>2 DEF Listed
  <2> QED BY <1>1, <2>1, <2>2 DEF Listed, n
<1>7. Listed(ws, c) => c = h
  BY <1>1, <1>3 DEF Listed, n
<1>8. Behind(tl, c) = n - 1 /\ (Behind(ws, c) = IF Listed(ws, c) THEN n - 1 ELSE n)
  BY <1>1, <1>4 DEF Behind, n
<1> QED BY <1>1, <1>4, <1>5, <1>6, <1>7, <1>8 DEF tl, h

(* A list holds at most as many producers as there are.                    *)
LEMMA BehindBound ==
  ASSUME NEW c, Consumers = {c}, IsFiniteSet(Producers),
         NEW ws \in Seq(Threads), WellListed(ws, c)
  PROVE  Behind(ws, c) <= Cardinality(Producers)
<1> DEFINE lo == IF Listed(ws, c) THEN 2 ELSE 1
           f == [i \in lo .. Len(ws) |-> ws[i]]
<1>1. /\ Len(ws) \in Nat /\ \A i \in 1 .. Len(ws) : ws[i] \in Threads
      /\ Listed(ws, c) => Len(ws) >= 1 /\ ws[1] = c
  BY BehindType
<1>2. ASSUME NEW i \in lo .. Len(ws) PROVE i \in 1 .. Len(ws) /\ ws[i] \in Producers
  <2>1. i \in 1 .. Len(ws)
    BY <1>1
  <2>2. ws[i] # c
    <3>1. CASE Listed(ws, c)
      <4>1. i # 1
        BY <1>1, <3>1
      <4> QED BY <2>1, <4>1 DEF WellListed
    <3>2. CASE ~Listed(ws, c)
      BY <2>1, <3>2 DEF Listed
    <3> QED BY <3>1, <3>2
  <2> QED BY <1>1, <2>1, <2>2 DEF Threads
<1>3. f \in Injection(lo .. Len(ws), Producers)
  BY <1>2 DEF WellListed, Injection, IsInjective
<1>4. Cardinality(lo .. Len(ws)) <= Cardinality(Producers)
  BY <1>3, FS_Injection
<1>5. Cardinality(lo .. Len(ws)) = IF lo > Len(ws) THEN 0 ELSE Len(ws) - lo + 1
  BY <1>1, FS_Interval
<1>6. Cardinality(lo .. Len(ws)) = Behind(ws, c)
  BY <1>1, <1>5 DEF Behind
<1> QED BY <1>4, <1>6

(* A thread that leaves and wakes nobody keeps the list in order.          *)
LEMMA LeaveKeeps ==
  ASSUME TypeOK, EnoughSlots, NEW c \in Threads, WaitersInv(c), NEW t \in Threads, NEW ws,
         WithoutMe(ws, t, c), NEW s, s \notin {"waiting", "expired"},
         Leave(t, s, ws), UNCHANGED items
  PROVE  WaitersInv(c)'
<1>1. /\ waiters' = ws /\ pc' = [pc EXCEPT ![t] = s] /\ items' = items
      /\ pc \in [Threads -> Status]
  BY DEF Leave, TypeOK
<1>2. ASSUME NEW u \in Threads
      PROVE  /\ Listed(ws, u) => pc'[u] \in {"waiting", "expired"}
             /\ pc'[u] = "waiting" => Listed(ws, u)
  BY <1>1 DEF WithoutMe, WaitersInv
<1>3. pc'[c] = "waiting" => items' = <<>>
  BY <1>1 DEF WaitersInv
<1>4. /\ Len(items) \in Nat /\ Behind(ws, c) \in Nat /\ Behind(waiters, c) \in Nat
      /\ Cardinality(Producers) \in Nat /\ Capacity \in Nat
  BY LenProperties, BehindType, FS_CardinalityType, QueueAssumption DEF TypeOK, WithoutMe, EnoughSlots
<1>5. Backlog(ws, c)
  BY <1>4 DEF Backlog, WithoutMe, WaitersInv
<1> QED BY <1>1, <1>2, <1>3, <1>5 DEF WaitersInv, WithoutMe, Backlog, Behind, Listed, WellListed

(* So does one that wakes the head: a producer that stored its item, or the *)
(* consumer, which made room by taking one.                                *)
LEMMA NotifyKeeps ==
  ASSUME TypeOK, EnoughSlots, NEW c \in Threads, WaitersInv(c), NEW t \in Threads, NEW ws,
         WithoutMe(ws, t, c), NotifyOne(t, "idle", ws), items' \in Seq(Item),
         \/ Len(items') >= Len(items)
         \/ t = c /\ Len(items') = Len(items) - 1
  PROVE  WaitersInv(c)'
<1>1. pc \in [Threads -> Status] /\ ws \in Seq(Threads) /\ WellListed(ws, c)
  BY DEF TypeOK, WithoutMe
<1>2. /\ Len(items) \in Nat /\ Len(items') \in Nat
      /\ Behind(ws, c) \in Nat /\ Behind(waiters, c) \in Nat
      /\ Cardinality(Producers) \in Nat /\ Capacity \in Nat
  BY LenProperties, BehindType, FS_CardinalityType, QueueAssumption DEF TypeOK, WithoutMe, EnoughSlots
<1>3. /\ Behind(ws, c) <= Behind(waiters, c)
      /\ \A u \in Threads \ {t} : Listed(ws, u) <=> Listed(waiters, u)
      /\ ~Listed(ws, t)
      /\ Backlog(waiters, c)
      /\ \A u \in Threads : /\ Listed(waiters, u) => pc[u] \in {"waiting", "expired"}
                            /\ pc[u] = "waiting" => Listed(waiters, u)
  BY DEF WithoutMe, WaitersInv
<1>4. CASE ws = <<>>
  <2>1. waiters' = <<>> /\ pc' = [pc EXCEPT ![t] = "idle"]
    BY <1>4 DEF NotifyOne
  <2>2. /\ \A u : ~Listed(<<>>, u)
        /\ WellListed(<<>>, c) /\ Behind(<<>>, c) = 0
    BY EmptySeq DEF Listed, WellListed, Behind
  <2>3. ASSUME NEW u \in Threads PROVE pc'[u] # "waiting"
    <3>1. u # t => ~Listed(waiters, u)
      BY <1>3, <1>4, <2>2
    <3> QED BY <1>1, <1>3, <2>1, <3>1
  <2> QED BY <2>1, <2>2, <2>3 DEF WaitersInv, Backlog, Listed, WellListed, Behind
<1>5. CASE ws # <<>>
  <2> DEFINE h == Head(ws)
             tl == Tail(ws)
  <2>1. /\ tl \in Seq(Threads) /\ h \in Threads
        /\ WellListed(tl, c) /\ ~Listed(tl, c)
        /\ \A u : Listed(tl, u) <=> Listed(ws, u) /\ u # h
        /\ Listed(ws, c) => c = h
        /\ Behind(tl, c) <= Behind(ws, c)
        /\ ~Listed(ws, c) => Behind(tl, c) = Behind(ws, c) - 1
    BY <1>1, <1>5, HeadWoken
  <2>2. /\ waiters' = tl
        /\ pc' = [[pc EXCEPT ![t] = "idle"] EXCEPT ![h] = IF @ = "waiting" THEN "notified" ELSE @]
    BY <1>5 DEF NotifyOne
  <2> HIDE DEF h, tl
  <2>3. ASSUME NEW u \in Threads
        PROVE  /\ Listed(tl, u) => pc'[u] \in {"waiting", "expired"}
               /\ pc'[u] = "waiting" => Listed(tl, u)
    <3>1. u # t /\ u # h => pc'[u] = pc[u]
      BY <1>1, <2>1, <2>2
    <3>2. u = t \/ u = h => pc'[u] # "waiting"
      BY <1>1, <2>1, <2>2
    <3> QED BY <1>3, <2>1, <3>1, <3>2
  <2>4. pc'[c] # "waiting"
    BY <2>1, <2>3
  <2>5. Behind(tl, c) \in Nat
    BY <2>1, BehindType
  <2>6. Behind(tl, c) >= 1 => Len(items') + Cardinality(Producers) >= Capacity + Behind(tl, c)
    <3>1. CASE Len(items') >= Len(items)
      BY <1>2, <1>3, <2>1, <2>5, <3>1 DEF Backlog
    <3>2. CASE t = c /\ Len(items') = Len(items) - 1
      BY <1>2, <1>3, <2>1, <2>5, <3>2 DEF Backlog
    <3> QED BY <3>1, <3>2
  <2> QED BY <2>1, <2>2, <2>3, <2>4, <2>6 DEF WaitersInv, Backlog, Listed, WellListed, Behind
<1> QED BY <1>4, <1>5

(* A producer falls asleep on a full queue, the consumer on an empty one.  *)
LEMMA WaitKeeps ==
  ASSUME TypeOK, EnoughSlots, NEW c, Consumers = {c}, WaitersInv(c), NEW t \in Threads, NEW ws,
         WithoutMe(ws, t, c), WaitOn(t, ws), UNCHANGED items,
         IF t = c THEN items = <<>> ELSE ~HasRoom
  PROVE  WaitersInv(c)'
<1> DEFINE longer == Append(ws, t)
<1>1. /\ pc \in [Threads -> Status] /\ ws \in Seq(Threads) /\ WellListed(ws, c)
      /\ ~Listed(ws, t) /\ c \in Threads
      /\ waiters' = longer /\ pc' = [pc EXCEPT ![t] = "waiting"] /\ items' = items
  BY DEF TypeOK, WithoutMe, WaitOn, Threads
<1>2. /\ Len(items) \in Nat /\ Len(ws) \in Nat
      /\ Behind(ws, c) \in Nat /\ Behind(waiters, c) \in Nat
      /\ Cardinality(Producers) \in Nat /\ Capacity \in Nat /\ Capacity # 0
      /\ Cardinality(Producers) <= Capacity
  BY <1>1, LenProperties, BehindType, FS_CardinalityType, QueueAssumption DEF TypeOK, EnoughSlots
<1>3. /\ longer \in Seq(Threads) /\ Len(longer) = Len(ws) + 1
      /\ \A i \in 1 .. Len(ws) : longer[i] = ws[i]
      /\ longer[Len(ws) + 1] = t
  BY <1>1, AppendProperties
<1> HIDE DEF longer
<1>4. \A u : Listed(longer, u) <=> Listed(ws, u) \/ u = t
  <2>1. ASSUME NEW u, NEW i \in 1 .. Len(ws), ws[i] = u PROVE Listed(longer, u)
    <3>1. i \in 1 .. Len(longer) /\ longer[i] = u
      BY <1>2, <1>3, <2>1
    <3> QED BY <3>1 DEF Listed
  <2>2. Listed(longer, t)
    <3>1. Len(ws) + 1 \in 1 .. Len(longer)
      BY <1>2, <1>3
    <3> QED BY <1>3, <3>1 DEF Listed
  <2>3. ASSUME NEW i \in 1 .. Len(longer), longer[i] # t PROVE Listed(ws, longer[i])
    <3>1. i \in 1 .. Len(ws)
      BY <1>2, <1>3, <2>3
    <3> QED BY <1>3, <3>1 DEF Listed
  <2> QED BY <2>1, <2>2, <2>3 DEF Listed
<1>5. ASSUME NEW u \in Threads
      PROVE  /\ Listed(longer, u) => pc'[u] \in {"waiting", "expired"}
             /\ pc'[u] = "waiting" => Listed(longer, u)
  BY <1>1, <1>4 DEF WithoutMe, WaitersInv
<1>6. \A i, j \in 1 .. Len(longer) : longer[i] = longer[j] => i = j
  <2> SUFFICES ASSUME NEW i \in 1 .. Len(longer), NEW j \in 1 .. Len(longer), longer[i] = longer[j]
               PROVE  i = j
    OBVIOUS
  <2>1. \A k \in 1 .. Len(longer) : k \in 1 .. Len(ws) \/ k = Len(ws) + 1
    BY <1>2, <1>3
  <2>2. \A k \in 1 .. Len(ws) : longer[k] # t
    BY <1>1, <1>3 DEF Listed
  <2> QED BY <1>1, <1>3, <2>1, <2>2 DEF WellListed
<1>7. CASE t = c
  <2>1. ~Listed(ws, c) /\ Behind(ws, c) = Len(ws) /\ items = <<>> /\ Len(items) = 0
    BY <1>1, <1>7, EmptySeq DEF Behind
  <2>2. Len(ws) = 0
    <3>1. Behind(ws, c) >= 1 => Behind(waiters, c) >= 1 /\ 0 + Cardinality(Producers) >= Capacity + Behind(waiters, c)
      BY <1>2, <2>1 DEF WithoutMe, WaitersInv, Backlog
    <3> QED BY <1>2, <2>1, <3>1
  <2>3. WellListed(longer, c)
    BY <1>3, <1>6, <2>2 DEF WellListed
  <2>4. Behind(longer, c) = 0
    BY <1>3, <1>4, <1>7, <2>2 DEF Behind
  <2> QED BY <1>1, <1>5, <2>1, <2>3, <2>4 DEF WaitersInv, Backlog, Listed, WellListed, Behind
<1>8. CASE t # c
  <2>1. Len(items) >= Capacity
    BY <1>2, <1>8 DEF HasRoom
  <2>2. WellListed(longer, c)
    <3>1. ASSUME NEW i \in 1 .. Len(longer), longer[i] = c PROVE i = 1
      <4>1. i \in 1 .. Len(ws)
        BY <1>2, <1>3, <1>8, <3>1
      <4> QED BY <1>1, <1>3, <3>1, <4>1 DEF WellListed
    <3> QED BY <1>6, <3>1 DEF WellListed
  <2>3. Behind(longer, c) <= Cardinality(Producers) /\ Behind(longer, c) \in Nat
    BY <1>3, <2>2, BehindBound, BehindType DEF EnoughSlots
  <2>4. Len(items') + Cardinality(Producers) >= Capacity + Behind(longer, c)
    BY <1>1, <1>2, <2>1, <2>3
  <2>5. pc'[c] # "waiting"
    <3>1. items # <<>>
      BY <1>2, <2>1, EmptySeq
    <3> QED BY <1>1, <1>8, <3>1 DEF WaitersInv
  <2> QED BY <1>1, <1>5, <2>2, <2>4, <2>5 DEF WaitersInv, Backlog, Listed, WellListed, Behind
<1> QED BY <1>7, <1>8

(* notify_all empties the list.                                            *)
LEMMA WakeAllKeeps ==
  ASSUME TypeOK, NEW c \in Threads, WakeAll
  PROVE  WaitersInv(c)'
<1>1. /\ \A u : ~Listed(<<>>, u)
      /\ WellListed(<<>>, c) /\ Behind(<<>>, c) = 0
  BY EmptySeq DEF Listed, WellListed, Behind
<1>2. waiters' = <<>> /\ \A u \in Threads : pc'[u] # "waiting"
  BY DEF WakeAll
<1> QED BY <1>1, <1>2 DEF WaitersInv, Backlog, Listed, WellListed, Behind

(* A wakeup the one consumer relies on is never lost: it is never asleep on *)
(* an item, nor is a producer asleep on room, while all the others sleep.  *)
THEOREM NoWakeupIsLost ==
  ASSUME NEW c, Consumers = {c}, EnoughSlots
  PROVE  Spec => []NoLostWakeup
<1> USE DEF counters, history
<1>0. c \in Threads /\ c \notin Producers
  BY QueueAssumption DEF Threads
<1>1. Init => WaitersInv(c)
  BY <1>0, EmptySeq DEF Init, WaitersInv, WellListed, Listed, Backlog, Behind
<1>2. IInv /\ WaitersInv(c) /\ [Next]_vars => WaitersInv(c)'
  <2> SUFFICES ASSUME IInv, WaitersInv(c), [Next]_vars PROVE WaitersInv(c)'
    OBVIOUS
  <2>0. TypeOK /\ items \in Seq(Item) /\ WellListed(waiters, c)
    BY DEF IInv, TypeOK, WaitersInv
  <2>1. \A t \in Threads : /\ pc[t] = "idle" => WithoutMe(waiters, t, c)
                           /\ WithoutMe(WaitersWithout(t), t, c)
    BY <2>0, NotOnIt, RemoveMe DEF WaitersInv
  <2>2. CASE UNCHANGED vars
    BY <2>2 DEF vars, WaitersInv, Backlog
  <2>3. ASSUME NEW p \in Producers, Put(p) \/ PutResume(p) PROVE WaitersInv(c)'
    <3>1. p \in Threads /\ p # c
      BY <1>0 DEF Threads
    <3>2. PICK ws : /\ WithoutMe(ws, p, c)
                    /\ \/ Put(p) /\ ws = waiters
                       \/ PutResume(p) /\ ws = WaitersWithout(p)
      BY <2>1, <2>3, <3>1 DEF Put
    <3>3. PICK x \in Item :
            \/ Refuse(p, x, ws)
            \/ Store(p, x, ws)
            \/ RejectNewest(p, x, ws)
            \/ ~HasRoom /\ EvictOldest(p, x) /\ ws = waiters
            \/ ~HasRoom /\ WaitOn(p, ws) /\ UNCHANGED items
      <4>1. CASE Put(p) /\ ws = waiters
        <5>1. <<p, sent[p] + 1>> \in Item
          <6>1. sent[p] < MaxItems
            BY <4>1 DEF Put
          <6>2. sent[p] \in 0 .. MaxItems /\ MaxItems \in Nat
            BY <2>0, QueueAssumption DEF TypeOK
          <6> QED BY <6>1, <6>2 DEF Item
        <5> QED BY <4>1, <5>1 DEF Put
      <4>2. CASE PutResume(p) /\ ws = WaitersWithout(p)
        <5>1. Current(p) \in Item
          <6>1. sent[p] # 0
            BY <4>2 DEF PutResume, Awake, IInv, BlockedHasItem, InFlight
          <6> QED BY <2>0, <6>1, QueueAssumption DEF Current, TypeOK, Item
        <5> QED BY <4>2, <5>1 DEF PutResume
      <4> QED BY <3>2, <4>1, <4>2
    <3>4. CASE Refuse(p, x, ws) \/ RejectNewest(p, x, ws)
      BY <1>0, <2>0, <3>1, <3>2, <3>4, LeaveKeeps DEF Refuse, RejectNewest
    <3>5. CASE Store(p, x, ws)
      <4>1. items' \in Seq(Item) /\ Len(items') >= Len(items)
        BY <2>0, <3>5, AppendProperties, LenProperties DEF Store
      <4> QED BY <1>0, <2>0, <3>1, <3>2, <3>5, <4>1, NotifyKeeps DEF Store
    <3>6. CASE ~HasRoom /\ EvictOldest(p, x) /\ ws = waiters
      <4>1. items # <<>>
        BY <3>6, EmptySeq, QueueAssumption DEF HasRoom
      <4>2. Tail(items) \in Seq(Item) /\ Len(items) \in Nat /\ Len(Tail(items)) = Len(items) - 1
        BY <2>0, <4>1, HeadTailProperties, LenProperties
      <4>3. items' \in Seq(Item) /\ Len(items') >= Len(items)
        BY <3>6, <4>2, AppendProperties DEF EvictOldest
      <4> QED BY <1>0, <2>0, <3>1, <3>2, <3>6, <4>3, NotifyKeeps DEF EvictOldest
    <3>7. CASE ~HasRoom /\ WaitOn(p, ws) /\ UNCHANGED items
      BY <1>0, <2>0, <3>1, <3>2, <3>7, WaitKeeps
    <3> QED BY <3>3, <3>4, <3>5, <3>6, <3>7
  <2>4. ASSUME Get(c) \/ GetResume(c) \/ GetNowait(c) PROVE WaitersInv(c)'
    <3>1. PICK ws : /\ WithoutMe(ws, c, c)
                    /\ \/ Take(c, ws)
                       \/ ReturnClosed(c, ws)
                       \/ Leave(c, "idle", ws) /\ UNCHANGED items
                       \/ items = <<>> /\ WaitOn(c, ws) /\ UNCHANGED items
      <4>1. CASE Get(c) \/ GetNowait(c)
        BY <1>0, <2>1, <4>1 DEF Get, GetNowait
      <4>2. CASE GetResume(c)
        BY <1>0, <2>1, <4>2 DEF GetResume
      <4> QED BY <2>4, <4>1, <4>2
    <3>2. CASE Take(c, ws)
      <4>1. items' \in Seq(Item) /\ Len(items') = Len(items) - 1
        BY <2>0, <3>2, HeadTailProperties DEF Take
      <4> QED BY <1>0, <2>0, <3>1, <3>2, <4>1, NotifyKeeps DEF Take
    <3>3. CASE ReturnClosed(c, ws) \/ (Leave(c, "idle", ws) /\ UNCHANGED items)
      BY <1>0, <2>0, <3>1, <3>3, LeaveKeeps DEF ReturnClosed
    <3>4. CASE items = <<>> /\ WaitOn(c, ws) /\ UNCHANGED items
      BY <1>0, <2>0, <3>1, <3>4, WaitKeeps
    <3> QED BY <3>1, <3>2, <3>3, <3>4
  <2>5. CASE Close \/ Drain
    BY <1>0, <2>0, <2>5, WakeAllKeeps DEF Close, Drain
  <2>6. ASSUME NEW t \in Threads, Timeout(t) PROVE WaitersInv(c)'
    <3>1. /\ pc[t] = "waiting" /\ pc' = [pc EXCEPT ![t] = "expired"]
          /\ waiters' = waiters /\ items' = items /\ pc \in [Threads -> Status]
      BY <2>0, <2>6 DEF Timeout, TypeOK
    <3>2. \A u \in Threads : pc'[u] = IF u = t THEN "expired" ELSE pc[u]
      BY <3>1
    <3> QED BY <1>0, <3>1, <3>2 DEF WaitersInv, Backlog
  <2> QED BY <2>2, <2>3, <2>4, <2>5, <2>6 DEF Next
<1>3. IInv /\ WaitersInv(c) => NoLostWakeup
  <2> SUFFICES ASSUME IInv, WaitersInv(c), \A t \in Threads : pc[t] = "waiting",
                      items # <<>> \/ \E p \in Producers : pc[p] = "waiting"
               PROVE  FALSE
    BY DEF NoLostWakeup
  <2>1. items = <<>> /\ Len(items) = 0
    BY <1>0, EmptySeq DEF WaitersInv
  <2>2. PICK p \in Producers : pc[p] = "waiting"
    BY <2>1
  <2>3. /\ Len(waiters) \in Nat /\ Behind(waiters, c) \in Nat
        /\ Cardinality(Producers) \in Nat /\ Capacity \in Nat /\ Cardinality(Producers) <= Capacity
    BY LenProperties, BehindType, FS_CardinalityType, QueueAssumption DEF IInv, TypeOK, EnoughSlots
  <2>4. Listed(waiters, c) /\ Listed(waiters, p)
    BY <1>0 DEF WaitersInv, Threads
  <2>5. PICK i \in 1 .. Len(waiters), j \in 1 .. Len(waiters) : waiters[i] = c /\ waiters[j] = p
    BY <2>4 DEF Listed
  <2>6. i = 1 /\ j # 1
    BY <1>0, <2>5 DEF WaitersInv, WellListed
  <2>7. Behind(waiters, c) >= 1
    BY <2>3, <2>4, <2>6 DEF Behind
  <2> QED BY <2>1, <2>3, <2>7 DEF WaitersInv, Backlog
<1>4. QED BY <1>1, <1>2, <1>3, InductiveInvariant, PTL DEF Spec
=============================================================================
