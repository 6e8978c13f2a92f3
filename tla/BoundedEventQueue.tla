-------------------------- MODULE BoundedEventQueue --------------------------
(***************************************************************************)
(* reliability/queue.py: the capacity-bounded FIFO between the thread that *)
(* drains the event source and the thread that runs detection.             *)
(*                                                                         *)
(* Every method body runs under one threading.Condition, so the atomic     *)
(* steps are the stretches between acquiring the lock and releasing it: a  *)
(* whole get_nowait/close/drain, a put or get that does not wait, and,     *)
(* for one that waits, the part up to wait_for and the part after it.      *)
(* Producers and consumers wait on the SAME condition, and notify() wakes  *)
(* exactly one waiter, the one that has waited longest.                    *)
(***************************************************************************)
EXTENDS Naturals, FiniteSets, Sequences, SequencesExt

CONSTANTS
  Producers,    (* threads that call put                                    *)
  Consumers,    (* threads that call get, get_nowait and drain              *)
  Capacity,     (* the capacity argument of the constructor                 *)
  Policies,     (* overflow policies a queue may be constructed with        *)
  TimedPut,     (* choices for "put was given a timeout", a set of BOOLEAN  *)
  TimedGet,     (* choices for "get was given a timeout", a set of BOOLEAN  *)
  MaxItems      (* bound: put calls per producer                            *)

ASSUME QueueAssumption ==
  /\ Producers \cap Consumers = {}
  /\ Capacity \in Nat \ {0}
  /\ Policies \subseteq {"block", "drop_newest", "drop_oldest"}
  /\ TimedPut \subseteq BOOLEAN
  /\ TimedGet \subseteq BOOLEAN
  /\ MaxItems \in Nat

VARIABLES
  overflow,       (* _overflow, fixed by the constructor                    *)
  items,          (* _items                                                 *)
  closed,         (* _closed                                                *)
  waiters,        (* the condition's waiter list, oldest first              *)
  pc,             (* where each thread is, see Status                       *)
  timed,          (* the call in progress was given a timeout               *)
  sent,           (* number of put calls each producer has begun            *)
  enqueued, dequeued, droppedNewest, droppedOldest, maxDepth, (* counters   *)
  got,            (* history: items returned by get, get_nowait and drain   *)
  dropped,        (* history: items handed to on_drop                       *)
  refused         (* history: items whose put raised QueueClosed            *)

counters == <<enqueued, dequeued, droppedNewest, droppedOldest, maxDepth>>
history == <<got, dropped, refused>>
vars == <<overflow, items, closed, waiters, pc, timed, sent, counters, history>>

Threads == Producers \cup Consumers

(* The n-th item producer p offers.                                         *)
Item == Producers \X (1 .. MaxItems)
Current(p) == <<p, sent[p]>>

(* "idle": outside the queue. "waiting": blocked in Condition.wait.         *)
(* "notified": woken by notify, wants the lock back. "expired": its timeout *)
(* elapsed, wants the lock back, and is still in the waiter list until it   *)
(* has it. "done": saw QueueClosed (producer) or CLOSED (consumer).         *)
Status == {"idle", "waiting", "notified", "expired", "done"}
Awake(t) == pc[t] \in {"notified", "expired"}

TypeOK ==
  /\ overflow \in Policies
  /\ items \in Seq(Item)
  /\ closed \in BOOLEAN
  /\ waiters \in Seq(Threads)
  /\ pc \in [Threads -> Status]
  /\ timed \in [Threads -> BOOLEAN]
  /\ sent \in [Producers -> 0 .. MaxItems]
  /\ enqueued \in Nat /\ dequeued \in Nat /\ maxDepth \in Nat
  /\ droppedNewest \in Nat /\ droppedOldest \in Nat
  /\ got \in Seq(Item)
  /\ dropped \in Seq(Item)
  /\ refused \subseteq Item

Init ==
  /\ overflow \in Policies
  /\ items = <<>>
  /\ closed = FALSE
  /\ waiters = <<>>
  /\ pc = [t \in Threads |-> "idle"]
  /\ timed = [t \in Threads |-> FALSE]
  /\ sent = [p \in Producers |-> 0]
  /\ enqueued = 0 /\ dequeued = 0 /\ maxDepth = 0
  /\ droppedNewest = 0 /\ droppedOldest = 0
  /\ got = <<>> /\ dropped = <<>> /\ refused = {}
-----------------------------------------------------------------------------
(* Condition.wait and Condition.notify, as CPython's threading has them.    *)

(* t joins the waiter list and gives the lock up.                           *)
WaitOn(t, ws) ==
  /\ waiters' = Append(ws, t)
  /\ pc' = [pc EXCEPT ![t] = "waiting"]

(* Mutant of NotifyOne: the notify is forgotten.                            *)
NotifyNobody(t, s, ws) ==
  /\ waiters' = ws
  /\ pc' = [pc EXCEPT ![t] = s]

(* t leaves with status s; the first waiter of ws is woken. A waiter whose  *)
(* timeout has already elapsed swallows the notification.                   *)
NotifyOne(t, s, ws) ==
  LET left == [pc EXCEPT ![t] = s]
  IN  IF ws = <<>>
      THEN waiters' = ws /\ pc' = left
      ELSE /\ waiters' = Tail(ws)
           /\ pc' = [left EXCEPT ![Head(ws)] =
                       IF @ = "waiting" THEN "notified" ELSE @]

(* t leaves with status s and wakes nobody.                                 *)
Leave(t, s, ws) ==
  /\ waiters' = ws
  /\ pc' = [pc EXCEPT ![t] = s]

WakeAll ==
  /\ waiters' = <<>>
  /\ pc' = [t \in Threads |-> IF pc[t] = "waiting" THEN "notified" ELSE pc[t]]

(* A waiter that has the lock again is no longer in the list.               *)
WaitersWithout(t) ==
  IF Contains(waiters, t)
  THEN RemoveAt(waiters, CHOOSE i \in 1 .. Len(waiters) : waiters[i] = t)
  ELSE waiters

(* The timeout of a wait elapses before anybody notifies the waiter.        *)
Timeout(t) ==
  /\ pc[t] = "waiting" /\ timed[t]
  /\ pc' = [pc EXCEPT ![t] = "expired"]
  /\ UNCHANGED <<overflow, items, closed, waiters, timed, sent, counters, history>>
-----------------------------------------------------------------------------
HasRoom == Len(items) < Capacity

Refuse(p, x, ws) ==
  /\ Leave(p, "done", ws)
  /\ refused' = refused \cup {x}
  /\ UNCHANGED <<items, counters, got, dropped>>

Store(p, x, ws) ==
  /\ items' = Append(items, x)
  /\ enqueued' = enqueued + 1
  /\ maxDepth' = IF Len(items) + 1 > maxDepth THEN Len(items) + 1 ELSE maxDepth
  /\ NotifyOne(p, "idle", ws)
  /\ UNCHANGED <<dequeued, droppedNewest, droppedOldest, history>>

RejectNewest(p, x, ws) ==
  /\ droppedNewest' = droppedNewest + 1
  /\ dropped' = Append(dropped, x)
  /\ Leave(p, "idle", ws)
  /\ UNCHANGED <<items, enqueued, dequeued, droppedOldest, maxDepth, got, refused>>

(* Mutants of EvictOldest: the eviction is not counted; the new item goes   *)
(* where the old one was.                                                   *)
EvictUncounted(p, x) ==
  /\ items' = Append(Tail(items), x)
  /\ enqueued' = enqueued + 1
  /\ dropped' = Append(dropped, Head(items))
  /\ NotifyOne(p, "idle", waiters)
  /\ UNCHANGED <<dequeued, droppedNewest, droppedOldest, maxDepth, got, refused>>

EvictInPlace(p, x) ==
  /\ items' = <<x>> \o Tail(items)
  /\ droppedOldest' = droppedOldest + 1
  /\ enqueued' = enqueued + 1
  /\ dropped' = Append(dropped, Head(items))
  /\ NotifyOne(p, "idle", waiters)
  /\ UNCHANGED <<dequeued, droppedNewest, maxDepth, got, refused>>

EvictOldest(p, x) ==
  /\ items' = Append(Tail(items), x)
  /\ droppedOldest' = droppedOldest + 1
  /\ enqueued' = enqueued + 1
  /\ dropped' = Append(dropped, Head(items))
  /\ NotifyOne(p, "idle", waiters)
  /\ UNCHANGED <<dequeued, droppedNewest, maxDepth, got, refused>>

(* put(item, timeout): p offers its next item.                              *)
Put(p) ==
  LET x == <<p, sent[p] + 1>>
  IN  /\ pc[p] = "idle"
      /\ sent[p] < MaxItems
      /\ sent' = [sent EXCEPT ![p] = @ + 1]
      /\ \E tm \in TimedPut : timed' = [timed EXCEPT ![p] = tm]
      /\ \/ closed /\ Refuse(p, x, waiters)
         \/ ~closed /\ HasRoom /\ Store(p, x, waiters)
         \/ /\ ~closed /\ ~HasRoom
            /\ \/ overflow = "drop_newest" /\ RejectNewest(p, x, waiters)
               \/ overflow = "drop_oldest" /\ EvictOldest(p, x)
               \/ /\ overflow = "block"
                  /\ WaitOn(p, waiters)
                  /\ UNCHANGED <<items, counters, history>>
      /\ UNCHANGED <<overflow, closed>>

(* Mutant of PutResume: _closed is not checked again after the wait.        *)
PutResumeUnchecked(p) ==
  LET x == Current(p)
      ws == WaitersWithout(p)
  IN  /\ Awake(p)
      /\ \/ HasRoom /\ Store(p, x, ws)
         \/ ~HasRoom /\ timed[p] /\ RejectNewest(p, x, ws)
         \/ /\ ~HasRoom /\ pc[p] = "notified"
            /\ WaitOn(p, ws)
            /\ UNCHANGED <<items, counters, history>>
      /\ UNCHANGED <<overflow, closed, timed, sent>>

(* The rest of a put that waited: wait_for re-evaluates its predicate. A    *)
(* waiter that was notified in vain waits again unless its deadline passed. *)
PutResume(p) ==
  LET x == Current(p)
      ws == WaitersWithout(p)
  IN  /\ Awake(p)
      /\ \/ closed /\ Refuse(p, x, ws)
         \/ ~closed /\ HasRoom /\ Store(p, x, ws)
         \/ ~closed /\ ~HasRoom /\ timed[p] /\ RejectNewest(p, x, ws)
         \/ /\ ~closed /\ ~HasRoom /\ pc[p] = "notified"
            /\ WaitOn(p, ws)
            /\ UNCHANGED <<items, counters, history>>
      /\ UNCHANGED <<overflow, closed, timed, sent>>
-----------------------------------------------------------------------------
Take(c, ws) ==
  /\ items # <<>>
  /\ items' = Tail(items)
  /\ dequeued' = dequeued + 1
  /\ got' = Append(got, Head(items))
  /\ NotifyOne(c, "idle", ws)
  /\ UNCHANGED <<enqueued, droppedNewest, droppedOldest, maxDepth, dropped, refused>>

ReturnClosed(c, ws) ==
  /\ items = <<>> /\ closed
  /\ Leave(c, "done", ws)
  /\ UNCHANGED <<items, counters, history>>

(* get(timeout)                                                             *)
Get(c) ==
  /\ pc[c] = "idle"
  /\ \E tm \in TimedGet : timed' = [timed EXCEPT ![c] = tm]
  /\ \/ Take(c, waiters)
     \/ ReturnClosed(c, waiters)
     \/ /\ items = <<>> /\ ~closed
        /\ WaitOn(c, waiters)
        /\ UNCHANGED <<items, counters, history>>
  /\ UNCHANGED <<overflow, closed, sent>>

(* The rest of a get that waited; leaving idle without an item is EMPTY.    *)
GetResume(c) ==
  LET ws == WaitersWithout(c)
  IN  /\ Awake(c)
      /\ \/ Take(c, ws)
         \/ ReturnClosed(c, ws)
         \/ /\ items = <<>> /\ ~closed
            /\ \/ timed[c] /\ Leave(c, "idle", ws)
               \/ pc[c] = "notified" /\ WaitOn(c, ws)
            /\ UNCHANGED <<items, counters, history>>
      /\ UNCHANGED <<overflow, closed, timed, sent>>

(* get_nowait(); on an open empty queue it returns EMPTY and changes nothing. *)
GetNowait(c) ==
  /\ pc[c] = "idle"
  /\ Take(c, waiters) \/ ReturnClosed(c, waiters)
  /\ UNCHANGED <<overflow, closed, timed, sent>>
-----------------------------------------------------------------------------
(* Mutant of Close: notify_all is forgotten.                                *)
CloseQuietly ==
  /\ ~closed
  /\ closed' = TRUE
  /\ UNCHANGED <<overflow, items, waiters, pc, timed, sent, counters, history>>

(* close(); a second call returns early.                                    *)
Close ==
  /\ ~closed
  /\ closed' = TRUE
  /\ WakeAll
  /\ UNCHANGED <<overflow, items, timed, sent, counters, history>>

(* drain()                                                                  *)
Drain ==
  /\ items # <<>> \/ waiters # <<>>
  /\ dequeued' = dequeued + Len(items)
  /\ got' = got \o items
  /\ items' = <<>>
  /\ WakeAll
  /\ UNCHANGED <<overflow, closed, timed, sent, enqueued, droppedNewest,
                 droppedOldest, maxDepth, dropped, refused>>

Next ==
  \/ \E p \in Producers : Put(p) \/ PutResume(p)
  \/ \E c \in Consumers : Get(c) \/ GetResume(c) \/ GetNowait(c)
  \/ \E t \in Threads : Timeout(t)
  \/ Close
  \/ Drain

Spec == Init /\ [][Next]_vars

(* A consumer keeps calling get until it sees CLOSED; a woken thread gets   *)
(* the lock back; time passes. Nobody has to call put, close or drain.      *)
Fairness ==
  /\ \A p \in Producers : WF_vars(PutResume(p))
  /\ \A c \in Consumers : WF_vars(Get(c)) /\ WF_vars(GetResume(c))
  /\ \A t \in Threads : WF_vars(Timeout(t))

FairSpec == Spec /\ Fairness
-----------------------------------------------------------------------------
(* "No unbounded growth": the deque never holds more than Capacity items,   *)
(* and max_depth, which eviction and the late half of a blocked put both    *)
(* have to respect, is a true high-water mark.                              *)
DepthWithinCapacity ==
  /\ Len(items) <= maxDepth
  /\ maxDepth <= Capacity

(* stats is consistent whenever it is read: what went in either came out,   *)
(* was evicted or is still there, and every drop went through on_drop.      *)
StatsAddUp ==
  /\ enqueued = dequeued + droppedOldest + Len(items)
  /\ dequeued = Len(got)
  /\ droppedNewest + droppedOldest = Len(dropped)

(* Both together: what stats() reports is true at every moment, while puts  *)
(* and gets of several threads are under way.                               *)
CountersBalance == DepthWithinCapacity /\ StatsAddUp

InFlight(p) == pc[p] \in {"waiting", "notified", "expired"}
Occurrences(s, x) == Cardinality({i \in DOMAIN s : s[i] = x})

(* "No dropped events silently": an item whose put has begun is in exactly  *)
(* one place - queued, taken, dropped, refused with QueueClosed, or in the  *)
(* hands of a producer still blocked - through waiting, eviction, timeouts  *)
(* and a close at any moment, and is never in two.                          *)
EveryItemAccounted ==
  \A p \in Producers : \A n \in 1 .. sent[p] :
    LET x == <<p, n>>
    IN  Occurrences(items, x) + Occurrences(got, x) + Occurrences(dropped, x)
        + (IF x \in refused THEN 1 ELSE 0)
        + (IF InFlight(p) /\ n = sent[p] THEN 1 ELSE 0) = 1

(* FIFO: the items of one producer leave the queue in the order it offered  *)
(* them, whatever was dropped between them and whoever took them.           *)
ProducerOrder ==
  LET line == got \o items
  IN  \A i, j \in DOMAIN line :
        i < j /\ line[i][1] = line[j][1] => line[i][2] < line[j][2]

(* get returns CLOSED only when nothing will ever be left behind: a put     *)
(* racing with close never stores an item after a consumer has gone.        *)
NothingLeftBehind ==
  (\E c \in Consumers : pc[c] = "done") => closed /\ items = <<>>

(* No wakeup is lost: a consumer is never left asleep on a queue that holds *)
(* an item, nor a producer on a queue with room, with every other thread    *)
(* asleep too. get documents that it blocks only "while the queue is empty  *)
(* and open", BLOCK that it blocks "until a slot frees up". With one        *)
(* consumer and no more producers than slots, that is.                      *)
NoLostWakeup ==
  ~ /\ \A t \in Threads : pc[t] = "waiting" /\ ~timed[t]
    /\ \/ items # <<>>
       \/ HasRoom /\ \E p \in Producers : pc[p] = "waiting"

(* Once closed, nothing enters: blocked producers included.                 *)
NothingEntersAfterClose == [][closed => enqueued' = enqueued]_vars

(* close() unblocks every waiter: every call in progress returns and every  *)
(* consumer drains the queue and sees CLOSED.                               *)
CloseUnblocksAll ==
  closed ~> /\ \A p \in Producers : ~InFlight(p)
            /\ \A c \in Consumers : pc[c] = "done"

(* Backpressure ends: with one consumer and no more producers than slots, a *)
(* blocked put returns even if nobody ever closes the queue.                *)
BlockedPutReturns == \A p \in Producers : InFlight(p) ~> ~InFlight(p)

(* Nothing is lost or overtaken: both of the above, of every item.          *)
NothingLostOrOvertaken == EveryItemAccounted /\ ProducerOrder

(* Every call comes back: because the queue is closed, or because the one   *)
(* consumer leaves none of so few producers waiting for ever.               *)
CallsReturn == CloseUnblocksAll /\ BlockedPutReturns
=============================================================================
