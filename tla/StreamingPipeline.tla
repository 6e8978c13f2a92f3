------------------------- MODULE StreamingPipeline -------------------------
(***************************************************************************)
(* reliability/pipeline.py: run() of StreamingPipeline, from recovery to   *)
(* the result. The producer thread pulls events from the source and puts   *)
(* them into the queue; the calling thread takes them out, runs detection  *)
(* on them, and tears everything down; other threads ask it to stop.       *)
(*                                                                         *)
(* The queue is BoundedEventQueue, with one producer and one consumer that *)
(* give every call a timeout. What happens to an alert is AlertDelivery's  *)
(* subject: here an event is either processed or fails, and the spool or   *)
(* the sink may make the delivery code raise.                              *)
(***************************************************************************)
EXTENDS Naturals, FiniteSets, Sequences

CONSTANTS
  Capacity,      (* of the queue                                            *)
  Policies,      (* overflow policies the queue may be constructed with     *)
  DrainPolicies, (* choices for drain_on_shutdown, a set of BOOLEAN         *)
  Caps,          (* choices for max_events; one above MaxItems is None      *)
  Stoppers,      (* what may stop the run, see StopperKinds                 *)
  MaxItems,      (* bound: events received                                  *)
  MaxInterrupts  (* bound: KeyboardInterrupts                               *)

(* "event": the external stop event. "duration": duration_seconds elapse.   *)
(* "request": request_stop. "interrupt": KeyboardInterrupt. "error": the    *)
(* spool or the sink raises.                                                *)
StopperKinds == {"event", "duration", "request", "interrupt", "error"}

ASSUME PipelineAssumption ==
  /\ Capacity \in Nat \ {0}
  /\ Policies \subseteq {"block", "drop_newest", "drop_oldest"}
  /\ DrainPolicies \subseteq BOOLEAN
  /\ Caps \subseteq Nat \ {0}
  /\ Stoppers \subseteq StopperKinds
  /\ MaxItems \in Nat /\ MaxInterrupts \in Nat

VARIABLES
  (* the queue's state, see BoundedEventQueue                               *)
  overflow, items, closed, waiters, pc, timed, sent,
  enqueued, dequeued, droppedNewest, droppedOldest, maxDepth,
  got, dropped, refused,
  (* the pipeline's                                                         *)
  drain, cap,      (* drain_on_shutdown and max_events                      *)
  stop,            (* _stop                                                 *)
  expired,         (* the duration's _deadline has passed                   *)
  producerDone,    (* _producer_done                                        *)
  prod,            (* where the producer thread is                          *)
  run,             (* where the thread in run() is                          *)
  cause,           (* why _consume ended                                    *)
  sourceClosed,    (* the source generator has finished or been closed      *)
  received, processed, failed,  (* the metrics' event counters              *)
  abandoned,       (* history: events an interrupt took out of its hands    *)
  requester,       (* a thread in request_stop                              *)
  interrupts

P == "producer"
C == "consumer"

Q == INSTANCE BoundedEventQueue WITH
       Producers <- {P}, Consumers <- {C}, TimedPut <- {TRUE}, TimedGet <- {TRUE}

queue == <<overflow, items, closed, waiters, pc, timed, sent, enqueued, dequeued,
           droppedNewest, droppedOldest, maxDepth, got, dropped, refused>>
config == <<drain, cap>>
signals == <<stop, expired, producerDone>>
counts == <<received, processed, failed>>
vars == <<queue, config, signals, prod, run, cause, sourceClosed, counts,
          abandoned, requester, interrupts>>

Consuming == run \in {"loop", "get", "empty", "process"}
Finishing == run \in {"stopping", "closing", "teardown", "joining", "sweeping"}
Over == run \in {"returned", "raised"}

TypeOK ==
  /\ Q!TypeOK
  /\ drain \in DrainPolicies /\ cap \in Caps
  /\ stop \in BOOLEAN /\ expired \in BOOLEAN /\ producerDone \in BOOLEAN
  /\ prod \in {"none", "next", "source", "check", "put", "finish", "close", "ended"}
  /\ Consuming \/ Finishing \/ Over \/ run = "recovering"
  /\ cause \in {"none", "closed", "idle", "discard", "max_events", "interrupt", "error"}
  /\ sourceClosed \in BOOLEAN
  /\ received \in 0 .. MaxItems /\ processed \in Nat /\ failed \in Nat
  /\ abandoned \in 0 .. MaxInterrupts
  /\ requester \in {"idle", "close", "done"}
  /\ interrupts \in 0 .. MaxInterrupts

Init ==
  /\ Q!Init
  /\ drain \in DrainPolicies /\ cap \in Caps
  /\ stop = FALSE /\ expired = FALSE /\ producerDone = FALSE
  /\ prod = "none" /\ run = "recovering" /\ cause = "none"
  /\ sourceClosed = FALSE
  /\ received = 0 /\ processed = 0 /\ failed = 0 /\ abandoned = 0
  /\ requester = "idle" /\ interrupts = 0

(* queue.close(), a second call included.                                   *)
QueueClose == Q!Close \/ (closed /\ UNCHANGED queue)

(* _on_drop: every item the queue drops is counted as a failed event.       *)
OnDrop == failed' = failed + (Len(dropped') - Len(dropped))
-----------------------------------------------------------------------------
(* The producer thread: _produce.                                           *)

(* The next event is asked of the source; a closed generator ends the loop. *)
EnterSource ==
  /\ prod = "next"
  /\ prod' = IF sourceClosed THEN "finish" ELSE "source"
  /\ UNCHANGED <<queue, config, signals, run, cause, sourceClosed, counts,
                 abandoned, requester, interrupts>>

(* The source has an event. Past the bound, only one nobody will receive.   *)
SourceYields ==
  /\ prod = "source"
  /\ received < MaxItems \/ stop \/ expired
  /\ prod' = "check"
  /\ UNCHANGED <<queue, config, signals, run, cause, sourceClosed, counts,
                 abandoned, requester, interrupts>>

(* The source ends, or raises: either way its generator has finished.       *)
SourceEnds ==
  /\ prod = "source"
  /\ prod' = "finish"
  /\ sourceClosed' = TRUE
  /\ UNCHANGED <<queue, config, signals, run, cause, counts,
                 abandoned, requester, interrupts>>

(* Mutant of Receive: the event is counted before the stop test.            *)
ReceiveThenCheck ==
  /\ prod = "check"
  /\ received' = received + 1
  /\ prod' = IF stop \/ expired THEN "finish" ELSE "put"
  /\ UNCHANGED <<queue, config, signals, run, cause, sourceClosed, processed,
                 failed, abandoned, requester, interrupts>>

(* The event in hand is dropped if the run is stopping, and else received.  *)
Receive ==
  /\ prod = "check"
  /\ IF stop \/ expired
     THEN prod' = "finish" /\ UNCHANGED received
     ELSE prod' = "put" /\ received' = received + 1
  /\ UNCHANGED <<queue, config, signals, run, cause, sourceClosed, processed,
                 failed, abandoned, requester, interrupts>>

(* queue.put, or the rest of one that blocked. QueueClosed ends the loop    *)
(* and takes the event with it.                                             *)
PutEvent ==
  /\ prod = "put"
  /\ Q!Put(P) \/ Q!PutResume(P)
  /\ OnDrop
  /\ prod' = CASE pc'[P] = "idle" -> "next"
               [] pc'[P] = "done" -> "finish"
               [] OTHER -> "put"
  /\ UNCHANGED <<config, signals, run, cause, sourceClosed, received, processed,
                 abandoned, requester, interrupts>>

ProducerFinishes ==
  /\ prod = "finish"
  /\ prod' = "close"
  /\ producerDone' = TRUE
  /\ UNCHANGED <<queue, config, stop, expired, run, cause, sourceClosed, counts,
                 abandoned, requester, interrupts>>

ProducerCloses ==
  /\ prod = "close"
  /\ prod' = "ended"
  /\ QueueClose
  /\ UNCHANGED <<config, signals, run, cause, sourceClosed, counts,
                 abandoned, requester, interrupts>>
-----------------------------------------------------------------------------
(* The thread in run(): recover, then _consume.                             *)

StartStreaming ==
  /\ run = "recovering"
  /\ run' = "loop"
  /\ prod' = "next"
  /\ UNCHANGED <<queue, config, signals, cause, sourceClosed, counts,
                 abandoned, requester, interrupts>>

Leave(why) == run' = "stopping" /\ cause' = why

LoopTop ==
  /\ run = "loop"
  /\ IF stop /\ ~drain
     THEN Leave("discard")
     ELSE run' = "get" /\ UNCHANGED cause
  /\ UNCHANGED <<queue, config, signals, prod, sourceClosed, counts,
                 abandoned, requester, interrupts>>

(* queue.get, or the rest of one that waited: an event, CLOSED or EMPTY.    *)
GetEvent ==
  /\ run = "get"
  /\ Q!Get(C) \/ Q!GetResume(C)
  /\ \/ pc'[C] = "waiting" /\ UNCHANGED <<run, cause>>
     \/ pc'[C] = "done" /\ Leave("closed")
     \/ /\ pc'[C] = "idle"
        /\ run' = IF dequeued' > dequeued THEN "process" ELSE "empty"
        /\ UNCHANGED cause
  /\ UNCHANGED <<config, signals, prod, sourceClosed, counts,
                 abandoned, requester, interrupts>>

(* After EMPTY: retries, then the exit test. Its three reads are one step   *)
(* because what they read never turns back once it is true in that order.   *)
Idle ==
  /\ run = "empty"
  /\ IF (stop \/ expired) /\ producerDone /\ items = <<>>
     THEN Leave("idle")
     ELSE run' = "loop" /\ UNCHANGED cause
  /\ UNCHANGED <<queue, config, signals, prod, sourceClosed, counts,
                 abandoned, requester, interrupts>>

(* Mutant of Process: an event detection failed on is not counted.          *)
ProcessForgetful ==
  /\ run = "process"
  /\ \/ processed' = processed + 1 /\ UNCHANGED failed
     \/ UNCHANGED <<processed, failed>>
  /\ IF dequeued >= cap
     THEN Leave("max_events")
     ELSE run' = "loop" /\ UNCHANGED cause
  /\ UNCHANGED <<queue, config, signals, prod, sourceClosed, received,
                 abandoned, requester, interrupts>>

(* _process_event and the max_events test: every event taken so far was     *)
(* processed. What the cap does next, set _stop and close the queue, is     *)
(* what the finally clause of run does first.                               *)
Process ==
  /\ run = "process"
  /\ \/ processed' = processed + 1 /\ UNCHANGED failed
     \/ failed' = failed + 1 /\ UNCHANGED processed
  /\ IF dequeued >= cap
     THEN Leave("max_events")
     ELSE run' = "loop" /\ UNCHANGED cause
  /\ UNCHANGED <<queue, config, signals, prod, sourceClosed, received,
                 abandoned, requester, interrupts>>

(* The spool or the sink raises: delivering the alerts of an event that has *)
(* been counted, or in a retry while idle.                                  *)
DeliveryRaises ==
  /\ "error" \in Stoppers
  /\ \/ run = "process" /\ processed' = processed + 1
     \/ run = "empty" /\ UNCHANGED processed
  /\ Leave("error")
  /\ UNCHANGED <<queue, config, signals, prod, sourceClosed, received, failed,
                 abandoned, requester, interrupts>>
-----------------------------------------------------------------------------
(* The thread in run(): its finally clause.                                 *)

SetStop ==
  /\ run = "stopping"
  /\ run' = "closing"
  /\ stop' = TRUE
  /\ UNCHANGED <<queue, config, expired, producerDone, prod, cause, sourceClosed,
                 counts, abandoned, requester, interrupts>>

RunCloses ==
  /\ run = "closing"
  /\ run' = "teardown"
  /\ QueueClose
  /\ UNCHANGED <<config, signals, prod, cause, sourceClosed, counts,
                 abandoned, requester, interrupts>>

(* source.close(): a generator the producer is executing refuses with       *)
(* ValueError, which is swallowed.                                          *)
CloseSource ==
  /\ run = "teardown"
  /\ run' = "joining"
  /\ sourceClosed' = (sourceClosed \/ prod # "source")
  /\ UNCHANGED <<queue, config, signals, prod, cause, counts,
                 abandoned, requester, interrupts>>

(* Mutant of Join: no timeout.                                              *)
JoinForever ==
  /\ run = "joining"
  /\ prod = "ended"
  /\ run' = "sweeping"
  /\ UNCHANGED <<queue, config, signals, prod, cause, sourceClosed, counts,
                 abandoned, requester, interrupts>>

(* producer.join(5.0): only the source can keep the producer that long.     *)
Join ==
  /\ run = "joining"
  /\ prod \in {"ended", "source"}
  /\ run' = "sweeping"
  /\ UNCHANGED <<queue, config, signals, prod, cause, sourceClosed, counts,
                 abandoned, requester, interrupts>>

(* The final sweep of the spool, the flush, and the result, or an exception *)
(* from the spool.                                                          *)
Sweep ==
  /\ run = "sweeping"
  /\ run' \in {"returned"} \cup (IF "error" \in Stoppers THEN {"raised"} ELSE {})
  /\ UNCHANGED <<queue, config, signals, prod, cause, sourceClosed, counts,
                 abandoned, requester, interrupts>>
-----------------------------------------------------------------------------
(* The ways to stop a run.                                                  *)

(* The watcher thread of the external stop event, started after recovery.   *)
StopEvent ==
  /\ "event" \in Stoppers /\ run # "recovering" /\ ~stop
  /\ stop' = TRUE
  /\ UNCHANGED <<queue, config, expired, producerDone, prod, run, cause,
                 sourceClosed, counts, abandoned, requester, interrupts>>

DurationElapses ==
  /\ "duration" \in Stoppers /\ run # "recovering" /\ ~expired
  /\ expired' = TRUE
  /\ UNCHANGED <<queue, config, stop, producerDone, prod, run, cause,
                 sourceClosed, counts, abandoned, requester, interrupts>>

(* request_stop in another thread; the _deadline it sets adds nothing to    *)
(* the _stop it has set before.                                             *)
RequestStop ==
  \/ /\ "request" \in Stoppers /\ requester = "idle"
     /\ requester' = "close"
     /\ stop' = TRUE
     /\ UNCHANGED <<queue, config, expired, producerDone, prod, run, cause,
                    sourceClosed, counts, abandoned, interrupts>>
  \/ /\ requester = "close"
     /\ requester' = "done"
     /\ QueueClose
     /\ UNCHANGED <<config, signals, prod, run, cause, sourceClosed, counts,
                    abandoned, interrupts>>

(* KeyboardInterrupt in the thread in run(). In _consume it leads to the    *)
(* finally clause: out of a wait in get, with the event get has returned    *)
(* lost, or in the middle of delivering its alerts. Anywhere else it leaves *)
(* run at once.                                                             *)
Interrupt ==
  /\ "interrupt" \in Stoppers /\ interrupts < MaxInterrupts /\ ~Over
  /\ interrupts' = interrupts + 1
  /\ \/ /\ Consuming
        /\ Leave("interrupt")
        /\ waiters' = Q!WaitersWithout(C)
        /\ pc' = [pc EXCEPT ![C] = "idle"]
        /\ \/ run = "process" /\ abandoned' = abandoned + 1 /\ UNCHANGED processed
           \/ run = "process" /\ processed' = processed + 1 /\ UNCHANGED abandoned
           \/ run # "process" /\ UNCHANGED <<abandoned, processed>>
     \/ /\ ~Consuming
        /\ run' = "raised"
        /\ UNCHANGED <<cause, waiters, pc, abandoned, processed>>
  /\ UNCHANGED <<overflow, items, closed, timed, sent, enqueued, dequeued,
                 droppedNewest, droppedOldest, maxDepth, got, dropped, refused,
                 config, signals, prod, sourceClosed, received, failed, requester>>

(* The timeout of a put or a get elapses.                                   *)
Elapse(t) ==
  /\ Q!Timeout(t)
  /\ UNCHANGED <<config, signals, prod, run, cause, sourceClosed, counts,
                 abandoned, requester, interrupts>>

ProducerStep ==
  EnterSource \/ Receive \/ PutEvent \/ ProducerFinishes \/ ProducerCloses

RunStep ==
  \/ StartStreaming \/ LoopTop \/ GetEvent \/ Idle \/ Process
  \/ SetStop \/ RunCloses \/ CloseSource \/ Join \/ Sweep

Next ==
  \/ ProducerStep \/ SourceYields \/ SourceEnds
  \/ RunStep \/ DeliveryRaises
  \/ StopEvent \/ DurationElapses \/ RequestStop \/ Interrupt
  \/ Elapse(P) \/ Elapse(C)

Spec == Init /\ [][Next]_vars

(* Both threads keep running and time passes. The source owes nothing.      *)
Fairness ==
  /\ WF_vars(ProducerStep) /\ WF_vars(RunStep)
  /\ WF_vars(Elapse(P)) /\ WF_vars(Elapse(C))
  /\ WF_vars(requester = "close" /\ RequestStop)

FairSpec == Spec /\ Fairness

(* A source that keeps delivering.                                          *)
SourceIsLive == WF_vars(SourceYields)
-----------------------------------------------------------------------------
Hold(p) == IF p THEN 1 ELSE 0

(* Every event the metrics count as received is processed, counted as       *)
(* failed (dropped by the queue or failed in detection), still queued, in   *)
(* the hands of one of the threads, or was refused by the closed queue or   *)
(* abandoned by an interrupt: two threads and five counters, at any moment. *)
EventsAccounted ==
  /\ TypeOK
  /\ received = processed + failed + Len(items) + Cardinality(refused) + abandoned
                + Hold(prod = "put") + Hold(run = "process")

(* "Drain the queue per policy": a consumer that left because the stream    *)
(* ended or was asked to stop leaves no event behind, now or later, though  *)
(* the producer may still be running when it goes.                          *)
DrainedOnStop == cause \in {"closed", "idle"} => items = <<>>

(* Where every event of a run is, while it runs and once it has ended.      *)
EventsSettled == EventsAccounted /\ DrainedOnStop

(* What run returns is final: the producer, which may outlive the join if   *)
(* the source does not let go of it, receives and drops nothing any more.   *)
ResultIsFinal == [][run = "returned" => UNCHANGED counts]_vars

(* "max_events / duration / an external stop event / KeyboardInterrupt all  *)
(* trigger the same path": a run that is told to stop ends.                 *)
StopFinishes == (stop \/ expired) ~> Over

(* It does while the source keeps delivering, and the producer ends too.    *)
StopFinishesIfLive ==
  SourceIsLive => /\ StopFinishes
                  /\ (stop \/ expired) ~> prod \in {"none", "ended"}

(* Once the queue is closed - by request_stop, by an interrupt, by the cap  *)
(* - or the source ends or raises, run ends whatever the source does next:  *)
(* it waits neither for a producer asleep in it nor for one that has gone.  *)
CloseFinishes == (closed \/ prod = "finish") ~> Over

(* Every run that has cause to end ends.                                    *)
RunEnds == StopFinishesIfLive /\ CloseFinishes
=============================================================================
