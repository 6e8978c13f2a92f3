--------------------------- MODULE AlertDelivery ---------------------------
(***************************************************************************)
(* Delivery of alerts: reliability/spool.py (the SQLite table), alert_sink *)
(* (alerts.ndjson and the buffered writer in front of it) and the consumer *)
(* thread of pipeline.py that moves an alert from one to the other, over   *)
(* any number of runs of the process.                                      *)
(*                                                                         *)
(* One thread delivers, so the steps are its calls: a spool call is one    *)
(* committed transaction, a write is one call of the sink, and the process *)
(* can be killed, interrupted or find the disk failing between any two of  *)
(* them and inside a write. The table and the file outlive the process;    *)
(* the write buffer, the index of ids already in the file and the batch of *)
(* claimed alerts do not.                                                  *)
(***************************************************************************)
EXTENDS Naturals, Sequences, SequencesExt

CONSTANTS
  Alerts,        (* alert ids                                               *)
  MaxAttempts,   (* RetryPolicy.max_attempts                                *)
  Faults,        (* what may go wrong, see FaultKinds                       *)
  MaxMade,       (* bound: times detection generates each alert             *)
  MaxCrashes,    (* bound: kills and interrupts                             *)
  MaxRequeues,   (* bound: requeue_dead calls that find a dead row          *)
  MaxFaults      (* bound: occurrences of Faults                            *)

(* "flush": flushing the sink's buffer raises. "sync": fsync raises.        *)
(* "interrupt": KeyboardInterrupt lands inside write. "spool": a spool call *)
(* raises and rolls back. "corrupt": a stored payload no longer parses.     *)
FaultKinds == {"flush", "sync", "interrupt", "spool", "corrupt"}

ASSUME DeliveryAssumption ==
  /\ MaxAttempts \in Nat \ {0}
  /\ Faults \subseteq FaultKinds
  /\ MaxMade \in Nat /\ MaxCrashes \in Nat
  /\ MaxRequeues \in Nat /\ MaxFaults \in Nat

VARIABLES
  status, attempts, payload,  (* columns of the alerts table                *)
  backoff,   (* next_attempt_at is in the future                            *)
  file,      (* alert ids of the complete lines of alerts.ndjson            *)
  torn,      (* the file ends in an incomplete line                         *)
  buf,       (* lines in the writer's buffer, not yet in the file           *)
  seen,      (* the writer's _seen index                                    *)
  phase,     (* what run() is doing, or "down" when there is no process     *)
  pc, cur,   (* the delivery in progress                                    *)
  batch,     (* claimed alerts _retry_ready has yet to deliver              *)
  made, crashes, requeues, faults   (* the bounded counts                   *)

spool == <<status, attempts, payload, backoff>>
sink == <<file, torn, buf, seen>>
control == <<phase, pc, cur, batch>>
bounds == <<made, crashes, requeues, faults>>
vars == <<spool, sink, control, bounds>>

Status == {"absent", "pending", "delivered", "dead"}

TypeOK ==
  /\ status \in [Alerts -> Status]
  /\ attempts \in [Alerts -> Nat]
  /\ payload \in [Alerts -> {"null", "json", "bad"}]
  /\ backoff \in [Alerts -> BOOLEAN]
  /\ file \in Seq(Alerts) /\ torn \in BOOLEAN
  /\ buf \in Seq(Alerts) /\ seen \subseteq Alerts
  /\ phase \in {"down", "recovering", "streaming", "draining", "closing"}
  /\ pc \in {"idle", "write", "ack", "nack"}
  /\ pc # "idle" => cur \in Alerts
  /\ batch \subseteq Alerts
  /\ made \in [Alerts -> 0 .. MaxMade]
  /\ crashes \in 0 .. MaxCrashes
  /\ requeues \in 0 .. MaxRequeues
  /\ faults \in 0 .. MaxFaults

Init ==
  /\ status = [a \in Alerts |-> "absent"]
  /\ attempts = [a \in Alerts |-> 0]
  /\ payload = [a \in Alerts |-> "null"]
  /\ backoff = [a \in Alerts |-> FALSE]
  /\ file = <<>> /\ torn = FALSE /\ buf = <<>> /\ seen = {}
  /\ phase = "down" /\ pc = "idle" /\ cur = "none" /\ batch = {}
  /\ made = [a \in Alerts |-> 0]
  /\ crashes = 0 /\ requeues = 0 /\ faults = 0

(* A fault of kind k happens in this step.                                  *)
Fault(k) ==
  /\ k \in Faults
  /\ faults < MaxFaults
  /\ faults' = faults + 1

Running == phase \in {"recovering", "streaming", "draining"}
-----------------------------------------------------------------------------
(* Mutants of Start: a torn last line is taken for a complete one; the      *)
(* index is not rebuilt.                                                    *)
StartOnTornLine ==
  /\ phase = "down"
  /\ phase' = "recovering"
  /\ file' = IF torn THEN Append(file, "torn") ELSE file
  /\ torn' = FALSE
  /\ seen' = ToSet(file)
  /\ UNCHANGED <<spool, buf, pc, cur, batch, bounds>>

StartWithoutIndex ==
  /\ phase = "down"
  /\ phase' = "recovering"
  /\ torn' = FALSE
  /\ seen' = {}
  /\ UNCHANGED <<spool, file, buf, pc, cur, batch, bounds>>

(* The process starts: the writer drops a torn last line and indexes the    *)
(* rest of the file, then run() begins with recover().                      *)
Start ==
  /\ phase = "down"
  /\ phase' = "recovering"
  /\ torn' = FALSE
  /\ seen' = ToSet(file)
  /\ UNCHANGED <<spool, file, buf, pc, cur, batch, bounds>>

(* Mutant of Ready: only rows that never failed.                            *)
ReadyUntried == {a \in Alerts : status[a] = "pending" /\ attempts[a] = 0}

(* The alerts claim_deliverable selects.                                    *)
Ready == {a \in Alerts : status[a] = "pending" /\ ~backoff[a]}

(* _retry_ready: claim every ready alert; rows whose payload does not parse *)
(* are quarantined as dead instead.                                         *)
Claim ==
  LET bad == {a \in Ready : payload[a] # "json"}
  IN  /\ Running /\ pc = "idle" /\ batch = {}
      /\ Ready # {}
      /\ batch' = Ready \ bad
      /\ status' = [a \in Alerts |-> IF a \in bad THEN "dead" ELSE status[a]]
      /\ UNCHANGED <<attempts, payload, backoff, sink, phase, pc, cur, bounds>>

(* _deliver(from_recovery=True) of a claimed alert.                         *)
Redeliver(a) ==
  /\ Running /\ pc = "idle" /\ a \in batch
  /\ batch' = batch \ {a}
  /\ cur' = a /\ pc' = "write"
  /\ UNCHANGED <<spool, sink, phase, bounds>>

(* recover() returns once a pass finds nothing ready.                       *)
Recovered ==
  /\ phase = "recovering" /\ pc = "idle" /\ batch = {} /\ Ready = {}
  /\ phase' = "streaming"
  /\ UNCHANGED <<spool, sink, pc, cur, batch, bounds>>

(* Mutant of Generate: the alert is written without being persisted first.  *)
GenerateUnspooled(a) ==
  /\ phase = "streaming" /\ pc = "idle" /\ batch = {}
  /\ made[a] < MaxMade
  /\ made' = [made EXCEPT ![a] = @ + 1]
  /\ IF status[a] = "delivered"
     THEN UNCHANGED <<pc, cur>>
     ELSE pc' = "write" /\ cur' = a
  /\ UNCHANGED <<spool, sink, phase, batch, crashes, requeues, faults>>

(* _deliver of an alert detection generated: persist it, and stop there if  *)
(* it was spooled before and went out already.                              *)
Generate(a) ==
  /\ phase = "streaming" /\ pc = "idle" /\ batch = {}
  /\ made[a] < MaxMade
  /\ made' = [made EXCEPT ![a] = @ + 1]
  /\ IF status[a] = "absent"
     THEN /\ status' = [status EXCEPT ![a] = "pending"]
          /\ payload' = [payload EXCEPT ![a] = "json"]
     ELSE UNCHANGED <<status, payload>>
  /\ IF status[a] = "delivered"
     THEN UNCHANGED <<pc, cur>>
     ELSE pc' = "write" /\ cur' = a
  /\ UNCHANGED <<attempts, backoff, sink, phase, batch, crashes, requeues, faults>>
-----------------------------------------------------------------------------
(* What a write of cur pushes towards the file: the lines a failed flush    *)
(* left in the buffer come first.                                           *)
Pending == IF pc = "write" /\ cur \notin seen THEN Append(buf, cur) ELSE buf

Flushed ==
  /\ file' = file \o Pending
  /\ buf' = <<>>

(* The first k lines reach the file, the rest stay in the buffer.           *)
FlushedUpTo(k) ==
  /\ file' = file \o SubSeq(Pending, 1, k)
  /\ buf' = SubSeq(Pending, k + 1, Len(Pending))

(* Mutant of Write: the line is buffered and indexed, but not flushed.      *)
WriteUnflushed ==
  /\ Running /\ pc = "write"
  /\ pc' = "ack"
  /\ IF cur \in seen
     THEN UNCHANGED <<buf, seen>>
     ELSE buf' = Pending /\ seen' = seen \cup {cur}
  /\ UNCHANGED <<spool, file, torn, phase, cur, batch, bounds>>

(* writer.write returned: False for an id it has seen, else True.           *)
Write ==
  /\ Running /\ pc = "write"
  /\ pc' = "ack"
  /\ IF cur \in seen
     THEN UNCHANGED <<file, buf, seen>>
     ELSE Flushed /\ seen' = seen \cup {cur}
  /\ UNCHANGED <<spool, torn, phase, cur, batch, bounds>>

(* Mutant of WriteFails: the exception is swallowed.                        *)
WriteFailsUnseen ==
  /\ Running /\ pc = "write" /\ cur \notin seen
  /\ pc' = "ack"
  /\ Fault("flush")
  /\ UNCHANGED <<spool, sink, phase, cur, batch, made, crashes, requeues>>

(* writer.write raised. A failed flush keeps what it could not write in the *)
(* buffer, or, when the buffer had no room for the line, loses that line,   *)
(* and the id is not indexed; a failed fsync comes after both.              *)
WriteFails ==
  /\ Running /\ pc = "write" /\ cur \notin seen
  /\ pc' = "nack"
  /\ \/ /\ Fault("flush")
        /\ \/ \E k \in 0 .. Len(Pending) - 1 : FlushedUpTo(k)
           \/ UNCHANGED <<file, buf>>
        /\ UNCHANGED seen
     \/ /\ Fault("sync")
        /\ Flushed
        /\ seen' = seen \cup {cur}
  /\ UNCHANGED <<spool, torn, phase, cur, batch, made, crashes, requeues>>

(* mark_delivered after a write that returned.                              *)
MarkDelivered ==
  /\ Running /\ pc = "ack"
  /\ status' = [status EXCEPT ![cur] = "delivered"]
  /\ payload' = [payload EXCEPT ![cur] = "null"]
  /\ backoff' = [backoff EXCEPT ![cur] = FALSE]
  /\ pc' = "idle"
  /\ UNCHANGED <<attempts, sink, phase, cur, batch, bounds>>

IsExhausted(n) == n >= MaxAttempts

(* Mutant of MarkFailed: a dead row loses its payload.                      *)
MarkFailedDiscarding ==
  LET n == attempts[cur] + 1
  IN  /\ Running /\ pc = "nack"
      /\ attempts' = [attempts EXCEPT ![cur] = n]
      /\ IF IsExhausted(n)
         THEN /\ status' = [status EXCEPT ![cur] = "dead"]
              /\ backoff' = [backoff EXCEPT ![cur] = FALSE]
              /\ payload' = [payload EXCEPT ![cur] = "null"]
         ELSE /\ backoff' = [backoff EXCEPT ![cur] = TRUE]
              /\ UNCHANGED <<status, payload>>
      /\ pc' = "idle"
      /\ UNCHANGED <<sink, phase, cur, batch, bounds>>

(* mark_failed after a write that raised. A backoff may be so short that it *)
(* has elapsed by the time anybody looks: see BackoffElapses.               *)
MarkFailed ==
  LET n == attempts[cur] + 1
  IN  /\ Running /\ pc = "nack"
      /\ attempts' = [attempts EXCEPT ![cur] = n]
      /\ IF IsExhausted(n)
         THEN /\ status' = [status EXCEPT ![cur] = "dead"]
              /\ backoff' = [backoff EXCEPT ![cur] = FALSE]
         ELSE /\ backoff' = [backoff EXCEPT ![cur] = TRUE]
              /\ UNCHANGED status
      /\ pc' = "idle"
      /\ UNCHANGED <<payload, sink, phase, cur, batch, bounds>>

BackoffElapses(a) ==
  /\ backoff[a]
  /\ backoff' = [backoff EXCEPT ![a] = FALSE]
  /\ UNCHANGED <<status, attempts, payload, sink, control, bounds>>
-----------------------------------------------------------------------------
(* The consumer loop ends, for whatever reason, between two events.         *)
StopStreaming ==
  /\ phase = "streaming" /\ pc = "idle" /\ batch = {}
  /\ phase' = "draining"
  /\ UNCHANGED <<spool, sink, pc, cur, batch, bounds>>

(* _drain_spool ends: nothing is pending, or its 60 seconds are over.       *)
DrainEnds ==
  /\ phase = "draining" /\ pc = "idle" /\ batch = {}
  /\ phase' = "closing"
  /\ UNCHANGED <<spool, sink, pc, cur, batch, bounds>>

(* writer.flush and writer.close, then the process exits; a flush that      *)
(* fails again on the way out loses the end of what is in the buffer,       *)
(* perhaps from the middle of a line on.                                    *)
CloseSink ==
  /\ phase = "closing"
  /\ phase' = "down"
  /\ \/ Flushed /\ UNCHANGED <<torn, faults>>
     \/ /\ buf # <<>> /\ Fault("flush")
        /\ \E k \in 0 .. Len(Pending) - 1 : file' = file \o SubSeq(Pending, 1, k)
        /\ buf' = <<>>
        /\ torn' \in BOOLEAN
  /\ seen' = {}
  /\ UNCHANGED <<spool, pc, cur, batch, made, crashes, requeues>>

(* Where an exception that leaves the delivery code takes run(): out of the *)
(* consumer loop into the final sweep, out of recover() or the sweep to the *)
(* caller, which closes the sink.                                           *)
AfterAbort == IF phase = "streaming" THEN "draining" ELSE "closing"

Abort == phase' = AfterAbort /\ pc' = "idle" /\ batch' = {} /\ UNCHANGED cur

(* KeyboardInterrupt between two steps.                                     *)
Interrupt ==
  /\ Running /\ crashes < MaxCrashes
  /\ crashes' = crashes + 1
  /\ Abort
  /\ UNCHANGED <<spool, sink, made, requeues, faults>>

(* KeyboardInterrupt inside write: after the line was buffered, or after it *)
(* was flushed, and before its id was indexed.                              *)
InterruptInWrite ==
  /\ Running /\ pc = "write" /\ cur \notin seen
  /\ Fault("interrupt")
  /\ Abort
  /\ FlushedUpTo(0) \/ Flushed
  /\ UNCHANGED <<spool, torn, seen, made, crashes, requeues>>

(* A spool call raises: its transaction rolls back and run() is left.       *)
SpoolFails ==
  /\ Running
  /\ pc \in {"ack", "nack"} \/ (pc = "idle" /\ batch = {})
  /\ Fault("spool")
  /\ Abort
  /\ UNCHANGED <<spool, sink, made, crashes, requeues>>

(* The process is killed. Of the lines on their way to the file some prefix *)
(* made it, and the next one perhaps in part.                               *)
Kill ==
  /\ phase # "down" /\ crashes < MaxCrashes
  /\ crashes' = crashes + 1
  /\ \E k \in 0 .. Len(Pending) :
       /\ file' = file \o SubSeq(Pending, 1, k)
       /\ torn' \in IF k < Len(Pending) THEN BOOLEAN ELSE {FALSE}
  /\ buf' = <<>> /\ seen' = {} /\ batch' = {}
  /\ phase' = "down" /\ pc' = "idle"
  /\ UNCHANGED <<spool, cur, made, requeues, faults>>
-----------------------------------------------------------------------------
(* requeue_dead, an operator's call.                                        *)
RequeueDead(a) ==
  /\ status[a] = "dead" /\ requeues < MaxRequeues
  /\ requeues' = requeues + 1
  /\ status' = [status EXCEPT ![a] = "pending"]
  /\ attempts' = [attempts EXCEPT ![a] = 0]
  /\ backoff' = [backoff EXCEPT ![a] = FALSE]
  /\ UNCHANGED <<payload, sink, control, made, crashes, faults>>

(* A stored payload is damaged while no process is running.                 *)
CorruptRow(a) ==
  /\ phase = "down" /\ payload[a] = "json"
  /\ Fault("corrupt")
  /\ payload' = [payload EXCEPT ![a] = "bad"]
  /\ UNCHANGED <<status, attempts, backoff, sink, control, made, crashes, requeues>>

Deliver == Claim \/ (\E a \in Alerts : Redeliver(a)) \/ Write \/ MarkDelivered \/ MarkFailed

Stop == StopStreaming \/ DrainEnds \/ CloseSink

Disturb ==
  \/ WriteFails \/ Interrupt \/ InterruptInWrite \/ SpoolFails \/ Kill
  \/ \E a \in Alerts : CorruptRow(a)

Next ==
  \/ Start \/ Recovered \/ Deliver \/ Stop \/ Disturb
  \/ \E a \in Alerts : Generate(a) \/ BackoffElapses(a) \/ RequeueDead(a)

Spec == Init /\ [][Next]_vars

(* The consumer keeps making its calls, time passes, and a process that is  *)
(* down is started again. Nobody has to stop it, nothing has to go wrong.   *)
Fairness ==
  /\ WF_vars(Start) /\ WF_vars(CloseSink)
  /\ WF_vars(Claim) /\ WF_vars(Write \/ WriteFails)
  /\ WF_vars(MarkDelivered) /\ WF_vars(MarkFailed)
  /\ \A a \in Alerts : WF_vars(Redeliver(a)) /\ WF_vars(BackoffElapses(a))

FairSpec == Spec /\ Fairness
-----------------------------------------------------------------------------
InFile(a) == a \in ToSet(file)

(* "So a crash between detected and written cannot lose it": an alert is    *)
(* acknowledged in the spool only once its line is in the file, whatever    *)
(* was killed, interrupted or failed in between.                            *)
DeliveredInFile == \A a \in Alerts : status[a] = "delivered" => InFile(a)

(* "Every alert is written here before it is appended to the NDJSON file":  *)
(* no line, on disk or in the buffer, belongs to an alert the spool has not *)
(* recorded.                                                                *)
SpooledBeforeWritten ==
  \A a \in Alerts : InFile(a) \/ a \in ToSet(buf) => status[a] # "absent"

(* "Recovery never double-emits": alerts.ndjson has one line per alert,     *)
(* through kills between write and ack, regenerated alerts and requeues.    *)
NoDuplicateLines == \A i, j \in DOMAIN file : file[i] = file[j] => i = j

(* "The alert is never discarded": a row that is not delivered still has    *)
(* the payload it would be delivered from, so the claim never quarantines a *)
(* healthy row and a requeued one can go out.                               *)
UndeliveredKeepsPayload ==
  \A a \in Alerts : status[a] \in {"pending", "dead"} => payload[a] # "null"

(* Claiming mutates nothing, so what a batch names must still be pending    *)
(* when its turn comes: no alert is delivered from a stale claim.           *)
BatchStillPending == \A a \in batch : status[a] = "pending"

(* Together: whatever the interleaving of claims, failures, quarantine and  *)
(* requeues, the spool can still deliver everything it owes.                *)
ClaimsStaySound == UndeliveredKeepsPayload /\ BatchStillPending

(* Retries are bounded and exactly accounted: a row waits for delivery only *)
(* with attempts left, is given up only when they are used up or it cannot  *)
(* be read, and backs off only after a failure and not once it is settled   *)
(* (an unreadable row is dead, but the alert may still be generated again). *)
RetryBudget ==
  \A a \in Alerts :
    /\ status[a] = "pending" => attempts[a] < MaxAttempts
    /\ status[a] = "dead" => attempts[a] >= MaxAttempts \/ payload[a] = "bad"
    /\ backoff[a] => /\ attempts[a] > 0
                     /\ status[a] = "pending" \/ payload[a] = "bad"

(* A row is there before its line, and tells what its attempts came to.     *)
RowsSound == SpooledBeforeWritten /\ RetryBudget

(* A settled alert stays settled: nothing reopens, retries or buries an     *)
(* alert that was delivered.                                                *)
DeliveredIsFinal ==
  [][\A a \in Alerts : status[a] = "delivered" => status'[a] = "delivered"]_vars

(* Every accepted alert settles: it is delivered or, its retries used up,   *)
(* dead, across any restarts.                                               *)
EveryAlertSettles ==
  \A a \in Alerts :
    status[a] = "pending" ~> status[a] \in {"delivered", "dead"}

(* Delivery does what AlertOutbox promises: the table is the fate of each   *)
(* alert and the file is the log.                                           *)
Outbox == INSTANCE AlertOutbox WITH fate <- status, log <- file
ImplementsOutbox == Outbox!OutSpec
=============================================================================
