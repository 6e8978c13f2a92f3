---------------------------- MODULE DetectionRun ----------------------------
(***************************************************************************)
(* detection_run.py: process_event. An event goes through the single-event *)
(* rules, a sequence rule and a windowed rule; a repeated detection of one *)
(* rule on one process is suppressed for a while; the strongest of those   *)
(* that are emitted feeds the host's risk meter. The stateful rules are    *)
(* keyed by the host, and all events are of one host.                      *)
(*                                                                         *)
(* Recording the event in the graph and correlating it into incidents read *)
(* nothing of this state, and are left out.                                *)
(***************************************************************************)
EXTENDS SequenceRule, WindowRule, RiskMeter

CONSTANTS
  SequenceId, WindowId,   (* rule ids of the two stateful rules             *)
  Behavioral,             (* rules whose detections are no evidence         *)
  Strength(_),            (* the rules' order by level, then id             *)
  Ttl,                    (* dedup_ttl_seconds                              *)
  Retention               (* prune is called with cutoffs this far back     *)

ASSUME DetectionAssumption ==
  /\ {SequenceId, WindowId} \subseteq Rules
  /\ Behavioral \subseteq Rules \ {SequenceId, WindowId}
  /\ \A s \in Shapes : /\ s.steps \subseteq 1 .. NumSteps
                       /\ s.rule \in (Rules \ {SequenceId, WindowId}) \cup {None}
  /\ \A s \in 0 .. 100, d \in 1 .. MaxTime : Decayed(s, d) \in 0 .. s
  /\ Ttl \in Nat \ {0} /\ Retention \in Nat /\ Ttl <= Retention

VARIABLES
  lastEmitted,   (* _last_emitted; 0 when there is no entry                 *)
  emitted,       (* history: [rule, actor, event] of the alerts             *)
  suppressed     (* history: ... and of the suppressed repeats              *)

dedupVars == <<lastEmitted, emitted, suppressed>>
vars == <<stream, sequenceVars, windowVars, riskVars, dedupVars>>

Keys == Rules \X (Actors \cup {None})
Detection == [rule : Rules, actor : Actors \cup {None}, event : 1 .. MaxEvents]

TypeOK ==
  /\ StreamTypeOK /\ SequenceTypeOK /\ WindowTypeOK /\ RiskTypeOK
  /\ lastEmitted \in [Keys -> 0 .. MaxTime]
  /\ emitted \subseteq Detection /\ suppressed \subseteq Detection

Init ==
  /\ stream = <<>>
  /\ SequenceInit /\ WindowInit /\ RiskInit
  /\ lastEmitted = [k \in Keys |-> 0]
  /\ emitted = {} /\ suppressed = {}
-----------------------------------------------------------------------------
(* _is_duplicate: an alert for the same rule and process went out at most   *)
(* Ttl before t, and not after t.                                           *)
Duplicate(r, a, t) ==
  /\ lastEmitted[<<r, a>>] # 0
  /\ t - lastEmitted[<<r, a>>] \in 0 .. Ttl - 1

(* The rules that detect something in the event that has just arrived.      *)
Hits(e) ==
  ({e.shape.rule} \ {None})
  \cup (IF completed' # completed THEN {SequenceId} ELSE {})
  \cup (IF alarms' # alarms THEN {WindowId} ELSE {})

Detections(rs, e) ==
  {[rule |-> r, actor |-> e.actor, event |-> Len(stream')] : r \in rs}

(* Mutant of Emit: a repeat renews the entry of the alert it repeats.       *)
EmitRenewing(hits, fresh, e) ==
  /\ emitted' = emitted \cup Detections(fresh, e)
  /\ suppressed' = suppressed \cup Detections(hits \ fresh, e)
  /\ lastEmitted' = [k \in Keys |-> IF k[1] \in hits /\ k[2] = e.actor
                                    THEN e.ts ELSE lastEmitted[k]]

Emit(hits, fresh, e) ==
  /\ emitted' = emitted \cup Detections(fresh, e)
  /\ suppressed' = suppressed \cup Detections(hits \ fresh, e)
  /\ lastEmitted' = [k \in Keys |-> IF k[1] \in fresh /\ k[2] = e.actor
                                    THEN e.ts ELSE lastEmitted[k]]

(* One event is one piece of evidence: the strongest of its new detections. *)
Weigh(evidence, e) ==
  IF evidence = {} THEN UNCHANGED riskVars
  ELSE \E r \in evidence : /\ \A q \in evidence : Strength(q) <= Strength(r)
                           /\ RecordDetection(r, e.ts)

ProcessEvent(e) ==
  /\ Arrives(e)
  /\ SequenceObserve(stream')
  /\ WindowObserve(stream')
  /\ LET fresh == {r \in Hits(e) : ~Duplicate(r, e.actor, e.ts)}
     IN  /\ Emit(Hits(e), fresh, e)
         /\ Weigh(fresh \ Behavioral, e)

DedupPrune(before) ==
  /\ lastEmitted' = [k \in Keys |-> IF lastEmitted[k] < before THEN 0 ELSE lastEmitted[k]]
  /\ UNCHANGED <<emitted, suppressed>>

(* DetectionContext.prune. It changes something.                            *)
Prune(before) ==
  /\ before <= Clock - Retention
  /\ SequencePrune(before) /\ WindowPrune(before)
  /\ RiskPrune(before) /\ DedupPrune(before)
  /\ UNCHANGED stream
  /\ vars' # vars

Next ==
  \/ \E e \in Event : ProcessEvent(e)
  \/ \E before \in Times : Prune(before)

Spec == Init /\ [][Next]_vars
-----------------------------------------------------------------------------
SameKey(d, f) == d.rule = f.rule /\ d.actor = f.actor

(* "The same rule on the same process within dedup_ttl is one alert;        *)
(* repeats are counted, not re-emitted." Nothing is suppressed that no      *)
(* alert has gone out for within the time before it, late events and prunes *)
(* included, and without late events nothing is alerted for twice in it.    *)
OneAlertPerTtl ==
  /\ \A d \in suppressed : \E a \in emitted :
       /\ SameKey(a, d) /\ a.event < d.event
       /\ stream[d.event].ts - stream[a.event].ts \in 0 .. Ttl - 1
  /\ Ordered =>
       \A a, b \in emitted :
         SameKey(a, b) /\ a.event < b.event
           => stream[b.event].ts - stream[a.event].ts >= Ttl
=============================================================================
