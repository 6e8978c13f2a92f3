---------------------------- MODULE EventStream ----------------------------
(***************************************************************************)
(* The telemetry detection sees: events in the order in which they arrive, *)
(* which is nearly, but not quite, the order of their timestamps. An event *)
(* is reduced to what the detectors of this project tell apart: its time,  *)
(* the process incarnation it resolves to, and its shape, that is the      *)
(* outcome of evaluating the conditions of the rules on it.                *)
(***************************************************************************)
EXTENDS Integers, FiniteSets, Sequences

CONSTANTS
  Actors,      (* process incarnations                                      *)
  None,        (* an unresolved process, an absent value, no rule           *)
  Shapes,      (* the shapes of events, see Shape                           *)
  Lateness,    (* how far behind the latest event one may be stamped        *)
  MaxTime,     (* bound: timestamps are 1 .. MaxTime                        *)
  MaxEvents    (* bound: events                                             *)

(* steps: the steps of the sequence rule whose conditions it satisfies.     *)
(* value: what the windowed rule counts, None if its conditions fail.       *)
(* rule: the single-event rule that matches, or None.                       *)
ASSUME StreamAssumption ==
  /\ None \notin Actors
  /\ \A s \in Shapes : s.steps \subseteq Nat \ {0}
  /\ Lateness \in Nat /\ MaxTime \in Nat /\ MaxEvents \in Nat

VARIABLE stream     (* history: the events that have arrived                *)

Times == 1 .. MaxTime
Event == [ts : Times, actor : Actors \cup {None}, shape : Shapes]

StreamTypeOK == stream \in Seq(Event) /\ Len(stream) <= MaxEvents

(* The latest timestamp so far.                                             *)
Clock ==
  CHOOSE c \in 0 .. MaxTime :
    /\ \A i \in DOMAIN stream : stream[i].ts <= c
    /\ c = 0 \/ \E i \in DOMAIN stream : stream[i].ts = c

(* e arrives next.                                                          *)
Arrives(e) ==
  /\ Len(stream) < MaxEvents
  /\ e.ts >= Clock - Lateness
  /\ stream' = Append(stream, e)

(* No event has been late so far.                                           *)
Ordered ==
  \A i, j \in 1 .. Len(stream) : i <= j => stream[i].ts <= stream[j].ts
=============================================================================
