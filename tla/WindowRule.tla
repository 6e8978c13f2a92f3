----------------------------- MODULE WindowRule -----------------------------
(***************************************************************************)
(* evaluator/stateful.py: a threshold or value_count rule and the window   *)
(* of recent events it keeps for one entity: the set of their positions in *)
(* the stream, whose order is the order of the code's deque.               *)
(***************************************************************************)
EXTENDS EventStream

CONSTANTS
  Window,        (* the rule's window                                       *)
  Count,         (* its count                                               *)
  Distinct,      (* it is a value_count rule: distinct values are counted   *)
  MaxWindow      (* max_window_events                                       *)

ASSUME WindowAssumption ==
  /\ Window \in Nat \ {0}
  /\ Count \in Nat \ {0, 1}
  /\ Distinct \in BOOLEAN
  /\ MaxWindow \in Nat \ {0}

VARIABLES
  window,        (* the deque; {} also when it is absent                    *)
  alarms         (* history: the positions of the events it fired on        *)

windowVars == <<window, alarms>>

WindowTypeOK ==
  /\ window \subseteq 1 .. MaxEvents /\ Cardinality(window) <= MaxWindow
  /\ alarms \subseteq 1 .. MaxEvents

WindowInit == window = {} /\ alarms = {}
-----------------------------------------------------------------------------
(* What the rule compares with count, for the events at positions is.       *)
Observed(es, is) ==
  IF Distinct THEN Cardinality({es[i].shape.value : i \in is}) ELSE Cardinality(is)

(* Events that are too old leave at the head, and only there: one that came *)
(* late stays behind a newer one.                                           *)
Evicted(es, w) ==
  {i \in w : \E j \in w : j <= i /\ es[j].ts >= es[Len(es)].ts - Window}

Newest(w) == {i \in w : Cardinality({j \in w : j > i}) < MaxWindow}

(* _window: the last event of es is evaluated; firing clears the window.    *)
WindowObserve(es) ==
  LET w == Newest(Evicted(es, window \cup {Len(es)}))
      fires == Observed(es, w) >= Count
  IN  IF es[Len(es)].shape.value = None THEN UNCHANGED windowVars
      ELSE /\ window' = IF fires THEN {} ELSE w
           /\ alarms' = IF fires THEN alarms \cup {Len(es)} ELSE alarms

(* Mutant of WindowPrune: the oldest entry decides.                         *)
WindowPruneByHead(before) ==
  /\ window' = IF \E i \in window : /\ \A j \in window : i <= j
                                    /\ stream[i].ts < before
               THEN {} ELSE window
  /\ UNCHANGED alarms

(* prune: a window whose last entry is older than before is dropped.        *)
WindowPrune(before) ==
  /\ window' = IF \E i \in window : /\ \A j \in window : j <= i
                                    /\ stream[i].ts < before
               THEN {} ELSE window
  /\ UNCHANGED alarms
-----------------------------------------------------------------------------
(* The events that have counted since the rule fired before event j.        *)
Unspent(j) ==
  {i \in 1 .. j : /\ stream[i].shape.value # None
                  /\ \A f \in alarms : ~(i <= f /\ f < j)}

(* "At least count matching events (distinct values) within window": in a   *)
(* stream without late events the rule fires exactly on the events that     *)
(* complete such a group of events it has not fired for yet, whatever is    *)
(* pruned, unless there were more of them than the window may hold.         *)
FiresExactly ==
  Ordered =>
    \A j \in DOMAIN stream :
      LET recent == {i \in Unspent(j) : stream[i].ts >= stream[j].ts - Window}
      IN  stream[j].shape.value # None /\ Cardinality(recent) <= MaxWindow =>
            (j \in alarms <=> Observed(stream, recent) >= Count)
=============================================================================
