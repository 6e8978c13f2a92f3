------------------------------ MODULE RuleTree ------------------------------
(***************************************************************************)
(* Conditions and condition trees: evaluator/operators.py and matcher.py,  *)
(* and the checks rules/validator.py makes of them. A condition is a       *)
(* record of field, op, values, list (the name of a list its values are    *)
(* taken from, or None) and cased; a tree one of all, any and none, each a *)
(* sequence of conditions and trees, or None.                              *)
(***************************************************************************)
EXTENDS Integers, Sequences, SequencesExt

CONSTANTS
  None,            (* a missing value, list, block or answer                *)
  Fold,            (* value -> the value in lower case                      *)
  Holds,           (* <<operator, actual, target>>: what the text and       *)
                   (* number operators find                                 *)
  Indicators,      (* <<kind, value>>: the indicators of compromise         *)
  Nodes,           (* the conditions and trees that there may be             *)
  Height,          (* node -> how deep it is nested                          *)
  MaxNesting       (* bound: on the height                                   *)

Negated == [not_equals |-> "equals", not_contains |-> "contains", not_in |-> "in"]
TextOps == {"contains", "starts_with", "ends_with", "regex", "greater_than",
            "less_than", "cidr", "windash"}
ContextOps == {"has_ancestor", "in_threat_intel", "entropy_greater_than"}
Operators == {"equals", "in", "exists"} \cup TextOps \cup DOMAIN Negated \cup ContextOps

Same(a, b, cased) == a = b \/ (~ cased /\ Fold[a] = Fold[b])

(* The positive operators. None matches a missing value.                    *)
Agrees(op, actual, c) ==
  /\ actual # None
  /\ \E target \in c.values :
       IF op \in {"equals", "in"} THEN Same(actual, target, c.cased)
       ELSE <<op, actual, target>> \in Holds
              \/ (~ c.cased /\ <<op, Fold[actual], Fold[target]>> \in Holds)

(* OPERATOR_MAP. "not X" says nothing of a field the event does not carry.  *)
Applies(op, actual, c) ==
  CASE op \in DOMAIN Negated -> actual # None /\ ~ Agrees(Negated[op], actual, c)
    [] op = "exists" -> (actual # None) = (c.values = {TRUE})
    [] OTHER -> Agrees(op, actual, c)

(* extract_field: a derived field may raise on an event of odd shape.       *)
ExtractField(e, f) == e.fields[f]
ExtractRaises(e, f) == f \in e.odd

(* match_condition: a command line is tried again as deobfuscated, but not  *)
(* for a negation.                                                         *)
MatchCondition(c, e) ==
  LET actual == ExtractField(e, c.field)
  IN  CASE c.op = "has_ancestor" -> e.ancestors \cap c.values # {}
        [] c.op = "in_threat_intel" -> \E kind \in c.values : <<kind, actual>> \in Indicators
        [] c.op \in Operators \ {"has_ancestor", "in_threat_intel"} ->
             \/ Applies(c.op, actual, c)
             \/ /\ c.field = "command_line" /\ c.op \notin DOMAIN Negated
                /\ c.op # "entropy_greater_than"
                /\ e.decoded # None /\ e.decoded # actual
                /\ Applies(c.op, e.decoded, c)
        [] OTHER -> FALSE

MatchRaises(c, e) == c.op # "has_ancestor" /\ ExtractRaises(e, c.field)

IsCondition(item) == "op" \in DOMAIN item
Items(block) == IF block = None THEN <<>> ELSE block
Below(node) == UNION {Range(Items(node[b])) : b \in DOMAIN node}

ASSUME TreeAssumption ==
  /\ MaxNesting \in Nat /\ Height \in [Nodes -> 0 .. MaxNesting] /\ None \notin Seq(Nodes)
  /\ \A node \in Nodes :
       IF IsCondition(node)
       THEN node = [field |-> node.field, op |-> node.op, values |-> node.values, list |-> node.list,
                    cased |-> node.cased]
       ELSE /\ node = [all |-> node.all, any |-> node.any, none |-> node.none]
            /\ \A b \in DOMAIN node : Items(node[b]) \in Seq(Nodes)
            /\ \A item \in Below(node) : Height[item] < Height[node]

(* What is found of an item: whether it holds, whether looking raised, and  *)
(* the conditions that made it true.                                       *)
Found(ok, raised, trace) == [ok |-> ok, raised |-> raised, trace |-> trace]

(* check, of a condition.                                                  *)
CheckCondition(c, e) ==
  IF MatchRaises(c, e) THEN Found(FALSE, TRUE, {})
  ELSE Found(MatchCondition(c, e), FALSE, IF MatchCondition(c, e) THEN {c} ELSE {})

(* The items of a block up to the first that decides it or raises; found    *)
(* says what is found of each.                                             *)
Block(items, found, until) ==
  LET decides == {i \in DOMAIN items : found[items[i]].raised \/ found[items[i]].ok = until}
  IN  IF decides # {} THEN found[items[Min(decides)]]
      ELSE Found(~ until, FALSE, UNION {found[items[i]].trace : i \in DOMAIN items})

(* evaluate_logic: all, then any, then none; the trace of what failed is    *)
(* dropped, and what a none block saw is never traced.                     *)
CheckTree(node, found) ==
  LET all == Block(Items(node.all), found, FALSE)
      any == IF node.any = None THEN Found(TRUE, FALSE, {}) ELSE Block(node.any, found, TRUE)
      none == Block(Items(node.none), found, TRUE)
  IN  IF all.raised \/ ~ all.ok THEN Found(FALSE, all.raised, {})
      ELSE IF any.raised \/ ~ any.ok THEN Found(FALSE, any.raised, {})
      ELSE IF none.raised \/ none.ok THEN Found(FALSE, none.raised, {})
      ELSE Found(TRUE, FALSE, all.trace \cup any.trace)

EvaluateLogic(node, e) ==
  LET found[n \in Nodes] == IF IsCondition(n) THEN CheckCondition(n, e) ELSE CheckTree(n, found)
  IN  found[node]

(* _resolve_refs: a named list takes the place of its name, or raises.      *)
InPlace(c, lists) ==
  IF c.list = None THEN c ELSE [c EXCEPT !.values = @ \cup lists[c.list], !.list = None]

Resolved(node, lists) ==
  LET resolved[n \in Nodes] ==
        IF IsCondition(n) THEN InPlace(n, lists)
        ELSE [b \in DOMAIN n |->
                IF n[b] = None THEN None ELSE [i \in DOMAIN n[b] |-> resolved[n[b][i]]]]
  IN  resolved[node]

Conditions(node) ==
  LET conditions[n \in Nodes] ==
        IF IsCondition(n) THEN {n} ELSE UNION {conditions[item] : item \in Below(n)}
  IN  conditions[node]

(* _validate_condition.                                                    *)
ValidCondition(c) ==
  /\ c.op \in Operators
  /\ c.field # None
  /\ c.op = "exists" => c.values \in {{TRUE}, {FALSE}}

(* _validate_logic_node: no empty block, and at least one.                  *)
ValidLogic(node) ==
  LET valid[n \in Nodes] ==
        IF IsCondition(n) THEN ValidCondition(n)
        ELSE /\ \E b \in DOMAIN n : n[b] # None
             /\ \A b \in DOMAIN n : n[b] # <<>>
             /\ \A item \in Below(n) : valid[item]
  IN  valid[node]
-----------------------------------------------------------------------------
(* What a tree means, of the set of the conditions that hold.              *)
Means(node, true) ==
  LET means[n \in Nodes] ==
        IF IsCondition(n) THEN n \in true
        ELSE /\ \A item \in Range(Items(n.all)) : means[item]
             /\ n.any # None => \E item \in Range(n.any) : means[item]
             /\ \A item \in Range(Items(n.none)) : ~ means[item]
  IN  means[node]

(* The conditions of its none blocks, whose failure is never in a trace.    *)
Excluded(node) ==
  LET excluded[n \in Nodes] ==
        IF IsCondition(n) THEN {}
        ELSE (UNION {Conditions(item) : item \in Range(Items(n.none))})
               \cup (UNION {excluded[item] : item \in Range(Items(n.all)) \cup Range(Items(n.any))})
  IN  excluded[node]

(* The trace explains: with what its none blocks exclude as it is, its      *)
(* conditions make the tree true, whatever the others are.                  *)
Explains(trace, node, true) ==
  \A more \in SUBSET (Conditions(node) \ Excluded(node)) :
    Means(node, trace \cup more \cup (true \cap Excluded(node)))
=============================================================================
