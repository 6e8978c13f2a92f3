--------------------------- MODULE AnalysisProofs ---------------------------
(***************************************************************************)
(* Theorems about rules, ingestion, downloads, the labels and the folds of *)
(* the model evaluation, and data sets, for every value of the constants.  *)
(***************************************************************************)
EXTENDS RuleEngine, Ingestion, PinnedFetch, RecordingLabels, EnvironmentFolds, DatasetAdapter,
        FiniteSetTheorems, SequenceTheorems, WellFoundedInduction, TLAPS

(* A set of numbers has a least one.                                       *)
LEMMA LeastOf ==
  ASSUME NEW T \in SUBSET Nat, T # {}
  PROVE  \E x \in T : \A y \in T : x <= y
<1>1. PICK x \in T : \A y \in T : ~ (<<y, x>> \in OpToRel(<, Nat))
  BY WFMin, NatLessThanWellFounded
<1>2. ASSUME NEW y \in T PROVE x <= y
  <2>1. ~ (y < x)
    BY <1>1 DEF OpToRel
  <2> QED BY <2>1
<1> QED BY <1>2

(* What is nested in a node.                                               *)
Inside(node) == IF IsCondition(node) THEN {} ELSE Below(node)

LEMMA TreeShape ==
  ASSUME NEW node \in Nodes
  PROVE  /\ Height[node] \in Nat /\ Height[node] <= MaxNesting
         /\ Inside(node) \subseteq Nodes
         /\ \A item \in Inside(node) : Height[item] < Height[node]
         /\ ~ IsCondition(node) =>
              /\ DOMAIN node = {"all", "any", "none"}
              /\ Inside(node) = Below(node)
              /\ \A b \in {"all", "any", "none"} :
                   Items(node[b]) \in Seq(Nodes) /\ Range(Items(node[b])) \subseteq Inside(node)
              /\ Below(node) = Range(Items(node.all)) \cup Range(Items(node.any)) \cup Range(Items(node.none))
<1>1. Height[node] \in Nat /\ Height[node] <= MaxNesting
  BY TreeAssumption
<1>2. CASE IsCondition(node)
  BY <1>1, <1>2 DEF Inside
<1>3. CASE ~ IsCondition(node)
  <2>1. DOMAIN node = {"all", "any", "none"}
    BY <1>3, TreeAssumption
  <2>2. \A b \in DOMAIN node : Items(node[b]) \in Seq(Nodes)
    BY <1>3, TreeAssumption
  <2>3. \A b \in DOMAIN node : Range(Items(node[b])) \subseteq Nodes
    BY <2>2, LenProperties, ElementOfSeq DEF Range
  <2>4. Below(node) = Range(Items(node.all)) \cup Range(Items(node.any)) \cup Range(Items(node.none))
    BY <2>1 DEF Below
  <2>5. \A item \in Below(node) : Height[item] < Height[node]
    BY <1>3, TreeAssumption
  <2> QED BY <1>1, <1>3, <2>1, <2>2, <2>3, <2>4, <2>5 DEF Inside
<1> QED BY <1>2, <1>3

(* What is true of a node when it is true of all that is nested in it is    *)
(* true of all nodes.                                                      *)
LEMMA TreeInduction ==
  ASSUME NEW S, \A node \in Nodes : Inside(node) \subseteq S => node \in S
  PROVE  Nodes \subseteq S
<1> DEFINE T == Nodes \ S
<1>1. SUFFICES ASSUME T # {} PROVE FALSE
  OBVIOUS
<1>2. {Height[x] : x \in T} \in SUBSET Nat /\ {Height[x] : x \in T} # {}
  BY <1>1, TreeShape
<1>3. PICK h \in {Height[x] : x \in T} : \A y \in {Height[x] : x \in T} : h <= y
  BY <1>2, LeastOf
<1>4. PICK node \in T : h = Height[node]
  BY <1>3
<1>5. Inside(node) \subseteq S
  <2> SUFFICES ASSUME NEW item \in Inside(node), item \notin S PROVE FALSE
    OBVIOUS
  <2>1. item \in T /\ Height[item] < Height[node] /\ Height[node] \in Nat
    BY TreeShape
  <2>2. h <= Height[item] /\ Height[item] \in Nat
    BY <1>2, <1>3, <2>1
  <2> QED BY <1>4, <2>1, <2>2
<1> QED BY <1>5

(* The nodes of less than that height.                                     *)
Upto(n) == {node \in Nodes : Height[node] < n}

(* f is what G makes of each node and of f on all that is nested in it.     *)
Recurs(f, G, n) == \A node \in Upto(n) : f[node] = G[node][[item \in Inside(node) |-> f[item]]]

RecursOn(f, G) == \A node \in Nodes : f[node] = G[node][[item \in Inside(node) |-> f[item]]]

(* There is such a function on all nodes.                                  *)
LEMMA TreeRecursion ==
  ASSUME NEW V, NEW G,
         \A node \in Nodes : \A g \in [Inside(node) -> V] : G[node][g] \in V
  PROVE  \E f \in [Nodes -> V] : RecursOn(f, G)
<1> DEFINE T == {n \in Nat : ~ \E f \in [Upto(n) -> V] : Recurs(f, G, n)}
<1>1. T = {}
  <2> SUFFICES ASSUME T # {} PROVE FALSE
    OBVIOUS
  <2>1. PICK n \in T : \A m \in T : n <= m
    <3>1. T \in SUBSET Nat
      OBVIOUS
    <3> QED BY <3>1, LeastOf
  <2>2. n # 0
    <3>1. Upto(0) = {}
      BY TreeShape DEF Upto
    <3>2. <<>> \in [Upto(0) -> V] /\ Recurs(<<>>, G, 0)
      BY <3>1 DEF Recurs
    <3> QED BY <2>1, <3>2
  <2>3. n - 1 \in Nat /\ n - 1 \notin T
    BY <2>1, <2>2
  <2>4. PICK f \in [Upto(n - 1) -> V] : Recurs(f, G, n - 1)
    BY <2>3
  <2> DEFINE g == [node \in Upto(n) |-> G[node][[item \in Inside(node) |-> f[item]]]]
  <2>5. \A node \in Upto(n) : Inside(node) \subseteq Upto(n - 1)
    <3> SUFFICES ASSUME NEW node \in Upto(n), NEW item \in Inside(node) PROVE item \in Upto(n - 1)
      OBVIOUS
    <3>1. node \in Nodes /\ Height[node] < n
      BY DEF Upto
    <3>2. item \in Nodes /\ Height[item] < Height[node]
      BY <3>1, TreeShape
    <3>3. Height[item] \in Nat /\ Height[node] \in Nat
      BY <3>1, <3>2, TreeShape
    <3> QED BY <2>3, <3>1, <3>2, <3>3 DEF Upto
  <2>6. Upto(n - 1) \subseteq Upto(n) /\ Upto(n) \subseteq Nodes
    BY <2>3, TreeShape DEF Upto
  <2>7. \A node \in Upto(n) : [item \in Inside(node) |-> f[item]] \in [Inside(node) -> V]
    BY <2>4, <2>5
  <2>8. g \in [Upto(n) -> V]
    BY <2>6, <2>7
  <2>9. \A node \in Upto(n - 1) : g[node] = f[node]
    BY <2>4, <2>6 DEF Recurs
  <2>10. \A node \in Upto(n) : [item \in Inside(node) |-> g[item]] = [item \in Inside(node) |-> f[item]]
    BY <2>5, <2>9
  <2>11. Recurs(g, G, n)
    BY <2>10 DEF Recurs
  <2> QED BY <2>1, <2>8, <2>11
<1>2. MaxNesting + 1 \in Nat /\ Upto(MaxNesting + 1) = Nodes
  BY TreeAssumption DEF Upto
<1>3. PICK f \in [Upto(MaxNesting + 1) -> V] : Recurs(f, G, MaxNesting + 1)
  BY <1>1, <1>2
<1> QED BY <1>2, <1>3 DEF Recurs, RecursOn
-----------------------------------------------------------------------------
(* The conditions of a node.                                               *)
LEMMA ConditionsOf ==
  \A node \in Nodes :
    Conditions(node) = IF IsCondition(node) THEN {node} ELSE UNION {Conditions(item) : item \in Below(node)}
<1> DEFINE V == SUBSET Nodes
           G == [n \in Nodes |-> [g \in [Inside(n) -> V] |->
                   IF IsCondition(n) THEN {n} ELSE UNION {g[item] : item \in Below(n)}]]
           Is(f) == f = [n \in Nodes |->
                   IF IsCondition(n) THEN {n} ELSE UNION {f[item] : item \in Below(n)}]
<1>1. \E f : Is(f)
  <2>1. \A n \in Nodes : \A g \in [Inside(n) -> V] : G[n][g] \in V
    BY DEF Inside
  <2>2. PICK f \in [Nodes -> V] : RecursOn(f, G)
    <3> HIDE DEF V, G
    <3> QED BY <2>1, TreeRecursion
  <2>3. ASSUME NEW n \in Nodes
        PROVE  f[n] = IF IsCondition(n) THEN {n} ELSE UNION {f[item] : item \in Below(n)}
    <3> DEFINE g == [item \in Inside(n) |-> f[item]]
    <3>1. g \in [Inside(n) -> V]
      BY <2>2, TreeShape
    <3>2. f[n] = IF IsCondition(n) THEN {n} ELSE UNION {g[item] : item \in Below(n)}
      BY <2>2, <3>1 DEF RecursOn
    <3> QED BY <3>2 DEF Inside
  <2>4. Is(f)
    BY <2>2, <2>3
  <2> QED BY <2>4
<1> DEFINE c == CHOOSE f : Is(f)
<1>2. Is(c)
  BY <1>1
<1>3. \A node : Conditions(node) = c[node]
  BY DEF Conditions
<1> HIDE DEF c
<1> QED BY <1>2, <1>3

(* The conditions that a node's failure would turn on.                      *)
LEMMA ExcludedOf ==
  \A node \in Nodes :
    Excluded(node) =
      IF IsCondition(node) THEN {}
      ELSE (UNION {Conditions(item) : item \in Range(Items(node.none))})
             \cup (UNION {Excluded(item) : item \in Range(Items(node.all)) \cup Range(Items(node.any))})
<1> DEFINE Said(n, g) == IF IsCondition(n) THEN {}
                         ELSE (UNION {Conditions(item) : item \in Range(Items(n.none))})
                                \cup (UNION {g[item] : item \in Range(Items(n.all)) \cup Range(Items(n.any))})
           V == SUBSET UNION {Conditions(n) : n \in Nodes}
           G == [n \in Nodes |-> [g \in [Inside(n) -> V] |-> Said(n, g)]]
           Is(f) == f = [n \in Nodes |-> Said(n, f)]
<1>1. \E f : Is(f)
  <2>1. ASSUME NEW n \in Nodes, NEW g \in [Inside(n) -> V] PROVE G[n][g] \in V
    <3>1. CASE IsCondition(n)
      BY <3>1
    <3>2. CASE ~ IsCondition(n)
      <4>1. /\ Range(Items(n.none)) \subseteq Nodes
            /\ Range(Items(n.all)) \cup Range(Items(n.any)) \subseteq Inside(n)
        BY <3>2, TreeShape
      <4>2. G[n][g] = (UNION {Conditions(item) : item \in Range(Items(n.none))})
                      \cup (UNION {g[item] : item \in Range(Items(n.all)) \cup Range(Items(n.any))})
        BY <3>2
      <4>3. \A item \in Range(Items(n.none)) : Conditions(item) \subseteq UNION {Conditions(m) : m \in Nodes}
        BY <4>1
      <4>4. \A item \in Range(Items(n.all)) \cup Range(Items(n.any)) : g[item] \subseteq UNION {Conditions(m) : m \in Nodes}
        BY <4>1
      <4> HIDE DEF G
      <4> QED BY <4>2, <4>3, <4>4
    <3> QED BY <3>1, <3>2
  <2>2. PICK f \in [Nodes -> V] : RecursOn(f, G)
    <3> HIDE DEF V, G
    <3> QED BY <2>1, TreeRecursion
  <2>3. ASSUME NEW n \in Nodes PROVE f[n] = Said(n, f)
    <3> DEFINE g == [item \in Inside(n) |-> f[item]]
    <3>1. g \in [Inside(n) -> V]
      BY <2>2, TreeShape
    <3>2. f[n] = Said(n, g)
      BY <2>2, <3>1 DEF RecursOn
    <3>3. ~ IsCondition(n) => Range(Items(n.all)) \cup Range(Items(n.any)) \subseteq Inside(n)
      BY TreeShape
    <3> QED BY <3>2, <3>3
  <2>4. Is(f)
    BY <2>2, <2>3
  <2> QED BY <2>4
<1> DEFINE x == CHOOSE f : Is(f)
<1>2. Is(x)
  BY <1>1
<1>3. \A node : Excluded(node) = x[node]
  BY DEF Excluded
<1> HIDE DEF x
<1>4. \A n \in Nodes : x[n] = Said(n, x)
  <2> HIDE DEF Said
  <2> QED BY <1>2
<1> SUFFICES ASSUME NEW n \in Nodes
             PROVE  Excluded(n) = IF IsCondition(n) THEN {}
                      ELSE (UNION {Conditions(item) : item \in Range(Items(n.none))})
                             \cup (UNION {Excluded(item) : item \in Range(Items(n.all)) \cup Range(Items(n.any))})
  OBVIOUS
<1>5. {Excluded(item) : item \in Range(Items(n.all)) \cup Range(Items(n.any))} =
        {x[item] : item \in Range(Items(n.all)) \cup Range(Items(n.any))}
  BY <1>3
<1> QED BY <1>3, <1>4, <1>5

(* A node is valid when what is nested in it is.                           *)
LEMMA ValidOf ==
  \A node \in Nodes :
    ValidLogic(node) = IF IsCondition(node) THEN ValidCondition(node)
                       ELSE /\ \E b \in DOMAIN node : node[b] # None
                            /\ \A b \in DOMAIN node : node[b] # <<>>
                            /\ \A item \in Below(node) : ValidLogic(item)
<1> DEFINE Said(n, g) == IF IsCondition(n) THEN ValidCondition(n)
                         ELSE /\ \E b \in DOMAIN n : n[b] # None
                              /\ \A b \in DOMAIN n : n[b] # <<>>
                              /\ \A item \in Below(n) : g[item]
           G == [n \in Nodes |-> [g \in [Inside(n) -> BOOLEAN] |-> Said(n, g)]]
           Is(f) == f = [n \in Nodes |-> Said(n, f)]
<1>1. \E f : Is(f)
  <2>1. ASSUME NEW n \in Nodes, NEW g \in [Inside(n) -> BOOLEAN] PROVE G[n][g] \in BOOLEAN
    <3>1. Said(n, g) \in BOOLEAN
      BY DEF ValidCondition
    <3> HIDE DEF Said
    <3> QED BY <3>1
  <2>2. PICK f \in [Nodes -> BOOLEAN] : RecursOn(f, G)
    <3> HIDE DEF G
    <3> QED BY <2>1, TreeRecursion
  <2>3. ASSUME NEW n \in Nodes PROVE f[n] = Said(n, f)
    <3> DEFINE g == [item \in Inside(n) |-> f[item]]
    <3>1. g \in [Inside(n) -> BOOLEAN]
      BY <2>2, TreeShape
    <3>2. f[n] = Said(n, g)
      <4> HIDE DEF Said
      <4> QED BY <2>2, <3>1 DEF RecursOn
    <3>3. Said(n, g) = Said(n, f)
      BY DEF Inside
    <3> QED BY <3>2, <3>3
  <2>4. Is(f)
    <3> HIDE DEF Said
    <3> QED BY <2>2, <2>3
  <2> QED BY <2>4
<1> DEFINE x == CHOOSE f : Is(f)
<1>2. Is(x)
  BY <1>1
<1>3. \A node : ValidLogic(node) = x[node]
  BY DEF ValidLogic
<1> HIDE DEF x
<1>4. \A n \in Nodes : x[n] = Said(n, x)
  <2> HIDE DEF Said
  <2> QED BY <1>2
<1> QED BY <1>3, <1>4

(* What a tree means.                                                      *)
LEMMA MeansOf ==
  ASSUME NEW true
  PROVE  \A node \in Nodes :
    /\ Means(node, true) \in BOOLEAN
    /\ Means(node, true) =
         IF IsCondition(node) THEN node \in true
         ELSE /\ \A item \in Range(Items(node.all)) : Means(item, true)
              /\ node.any # None => \E item \in Range(node.any) : Means(item, true)
              /\ \A item \in Range(Items(node.none)) : ~ Means(item, true)
<1> DEFINE Said(n, g) == IF IsCondition(n) THEN n \in true
                         ELSE /\ \A item \in Range(Items(n.all)) : g[item]
                              /\ n.any # None => \E item \in Range(n.any) : g[item]
                              /\ \A item \in Range(Items(n.none)) : ~ g[item]
           G == [n \in Nodes |-> [g \in [Inside(n) -> BOOLEAN] |-> Said(n, g)]]
           Is(f) == f = [n \in Nodes |-> Said(n, f)]
<1>1. \E f : Is(f) /\ f \in [Nodes -> BOOLEAN]
  <2>1. ASSUME NEW n \in Nodes, NEW g \in [Inside(n) -> BOOLEAN] PROVE G[n][g] \in BOOLEAN
    <3>1. CASE IsCondition(n)
      BY <3>1
    <3>2. CASE ~ IsCondition(n)
      BY <3>2
    <3> QED BY <3>1, <3>2
  <2>2. PICK f \in [Nodes -> BOOLEAN] : RecursOn(f, G)
    <3> HIDE DEF G
    <3> QED BY <2>1, TreeRecursion
  <2>3. ASSUME NEW n \in Nodes PROVE f[n] = Said(n, f)
    <3> DEFINE g == [item \in Inside(n) |-> f[item]]
    <3>1. g \in [Inside(n) -> BOOLEAN]
      BY <2>2, TreeShape
    <3>2. f[n] = Said(n, g)
      <4> HIDE DEF Said
      <4> QED BY <2>2, <3>1 DEF RecursOn
    <3>3. Said(n, g) = Said(n, f)
      <4>1. ~ IsCondition(n) => \A b \in {"all", "any", "none"} : Range(Items(n[b])) \subseteq Inside(n)
        BY TreeShape
      <4>2. ASSUME ~ IsCondition(n)
            PROVE  /\ Range(Items(n.all)) \subseteq Inside(n)
                   /\ Range(Items(n.none)) \subseteq Inside(n)
                   /\ n.any # None => Range(n.any) \subseteq Inside(n)
        BY <4>1, <4>2 DEF Items
      <4>3. ASSUME ~ IsCondition(n)
            PROVE  /\ \A item \in Range(Items(n.all)) : g[item] = f[item]
                   /\ \A item \in Range(Items(n.none)) : g[item] = f[item]
                   /\ n.any # None => \A item \in Range(n.any) : g[item] = f[item]
        <5>1. \A item \in Inside(n) : g[item] = f[item]
          OBVIOUS
        <5> HIDE DEF g
        <5> QED BY <4>2, <4>3, <5>1
      <4>4. CASE IsCondition(n)
        BY <4>4
      <4> HIDE DEF g
      <4>5. CASE ~ IsCondition(n)
        BY <4>3, <4>5
      <4> QED BY <4>4, <4>5
    <3> QED BY <3>2, <3>3
  <2>4. Is(f)
    <3> HIDE DEF Said
    <3> QED BY <2>2, <2>3
  <2> QED BY <2>2, <2>4
<1> DEFINE x == CHOOSE f : Is(f)
<1>2. Is(x)
  BY <1>1
<1>3. \A node : Means(node, true) = x[node]
  BY DEF Means
<1> HIDE DEF x
<1>4. \A n \in Nodes : x[n] = Said(n, x)
  <2> HIDE DEF Said
  <2> QED BY <1>2
<1>5. ASSUME NEW n \in Nodes PROVE Said(n, x) \in BOOLEAN
  <2>1. CASE IsCondition(n)
    BY <2>1
  <2>2. CASE ~ IsCondition(n)
    BY <2>2
  <2> QED BY <2>1, <2>2
<1> QED BY <1>3, <1>4, <1>5

(* What is found of a node.                                                *)
Finding == [ok : BOOLEAN, raised : BOOLEAN, trace : SUBSET Nodes]

(* A condition holds or not.                                               *)
LEMMA MatchType == \A c, e : MatchCondition(c, e) \in BOOLEAN /\ MatchRaises(c, e) \in BOOLEAN
<1>1. \A op, actual, c : Agrees(op, actual, c) \in BOOLEAN
  BY DEF Agrees
<1>2. \A op, actual, c : Applies(op, actual, c) \in BOOLEAN
  BY <1>1 DEF Applies
<1>3. \A c, e : MatchCondition(c, e) \in BOOLEAN
  BY <1>2 DEF MatchCondition
<1>4. \A c, e : MatchRaises(c, e) \in BOOLEAN
  BY DEF MatchRaises
<1> QED BY <1>3, <1>4

LEMMA ConditionFinding == \A c \in Nodes : \A e : CheckCondition(c, e) \in Finding
BY MatchType DEF CheckCondition, Found, Finding

(* Items that are deciding, and the first of them.                         *)
LEMMA FirstDecides ==
  ASSUME NEW items \in Seq(Nodes), NEW D \in SUBSET DOMAIN items, D # {}
  PROVE  Min(D) \in D
<1>1. D \in SUBSET Nat
  BY LenProperties
<1>2. \E x \in D : \A y \in D : x <= y
  BY <1>1, LeastOf
<1> QED BY <1>2 DEF Min

(* A block is what its items are, and no more.                             *)
LEMMA BlockSame ==
  ASSUME NEW items \in Seq(Nodes), NEW f, NEW g, NEW until,
         \A item \in Range(items) : f[item] = g[item]
  PROVE  Block(items, f, until) = Block(items, g, until)
<1> DEFINE D(h) == {i \in DOMAIN items : h[items[i]].raised \/ h[items[i]].ok = until}
<1>1. \A i \in DOMAIN items : f[items[i]] = g[items[i]]
  BY DEF Range
<1>2. D(f) = D(g)
  BY <1>1
<1>3. D(f) # {} => Min(D(f)) \in DOMAIN items
  <2> DEFINE d == D(f)
  <2>1. d \in SUBSET DOMAIN items
    OBVIOUS
  <2> HIDE DEF d
  <2> QED BY <2>1, FirstDecides DEF d
<1>4. (UNION {f[items[i]].trace : i \in DOMAIN items}) = (UNION {g[items[i]].trace : i \in DOMAIN items})
  BY <1>1
<1>5. \A h : Block(items, h, until) = IF D(h) # {} THEN h[items[Min(D(h))]]
                ELSE Found(~ until, FALSE, UNION {h[items[i]].trace : i \in DOMAIN items})
  BY DEF Block
<1> HIDE DEF D
<1> QED BY <1>1, <1>2, <1>3, <1>4, <1>5

(* What a block finds: the first item that decides or raises, or all.      *)
LEMMA BlockFinds ==
  ASSUME NEW items \in Seq(Nodes), NEW f, NEW until \in BOOLEAN,
         \A item \in Range(items) : f[item] \in Finding,
         NEW b, b = Block(items, f, until)
  PROVE  /\ b \in Finding
         /\ b.raised => \E item \in Range(items) : f[item].raised
         /\ ~ b.raised /\ b.ok = until => \E item \in Range(items) : f[item] = b
         /\ ~ b.raised /\ b.ok # until =>
              /\ \A item \in Range(items) : ~ f[item].raised /\ f[item].ok # until
              /\ \A item \in Range(items) : f[item].trace \subseteq b.trace
              /\ \A x \in b.trace : \E item \in Range(items) : x \in f[item].trace
<1> DEFINE d == {i \in DOMAIN items : f[items[i]].raised \/ f[items[i]].ok = until}
           all == UNION {f[items[i]].trace : i \in DOMAIN items}
<1>1. b = IF d # {} THEN f[items[Min(d)]] ELSE Found(~ until, FALSE, all)
  BY DEF Block
<1>2. \A i \in DOMAIN items : items[i] \in Range(items)
  BY DEF Range
<1>3. \A item \in Range(items) : \E i \in DOMAIN items : item = items[i]
  BY DEF Range
<1>4. CASE d # {}
  <2>1. Min(d) \in d
    <3>1. d \in SUBSET DOMAIN items
      OBVIOUS
    <3> HIDE DEF d
    <3> QED BY <1>4, <3>1, FirstDecides
  <2>2. PICK i \in DOMAIN items : b = f[items[i]] /\ (b.raised \/ b.ok = until)
    BY <1>1, <1>4, <2>1
  <2>3. b \in Finding /\ items[i] \in Range(items)
    BY <1>2, <2>2
  <2> QED BY <2>2, <2>3
<1>5. CASE d = {}
  <2>1. b.ok = ~ until /\ b.raised = FALSE /\ b.trace = all
    BY <1>1, <1>5 DEF Found
  <2>2. \A item \in Range(items) : f[item].raised \in BOOLEAN /\ f[item].ok \in BOOLEAN /\ f[item].trace \subseteq Nodes
    BY DEF Finding
  <2>3. \A item \in Range(items) : ~ f[item].raised /\ f[item].ok # until
    BY <1>3, <1>5
  <2>4. all \subseteq Nodes
    BY <1>2, <2>2
  <2>5. b \in Finding
    BY <1>1, <1>5, <2>4 DEF Found, Finding
  <2>6. \A item \in Range(items) : f[item].trace \subseteq all
    BY <1>3
  <2>7. \A x \in all : \E item \in Range(items) : x \in f[item].trace
    BY <1>2
  <2> HIDE DEF all
  <2> QED BY <2>1, <2>3, <2>5, <2>6, <2>7
<1> QED BY <1>4, <1>5

(* The blocks of a tree.                                                   *)
LEMMA BlocksOf ==
  ASSUME NEW node \in Nodes, ~ IsCondition(node)
  PROVE  /\ Items(node.all) \in Seq(Nodes) /\ Range(Items(node.all)) \subseteq Inside(node)
         /\ Items(node.none) \in Seq(Nodes) /\ Range(Items(node.none)) \subseteq Inside(node)
         /\ node.any # None => node.any \in Seq(Nodes) /\ Range(node.any) \subseteq Inside(node)
                              /\ Items(node.any) = node.any
         /\ node.any = None => Range(Items(node.any)) = {}
         /\ Inside(node) = Range(Items(node.all)) \cup Range(Items(node.any)) \cup Range(Items(node.none))
         /\ Inside(node) = Below(node)
<1>1. /\ \A b \in {"all", "any", "none"} :
           Items(node[b]) \in Seq(Nodes) /\ Range(Items(node[b])) \subseteq Inside(node)
      /\ Inside(node) = Range(Items(node.all)) \cup Range(Items(node.any)) \cup Range(Items(node.none))
      /\ Inside(node) = Below(node)
  BY TreeShape
<1>2. node.any # None => Items(node.any) = node.any
  BY DEF Items
<1>3. node.any = None => Range(Items(node.any)) = {}
  BY DEF Items, Range
<1> QED BY <1>1, <1>2, <1>3

LEMMA TreeSame ==
  ASSUME NEW node \in Nodes, ~ IsCondition(node), NEW f, NEW g,
         \A item \in Inside(node) : f[item] = g[item]
  PROVE  CheckTree(node, f) = CheckTree(node, g)
<1>0. ASSUME NEW items \in Seq(Nodes), Range(items) \subseteq Inside(node), NEW until
      PROVE  Block(items, f, until) = Block(items, g, until)
  <2>1. \A item \in Range(items) : f[item] = g[item]
    BY <1>0
  <2> QED BY <2>1, BlockSame
<1>1. Block(Items(node.all), f, FALSE) = Block(Items(node.all), g, FALSE)
  BY <1>0, BlocksOf
<1>2. Block(Items(node.none), f, TRUE) = Block(Items(node.none), g, TRUE)
  BY <1>0, BlocksOf
<1>3. node.any # None => Block(node.any, f, TRUE) = Block(node.any, g, TRUE)
  BY <1>0, BlocksOf
<1> QED BY <1>1, <1>2, <1>3 DEF CheckTree

LEMMA TreeFinding ==
  ASSUME NEW node \in Nodes, ~ IsCondition(node), NEW f,
         \A item \in Inside(node) : f[item] \in Finding
  PROVE  CheckTree(node, f) \in Finding
<1>0. ASSUME NEW items \in Seq(Nodes), Range(items) \subseteq Inside(node), NEW until \in BOOLEAN
      PROVE  Block(items, f, until) \in Finding
  <2>1. \A item \in Range(items) : f[item] \in Finding
    BY <1>0
  <2> QED BY <2>1, BlockFinds
<1>1. Block(Items(node.all), f, FALSE) \in Finding
  BY <1>0, BlocksOf
<1>2. Block(Items(node.none), f, TRUE) \in Finding
  BY <1>0, BlocksOf
<1>3. node.any # None => Block(node.any, f, TRUE) \in Finding
  BY <1>0, BlocksOf
<1> QED BY <1>1, <1>2, <1>3 DEF CheckTree, Found, Finding

(* What is found of a tree is what its blocks find.                        *)
LEMMA EvaluateOf ==
  ASSUME NEW e
  PROVE  \E f \in [Nodes -> Finding] : \A node \in Nodes :
           /\ f[node] = IF IsCondition(node) THEN CheckCondition(node, e) ELSE CheckTree(node, f)
           /\ EvaluateLogic(node, e) = f[node]
<1> DEFINE Said(n, g) == IF IsCondition(n) THEN CheckCondition(n, e) ELSE CheckTree(n, g)
           G == [n \in Nodes |-> [g \in [Inside(n) -> Finding] |-> Said(n, g)]]
           Is(f) == f = [n \in Nodes |-> Said(n, f)]
<1>1. \E f : Is(f)
  <2>1. ASSUME NEW n \in Nodes, NEW g \in [Inside(n) -> Finding] PROVE G[n][g] \in Finding
    <3>1. Said(n, g) \in Finding
      BY ConditionFinding, TreeFinding
    <3> HIDE DEF Said
    <3> QED BY <3>1
  <2>2. PICK f \in [Nodes -> Finding] : RecursOn(f, G)
    <3> HIDE DEF G
    <3> QED BY <2>1, TreeRecursion
  <2>3. ASSUME NEW n \in Nodes PROVE f[n] = Said(n, f)
    <3> DEFINE g == [item \in Inside(n) |-> f[item]]
    <3>1. g \in [Inside(n) -> Finding]
      BY <2>2, TreeShape
    <3>2. f[n] = Said(n, g)
      <4> HIDE DEF Said
      <4> QED BY <2>2, <3>1 DEF RecursOn
    <3>3. Said(n, g) = Said(n, f)
      <4>1. \A item \in Inside(n) : g[item] = f[item]
        OBVIOUS
      <4> HIDE DEF g
      <4> QED BY <4>1, TreeSame
    <3> QED BY <3>2, <3>3
  <2>4. Is(f)
    <3> HIDE DEF Said
    <3> QED BY <2>2, <2>3
  <2> QED BY <2>4
<1> DEFINE x == CHOOSE f : Is(f)
<1>2. Is(x)
  BY <1>1
<1>3. \A node : EvaluateLogic(node, e) = x[node]
  BY DEF EvaluateLogic
<1> HIDE DEF x
<1>4. \A n \in Nodes : x[n] = Said(n, x)
  <2> HIDE DEF Said
  <2> QED BY <1>2
<1>5. x \in [Nodes -> Finding]
  <2> DEFINE S == {n \in Nodes : x[n] \in Finding}
  <2>1. ASSUME NEW n \in Nodes, Inside(n) \subseteq S PROVE n \in S
    <3>1. Said(n, x) \in Finding
      BY <2>1, ConditionFinding, TreeFinding
    <3> HIDE DEF Said
    <3> QED BY <1>4, <3>1
  <2>2. Nodes \subseteq S
    <3> HIDE DEF S
    <3> QED BY <2>1, TreeInduction
  <2>3. x = [n \in Nodes |-> x[n]]
    <3> HIDE DEF Said
    <3> QED BY <1>2
  <2> QED BY <2>2, <2>3
<1> QED BY <1>3, <1>4, <1>5

(* T says of those conditions what the event says.                         *)
AgreesOn(T, cs, e) == \A c \in cs : c \in T <=> MatchCondition(c, e)

(* What is found of a node is what it means, as far as nothing raises; and  *)
(* with its exclusions as they are, what it traces suffices.               *)
Verdict(node, v, e) ==
  /\ v.raised => \E c \in Conditions(node) : MatchRaises(c, e)
  /\ v.ok => ~ v.raised
  /\ \A c \in v.trace : c \in Conditions(node) /\ MatchCondition(c, e)
  /\ ~ v.raised => \A T : AgreesOn(T, Conditions(node), e) => (v.ok <=> Means(node, T))
  /\ v.ok => \A T : v.trace \subseteq T /\ AgreesOn(T, Excluded(node), e) => Means(node, T)

LEMMA ConditionVerdict ==
  ASSUME NEW node \in Nodes, IsCondition(node), NEW e
  PROVE  Verdict(node, CheckCondition(node, e), e)
<1>1. Conditions(node) = {node} /\ Excluded(node) = {}
  BY ConditionsOf, ExcludedOf
<1>2. \A T : Means(node, T) <=> node \in T
  <2> TAKE T
  <2>1. Means(node, T) = (node \in T)
    BY MeansOf
  <2> QED BY <2>1
<1>3. MatchCondition(node, e) \in BOOLEAN /\ MatchRaises(node, e) \in BOOLEAN
  BY MatchType
<1>4. CASE MatchRaises(node, e)
  BY <1>1, <1>4 DEF CheckCondition, Found, Verdict
<1>5. CASE ~ MatchRaises(node, e) /\ MatchCondition(node, e)
  BY <1>1, <1>2, <1>5 DEF CheckCondition, Found, Verdict, AgreesOn
<1>6. CASE ~ MatchRaises(node, e) /\ ~ MatchCondition(node, e)
  BY <1>1, <1>2, <1>6 DEF CheckCondition, Found, Verdict, AgreesOn
<1> QED BY <1>3, <1>4, <1>5, <1>6

LEMMA TreeVerdict ==
  ASSUME NEW node \in Nodes, ~ IsCondition(node), NEW e, NEW f,
         \A item \in Inside(node) : f[item] \in Finding /\ Verdict(item, f[item], e)
  PROVE  Verdict(node, CheckTree(node, f), e)
<1> DEFINE all == Block(Items(node.all), f, FALSE)
           any == IF node.any = None THEN Found(TRUE, FALSE, {}) ELSE Block(node.any, f, TRUE)
           none == Block(Items(node.none), f, TRUE)
           v == CheckTree(node, f)
           ofAll == Range(Items(node.all))
           ofAny == Range(Items(node.any))
           ofNone == Range(Items(node.none))
<1>1. /\ Inside(node) = ofAll \cup ofAny \cup ofNone /\ Inside(node) \subseteq Nodes
      /\ node.any # None => ofAny = Range(node.any)
      /\ node.any = None => ofAny = {}
  BY BlocksOf, TreeShape
<1>2. /\ \A item \in Inside(node) : Conditions(item) \subseteq Conditions(node)
      /\ \A item \in ofNone : Conditions(item) \subseteq Excluded(node)
      /\ \A item \in ofAll \cup ofAny : Excluded(item) \subseteq Excluded(node)
  <2>1. Conditions(node) = UNION {Conditions(item) : item \in Inside(node)}
    BY ConditionsOf, BlocksOf
  <2>2. Excluded(node) = (UNION {Conditions(item) : item \in ofNone})
                         \cup (UNION {Excluded(item) : item \in ofAll \cup ofAny})
    BY ExcludedOf
  <2> QED BY <2>1, <2>2
<1>3. \A T : Means(node, T) <=>
        /\ \A item \in ofAll : Means(item, T)
        /\ node.any # None => \E item \in ofAny : Means(item, T)
        /\ \A item \in ofNone : ~ Means(item, T)
  <2> TAKE T
  <2>1. Means(node, T) =
          /\ \A item \in ofAll : Means(item, T)
          /\ node.any # None => \E item \in Range(node.any) : Means(item, T)
          /\ \A item \in ofNone : ~ Means(item, T)
    BY MeansOf
  <2> QED BY <1>1, <2>1
<1>4. ASSUME NEW items \in Seq(Nodes), Range(items) \subseteq Inside(node), NEW until \in BOOLEAN,
             NEW b, b = Block(items, f, until)
      PROVE  /\ b \in Finding
             /\ b.raised => \E item \in Range(items) : f[item].raised
             /\ ~ b.raised /\ b.ok = until => \E item \in Range(items) : f[item] = b
             /\ ~ b.raised /\ b.ok # until =>
                  /\ \A item \in Range(items) : ~ f[item].raised /\ f[item].ok # until
                  /\ \A item \in Range(items) : f[item].trace \subseteq b.trace
                  /\ \A x \in b.trace : \E item \in Range(items) : x \in f[item].trace
  <2>1. \A item \in Range(items) : f[item] \in Finding
    BY <1>4
  <2> QED BY <1>4, <2>1, BlockFinds
<1>5. /\ all \in Finding
      /\ all.raised => \E item \in ofAll : f[item].raised
      /\ ~ all.raised /\ all.ok = FALSE => \E item \in ofAll : f[item] = all
      /\ ~ all.raised /\ all.ok # FALSE =>
           /\ \A item \in ofAll : ~ f[item].raised /\ f[item].ok # FALSE
           /\ \A item \in ofAll : f[item].trace \subseteq all.trace
           /\ \A x \in all.trace : \E item \in ofAll : x \in f[item].trace
  <2>1. Items(node.all) \in Seq(Nodes) /\ Range(Items(node.all)) \subseteq Inside(node)
    BY BlocksOf
  <2>2. all = Block(Items(node.all), f, FALSE)
    OBVIOUS
  <2> HIDE DEF all
  <2> QED BY <1>4, <2>1, <2>2
<1>6. /\ none \in Finding
      /\ none.raised => \E item \in ofNone : f[item].raised
      /\ ~ none.raised /\ none.ok = TRUE => \E item \in ofNone : f[item] = none
      /\ ~ none.raised /\ none.ok # TRUE =>
           \A item \in ofNone : ~ f[item].raised /\ f[item].ok # TRUE
  <2>1. Items(node.none) \in Seq(Nodes) /\ Range(Items(node.none)) \subseteq Inside(node)
    BY BlocksOf
  <2>2. none = Block(Items(node.none), f, TRUE)
    OBVIOUS
  <2> HIDE DEF none
  <2> QED BY <1>4, <2>1, <2>2
<1>7. /\ any \in Finding
      /\ any.raised => \E item \in ofAny : f[item].raised
      /\ ~ any.raised /\ any.ok = TRUE /\ node.any # None => \E item \in ofAny : f[item] = any
      /\ node.any = None => any.ok /\ ~ any.raised /\ any.trace = {}
      /\ ~ any.raised /\ any.ok # TRUE =>
           node.any # None /\ \A item \in ofAny : ~ f[item].raised /\ f[item].ok # TRUE
  <2>1. CASE node.any = None
    BY <2>1 DEF Found, Finding
  <2>2. CASE node.any # None
    <3>1. node.any \in Seq(Nodes) /\ Range(node.any) \subseteq Inside(node) /\ ofAny = Range(node.any)
      BY <2>2, BlocksOf
    <3>2. any = Block(node.any, f, TRUE)
      BY <2>2
    <3> DEFINE items == node.any
    <3> HIDE DEF any, ofAny
    <3>3. items \in Seq(Nodes) /\ Range(items) \subseteq Inside(node) /\ any = Block(items, f, TRUE)
      BY <3>1, <3>2
    <3> HIDE DEF items
    <3>4. /\ any \in Finding
          /\ any.raised => \E item \in Range(items) : f[item].raised
          /\ ~ any.raised /\ any.ok = TRUE => \E item \in Range(items) : f[item] = any
          /\ ~ any.raised /\ any.ok # TRUE =>
               \A item \in Range(items) : ~ f[item].raised /\ f[item].ok # TRUE
      BY <1>4, <3>3
    <3> QED BY <2>2, <3>1, <3>4 DEF items
  <2> QED BY <2>1, <2>2
<1>8. v = IF all.raised \/ ~ all.ok THEN Found(FALSE, all.raised, {})
          ELSE IF any.raised \/ ~ any.ok THEN Found(FALSE, any.raised, {})
          ELSE IF none.raised \/ none.ok THEN Found(FALSE, none.raised, {})
          ELSE Found(TRUE, FALSE, all.trace \cup any.trace)
  BY DEF CheckTree
<1>9. /\ v.raised => all.raised \/ any.raised \/ none.raised
      /\ v.ok <=> all.ok /\ ~ all.raised /\ any.ok /\ ~ any.raised /\ ~ none.ok /\ ~ none.raised
      /\ ~ v.raised /\ ~ v.ok =>
           \/ ~ all.raised /\ ~ all.ok
           \/ ~ any.raised /\ ~ any.ok
           \/ ~ none.raised /\ none.ok
      /\ v.ok => ~ v.raised /\ v.trace = all.trace \cup any.trace
      /\ ~ v.ok => v.trace = {}
      /\ v.ok \in BOOLEAN
  <2> HIDE DEF all, any, none, v
  <2> QED BY <1>5, <1>6, <1>7, <1>8 DEF Found, Finding
<1> HIDE DEF all, any, none, v, ofAll, ofAny, ofNone
<1>10. ASSUME v.raised PROVE \E c \in Conditions(node) : MatchRaises(c, e)
  <2>1. PICK item \in Inside(node) : f[item].raised
    BY <1>1, <1>5, <1>6, <1>7, <1>9, <1>10
  <2> QED BY <1>2, <2>1 DEF Verdict
<1>11. ASSUME NEW c \in v.trace PROVE c \in Conditions(node) /\ MatchCondition(c, e)
  <2>1. PICK item \in Inside(node) : c \in f[item].trace
    BY <1>1, <1>5, <1>7, <1>9
  <2> QED BY <1>2, <2>1 DEF Verdict
<1>12. ASSUME NEW T, AgreesOn(T, Conditions(node), e), NEW item \in Inside(node), ~ f[item].raised
       PROVE  f[item].ok <=> Means(item, T)
  BY <1>2, <1>12 DEF Verdict, AgreesOn
<1>13. ASSUME ~ v.raised, NEW T, AgreesOn(T, Conditions(node), e) PROVE v.ok <=> Means(node, T)
  <2>1. CASE v.ok
    <3>1. \A item \in ofAll : Means(item, T)
      <4>1. \A item \in ofAll : ~ f[item].raised /\ f[item].ok # FALSE /\ f[item].ok \in BOOLEAN
        BY <1>1, <1>5, <1>9, <2>1 DEF Finding
      <4> QED BY <1>1, <1>12, <1>13, <4>1
    <3>2. node.any # None => \E item \in ofAny : Means(item, T)
      BY <1>1, <1>7, <1>9, <1>12, <1>13, <2>1
    <3>3. \A item \in ofNone : ~ Means(item, T)
      BY <1>1, <1>6, <1>9, <1>12, <1>13, <2>1
    <3> QED BY <1>3, <2>1, <3>1, <3>2, <3>3
  <2>2. CASE ~ all.raised /\ ~ all.ok
    <3>1. PICK item \in ofAll : f[item] = all
      BY <1>5, <2>2
    <3>2. ~ Means(item, T)
      BY <1>1, <1>12, <1>13, <2>2, <3>1
    <3> QED BY <1>3, <1>9, <2>2, <3>2
  <2>3. CASE ~ any.raised /\ ~ any.ok
    <3>1. node.any # None /\ \A item \in ofAny : ~ Means(item, T)
      BY <1>1, <1>7, <1>12, <1>13, <2>3
    <3> QED BY <1>3, <1>9, <2>3, <3>1
  <2>4. CASE ~ none.raised /\ none.ok
    <3>1. PICK item \in ofNone : f[item] = none
      BY <1>6, <2>4 DEF Finding
    <3>2. Means(item, T)
      BY <1>1, <1>12, <1>13, <2>4, <3>1
    <3> QED BY <1>3, <1>9, <2>4, <3>2
  <2> QED BY <1>9, <1>13, <2>1, <2>2, <2>3, <2>4
<1>14. ASSUME v.ok, NEW T, v.trace \subseteq T, AgreesOn(T, Excluded(node), e) PROVE Means(node, T)
  <2>1. ASSUME NEW item \in ofAll \cup ofAny, f[item].ok, f[item].trace \subseteq T PROVE Means(item, T)
    BY <1>1, <1>2, <1>14, <2>1 DEF Verdict, AgreesOn
  <2>2. \A item \in ofAll : Means(item, T)
    BY <1>1, <1>5, <1>9, <1>14, <2>1 DEF Finding
  <2>3. node.any # None => \E item \in ofAny : Means(item, T)
    BY <1>1, <1>7, <1>9, <1>14, <2>1 DEF Finding
  <2>4. ASSUME NEW item \in ofNone PROVE ~ Means(item, T)
    <3>1. ~ f[item].raised /\ ~ f[item].ok
      BY <1>1, <1>6, <1>9, <1>14 DEF Finding
    <3>2. AgreesOn(T, Conditions(item), e)
      BY <1>2, <1>14 DEF AgreesOn
    <3> QED BY <1>1, <3>1, <3>2 DEF Verdict
  <2> QED BY <1>3, <2>2, <2>3, <2>4
<1> QED BY <1>9, <1>10, <1>11, <1>13, <1>14 DEF Verdict, v

(* What is found of any node is so.                                        *)
LEMMA Verdicts ==
  ASSUME NEW e, NEW node \in Nodes
  PROVE  EvaluateLogic(node, e) \in Finding /\ Verdict(node, EvaluateLogic(node, e), e)
<1>1. PICK f \in [Nodes -> Finding] : \A n \in Nodes :
         /\ f[n] = IF IsCondition(n) THEN CheckCondition(n, e) ELSE CheckTree(n, f)
         /\ EvaluateLogic(n, e) = f[n]
  BY EvaluateOf
<1> DEFINE S == {n \in Nodes : Verdict(n, f[n], e)}
<1>2. ASSUME NEW n \in Nodes, Inside(n) \subseteq S PROVE n \in S
  <2>1. CASE IsCondition(n)
    BY <1>1, <2>1, ConditionVerdict
  <2>2. CASE ~ IsCondition(n)
    <3>1. \A item \in Inside(n) : f[item] \in Finding /\ Verdict(item, f[item], e)
      BY <1>1, <1>2
    <3>2. Verdict(n, CheckTree(n, f), e)
      BY <2>2, <3>1, TreeVerdict
    <3> QED BY <1>1, <2>2, <3>2
  <2> QED BY <2>1, <2>2
<1>3. Nodes \subseteq S
  <2> HIDE DEF S
  <2> QED BY <1>2, TreeInduction
<1> QED BY <1>1, <1>3
-----------------------------------------------------------------------------
(* What a reference becomes: itself with its list, or its blocks with theirs. *)
LEMMA ResolvedOf ==
  ASSUME NEW lists
  PROVE  \A node \in Nodes :
    Resolved(node, lists) =
      IF IsCondition(node) THEN InPlace(node, lists)
      ELSE [b \in DOMAIN node |->
              IF node[b] = None THEN None ELSE [i \in DOMAIN node[b] |-> Resolved(node[b][i], lists)]]
<1> DEFINE Said(n, g) == IF IsCondition(n) THEN InPlace(n, lists)
                         ELSE [b \in DOMAIN n |->
                                 IF n[b] = None THEN None ELSE [i \in DOMAIN n[b] |-> g[n[b][i]]]]
           Is(f) == f = [n \in Nodes |-> Said(n, f)]
           IsUpto(f, k) == f = [n \in Upto(k) |-> Said(n, f)]
           T == {k \in Nat : ~ \E f : IsUpto(f, k)}
<1>1. ASSUME NEW n \in Nodes, NEW f, NEW g, \A item \in Inside(n) : f[item] = g[item]
      PROVE  Said(n, f) = Said(n, g)
  <2>1. CASE IsCondition(n)
    BY <2>1
  <2>2. CASE ~ IsCondition(n)
    <3>1. ASSUME NEW b \in DOMAIN n, n[b] # None, NEW i \in DOMAIN n[b] PROVE f[n[b][i]] = g[n[b][i]]
      <4>1. n[b] = Items(n[b]) /\ b \in {"all", "any", "none"}
        BY <2>2, <3>1, TreeShape DEF Items
      <4>2. Range(n[b]) \subseteq Inside(n)
        BY <2>2, <4>1, TreeShape
      <4>3. n[b][i] \in Range(n[b])
        BY <3>1 DEF Range
      <4> QED BY <1>1, <4>2, <4>3
    <3>2. \A b \in DOMAIN n : n[b] # None => [i \in DOMAIN n[b] |-> f[n[b][i]]] = [i \in DOMAIN n[b] |-> g[n[b][i]]]
      BY <3>1
    <3> QED BY <2>2, <3>2
  <2> QED BY <2>1, <2>2
<1>2. \E f : Is(f)
  <2>1. T = {}
    <3> SUFFICES ASSUME T # {} PROVE FALSE
      OBVIOUS
    <3>1. PICK k \in T : \A m \in T : k <= m
      <4>1. T \in SUBSET Nat
        OBVIOUS
      <4> HIDE DEF T
      <4> QED BY <4>1, LeastOf
    <3>2. k # 0
      <4>1. Upto(0) = {}
        BY TreeShape DEF Upto
      <4>2. IsUpto(<<>>, 0)
        BY <4>1
      <4> HIDE DEF IsUpto
      <4> QED BY <3>1, <4>2
    <3>3. k - 1 \in Nat /\ k - 1 \notin T
      BY <3>1, <3>2
    <3>4. PICK f : IsUpto(f, k - 1)
      BY <3>3
    <3> DEFINE g == [n \in Upto(k) |-> Said(n, f)]
    <3> HIDE DEF Said
    <3>5. \A n \in Upto(k) : n \in Nodes /\ Inside(n) \subseteq Upto(k - 1)
      <4> SUFFICES ASSUME NEW n \in Upto(k), NEW item \in Inside(n) PROVE n \in Nodes /\ item \in Upto(k - 1)
        BY DEF Upto
      <4>1. n \in Nodes /\ Height[n] < k
        BY DEF Upto
      <4>2. item \in Nodes /\ Height[item] < Height[n]
        BY <4>1, TreeShape
      <4>3. Height[item] \in Nat /\ Height[n] \in Nat
        BY <4>1, <4>2, TreeShape
      <4> QED BY <3>3, <4>1, <4>2, <4>3 DEF Upto
    <3>6. Upto(k - 1) \subseteq Upto(k)
      BY <3>3, TreeShape DEF Upto
    <3>7. \A n \in Upto(k - 1) : g[n] = f[n]
      BY <3>4, <3>6
    <3>8. \A n \in Upto(k) : Said(n, g) = Said(n, f)
      <4> SUFFICES ASSUME NEW n \in Upto(k) PROVE Said(n, g) = Said(n, f)
        OBVIOUS
      <4>1. n \in Nodes /\ \A item \in Inside(n) : g[item] = f[item]
        BY <3>5, <3>7
      <4> HIDE DEF g
      <4> QED BY <1>1, <4>1
    <3>9. IsUpto(g, k)
      <4>1. g = [n \in Upto(k) |-> Said(n, f)]
        OBVIOUS
      <4> HIDE DEF g
      <4> QED BY <3>8, <4>1
    <3> HIDE DEF g
    <3> QED BY <3>1, <3>9
  <2>2. MaxNesting + 1 \in Nat /\ Upto(MaxNesting + 1) = Nodes
    BY TreeAssumption DEF Upto
  <2>3. PICK f : IsUpto(f, MaxNesting + 1)
    BY <2>1, <2>2
  <2> QED BY <2>2, <2>3
<1> DEFINE x == CHOOSE f : Is(f)
<1>3. Is(x)
  BY <1>2
<1>4. \A node : Resolved(node, lists) = x[node]
  BY DEF Resolved
<1> HIDE DEF x
<1>5. \A n \in Nodes : x[n] = Said(n, x)
  <2> HIDE DEF Said
  <2> QED BY <1>3
<1> SUFFICES ASSUME NEW n \in Nodes
             PROVE  Resolved(n, lists) =
               IF IsCondition(n) THEN InPlace(n, lists)
               ELSE [b \in DOMAIN n |->
                       IF n[b] = None THEN None ELSE [i \in DOMAIN n[b] |-> Resolved(n[b][i], lists)]]
  OBVIOUS
<1>6. \A b : [i \in DOMAIN n[b] |-> Resolved(n[b][i], lists)] = [i \in DOMAIN n[b] |-> x[n[b][i]]]
  BY <1>4
<1>7. Resolved(n, lists) = Said(n, x)
  BY <1>4, <1>5
<1> QED BY <1>6, <1>7

(* All the lists a node refers to are there.                               *)
Known(node) == \A c \in Conditions(node) : c.list \in DOMAIN Lists \cup {None}

(* Putting lists in place keeps the shape of a tree.                       *)
LEMMA ResolvedShape ==
  ASSUME NEW node \in Nodes, ~ IsCondition(node), Known(node), NEW m, m = Resolved(node, Lists)
  PROVE  /\ m \in Nodes /\ ~ IsCondition(m)
         /\ Inside(m) = {Resolved(item, Lists) : item \in Inside(node)}
         /\ \A item \in Inside(node) : Known(item)
<1> DEFINE R(item) == Resolved(item, Lists)
<1>1. m \in Nodes
  BY EngineAssumption DEF Known
<1>2. m = [b \in DOMAIN node |-> IF node[b] = None THEN None ELSE [i \in DOMAIN node[b] |-> R(node[b][i])]]
  BY ResolvedOf
<1>3. DOMAIN m = DOMAIN node /\ DOMAIN node = {"all", "any", "none"}
  BY <1>2, TreeShape
<1>4. ~ IsCondition(m)
  BY <1>3 DEF IsCondition
<1>5. ASSUME NEW b \in DOMAIN node PROVE Range(Items(m[b])) = {R(item) : item \in Range(Items(node[b]))}
  <2>1. CASE node[b] = None
    <3>1. m[b] = None
      BY <1>2, <2>1
    <3> QED BY <2>1, <3>1 DEF Items, Range
  <2>2. CASE node[b] # None
    <3>1. m[b] = [i \in DOMAIN node[b] |-> R(node[b][i])] /\ Items(node[b]) = node[b]
      BY <1>2, <2>2 DEF Items
    <3>2. Items(node[b]) \in Seq(Nodes) /\ Items(m[b]) \in Seq(Nodes)
      BY <1>1, <1>3, <1>4, TreeShape
    <3>3. ASSUME m[b] = None PROVE FALSE
      <4>1. \A i \in DOMAIN node[b] : R(node[b][i]) \in Nodes
        <5>1. \A i \in DOMAIN node[b] : node[b][i] \in Inside(node) /\ node[b][i] \in Nodes
          <6>1. Range(node[b]) \subseteq Inside(node)
            BY <1>3, <3>1, TreeShape
          <6> QED BY <6>1, TreeShape DEF Range
        <5>2. \A item \in Inside(node) : Known(item)
          BY ConditionsOf, TreeShape DEF Known
        <5> QED BY <5>1, <5>2, EngineAssumption DEF Known
      <4>2. DOMAIN node[b] = 1 .. Len(node[b]) /\ Len(node[b]) \in Nat
        BY <3>1, <3>2, LenProperties
      <4>3. m[b] \in Seq(Nodes)
        BY <3>1, <4>1, <4>2, IsASeq
      <4> QED BY <3>3, <4>3, TreeAssumption
    <3>4. Items(m[b]) = m[b]
      BY <3>3 DEF Items
    <3> QED BY <3>1, <3>4 DEF Range
  <2> QED BY <2>1, <2>2
<1>6. /\ Inside(node) = Range(Items(node.all)) \cup Range(Items(node.any)) \cup Range(Items(node.none))
      /\ Inside(m) = Range(Items(m.all)) \cup Range(Items(m.any)) \cup Range(Items(m.none))
  BY <1>1, <1>4, BlocksOf
<1>7. Inside(m) = {R(item) : item \in Inside(node)}
  <2>1. /\ Range(Items(m.all)) = {R(item) : item \in Range(Items(node.all))}
        /\ Range(Items(m.any)) = {R(item) : item \in Range(Items(node.any))}
        /\ Range(Items(m.none)) = {R(item) : item \in Range(Items(node.none))}
    BY <1>3, <1>5
  <2> QED BY <1>6, <2>1
<1>8. \A item \in Inside(node) : Known(item)
  BY ConditionsOf, TreeShape DEF Known
<1> QED BY <1>1, <1>4, <1>7, <1>8

(* A condition with its list in place.                                     *)
LEMMA InPlaceIs ==
  ASSUME NEW c \in Nodes, IsCondition(c)
  PROVE  /\ IsCondition(InPlace(c, Lists))
         /\ InPlace(c, Lists).list = None
         /\ c.list = None => InPlace(c, Lists) = c
<1>1. c = [field |-> c.field, op |-> c.op, values |-> c.values, list |-> c.list, cased |-> c.cased]
  BY TreeAssumption
<1> QED BY <1>1 DEF InPlace, IsCondition

(* Then no condition refers to a list any more.                            *)
LEMMA ResolvedInPlace ==
  ASSUME NEW node \in Nodes, Known(node)
  PROVE  \A c \in Conditions(Resolved(node, Lists)) : c.list = None
<1> DEFINE S == {n \in Nodes : Known(n) => \A c \in Conditions(Resolved(n, Lists)) : c.list = None}
<1>1. ASSUME NEW n \in Nodes, Inside(n) \subseteq S PROVE n \in S
  <2> SUFFICES ASSUME Known(n) PROVE \A c \in Conditions(Resolved(n, Lists)) : c.list = None
    OBVIOUS
  <2> DEFINE m == Resolved(n, Lists)
  <2>1. CASE IsCondition(n)
    <3>1. m = InPlace(n, Lists) /\ m \in Nodes
      BY <2>1, ResolvedOf, EngineAssumption DEF Known
    <3>2. IsCondition(m) /\ m.list = None
      BY <2>1, <3>1, InPlaceIs
    <3> HIDE DEF m
    <3>3. Conditions(m) = {m}
      BY <3>1, <3>2, ConditionsOf
    <3> QED BY <3>2, <3>3 DEF m
  <2>2. CASE ~ IsCondition(n)
    <3>1. /\ m \in Nodes /\ ~ IsCondition(m)
          /\ Inside(m) = {Resolved(item, Lists) : item \in Inside(n)}
          /\ \A item \in Inside(n) : Known(item)
      <4>1. m = Resolved(n, Lists)
        OBVIOUS
      <4> HIDE DEF m
      <4> QED BY <2>2, <4>1, ResolvedShape
    <3> HIDE DEF m
    <3>2. Conditions(m) = UNION {Conditions(item) : item \in Inside(m)}
      BY <3>1, ConditionsOf, BlocksOf
    <3>3. \A item \in Inside(m) : \A c \in Conditions(item) : c.list = None
      BY <1>1, <3>1
    <3>4. \A c \in Conditions(m) : c.list = None
      BY <3>2, <3>3
    <3> QED BY <3>4 DEF m
  <2> QED BY <2>1, <2>2
<1>2. Nodes \subseteq S
  <2> HIDE DEF S
  <2> QED BY <1>1, TreeInduction
<1> QED BY <1>2

(* And putting lists in place once more changes nothing.                   *)
LEMMA ResolvedOnce ==
  ASSUME NEW node \in Nodes, \A c \in Conditions(node) : c.list = None
  PROVE  Resolved(node, Lists) = node
<1> DEFINE S == {n \in Nodes : (\A c \in Conditions(n) : c.list = None) => Resolved(n, Lists) = n}
<1>1. ASSUME NEW n \in Nodes, Inside(n) \subseteq S PROVE n \in S
  <2> SUFFICES ASSUME \A c \in Conditions(n) : c.list = None PROVE Resolved(n, Lists) = n
    OBVIOUS
  <2>1. CASE IsCondition(n)
    <3>1. Conditions(n) = {n} /\ Resolved(n, Lists) = InPlace(n, Lists)
      BY <2>1, ConditionsOf, ResolvedOf
    <3> QED BY <2>1, <3>1, InPlaceIs
  <2>2. CASE ~ IsCondition(n)
    <3>1. Conditions(n) = UNION {Conditions(item) : item \in Inside(n)}
      BY <2>2, ConditionsOf, BlocksOf
    <3>2. \A item \in Inside(n) : Resolved(item, Lists) = item
      BY <1>1, <3>1
    <3>3. Resolved(n, Lists) =
            [b \in DOMAIN n |-> IF n[b] = None THEN None ELSE [i \in DOMAIN n[b] |-> Resolved(n[b][i], Lists)]]
      BY <2>2, ResolvedOf
    <3>4. ASSUME NEW b \in DOMAIN n, n[b] # None PROVE [i \in DOMAIN n[b] |-> Resolved(n[b][i], Lists)] = n[b]
      <4>1. n[b] = Items(n[b]) /\ b \in {"all", "any", "none"}
        BY <2>2, <3>4, TreeShape DEF Items
      <4>2. n[b] \in Seq(Nodes) /\ Range(n[b]) \subseteq Inside(n)
        BY <2>2, <4>1, TreeShape
      <4>3. \A i \in DOMAIN n[b] : Resolved(n[b][i], Lists) = n[b][i]
        BY <3>2, <4>2 DEF Range
      <4>4. n[b] = [i \in DOMAIN n[b] |-> n[b][i]]
        BY <4>2
      <4> QED BY <4>3, <4>4
    <3>5. n = [b \in DOMAIN n |-> n[b]]
      <4>1. n = [all |-> n.all, any |-> n.any, none |-> n.none]
        BY <2>2, TreeAssumption
      <4> QED BY <4>1
    <3> QED BY <3>3, <3>4, <3>5
  <2> QED BY <2>1, <2>2
<1>2. Nodes \subseteq S
  <2> HIDE DEF S
  <2> QED BY <1>1, TreeInduction
<1> QED BY <1>2
-----------------------------------------------------------------------------
(* The files of a directory are files.                                     *)
IsFile(file) ==
  /\ DOMAIN file = {"id", "kind", "status", "type", "logic", "level", "evidence", "response"}
  /\ file.logic \in Nodes /\ file.level \in Nat
AreFiles(files) ==
  /\ DOMAIN files = 1 .. Len(files) /\ Len(files) \in Nat
  /\ \A i \in DOMAIN files : IsFile(files[i])

LEMMA DirectoriesAreFiles == \A files \in Directories : AreFiles(files)
<1> SUFFICES ASSUME NEW files \in Directories PROVE AreFiles(files)
  OBVIOUS
<1>1. files \in Seq(Range(files)) /\ \A file \in Range(files) : IsFile(file)
  BY EngineAssumption DEF IsFile
<1>2. DOMAIN files = 1 .. Len(files) /\ Len(files) \in Nat
  BY <1>1, LenProperties
<1>3. \A i \in DOMAIN files : files[i] \in Range(files)
  BY DEF Range
<1> QED BY <1>1, <1>2, <1>3 DEF AreFiles

(* A directory is sound when each file is and no id comes twice.            *)
AllSound(files) ==
  /\ \A i \in DOMAIN files : Sound(files[i], {})
  /\ \A i, j \in DOMAIN files : i # j => files[i].id # files[j].id

(* The rule of a file.                                                     *)
RuleOf(file) == [file EXCEPT !.logic = Resolved(@, Lists)]

LEMMA LoadIs ==
  ASSUME NEW files, AreFiles(files)
  PROVE  LoadDirectory(files) =
           IF AllSound(files)
           THEN [ok |-> TRUE, rules |-> {RuleOf(files[i]) : i \in {j \in DOMAIN files : files[j].status = "enabled"}}]
           ELSE [ok |-> FALSE, rules |-> {}]
<1> DEFINE sound == {i \in DOMAIN files : Sound(files[i], Seen(files, i))}
<1>1. \A file, seen : Sound(file, seen) <=> Sound(file, {}) /\ file.id \notin seen
  BY DEF Sound
<1>2. sound = DOMAIN files <=> AllSound(files)
  <2>1. ASSUME sound = DOMAIN files PROVE AllSound(files)
    <3>1. \A i \in DOMAIN files : Sound(files[i], {}) /\ files[i].id \notin Seen(files, i)
      BY <1>1, <2>1
    <3>2. ASSUME NEW i \in DOMAIN files, NEW j \in DOMAIN files, i < j PROVE files[i].id # files[j].id
      <4>1. i \in 1 .. j - 1
        BY <3>2 DEF AreFiles
      <4> QED BY <3>1, <4>1 DEF Seen
    <3>3. \A i, j \in DOMAIN files : i # j => i < j \/ j < i
      BY DEF AreFiles
    <3> QED BY <3>1, <3>2, <3>3 DEF AllSound
  <2>2. ASSUME AllSound(files), NEW i \in DOMAIN files PROVE i \in sound
    <3>1. ASSUME NEW j \in 1 .. i - 1 PROVE files[j].id # files[i].id
      <4>1. j \in DOMAIN files /\ i # j
        BY DEF AreFiles
      <4> QED BY <2>2, <4>1 DEF AllSound
    <3> QED BY <1>1, <2>2, <3>1 DEF AllSound, Seen
  <2> QED BY <2>1, <2>2
<1>3. LoadDirectory(files) = IF sound = DOMAIN files THEN [ok |-> TRUE, rules |-> EnabledRules(files, sound)]
                             ELSE [ok |-> FALSE, rules |-> {}]
  BY DEF LoadDirectory
<1>4. EnabledRules(files, DOMAIN files) = {RuleOf(files[i]) : i \in {j \in DOMAIN files : files[j].status = "enabled"}}
  BY DEF EnabledRules, RuleOf
<1> HIDE DEF sound
<1> QED BY <1>2, <1>3, <1>4

(* A rule is its file with its lists in place.                             *)
LEMMA RuleIs ==
  ASSUME NEW file, IsFile(file), Sound(file, {}), NEW r, r = RuleOf(file)
  PROVE  /\ r.id = file.id /\ r.kind = file.kind /\ r.status = file.status /\ r.type = file.type
         /\ r.level \in Nat /\ r.logic = Resolved(file.logic, Lists) /\ r.logic \in Nodes
         /\ \A c \in Conditions(r.logic) : c.list = None
         /\ Sound(r, {})
<1>1. /\ r.id = file.id /\ r.kind = file.kind /\ r.status = file.status /\ r.type = file.type
      /\ r.level \in Nat /\ r.logic = Resolved(file.logic, Lists)
  BY DEF RuleOf, IsFile
<1>2. Known(file.logic) /\ file.logic \in Nodes
  BY DEF Sound, Known, IsFile
<1>3. r.logic \in Nodes /\ \A c \in Conditions(r.logic) : c.list = None
  BY <1>1, <1>2, ResolvedInPlace, EngineAssumption DEF Known
<1>4. Resolved(r.logic, Lists) = r.logic
  BY <1>3, ResolvedOnce
<1>5. Sound(r, {})
  BY <1>1, <1>3, <1>4 DEF Sound
<1> QED BY <1>1, <1>3, <1>5

(* Those of rs that match e.                                               *)
MatchesAmong(rs, e) ==
  {r \in rs : /\ r.kind = "single" /\ r.type = e.type
              /\ Judged(r, e).ok /\ ~ Judged(r, e).raised}

(* The alerts as are those of the rules rs that match the events es.        *)
AlertsAre(as, rs, es) ==
  \A a : a \in as <=> \E i \in DOMAIN es : \E r \in MatchesAmong(rs, es[i]) :
                         a = AlertOf(r, es[i], Judged(r, es[i]).trace)

(* What was loaded is what the directory says; what was alerted is what    *)
(* matched.                                                                *)
EngineInv ==
  /\ directory \in Directories
  /\ loading = "done" => LoadDirectory(directory).ok /\ rules = LoadDirectory(directory).rules
  /\ loading # "done" => evaluated = <<>> /\ alerts = {}
  /\ evaluated \in Seq(Events)
  /\ AlertsAre(alerts, rules, evaluated)

LEMMA NoAlerts == \A rs : AlertsAre({}, rs, <<>>)
<1>1. DOMAIN << >> = {}
  OBVIOUS
<1> QED BY <1>1 DEF AlertsAre

LEMMA MoreAlerts ==
  ASSUME NEW as, NEW rs, NEW es \in Seq(Events), NEW e \in Events, AlertsAre(as, rs, es)
  PROVE  AlertsAre(as \cup {AlertOf(r, e, Judged(r, e).trace) : r \in MatchesAmong(rs, e)}, rs, Append(es, e))
<1> DEFINE more == {AlertOf(r, e, Judged(r, e).trace) : r \in MatchesAmong(rs, e)}
           fs == Append(es, e)
<1>1. /\ DOMAIN fs = DOMAIN es \cup {Len(es) + 1}
      /\ \A i \in DOMAIN es : fs[i] = es[i]
      /\ fs[Len(es) + 1] = e
  <2>1. DOMAIN es = 1 .. Len(es) /\ Len(es) \in Nat
    BY LenProperties
  <2> QED BY <2>1, AppendProperties
<1>2. ASSUME NEW a
      PROVE  a \in as \cup more <=> \E i \in DOMAIN fs : \E r \in MatchesAmong(rs, fs[i]) :
                                       a = AlertOf(r, fs[i], Judged(r, fs[i]).trace)
  <2>1. a \in as <=> \E i \in DOMAIN es : \E r \in MatchesAmong(rs, es[i]) :
                        a = AlertOf(r, es[i], Judged(r, es[i]).trace)
    BY DEF AlertsAre
  <2>2. a \in more <=> \E r \in MatchesAmong(rs, e) : a = AlertOf(r, e, Judged(r, e).trace)
    OBVIOUS
  <2> HIDE DEF more, fs
  <2> QED BY <1>1, <2>1, <2>2
<1> HIDE DEF more, fs
<1>3. AlertsAre(as \cup more, rs, fs)
  BY <1>2 DEF AlertsAre
<1> QED BY <1>3 DEF more, fs

LEMMA EngineKeeps == EngineInv /\ [EngineNext]_engineVars => EngineInv'
<1> SUFFICES ASSUME EngineInv, [EngineNext]_engineVars PROVE EngineInv'
  OBVIOUS
<1>1. CASE LoadRules
  <2>1. evaluated = <<>> /\ alerts = {} /\ evaluated' = evaluated /\ alerts' = alerts /\ directory' = directory
    BY <1>1 DEF EngineInv, LoadRules
  <2>2. loading' = "done" => LoadDirectory(directory').ok /\ rules' = LoadDirectory(directory').rules
    BY <1>1 DEF LoadRules
  <2>3. AlertsAre(alerts', rules', evaluated')
    BY <2>1, NoAlerts
  <2> QED BY <2>1, <2>2, <2>3 DEF EngineInv
<1>2. ASSUME NEW e \in Events, EvaluateEvent(e) PROVE EngineInv'
  <2>1. /\ loading = "done" /\ evaluated' = Append(evaluated, e) /\ evaluated \in Seq(Events)
        /\ alerts' = alerts \cup {AlertOf(r, e, Judged(r, e).trace) : r \in Matches(e)}
        /\ directory' = directory /\ rules' = rules /\ loading' = loading
    BY <1>2 DEF EngineInv, EvaluateEvent
  <2>2. Matches(e) = MatchesAmong(rules, e)
    BY DEF Matches, MatchesAmong, Reading
  <2>3. AlertsAre(alerts', rules', evaluated')
    BY <2>1, <2>2, MoreAlerts DEF EngineInv
  <2>4. evaluated' \in Seq(Events)
    BY <2>1, AppendProperties
  <2> QED BY <2>1, <2>3, <2>4 DEF EngineInv
<1>3. CASE UNCHANGED engineVars
  <2>1. /\ directory' = directory /\ rules' = rules /\ loading' = loading
        /\ alerts' = alerts /\ evaluated' = evaluated
    BY <1>3 DEF engineVars
  <2> QED BY <2>1 DEF EngineInv
<1> QED BY <1>1, <1>2, <1>3 DEF EngineNext

(* The files in another order.                                             *)
LEMMA RearrangedLoads ==
  ASSUME NEW files, AreFiles(files), NEW other \in Rearranged(files)
  PROVE  /\ AreFiles(other)
         /\ AllSound(other) <=> AllSound(files)
         /\ {RuleOf(other[i]) : i \in {j \in DOMAIN other : other[j].status = "enabled"}} =
              {RuleOf(files[i]) : i \in {j \in DOMAIN files : files[j].status = "enabled"}}
<1> DEFINE D == DOMAIN files
<1>1. PICK order \in [D -> D] : /\ other = [i \in D |-> files[order[i]]]
                                /\ \A i, j \in D : i # j => order[i] # order[j]
  BY DEF Rearranged
<1>2. D = 1 .. Len(files) /\ Len(files) \in Nat
  BY DEF AreFiles
<1>3. \A i \in D : \E j \in D : order[j] = i
  <2>1. IsFiniteSet(D)
    BY <1>2, FS_Interval
  <2> HIDE DEF D
  <2>2. order \in Injection(D, D)
    BY <1>1 DEF Injection, IsInjective
  <2>3. order \in Surjection(D, D)
    BY <2>1, <2>2, FS_Injection
  <2> QED BY <2>3 DEF Surjection
<1>4. DOMAIN other = D /\ Len(other) = Len(files)
  BY <1>1, <1>2, LenProperties, IsASeq
<1>5. \A i \in D : other[i] = files[order[i]] /\ order[i] \in D
  BY <1>1
<1>6. AreFiles(other)
  BY <1>2, <1>4, <1>5 DEF AreFiles
<1> HIDE DEF D
<1>7. AllSound(other) <=> AllSound(files)
  <2>1. ASSUME AllSound(other) PROVE AllSound(files)
    <3>1. \A i \in D : Sound(other[i], {})
      BY <1>4, <2>1 DEF AllSound
    <3>2. \A i, j \in D : i # j => other[i].id # other[j].id
      BY <1>4, <2>1 DEF AllSound
    <3>3. ASSUME NEW i \in D PROVE Sound(files[i], {})
      <4>1. PICK k \in D : order[k] = i
        BY <1>3
      <4> QED BY <1>5, <3>1, <4>1
    <3>4. ASSUME NEW i \in D, NEW j \in D, i # j PROVE files[i].id # files[j].id
      <4>1. PICK k \in D : order[k] = i
        BY <1>3
      <4>2. PICK m \in D : order[m] = j
        BY <1>3
      <4> QED BY <1>5, <3>2, <3>4, <4>1, <4>2
    <3> QED BY <3>3, <3>4 DEF AllSound, D
  <2>2. ASSUME AllSound(files) PROVE AllSound(other)
    BY <1>1, <1>4, <1>5, <2>2 DEF AllSound, D
  <2> QED BY <2>1, <2>2
<1>8. {RuleOf(other[i]) : i \in {j \in D : other[j].status = "enabled"}} =
        {RuleOf(files[i]) : i \in {j \in D : files[j].status = "enabled"}}
  <2>1. \A i \in D : other[i].status = "enabled" =>
          \E j \in D : files[j].status = "enabled" /\ RuleOf(other[i]) = RuleOf(files[j])
    BY <1>5
  <2>2. \A i \in D : files[i].status = "enabled" =>
          \E j \in D : other[j].status = "enabled" /\ RuleOf(files[i]) = RuleOf(other[j])
    BY <1>3, <1>5
  <2> QED BY <2>1, <2>2
<1> QED BY <1>4, <1>6, <1>7, <1>8 DEF D

(* The rules loaded are rules of sound files, of different ids.             *)
LEMMA LoadedRules ==
  ASSUME EngineInv, loading = "done"
  PROVE  /\ AreFiles(directory) /\ AllSound(directory)
         /\ rules = {RuleOf(directory[i]) : i \in {j \in DOMAIN directory : directory[j].status = "enabled"}}
         /\ \A r, s \in rules : r.id = s.id => r = s
<1>1. AreFiles(directory)
  BY DirectoriesAreFiles DEF EngineInv
<1>2. AllSound(directory) /\ rules = LoadDirectory(directory).rules
  BY <1>1, LoadIs DEF EngineInv
<1>3. rules = {RuleOf(directory[i]) : i \in {j \in DOMAIN directory : directory[j].status = "enabled"}}
  BY <1>1, <1>2, LoadIs
<1>4. ASSUME NEW r \in rules, NEW s \in rules, r.id = s.id PROVE r = s
  <2>1. PICK i \in DOMAIN directory : r = RuleOf(directory[i])
    BY <1>3
  <2>2. PICK j \in DOMAIN directory : s = RuleOf(directory[j])
    BY <1>3
  <2>3. r.id = directory[i].id /\ s.id = directory[j].id
    BY <1>1, <1>2, <2>1, <2>2, RuleIs DEF AreFiles, AllSound
  <2> QED BY <1>2, <1>4, <2>1, <2>2, <2>3 DEF AllSound
<1> QED BY <1>1, <1>2, <1>3, <1>4

(* Loading is all or nothing whatever the directory and the order of its    *)
(* files: every enabled rule, sound and with its lists in place, or none.   *)
THEOREM RulesAreWhole == EngineSpec => []RulesSound
<1>1. EngineInit => EngineInv
  BY EmptySeq, NoAlerts DEF EngineInit, EngineInv
<1>2. EngineInv => RulesSound
  <2> SUFFICES ASSUME EngineInv PROVE RulesSound
    OBVIOUS
  <2>1. AreFiles(directory)
    BY DirectoriesAreFiles DEF EngineInv
  <2>2. ASSUME NEW files \in Rearranged(directory)
        PROVE  LoadDirectory(files) = LoadDirectory(directory)
    BY <2>1, RearrangedLoads, LoadIs
  <2>3. ASSUME loading = "done"
        PROVE  /\ \A i, j \in DOMAIN directory : i # j => directory[i].id # directory[j].id
               /\ {r.id : r \in rules} = {f.id : f \in {x \in Range(directory) : x.status = "enabled"}}
               /\ \A r \in rules : Sound(r, {}) /\ \A c \in Conditions(r.logic) : c.list = None
    <3>1. /\ AllSound(directory)
          /\ rules = {RuleOf(directory[i]) : i \in {j \in DOMAIN directory : directory[j].status = "enabled"}}
      BY <2>3, LoadedRules
    <3>2. \A i \in DOMAIN directory :
            /\ RuleOf(directory[i]).id = directory[i].id
            /\ Sound(RuleOf(directory[i]), {})
            /\ \A c \in Conditions(RuleOf(directory[i]).logic) : c.list = None
      BY <2>1, <3>1, RuleIs DEF AreFiles, AllSound
    <3>3. {r.id : r \in rules} = {f.id : f \in {x \in Range(directory) : x.status = "enabled"}}
      BY <3>1, <3>2 DEF Range
    <3> QED BY <3>1, <3>2, <3>3 DEF AllSound
  <2> QED BY <2>2, <2>3 DEF RulesSound
<1> QED BY <1>1, <1>2, EngineKeeps, PTL DEF EngineSpec
-----------------------------------------------------------------------------
LEMMA ExcludedAreConditions == \A node \in Nodes : Excluded(node) \subseteq Conditions(node)
<1> DEFINE S == {n \in Nodes : Excluded(n) \subseteq Conditions(n)}
<1>1. ASSUME NEW n \in Nodes, Inside(n) \subseteq S PROVE n \in S
  <2>1. CASE IsCondition(n)
    BY <2>1, ExcludedOf
  <2>2. CASE ~ IsCondition(n)
    <3>1. Conditions(n) = UNION {Conditions(item) : item \in Inside(n)}
      BY <2>2, ConditionsOf, BlocksOf
    <3>2. Excluded(n) = (UNION {Conditions(item) : item \in Range(Items(n.none))})
                        \cup (UNION {Excluded(item) : item \in Range(Items(n.all)) \cup Range(Items(n.any))})
      BY <2>2, ExcludedOf
    <3>3. Inside(n) = Range(Items(n.all)) \cup Range(Items(n.any)) \cup Range(Items(n.none))
      BY <2>2, BlocksOf
    <3>4. \A item \in Inside(n) : Excluded(item) \subseteq Conditions(item)
      BY <1>1
    <3> QED BY <3>1, <3>2, <3>3, <3>4
  <2> QED BY <2>1, <2>2
<1>2. Nodes \subseteq S
  <2> HIDE DEF S
  <2> QED BY <1>1, TreeInduction
<1> QED BY <1>2

(* Judging a rule finds what evaluating its tree does, but that collecting  *)
(* the evidence of one that holds may raise too.                            *)
LEMMA JudgedIs ==
  ASSUME NEW r, r.logic \in Nodes, NEW e
  PROVE  /\ Judged(r, e).ok = EvaluateLogic(r.logic, e).ok
         /\ Judged(r, e).trace = EvaluateLogic(r.logic, e).trace
         /\ Judged(r, e).raised <=> \/ EvaluateLogic(r.logic, e).raised
                                    \/ /\ EvaluateLogic(r.logic, e).ok
                                       /\ \E f \in r.evidence : ExtractRaises(e, f)
<1> DEFINE v == EvaluateLogic(r.logic, e)
           x == v.raised \/ (v.ok /\ \E f \in r.evidence : ExtractRaises(e, f))
<1>1. v \in Finding
  BY Verdicts
<1>2. Judged(r, e) = [v EXCEPT !.raised = x]
  BY DEF Judged
<1>3. x \in BOOLEAN
  OBVIOUS
<1> HIDE DEF x, v
<1>4. Judged(r, e).ok = v.ok /\ Judged(r, e).trace = v.trace /\ Judged(r, e).raised = x
  BY <1>1, <1>2 DEF Finding
<1> QED BY <1>4 DEF x, v

(* A rule that looking at its event cannot unsettle matches when its tree   *)
(* is true; and the trace of one that matches says why.                     *)
LEMMA JudgedRightly ==
  ASSUME NEW r, r.logic \in Nodes, NEW e
  PROVE  /\ Plain(r, e) => (Judged(r, e).ok /\ ~ Judged(r, e).raised <=> Means(r.logic, TrueOf(r, e)))
         /\ Judged(r, e).ok /\ ~ Judged(r, e).raised =>
              /\ Judged(r, e).trace \subseteq TrueOf(r, e)
              /\ Explains(Judged(r, e).trace, r.logic, TrueOf(r, e))
<1> DEFINE v == EvaluateLogic(r.logic, e)
           true == TrueOf(r, e)
           cs == Conditions(r.logic)
           xs == Excluded(r.logic)
<1>1. v \in Finding /\ Verdict(r.logic, v, e)
  BY Verdicts
<1>2. /\ Judged(r, e).ok = v.ok /\ Judged(r, e).trace = v.trace
      /\ Judged(r, e).raised <=> v.raised \/ (v.ok /\ \E f \in r.evidence : ExtractRaises(e, f))
  BY JudgedIs
<1>3. true = {c \in cs : MatchCondition(c, e)} /\ xs \subseteq cs
  BY ExcludedAreConditions DEF TrueOf
<1>4. /\ v.raised => \E c \in cs : MatchRaises(c, e)
      /\ \A c \in v.trace : c \in cs /\ MatchCondition(c, e)
      /\ ~ v.raised => \A T : AgreesOn(T, cs, e) => (v.ok <=> Means(r.logic, T))
      /\ v.ok => \A T : v.trace \subseteq T /\ AgreesOn(T, xs, e) => Means(r.logic, T)
      /\ v.ok \in BOOLEAN /\ v.raised \in BOOLEAN
  BY <1>1 DEF Verdict, Finding
<1> HIDE DEF v, true, cs, xs
<1>5. ASSUME Plain(r, e) PROVE Judged(r, e).ok /\ ~ Judged(r, e).raised <=> Means(r.logic, true)
  <2>1. (\A c \in cs : ~ MatchRaises(c, e)) /\ \A f \in r.evidence : ~ ExtractRaises(e, f)
    BY <1>5 DEF Plain, cs
  <2>2. ~ v.raised /\ ~ Judged(r, e).raised
    BY <1>2, <1>4, <2>1
  <2>3. AgreesOn(true, cs, e)
    BY <1>3, MatchType DEF AgreesOn
  <2> QED BY <1>2, <1>4, <2>2, <2>3
<1>6. ASSUME v.ok, NEW more \in SUBSET (cs \ xs)
      PROVE  Means(r.logic, v.trace \cup more \cup (true \cap xs))
  <2> DEFINE T == v.trace \cup more \cup (true \cap xs)
  <2>1. AgreesOn(T, xs, e)
    BY <1>3, <1>4 DEF AgreesOn
  <2>2. v.trace \subseteq T
    OBVIOUS
  <2> HIDE DEF T
  <2>3. Means(r.logic, T)
    BY <1>4, <1>6, <2>1, <2>2
  <2> QED BY <2>3 DEF T
<1>7. v.ok => Explains(v.trace, r.logic, true)
  BY <1>6 DEF Explains, cs, xs
<1>8. v.trace \subseteq true
  BY <1>3, <1>4
<1> QED BY <1>2, <1>5, <1>7, <1>8 DEF true

(* What is recommended is what the rule asks for, or what its level means.  *)
LEMMA Recommended ==
  ASSUME NEW r, r.level \in Nat, NEW e, ResolveAction(r, e) # None
  PROVE  \/ ResolveAction(r, e).action = r.response
         \/ /\ r.response = None
            /\ ResolveAction(r, e).action = IF r.level < 14 THEN "TERMINATE_PROCESS" ELSE "ISOLATE_HOST"
            /\ r.level >= 12
<1>1. CASE r.response = "TERMINATE_PROCESS" \/ (r.response = None /\ e.pid # None /\ r.level \in {12, 13})
  BY <1>1 DEF ResolveAction
<1>2. CASE /\ ~ (r.response = "TERMINATE_PROCESS" \/ (r.response = None /\ e.pid # None /\ r.level \in {12, 13}))
           /\ r.response = "ISOLATE_HOST" \/ (r.response = None /\ r.level >= 14)
  BY <1>2 DEF ResolveAction
<1>3. CASE /\ ~ (r.response = "TERMINATE_PROCESS" \/ (r.response = None /\ e.pid # None /\ r.level \in {12, 13}))
           /\ ~ (r.response = "ISOLATE_HOST" \/ (r.response = None /\ r.level >= 14))
  BY <1>3 DEF ResolveAction
<1> QED BY <1>1, <1>2, <1>3

(* Every event is judged by every rule of its type as the rule reads,       *)
(* whatever other rules do with it; and an alert says why and what to do.   *)
THEOREM VerdictsAreEarned == EngineSpec => []VerdictsSound
<1>1. EngineInit => EngineInv
  BY EmptySeq, NoAlerts DEF EngineInit, EngineInv
<1>2. EngineInv => VerdictsSound
  <2> SUFFICES ASSUME EngineInv, NEW i \in DOMAIN evaluated, NEW r \in Reading(evaluated[i])
               PROVE  LET e == evaluated[i]
                          AlertsOf == {a \in alerts : a.rule = r.id /\ a.event = e}
                      IN  /\ Plain(r, e) => (AlertsOf # {} <=> Means(r.logic, TrueOf(r, e)))
                          /\ \A a \in AlertsOf :
                               /\ a.conditions \subseteq TrueOf(r, e)
                               /\ Explains(a.conditions, r.logic, TrueOf(r, e))
                               /\ a.response # None =>
                                    \/ a.response.action = r.response
                                    \/ /\ r.response = None
                                       /\ a.response.action = IF r.level < 14 THEN "TERMINATE_PROCESS"
                                                              ELSE "ISOLATE_HOST"
                                       /\ r.level >= 12
    BY DEF VerdictsSound
  <2> DEFINE e == evaluated[i]
             AlertsOf == {a \in alerts : a.rule = r.id /\ a.event = e}
             matches == Judged(r, e).ok /\ ~ Judged(r, e).raised
  <2>1. loading = "done"
    <3>1. DOMAIN << >> = {}
      OBVIOUS
    <3> QED BY <3>1 DEF EngineInv
  <2>2. r \in rules /\ r.kind = "single" /\ r.type = e.type
    BY DEF Reading
  <2>3. r.logic \in Nodes /\ r.level \in Nat
    <3>1. PICK j \in DOMAIN directory : r = RuleOf(directory[j])
      BY <2>1, <2>2, LoadedRules
    <3> QED BY <2>1, <3>1, LoadedRules, RuleIs DEF AreFiles, AllSound
  <2>4. \A s \in rules : r.id = s.id => r = s
    BY <2>1, <2>2, LoadedRules
  <2>5. ASSUME NEW a \in AlertsOf PROVE matches /\ a = AlertOf(r, e, Judged(r, e).trace)
    <3>0. PICK j \in DOMAIN evaluated : \E s \in MatchesAmong(rules, evaluated[j]) :
            a = AlertOf(s, evaluated[j], Judged(s, evaluated[j]).trace)
      BY DEF EngineInv, AlertsAre
    <3>1. PICK s \in MatchesAmong(rules, evaluated[j]) :
            a = AlertOf(s, evaluated[j], Judged(s, evaluated[j]).trace)
      BY <3>0
    <3>2. a.rule = s.id /\ a.event = evaluated[j]
      BY <3>1 DEF AlertOf
    <3>3. s = r /\ evaluated[j] = e
      BY <2>4, <3>2 DEF MatchesAmong
    <3> QED BY <3>1, <3>3 DEF MatchesAmong
  <2>6. ASSUME matches PROVE AlertsOf # {}
    <3> DEFINE a == AlertOf(r, e, Judged(r, e).trace)
    <3>1. r \in MatchesAmong(rules, e)
      BY <2>2, <2>6 DEF MatchesAmong
    <3>2. a \in alerts
      BY <3>1 DEF EngineInv, AlertsAre
    <3>3. a.rule = r.id /\ a.event = e
      BY DEF AlertOf
    <3> QED BY <3>2, <3>3
  <2>7. Plain(r, e) => (AlertsOf # {} <=> Means(r.logic, TrueOf(r, e)))
    <3>1. AlertsOf # {} <=> matches
      BY <2>5, <2>6
    <3> QED BY <2>3, <3>1, JudgedRightly
  <2>8. ASSUME NEW a \in AlertsOf
        PROVE  /\ a.conditions \subseteq TrueOf(r, e)
               /\ Explains(a.conditions, r.logic, TrueOf(r, e))
               /\ a.response = ResolveAction(r, e)
    <3>1. a.conditions = Judged(r, e).trace /\ a.response = ResolveAction(r, e) /\ matches
      BY <2>5 DEF AlertOf
    <3> QED BY <2>3, <3>1, JudgedRightly
  <2>9. ASSUME NEW a \in AlertsOf, a.response # None
        PROVE  \/ a.response.action = r.response
               \/ /\ r.response = None
                  /\ a.response.action = IF r.level < 14 THEN "TERMINATE_PROCESS" ELSE "ISOLATE_HOST"
                  /\ r.level >= 12
    BY <2>3, <2>8, <2>9, Recommended
  <2> QED BY <2>7, <2>8, <2>9
<1> QED BY <1>1, <1>2, EngineKeeps, PTL DEF EngineSpec
-----------------------------------------------------------------------------
(* f joins the first sequences of s, up to each of the first n.            *)
Joins(f, s, n) == f = [i \in 1 .. n |-> IF i = 1 THEN s[i] ELSE f[i - 1] \o s[i]]

(* What joins the first n can be extended to one more.                     *)
LEMMA JoinsExtend ==
  ASSUME NEW s, NEW n \in Nat, NEW g, Joins(g, s, n)
  PROVE  \E f : Joins(f, s, n + 1)
<1> DEFINE last == IF n + 1 = 1 THEN s[n + 1] ELSE g[n] \o s[n + 1]
           f == [i \in 1 .. n + 1 |-> IF i = n + 1 THEN last ELSE g[i]]
<1>1. \A i \in 1 .. n : g[i] = IF i = 1 THEN s[i] ELSE g[i - 1] \o s[i]
  BY DEF Joins
<1> HIDE DEF last
<1>2. \A i \in 1 .. n : f[i] = g[i]
  OBVIOUS
<1>3. f[n + 1] = last
  OBVIOUS
<1>4. ASSUME NEW i \in 1 .. n + 1 PROVE f[i] = IF i = 1 THEN s[i] ELSE f[i - 1] \o s[i]
  <2>1. CASE i = n + 1
    <3>1. CASE n = 0
      BY <1>3, <2>1, <3>1 DEF last
    <3>2. CASE n # 0
      <4>1. n \in 1 .. n /\ i - 1 = n /\ i # 1
        BY <2>1, <3>2
      <4>2. f[i - 1] = g[n]
        BY <1>2, <4>1
      <4> HIDE DEF f
      <4> QED BY <1>3, <2>1, <3>2, <4>1, <4>2 DEF last
    <3> QED BY <3>1, <3>2
  <2>2. CASE i # n + 1
    <3>1. i \in 1 .. n /\ (i # 1 => i - 1 \in 1 .. n)
      BY <2>2
    <3>2. f[i] = g[i] /\ (i # 1 => f[i - 1] = g[i - 1])
      BY <1>2, <3>1
    <3> HIDE DEF f
    <3> QED BY <1>1, <3>1, <3>2
  <2> QED BY <2>1, <2>2
<1>5. f = [i \in 1 .. n + 1 |-> f[i]]
  OBVIOUS
<1> HIDE DEF f
<1>6. f = [i \in 1 .. n + 1 |-> IF i = 1 THEN s[i] ELSE f[i - 1] \o s[i]]
  BY <1>4, <1>5
<1> QED BY <1>6 DEF Joins

(* For any number of sequences there is such a function.                   *)
LEMMA JoinsExist ==
  ASSUME NEW s
  PROVE  \A n \in Nat : \E f : Joins(f, s, n)
<1> DEFINE T == {n \in Nat : ~ \E f : Joins(f, s, n)}
<1>1. SUFFICES ASSUME T # {} PROVE FALSE
  OBVIOUS
<1>2. T \in SUBSET Nat
  OBVIOUS
<1>3. PICK n \in T : \A m \in T : n <= m
  BY <1>1, <1>2, LeastOf
<1>4. n # 0
  <2> SUFFICES \E f : Joins(f, s, 0)
    OBVIOUS
  <2>1. 1 .. 0 = {}
    OBVIOUS
  <2>2. <<>> = [i \in 1 .. 0 |-> IF i = 1 THEN s[i] ELSE <<>>[i - 1] \o s[i]]
    BY <2>1
  <2> QED BY <2>2 DEF Joins
<1>5. n - 1 \in Nat /\ n - 1 \notin T /\ (n - 1) + 1 = n
  BY <1>3, <1>4
<1>6. PICK g : Joins(g, s, n - 1)
  BY <1>5
<1>7. \E f : Joins(f, s, (n - 1) + 1)
  BY <1>5, <1>6, JoinsExtend
<1> QED BY <1>3, <1>5, <1>7

(* Two that join the same sequences agree.                                 *)
LEMMA JoinsAgree ==
  ASSUME NEW s, NEW t, NEW n \in Nat, NEW m \in Nat, n <= m,
         \A i \in 1 .. n : s[i] = t[i],
         NEW f, NEW g, Joins(f, s, n), Joins(g, t, m)
  PROVE  \A i \in 1 .. n : f[i] = g[i]
<1> DEFINE T == {i \in 1 .. n : f[i] # g[i]}
<1>1. SUFFICES ASSUME T # {} PROVE FALSE
  OBVIOUS
<1>2. T \in SUBSET Nat
  OBVIOUS
<1>3. PICK i \in T : \A j \in T : i <= j
  BY <1>1, <1>2, LeastOf
<1>4. i \in 1 .. n /\ i \in 1 .. m /\ f[i] # g[i] /\ s[i] = t[i]
  BY <1>3
<1>5. /\ f[i] = IF i = 1 THEN s[i] ELSE f[i - 1] \o s[i]
      /\ g[i] = IF i = 1 THEN t[i] ELSE g[i - 1] \o t[i]
  BY <1>4 DEF Joins
<1>6. i # 1 => i - 1 \in 1 .. n /\ i - 1 \notin T
  BY <1>3, <1>4
<1>7. i # 1 => f[i - 1] = g[i - 1]
  BY <1>6
<1> QED BY <1>4, <1>5, <1>7

(* FlattenSeq by the function that joins.                                  *)
LEMMA FlattenJoins ==
  ASSUME NEW s, Len(s) \in Nat \ {0}
  PROVE  \E f : Joins(f, s, Len(s)) /\ FlattenSeq(s) = f[Len(s)]
<1> DEFINE f == CHOOSE f : Joins(f, s, Len(s))
<1>1. \E g : Joins(g, s, Len(s))
  BY JoinsExist
<1>2. Joins(f, s, Len(s))
  BY <1>1
<1>3. FlattenSeq(s) = f[Len(s)]
  BY DEF FlattenSeq, Joins
<1> QED BY <1>2, <1>3

(* One sequence more is joined last.                                       *)
LEMMA FlattenMore ==
  ASSUME NEW n \in Nat, NEW s, NEW t, Len(s) = n, Len(t) = n + 1,
         \A i \in 1 .. n : s[i] = t[i],
         NEW S, t[n + 1] \in Seq(S), s = <<>> <=> n = 0
  PROVE  FlattenSeq(t) = FlattenSeq(s) \o t[n + 1]
<1>1. PICK g : Joins(g, t, n + 1) /\ FlattenSeq(t) = g[n + 1]
  BY FlattenJoins
<1>2. g[n + 1] = IF n = 0 THEN t[n + 1] ELSE g[n] \o t[n + 1]
  <2> DEFINE m == n + 1
  <2>1. m \in 1 .. m /\ (m = 1 <=> n = 0) /\ m - 1 = n
    OBVIOUS
  <2>2. g = [i \in 1 .. m |-> IF i = 1 THEN t[i] ELSE g[i - 1] \o t[i]]
    BY <1>1 DEF Joins
  <2> HIDE DEF m
  <2>3. g[m] = IF m = 1 THEN t[m] ELSE g[m - 1] \o t[m]
    BY <2>1, <2>2
  <2> QED BY <2>1, <2>3 DEF m
<1>3. CASE n = 0
  <2>1. FlattenSeq(s) = <<>>
    BY <1>3 DEF FlattenSeq
  <2>2. <<>> \o t[n + 1] = t[n + 1]
    BY ConcatEmptySeq
  <2> QED BY <1>1, <1>2, <1>3, <2>1, <2>2
<1>4. CASE n # 0
  <2>1. PICK f : Joins(f, s, n) /\ FlattenSeq(s) = f[n]
    BY <1>4, FlattenJoins
  <2>2. f[n] = g[n]
    BY <1>1, <1>4, <2>1, JoinsAgree
  <2> QED BY <1>1, <1>2, <1>4, <2>1, <2>2
<1> QED BY <1>3, <1>4
-----------------------------------------------------------------------------
(* The fields a family's events carry.                                     *)
Fields(family) == IF family = "process" THEN {"path", "hash"} ELSE DOMAIN Reads[family]

(* Every event of a family carries the same fields.                        *)
LEMMA BlockFields ==
  ASSUME NEW raw
  PROVE  DOMAIN Normalize(raw).block = Fields(CategoryOf(raw)) /\ CategoryOf(raw) \in Families
<1>1. Normalize(raw).block = FamilyBlock(raw)
  BY DEF Normalize
<1>2. CategoryOf(raw) \in Families
  BY DEF CategoryOf, Families
<1>3. CASE CategoryOf(raw) = "process"
  BY <1>1, <1>2, <1>3 DEF FamilyBlock, Fields
<1>4. CASE CategoryOf(raw) # "process"
  BY <1>1, <1>2, <1>4 DEF FamilyBlock, Fields
<1> QED BY <1>3, <1>4

(* The family an event type is of.                                         *)
FamilyOf(type) ==
  IF type[1] = "process" THEN IF type[2] = "access" THEN "process_access" ELSE "process"
  ELSE IF type[1] = "file" THEN "file"
  ELSE IF type[1] = "network_connect" THEN "network"
  ELSE IF type[1] = "image_load" THEN "image_load"
  ELSE IF type[1] = "dns_query" THEN "dns"
  ELSE IF type[1] = "remote_thread" THEN "remote_thread"
  ELSE IF type[1] = "script_block" THEN "script_block"
  ELSE "registry"

(* What the process normalizer makes up for a type it does not know.       *)
MadeUp(raw) == CategoryOf(raw) = "process" /\ EventType(raw)[2] \notin {"create", "terminate"}

(* The event type tells the family, but for the types made up.             *)
LEMMA TypeTellsFamily ==
  ASSUME NEW raw, ~ MadeUp(raw)
  PROVE  FamilyOf(EventType(raw)) = CategoryOf(raw)
<1> DEFINE c == CategoryOf(raw)
<1>1. c \in {"process", "network", "file", "registry", "image_load", "dns",
             "process_access", "remote_thread", "script_block"}
  BY DEF CategoryOf, Families, Reads
<1>2. CASE c = "process"
  <2>1. EventType(raw)[1] = "process"
    <3>1. EventType(raw) = IF raw.type \in {Nothing, "start", "create"} THEN <<"process", "create">>
                           ELSE IF raw.type \in {"stop", "terminate"} THEN <<"process", "terminate">>
                           ELSE <<"process", raw.type>>
      BY <1>2 DEF EventType, FixedTypes
    <3> QED BY <3>1
  <2>2. EventType(raw)[2] # "access"
    BY <1>2 DEF MadeUp
  <2> QED BY <1>2, <2>1, <2>2 DEF FamilyOf
<1>3. CASE c = "file"
  <2>1. EventType(raw)[1] = "file"
    <3>1. \E touched : EventType(raw) = <<"file", touched>>
      BY <1>3 DEF EventType, FixedTypes
    <3> QED BY <3>1
  <2> QED BY <1>3, <2>1 DEF FamilyOf
<1>4. CASE c = "registry"
  <2>1. EventType(raw)[1] \in {"registry_write", "registry_add_key", "registry_delete_key",
                              "registry_rename_key", "registry"}
    <3>1. \E key : EventType(raw) = IF key \in DOMAIN RegistryTypes THEN <<RegistryTypes[key]>>
                                     ELSE <<"registry", key>>
      BY <1>4 DEF EventType, FixedTypes
    <3>2. \A key \in DOMAIN RegistryTypes :
            RegistryTypes[key] \in {"registry_write", "registry_add_key", "registry_delete_key",
                                   "registry_rename_key"}
      BY DEF RegistryTypes
    <3> QED BY <3>1, <3>2
  <2> QED BY <1>4, <2>1 DEF FamilyOf
<1>5. CASE c = "process_access"
  BY <1>5 DEF EventType, FamilyOf
<1>6. CASE c \in {"network", "image_load", "dns", "remote_thread", "script_block"}
  <2>1. EventType(raw) = <<FixedTypes[c]>>
    BY <1>6 DEF EventType, FixedTypes
  <2>2. EventType(raw)[1] = FixedTypes[c]
    BY <2>1
  <2> QED BY <1>6, <2>2 DEF FamilyOf, FixedTypes
<1> QED BY <1>1, <1>2, <1>3, <1>4, <1>5, <1>6

(* The listed types are made by the normalizers they are listed for.       *)
LEMMA ListedAreKnown ==
  ASSUME NEW l \in Listed
  PROVE  CategoryOf(Full(l[1], l[2])) = l[1] /\ ~ MadeUp(Full(l[1], l[2]))
<1>1. l[1] \in Families /\ l[2] \in FamilyTypes[l[1]]
  BY DEF Listed
<1>2. CategoryOf(Full(l[1], l[2])) = l[1] /\ Full(l[1], l[2]).type = l[2]
  BY <1>1 DEF CategoryOf, Full
<1>3. CASE l[1] = "process"
  <2>1. l[2] \in {"start", "stop"}
    BY <1>1, <1>3 DEF FamilyTypes
  <2>2. EventType(Full(l[1], l[2]))[2] \in {"create", "terminate"}
    <3>1. l[2] # Nothing
      BY <1>1, IngestAssumption
    <3>2. EventType(Full(l[1], l[2])) =
            IF l[2] \in {Nothing, "start", "create"} THEN <<"process", "create">>
            ELSE IF l[2] \in {"stop", "terminate"} THEN <<"process", "terminate">>
            ELSE <<"process", l[2]>>
      BY <1>2, <1>3 DEF EventType, FixedTypes
    <3>3. CASE l[2] = "start"
      BY <3>2, <3>3
    <3>4. CASE l[2] = "stop"
      BY <3>1, <3>2, <3>4
    <3> QED BY <2>1, <3>3, <3>4
  <2> QED BY <1>2, <2>2 DEF MadeUp
<1> QED BY <1>2, <1>3 DEF MadeUp

(* Every event of an agent's line is as its type is listed.                *)
LEMMA NormalizedAsListed ==
  ASSUME NEW raw
  PROVE  AsListed(Normalize(raw))
<1> DEFINE type == EventType(raw)
           same == {x \in Listed : EventType(Full(x[1], x[2])) = type}
<1>1. Normalize(raw).raw = raw /\ Normalize(raw).event_type = type
  BY DEF Normalize
<1>2. CASE MadeUp(raw)
  BY <1>1, <1>2 DEF AsListed, MadeUp
<1>3. CASE ~ MadeUp(raw)
  <2>1. \A l \in same : DOMAIN Normalize(Full(l[1], l[2])).block = Fields(CategoryOf(raw))
    <3> SUFFICES ASSUME NEW l \in same
                 PROVE  DOMAIN Normalize(Full(l[1], l[2])).block = Fields(CategoryOf(raw))
      OBVIOUS
    <3>1. l \in Listed /\ EventType(Full(l[1], l[2])) = type
      OBVIOUS
    <3>2. FamilyOf(EventType(Full(l[1], l[2]))) = CategoryOf(Full(l[1], l[2]))
      BY <3>1, ListedAreKnown, TypeTellsFamily
    <3>3. FamilyOf(type) = CategoryOf(raw)
      BY <1>3, TypeTellsFamily
    <3>4. CategoryOf(Full(l[1], l[2])) = CategoryOf(raw)
      BY <3>1, <3>2, <3>3
    <3> QED BY <3>4, BlockFields
  <2>2. DOMAIN Normalize(raw).block = Fields(CategoryOf(raw))
    BY BlockFields
  <2>3. ProducibleFields(type) = UNION {DOMAIN Normalize(Full(l[1], l[2])).block : l \in same}
    BY DEF ProducibleFields
  <2>4. ProducibleFields(type) = {} \/ ProducibleFields(type) = Fields(CategoryOf(raw))
    <3> HIDE DEF same
    <3> QED BY <2>1, <2>3
  <2> QED BY <1>1, <2>2, <2>4 DEF AsListed
<1> QED BY <1>2, <1>3
-----------------------------------------------------------------------------
(* What is handed on: an agent's event normalized, or another line.        *)
Event == {Normalize(line) : line \in AnyLine} \cup {line \in AnyLine : line.kind # "agent"}

(* The state of a stream is of its types.                                  *)
IngestTypes ==
  /\ from \in {"file", "agent"}
  /\ pipe \in Seq(AnyLine) /\ unwritten \in Seq(AnyLine) /\ taken \in Seq(AnyLine)
  /\ delivered \in Seq(Event)
  /\ agent \in {"running", "asked", "doomed", "exited", "crashed", "dead"}
  /\ session \in BOOLEAN /\ halted \in BOOLEAN
  /\ stream \in {"open", "closing", "asked", "terminated", "killed", "closed"}

(* Parsed, of a line from that source.                                     *)
ParsedFrom(source, line) ==
  CASE line.kind = "agent" -> <<Normalize(line)>>
    [] line.kind = "foreign" -> <<line>>
    [] line.kind = "empty" -> IF source = "file" THEN <<line>> ELSE <<>>
    [] line.kind \in {"noise", "odd"} -> <<>>

(* The events are those of the lines read.                                 *)
AllDelivered == delivered = FlattenSeq([i \in DOMAIN taken |-> ParsedFrom(from, taken[i])])

(* A line that raises is the last one read.                                *)
OddIsLast == \A i \in DOMAIN taken : taken[i].kind = "odd" => stream # "open" /\ i = Len(taken)

(* While it reads, nobody has asked the agent to stop; one that ended has  *)
(* written everything. A stream that ended of itself read everything.      *)
NoneLeft ==
  /\ stream \in {"open", "closing"} => agent \in {"running", "exited", "crashed"}
  /\ stream = "open" => (agent = "exited" => unwritten = <<>>)
  /\ stream # "open" /\ ~ halted =>
       \/ pipe = <<>> /\ ~ Alive /\ (agent = "exited" => unwritten = <<>>)
       \/ Last(taken).kind = "odd"

(* The stages of the shutdown and the agent's; its session ends with it.   *)
Stages ==
  /\ agent \in {"doomed", "dead"} => stream \in {"terminated", "killed", "closed"}
  /\ stream \in {"killed", "closed"} => agent \notin {"running", "asked"}
  /\ agent = "exited" => ~ session
  /\ stream = "closed" => (session => agent = "crashed")

(* What every step of a stream keeps.                                      *)
IngestInv == IngestTypes /\ AllDelivered /\ OddIsLast /\ NoneLeft /\ Stages

(* A line gives at most one event.                                         *)
LEMMA ParsedType ==
  ASSUME NEW line \in AnyLine
  PROVE  Parsed(line) \in Seq(Event)
<1>1. \A e \in Event : <<e>> \in Seq(Event)
  OBVIOUS
<1>2. <<>> \in Seq(Event)
  OBVIOUS
<1>3. line.kind \in {"noise", "empty", "foreign", "odd", "agent"}
  BY IngestAssumption
<1>4. Normalize(line) \in Event /\ (line.kind # "agent" => line \in Event)
  BY DEF Event
<1>5. Parsed(line) \in {<<Normalize(line)>>, <<>>} \/ (line.kind # "agent" /\ Parsed(line) = <<line>>)
  BY <1>3 DEF Parsed
<1> QED BY <1>1, <1>2, <1>4, <1>5

(* One line read, and its events handed on.                                *)
LEMMA ReadKeepsDelivered ==
  ASSUME IngestTypes, AllDelivered, ReadLine
  PROVE  AllDelivered' /\ delivered' \in Seq(Event)
<1> DEFINE x == Head(pipe)
           n == Len(taken)
           s == [i \in DOMAIN taken |-> ParsedFrom(from, taken[i])]
           t == [i \in 1 .. n + 1 |-> ParsedFrom(from, taken'[i])]
<1>1. /\ taken' = Append(taken, x) /\ delivered' = delivered \o ParsedFrom(from, x) /\ from' = from
      /\ pipe # <<>>
  BY DEF ReadLine, Parsed, ParsedFrom
<1>2. x \in AnyLine /\ taken \in Seq(AnyLine) /\ delivered \in Seq(Event) /\ pipe \in Seq(AnyLine)
  <2>1. taken \in Seq(AnyLine) /\ delivered \in Seq(Event) /\ pipe \in Seq(AnyLine)
    BY DEF IngestTypes
  <2> QED BY <1>1, <2>1, HeadTailProperties
<1>3. ParsedFrom(from, x) \in Seq(Event)
  <2>1. Parsed(x) = ParsedFrom(from, x)
    BY DEF Parsed, ParsedFrom
  <2> QED BY <1>2, <2>1, ParsedType
<1> HIDE DEF x
<1>4. n \in Nat /\ DOMAIN taken = 1 .. n
  BY <1>2, LenProperties
<1>5. /\ DOMAIN taken' = 1 .. n + 1 /\ taken'[n + 1] = x
      /\ \A i \in 1 .. n : taken'[i] = taken[i]
  BY <1>1, <1>2, AppendProperties, LenProperties
<1>6. [i \in DOMAIN taken |-> ParsedFrom(from, taken[i])]' = t
  BY <1>1, <1>5
<1>7. \A i \in 1 .. n : s[i] = t[i]
  BY <1>4, <1>5
<1>8. t[n + 1] = ParsedFrom(from, x)
  BY <1>4, <1>5
<1>9. DOMAIN s = 1 .. n /\ DOMAIN t = 1 .. n + 1
  BY <1>4
<1>10. delivered = FlattenSeq(s)
  BY DEF AllDelivered
<1>11. s = <<>> <=> n = 0
  <2>1. n = 0 => s = <<>>
    <3>1. 1 .. 0 = {}
      OBVIOUS
    <3> QED BY <1>4, <3>1
  <2>2. s = <<>> => n = 0
    <3> HIDE DEF n, s
    <3>1. DOMAIN << >> = {}
      OBVIOUS
    <3>2. n # 0 => 1 \in 1 .. n
      BY <1>4
    <3> QED BY <1>9, <3>1, <3>2
  <2> QED BY <2>1, <2>2
<1>12. Len(s) = n /\ Len(t) = n + 1
  <2>1. s = [i \in 1 .. n |-> s[i]] /\ t = [i \in 1 .. n + 1 |-> t[i]]
    BY <1>4
  <2> HIDE DEF s, t, n
  <2>2. n + 1 \in Nat
    BY <1>4
  <2> QED BY <1>4, <1>9, <2>1, <2>2
<1> HIDE DEF s, t, n
<1>13. FlattenSeq(t) = FlattenSeq(s) \o t[n + 1]
  BY <1>3, <1>4, <1>7, <1>8, <1>11, <1>12, FlattenMore
<1>14. delivered' = FlattenSeq(t)
  BY <1>1, <1>8, <1>10, <1>13
<1>15. delivered' \in Seq(Event)
  BY <1>1, <1>2, <1>3, ConcatProperties
<1> QED BY <1>6, <1>14, <1>15 DEF AllDelivered

(* What a step that reads nothing keeps.                                   *)
LEMMA NothingRead ==
  ASSUME IngestInv, from' = from, delivered' = delivered, taken' = taken,
         stream = "open" \/ stream' # "open"
  PROVE  AllDelivered' /\ OddIsLast'
BY DEF IngestInv, AllDelivered, OddIsLast

(* The agent's own steps.                                                  *)
LEMMA AgentKeeps ==
  ASSUME IngestInv, AgentWrites \/ AgentExits \/ AgentCrashes \/ AgentDies
  PROVE  IngestInv'
<1>1. /\ from' = from /\ delivered' = delivered /\ taken' = taken /\ halted' = halted /\ stream' = stream
  BY DEF AgentWrites, AgentExits, AgentCrashes, AgentDies
<1>2. AllDelivered' /\ OddIsLast'
  BY <1>1, NothingRead
<1>3. ASSUME AgentWrites PROVE IngestInv'
  <2>1. /\ agent \in {"running", "asked"} /\ unwritten # <<>>
        /\ pipe' = Append(pipe, Head(unwritten)) /\ unwritten' = Tail(unwritten)
        /\ agent' = agent /\ session' = session
    BY <1>3 DEF AgentWrites
  <2>2. pipe' \in Seq(AnyLine) /\ unwritten' \in Seq(AnyLine)
    <3>1. pipe \in Seq(AnyLine) /\ unwritten \in Seq(AnyLine)
      BY DEF IngestInv, IngestTypes
    <3>2. Head(unwritten) \in AnyLine /\ Tail(unwritten) \in Seq(AnyLine)
      BY <2>1, <3>1, HeadTailProperties
    <3> QED BY <2>1, <3>1, <3>2, AppendProperties
  <2>3. IngestTypes'
    BY <1>1, <2>1, <2>2 DEF IngestInv, IngestTypes
  <2>4. NoneLeft'
    BY <1>1, <2>1 DEF IngestInv, NoneLeft, Alive
  <2>5. Stages'
    BY <1>1, <2>1 DEF IngestInv, Stages
  <2> QED BY <1>2, <2>3, <2>4, <2>5 DEF IngestInv
<1>4. ASSUME AgentExits PROVE IngestInv'
  <2>1. /\ (agent = "running" /\ unwritten = <<>>) \/ agent = "asked"
        /\ agent' = "exited" /\ session' = FALSE /\ unwritten' = unwritten /\ pipe' = pipe
    BY <1>4 DEF AgentExits
  <2>2. agent = "asked" => stream # "open"
    BY DEF IngestInv, NoneLeft
  <2>3. IngestTypes'
    BY <1>1, <2>1 DEF IngestInv, IngestTypes
  <2>4. NoneLeft'
    BY <1>1, <2>1, <2>2 DEF IngestInv, NoneLeft, Alive
  <2>5. Stages'
    BY <1>1, <2>1 DEF IngestInv, Stages
  <2> QED BY <1>2, <2>3, <2>4, <2>5 DEF IngestInv
<1>5. ASSUME AgentCrashes PROVE IngestInv'
  <2>1. /\ agent \in {"running", "asked"} /\ agent' = "crashed"
        /\ session' = session /\ unwritten' = unwritten /\ pipe' = pipe
    BY <1>5 DEF AgentCrashes
  <2>2. IngestTypes'
    BY <1>1, <2>1 DEF IngestInv, IngestTypes
  <2>3. NoneLeft'
    BY <1>1, <2>1 DEF IngestInv, NoneLeft, Alive
  <2>4. Stages'
    BY <1>1, <2>1 DEF IngestInv, Stages
  <2> QED BY <1>2, <2>2, <2>3, <2>4 DEF IngestInv
<1>6. ASSUME AgentDies PROVE IngestInv'
  <2>1. /\ agent = "doomed" /\ agent' = "dead"
        /\ session' = session /\ unwritten' = unwritten /\ pipe' = pipe
    BY <1>6 DEF AgentDies
  <2>2. IngestTypes'
    BY <1>1, <2>1 DEF IngestInv, IngestTypes
  <2>3. NoneLeft'
    BY <1>1, <2>1 DEF IngestInv, NoneLeft, Stages, Alive
  <2>4. Stages'
    BY <1>1, <2>1 DEF IngestInv, Stages
  <2> QED BY <1>2, <2>2, <2>3, <2>4 DEF IngestInv
<1> QED BY <1>3, <1>4, <1>5, <1>6

(* A line read.                                                            *)
LEMMA ReadKeeps ==
  ASSUME IngestInv, ReadLine
  PROVE  IngestInv'
<1>1. /\ stream = "open" /\ pipe # <<>> /\ pipe' = Tail(pipe) /\ taken' = Append(taken, Head(pipe))
      /\ stream' = IF Head(pipe).kind = "odd" THEN "closing" ELSE "open"
      /\ from' = from /\ unwritten' = unwritten /\ agent' = agent /\ session' = session /\ halted' = halted
  BY DEF ReadLine
<1>2. AllDelivered' /\ delivered' \in Seq(Event)
  BY ReadKeepsDelivered DEF IngestInv
<1> DEFINE n == Len(taken)
           x == Head(pipe)
<1>3. /\ taken' \in Seq(AnyLine) /\ pipe' \in Seq(AnyLine) /\ n \in Nat
      /\ DOMAIN taken = 1 .. n /\ DOMAIN taken' = 1 .. n + 1 /\ Len(taken') = n + 1
      /\ taken'[n + 1] = x /\ \A i \in 1 .. n : taken'[i] = taken[i]
  <2>1. pipe \in Seq(AnyLine) /\ taken \in Seq(AnyLine)
    BY DEF IngestInv, IngestTypes
  <2>2. x \in AnyLine /\ Tail(pipe) \in Seq(AnyLine)
    BY <1>1, <2>1, HeadTailProperties
  <2> HIDE DEF x
  <2> QED BY <1>1, <2>1, <2>2, AppendProperties, LenProperties DEF x
<1>4. IngestTypes'
  BY <1>1, <1>2, <1>3 DEF IngestInv, IngestTypes
<1>5. \A i \in 1 .. n : taken[i].kind # "odd"
  BY <1>1, <1>3 DEF IngestInv, OddIsLast
<1>6. OddIsLast'
  <2> SUFFICES ASSUME NEW i \in DOMAIN taken', taken'[i].kind = "odd"
               PROVE  stream' # "open" /\ i = Len(taken')
    BY DEF OddIsLast
  <2>1. i = n + 1
    BY <1>3, <1>5
  <2> QED BY <1>1, <1>3, <2>1
<1>7. Last(taken') = x
  BY <1>3 DEF Last
<1>8. NoneLeft'
  BY <1>1, <1>7 DEF IngestInv, NoneLeft, Alive
<1>9. Stages'
  BY <1>1 DEF IngestInv, Stages
<1> QED BY <1>2, <1>4, <1>6, <1>8, <1>9 DEF IngestInv

(* The end of a stream, and its shutdown.                                  *)
LEMMA ShutdownKeeps ==
  ASSUME IngestInv, EndOfLines \/ StopReading \/ Shutdown \/ Escalate \/ Closed
  PROVE  IngestInv'
<1>1. /\ from' = from /\ delivered' = delivered /\ taken' = taken
      /\ pipe' = pipe /\ unwritten' = unwritten
  BY DEF EndOfLines, StopReading, Shutdown, Escalate, Closed
<1>2. stream = "open" \/ stream' # "open"
  BY DEF EndOfLines, StopReading, Shutdown, Escalate, Closed
<1>3. AllDelivered' /\ OddIsLast'
  BY <1>1, <1>2, NothingRead
<1>4. ASSUME EndOfLines PROVE IngestInv'
  <2>1. /\ stream = "open" /\ pipe = <<>> /\ ~ Alive /\ stream' = "closing"
        /\ agent' = agent /\ session' = session /\ halted' = halted
    BY <1>4 DEF EndOfLines
  <2>2. IngestTypes' /\ NoneLeft' /\ Stages'
    BY <1>1, <2>1 DEF IngestInv, IngestTypes, NoneLeft, Stages, Alive
  <2> QED BY <1>3, <2>2 DEF IngestInv
<1>5. ASSUME StopReading PROVE IngestInv'
  <2>1. stream = "open" /\ stream' = "closing" /\ halted' = TRUE /\ agent' = agent /\ session' = session
    BY <1>5 DEF StopReading
  <2>2. IngestTypes' /\ NoneLeft' /\ Stages'
    BY <1>1, <2>1 DEF IngestInv, IngestTypes, NoneLeft, Stages, Alive
  <2> QED BY <1>3, <2>2 DEF IngestInv
<1>6. ASSUME Shutdown PROVE IngestInv'
  <2>1. /\ stream = "closing" /\ session' = session /\ halted' = halted
        /\ IF Alive THEN stream' = "asked" /\ agent' = "asked" ELSE stream' = "closed" /\ agent' = agent
    BY <1>6 DEF Shutdown
  <2>2. CASE Alive
    BY <1>1, <1>3, <2>1, <2>2 DEF IngestInv, IngestTypes, NoneLeft, Stages, Alive
  <2>3. CASE ~ Alive
    BY <1>1, <1>3, <2>1, <2>3 DEF IngestInv, IngestTypes, NoneLeft, Stages, Alive
  <2> QED BY <2>2, <2>3
<1>7. ASSUME Escalate PROVE IngestInv'
  <2>1. /\ Alive /\ session' = session /\ halted' = halted
        /\ \/ stream = "asked" /\ stream' = "terminated" /\ agent' \in {agent, "doomed"}
           \/ stream = "terminated" /\ stream' = "killed" /\ agent' = "doomed"
    BY <1>7 DEF Escalate
  <2>2. IngestTypes' /\ NoneLeft' /\ Stages'
    BY <1>1, <2>1 DEF IngestInv, IngestTypes, NoneLeft, Stages, Alive
  <2> QED BY <1>3, <2>2 DEF IngestInv
<1>8. ASSUME Closed PROVE IngestInv'
  <2>1. /\ stream \in {"asked", "terminated", "killed"} /\ (~ Alive \/ stream = "killed")
        /\ session' = (session /\ stream = "asked") /\ stream' = "closed"
        /\ agent' = agent /\ halted' = halted
    BY <1>8 DEF Closed
  <2>2. IngestTypes' /\ NoneLeft' /\ Stages'
    BY <1>1, <2>1 DEF IngestInv, IngestTypes, NoneLeft, Stages, Alive
  <2> QED BY <1>3, <2>2 DEF IngestInv
<1> QED BY <1>4, <1>5, <1>6, <1>7, <1>8

(* A stream opened.                                                        *)
LEMMA IngestStarts == ASSUME IngestInit PROVE IngestInv
<1>1. PICK lines \in Contents :
        IF from = "file" THEN pipe = lines /\ unwritten = <<>> ELSE pipe = <<>> /\ unwritten = lines
  BY DEF IngestInit
<1>2. lines \in Seq(AnyLine) /\ <<>> \in Seq(AnyLine) /\ <<>> \in Seq(Event) /\ DOMAIN << >> = {}
  BY IngestAssumption
<1>3. IngestTypes
  BY <1>1, <1>2 DEF IngestInit, IngestTypes
<1>4. AllDelivered
  <2>1. [i \in DOMAIN taken |-> ParsedFrom(from, taken[i])] = <<>>
    BY <1>2 DEF IngestInit
  <2>2. FlattenSeq(<<>>) = <<>>
    BY DEF FlattenSeq
  <2> QED BY <2>1, <2>2 DEF IngestInit, AllDelivered
<1>5. OddIsLast
  BY <1>2 DEF IngestInit, OddIsLast
<1>6. NoneLeft /\ Stages
  BY <1>1 DEF IngestInit, NoneLeft, Stages
<1> QED BY <1>3, <1>4, <1>5, <1>6 DEF IngestInv

(* What ingestion owes the engine, whatever lines come and wherever the    *)
(* agent ends (live_stream.py:32-130, telemetry.py:348-477): no line is    *)
(* passed over but after one that raised, events carry the fields their    *)
(* type is listed with, and neither agent nor trace session is left behind.*)
THEOREM StreamsAreWhole == IngestSpec => []IngestSound
<1>1. IngestInit => IngestInv
  BY IngestStarts
<1>2. IngestInv /\ [IngestNext]_ingestVars => IngestInv'
  <2>1. ASSUME IngestInv, UNCHANGED ingestVars PROVE IngestInv'
    <3>1. /\ from' = from /\ unwritten' = unwritten /\ pipe' = pipe /\ delivered' = delivered
          /\ taken' = taken /\ agent' = agent /\ session' = session /\ halted' = halted /\ stream' = stream
      BY <2>1 DEF ingestVars
    <3> QED BY <2>1, <3>1 DEF IngestInv, IngestTypes, AllDelivered, OddIsLast, NoneLeft, Stages, Alive
  <2> QED BY <2>1, AgentKeeps, ReadKeeps, ShutdownKeeps DEF IngestNext
<1>3. IngestInv => IngestSound
  <2> SUFFICES ASSUME IngestInv PROVE IngestSound
    OBVIOUS
  <2>1. delivered = FlattenSeq([i \in DOMAIN taken |-> Parsed(taken[i])])
    BY DEF IngestInv, AllDelivered, Parsed, ParsedFrom
  <2>2. \A i \in DOMAIN delivered : delivered[i].kind = "agent" => AsListed(delivered[i])
    <3> SUFFICES ASSUME NEW i \in DOMAIN delivered, delivered[i].kind = "agent" PROVE AsListed(delivered[i])
      OBVIOUS
    <3>1. delivered \in Seq(Event)
      BY DEF IngestInv, IngestTypes
    <3>2. delivered[i] \in Event
      BY <3>1, LenProperties, ElementOfSeq
    <3>3. PICK line \in AnyLine : delivered[i] = Normalize(line)
      BY <3>2 DEF Event
    <3> QED BY <3>3, NormalizedAsListed
  <2>3. stream # "open" /\ ~ halted =>
          \/ pipe = <<>> /\ (agent = "exited" => unwritten = <<>>)
          \/ Last(taken).kind = "odd"
    BY DEF IngestInv, NoneLeft
  <2>4. stream = "closed" => (Alive => agent = "doomed") /\ (session => agent = "crashed")
    BY DEF IngestInv, Stages, Alive
  <2> QED BY <2>1, <2>2, <2>3, <2>4 DEF IngestInv, OddIsLast, IngestSound
<1> QED BY <1>1, <1>2, <1>3, PTL DEF IngestSpec
-----------------------------------------------------------------------------
(* The pins, the files and the workers are of their types; what is fetched *)
(* is some answer, and what is checked is what its pin says.               *)
FetchTypes ==
  /\ on_disk \in [FetchKeys -> Answers \cup {Absent}]
  /\ part \in [FetchKeys -> Answers \cup {Absent}]
  /\ data \in [FetchKeys -> Answers \cup {Absent}]
  /\ saved \in [FetchKeys -> Answers \cup {Absent}]
  /\ remote \in [FetchKeys -> Answers]
  /\ job \in [FetchKeys -> {"waiting", "fetching", "fetched", "checked"} \cup Ended]

(* What one file's worker, pin and content are to each other.              *)
FileSound(k) ==
  /\ job[k] = "fetched" => part[k] # Absent
  /\ job[k] = "checked" => part[k] # Absent /\ part[k] = data[k]
  /\ job[k] \in Ended \ {"failed"} => on_disk[k] # Absent /\ on_disk[k] = data[k]
  /\ saved[k] # Absent => data[k] = saved[k]
  /\ k \in Checked => {data[k], saved[k]} \subseteq Recordings \cup {Absent}
  /\ job[k] \in {"checked", "downloaded"} => data[k] # Pointer

FetchInv == FetchTypes /\ \A k \in FetchKeys : FileSound(k)

(* A pin that is saved is not saved otherwise.                             *)
PinsStay == \A k \in FetchKeys : saved[k] # Absent => saved'[k] = saved[k]

(* A step of one worker keeps its own file sound and leaves the others.    *)
LEMMA WorkersKeep ==
  ASSUME FetchInv, NEW k \in FetchKeys,
         Look(k) \/ Stream(k) \/ StreamFails(k) \/ CheckFetched(k) \/ Replace(k)
  PROVE  FetchInv' /\ PinsStay
<1> USE DEF FetchInv, FetchTypes, FileSound, PinsStay, Answers, Ended
<1>1. CASE Look(k)
  BY <1>1 DEF Look, Pinned, Problem
<1>2. CASE Stream(k)
  BY <1>2, FetchAssumption DEF Stream
<1>3. CASE StreamFails(k)
  BY <1>3 DEF StreamFails
<1>4. CASE CheckFetched(k)
  <2> DEFINE content == part[k]
             wrong == content = Pointer \/ Problem(k, content)
  <2>1. CASE wrong \/ ~ AgreesWithPin(k, content)
    BY <1>4, <2>1 DEF CheckFetched
  <2>2. CASE ~ (wrong \/ ~ AgreesWithPin(k, content))
    BY <1>4, <2>2 DEF CheckFetched, Pinned, Problem, AgreesWithPin
  <2> QED BY <2>1, <2>2
<1>5. CASE Replace(k)
  BY <1>5 DEF Replace
<1> QED BY <1>1, <1>2, <1>3, <1>4, <1>5

(* So does what happens to all of them: pins are saved, a run begins again,*)
(* a host changes its answer, a file is put in place between two runs.     *)
LEMMA WorldKeeps ==
  ASSUME FetchInv,
         \/ SavePins \/ Again
         \/ \E k \in FetchKeys, content \in Answers : HostChanges(k, content) \/ PlaceByHand(k, content)
  PROVE  FetchInv' /\ PinsStay
<1> USE DEF FetchInv, FetchTypes, FileSound, PinsStay, Ended
<1>1. CASE SavePins
  BY <1>1 DEF SavePins
<1>2. CASE Again
  BY <1>2 DEF Again
<1>3. ASSUME NEW k \in FetchKeys, NEW content \in Answers, HostChanges(k, content)
      PROVE  FetchInv' /\ PinsStay
  BY <1>3 DEF HostChanges
<1>4. ASSUME NEW k \in FetchKeys, NEW content \in Answers, PlaceByHand(k, content)
      PROVE  FetchInv' /\ PinsStay
  BY <1>4 DEF PlaceByHand
<1> QED BY <1>1, <1>2, <1>3, <1>4

(* Trust on first use holds for any files, hosts, workers and kills: a pin *)
(* that was saved never changes, what a run took or fetched is as pinned,  *)
(* and no page is pinned where the kind of file can tell.                  *)
THEOREM PinsAreKept == FetchSpec => FetchSound
<1>1. FetchInit => FetchInv
  BY FetchAssumption DEF FetchInit, FetchInv, FetchTypes, FileSound, Answers, Ended
<1>2. FetchInv /\ [FetchNext]_fetchVars => FetchInv' /\ [PinsStay]_fetchVars
  <2>1. CASE UNCHANGED fetchVars
    BY <2>1 DEF fetchVars, FetchInv, FetchTypes, FileSound, Ended
  <2>2. CASE FetchNext
    BY <2>2, WorkersKeep, WorldKeeps DEF FetchNext
  <2> QED BY <2>1, <2>2
<1>3. FetchInv => \A k \in FetchKeys :
          /\ job[k] \in Ended \ {"failed"} => on_disk[k] # Absent /\ on_disk[k] = data[k]
          /\ saved[k] # Absent => data[k] = saved[k]
          /\ k \in Checked => {data[k], saved[k]} \subseteq Recordings \cup {Absent}
          /\ job[k] \in {"checked", "downloaded"} => data[k] # Pointer
  BY DEF FetchInv, FileSound
<1> QED BY <1>1, <1>2, <1>3, PTL DEF FetchSpec, FetchSound, PinsStay
-----------------------------------------------------------------------------
(* What f takes the things of a finite set to is finite.                    *)
LEMMA ImageIsFinite ==
  ASSUME NEW D, IsFiniteSet(D), NEW f, f = [x \in D |-> f[x]]
  PROVE  IsFiniteSet({f[x] : x \in D})
<1>1. f \in Surjection(D, {f[x] : x \in D})
  BY DEF Surjection
<1> QED BY <1>1, FS_Surjection

(* A finite set of naturals has a greatest one.                            *)
LEMMA GreatestOf ==
  ASSUME NEW T \in SUBSET Nat, IsFiniteSet(T), T # {}
  PROVE  \E x \in T : \A y \in T : y <= x
<1> DEFINE Over(x) == {y \in T : y > x}
           C == {Cardinality(Over(x)) : x \in T}
<1>1. \A x \in T : Over(x) \in SUBSET T /\ IsFiniteSet(Over(x)) /\ Cardinality(Over(x)) \in Nat
  <2> TAKE x \in T
  <2>1. Over(x) \in SUBSET T
    OBVIOUS
  <2>2. IsFiniteSet(Over(x))
    BY <2>1, FS_Subset
  <2> QED BY <2>1, <2>2, FS_CardinalityType
<1>2. C \in SUBSET Nat /\ C # {}
  BY <1>1
<1>3. PICK c \in C : \A d \in C : c <= d
  <2> HIDE DEF C
  <2> QED BY <1>2, LeastOf
<1>4. PICK x \in T : c = Cardinality(Over(x))
  BY <1>3
<1>5. ASSUME NEW y \in T, ~ (y <= x) PROVE FALSE
  <2> DEFINE S == Over(x)
             R == Over(y)
  <2>1. y \in S /\ y \notin R /\ R \in SUBSET S
    <3>1. x \in Nat /\ y \in Nat /\ y > x
      BY <1>5
    <3>2. \A z \in T : z > y => z > x
      BY <3>1
    <3>3. ~ (y > y)
      BY <3>1
    <3> QED BY <3>1, <3>2, <3>3, Zenon
  <2>2. IsFiniteSet(S) /\ Cardinality(S) \in Nat /\ Cardinality(R) \in Nat
    BY <1>1
  <2>3. Cardinality(S) <= Cardinality(R)
    BY <1>3, <1>4
  <2> HIDE DEF S, R
  <2>4. Cardinality(R) <= Cardinality(S) /\ (Cardinality(S) = Cardinality(R) => S = R)
    BY <2>1, <2>2, FS_Subset
  <2> QED BY <2>1, <2>2, <2>3, <2>4
<1> QED BY <1>5

LEMMA MinIsLeast ==
  ASSUME NEW T \in SUBSET Nat, T # {}
  PROVE  Min(T) \in T /\ \A y \in T : Min(T) <= y
<1>1. \E x \in T : \A y \in T : x <= y
  BY LeastOf
<1> QED BY <1>1 DEF Min

LEMMA MaxIsGreatest ==
  ASSUME NEW T \in SUBSET Nat, IsFiniteSet(T), T # {}
  PROVE  Max(T) \in T /\ \A y \in T : y <= Max(T)
<1>1. \E x \in T : \A y \in T : x >= y
  BY GreatestOf
<1> QED BY <1>1 DEF Max
-----------------------------------------------------------------------------
(* The units are of their types; one that is not in conflict is labelled in *)
(* one way, and attacks alike are of one group.                            *)
UnitsSound ==
  /\ IsFiniteSet(units)
  /\ \A u \in units : u.rows \subseteq rows
  /\ protocol = "loeo" =>
       \A u \in units : ~ u.conflict => \A r \in rows : r.key = u.key => r.label \in {u.label, -1}
  /\ \A u, v \in units :
       /\ u.label = 1 /\ ~ u.conflict /\ v.label = 1 /\ ~ v.conflict
       /\ u.rep.template = v.rep.template \/ u.rep.group = v.rep.group
       => u.group = v.group

FoldsInv ==
  /\ rows \in RowSets
  /\ UnitsSound
  /\ units = {} => fit = Everywhere
  /\ FoldsSound

(* Groups that share a command are merged into the same.                   *)
LEMMA MergedTogether ==
  ASSUME NEW attacks, NEW u \in attacks, NEW v \in attacks,
         u.rep.template = v.rep.template \/ u.group = v.group
  PROVE  MergedGroup(attacks, u.group) = MergedGroup(attacks, v.group)
<1> DEFINE groups == {w.group : w \in attacks}
           Whole(found) == \A w, x \in attacks :
                        w.rep.template = x.rep.template /\ w.group \in found => x.group \in found
<1>1. \A found \in SUBSET groups : Whole(found) => (u.group \in found <=> v.group \in found)
  OBVIOUS
<1>2. /\ MergedGroup(attacks, u.group) =
           {g \in groups : \A found \in SUBSET groups : Whole(found) /\ u.group \in found => g \in found}
      /\ MergedGroup(attacks, v.group) =
           {g \in groups : \A found \in SUBSET groups : Whole(found) /\ v.group \in found => g \in found}
  BY DEF MergedGroup
<1> HIDE DEF groups, Whole
<1> QED BY <1>1, <1>2

(* The corpus is finite.                                                   *)
LEMMA FiniteRows ==
  ASSUME rows \in RowSets
  PROVE  IsFiniteSet(rows) /\ \A r \in rows : r.hour \in Nat
BY FoldsAssumption

(* Rows are counted, and more units are of no fewer rows.                   *)
LEMMA CountsGrow ==
  ASSUME rows \in RowSets, NEW us, NEW vs \in SUBSET us, \A u \in us : u.rows \subseteq rows
  PROVE  /\ CountOf(us) \in Nat /\ CountOf(vs) \in Nat /\ CountOf(vs) <= CountOf(us)
         /\ CountOf({}) = 0
<1> DEFINE all == UNION {u.rows : u \in us}
           some == UNION {u.rows : u \in vs}
<1>1. all \in SUBSET rows /\ some \in SUBSET all
  OBVIOUS
<1>2. IsFiniteSet(rows)
  BY FiniteRows
<1>3. IsFiniteSet(all)
  BY <1>1, <1>2, FS_Subset
<1>4. IsFiniteSet(some) /\ Cardinality(some) <= Cardinality(all)
  BY <1>1, <1>3, FS_Subset
<1>5. Cardinality(all) \in Nat /\ Cardinality(some) \in Nat
  BY <1>3, <1>4, FS_CardinalityType
<1>6. CountOf({}) = Cardinality({})
  <2>1. UNION {u.rows : u \in {}} = {}
    OBVIOUS
  <2> QED BY <2>1 DEF CountOf
<1> HIDE DEF all, some
<1>7. CountOf(us) = Cardinality(all) /\ CountOf(vs) = Cardinality(some)
  BY DEF CountOf, all, some
<1> QED BY <1>4, <1>5, <1>6, <1>7, FS_EmptySet

(* The hours of a finite corpus are a number.                              *)
LEMMA HoursType ==
  ASSUME rows \in RowSets, NEW env
  PROVE  ObservedHours(env) \in Nat
<1> DEFINE of == {r \in rows : r.env = env}
           Observed(r) == {h \in 0 .. r.hour - 1 : h >= r.hour - GapCap /\ \E s \in of : s.host = r.host /\ s.hour <= h}
           all == UNION {{r.host} \X Observed(r) : r \in of}
           hosts == {r.host : r \in rows}
           hours == {r.hour : r \in rows}
<1>1. IsFiniteSet(rows) /\ \A r \in rows : r.hour \in Nat
  BY FiniteRows
<1>2. IsFiniteSet(hosts)
  <2> DEFINE f == [r \in rows |-> r.host]
  <2>1. f = [r \in rows |-> f[r]] /\ hosts = {f[r] : r \in rows}
    OBVIOUS
  <2> HIDE DEF f
  <2> QED BY <1>1, <2>1, ImageIsFinite
<1>3. IsFiniteSet(hours) /\ hours \in SUBSET Nat
  <2> DEFINE f == [r \in rows |-> r.hour]
  <2>1. f = [r \in rows |-> f[r]] /\ hours = {f[r] : r \in rows}
    OBVIOUS
  <2>2. hours \in SUBSET Nat
    BY <1>1
  <2> HIDE DEF f
  <2> QED BY <1>1, <2>1, <2>2, ImageIsFinite
<1>4. PICK n \in Nat : \A h \in hours : h <= n
  <2>1. CASE hours = {}
    BY <2>1
  <2>2. CASE hours # {}
    <3> HIDE DEF hours
    <3> QED BY <1>3, <2>2, GreatestOf
  <2> QED BY <2>1, <2>2
<1>5. all \in SUBSET (hosts \X (0 .. n))
  <2> SUFFICES ASSUME NEW r \in of, NEW h \in Observed(r) PROVE r.host \in hosts /\ h \in 0 .. n
    OBVIOUS
  <2>1. r.hour <= n /\ r.hour \in Nat
    BY <1>1, <1>4
  <2> QED BY <2>1
<1>6. IsFiniteSet(0 .. n)
  BY FS_Interval
<1>7. IsFiniteSet(hosts \X (0 .. n))
  BY <1>2, <1>6, FS_Product
<1>8. IsFiniteSet(all)
  BY <1>5, <1>7, FS_Subset
<1>9. Cardinality(all) \in Nat
  BY <1>8, FS_CardinalityType
<1>10. ObservedHours(env) = Cardinality(all)
  BY DEF ObservedHours
<1> QED BY <1>9, <1>10
-----------------------------------------------------------------------------
(* Building the units.                                                     *)
LEMMA BuildKeeps ==
  ASSUME FoldsInv, BuildUnits
  PROVE  FoldsInv'
<1> DEFINE names == {UnitOf(r) : r \in {s \in rows : s.label # -1}}
           Named(u) == {r \in rows : UnitOf(r) = u}
           First(u) == CHOOSE r \in Named(u) : \A s \in Named(u) : r.hour < s.hour \/ (r.hour = s.hour /\ r.id <= s.id)
           Single(u) == [env |-> u[1], label |-> u[2], key |-> u[3], rep |-> First(u), rows |-> Named(u),
                     group |-> First(u).group, infra |-> First(u).infra,
                     conflict |-> protocol = "loeo" /\ \E r \in rows : r.key = u[3] /\ r.label \notin {u[2], -1}]
           plain == {Single(u) : u \in names}
           attacks == {u \in plain : u.label = 1 /\ ~ u.conflict}
           Merged(u) == [u EXCEPT !.group = MergedGroup(attacks, @)]
<1>1. /\ units = {} /\ units' = (plain \ attacks) \cup {Merged(u) : u \in attacks}
      /\ UNCHANGED <<rows, protocol, fit, turn, res>>
  BY DEF BuildUnits
<1>2. /\ rows \in RowSets /\ fit = Everywhere
  BY <1>1 DEF FoldsInv
<1>3. IsFiniteSet(plain)
  <2>1. IsFiniteSet({s \in rows : s.label # -1})
    <3>1. {s \in rows : s.label # -1} \in SUBSET rows
      OBVIOUS
    <3> QED BY <1>2, <3>1, FiniteRows, FS_Subset
  <2>2. IsFiniteSet(names)
    <3> DEFINE D == {s \in rows : s.label # -1}
               f == [r \in D |-> UnitOf(r)]
    <3>1. f = [r \in D |-> f[r]] /\ names = {f[r] : r \in D}
      OBVIOUS
    <3> HIDE DEF f
    <3> QED BY <2>1, <3>1, ImageIsFinite
  <2>3. QED
    <3> DEFINE f == [u \in names |-> Single(u)]
    <3> HIDE DEF names, Single
    <3>1. f = [u \in names |-> f[u]] /\ plain = {f[u] : u \in names}
      OBVIOUS
    <3> HIDE DEF f
    <3> QED BY <2>2, <3>1, ImageIsFinite
<1>4. ASSUME NEW w \in plain
      PROVE  /\ w = [env |-> w.env, label |-> w.label, key |-> w.key, rep |-> w.rep, rows |-> w.rows,
                     group |-> w.group, infra |-> w.infra, conflict |-> w.conflict]
             /\ w.rows \subseteq rows /\ w.group = w.rep.group
             /\ protocol = "loeo" /\ ~ w.conflict =>
                  \A r \in rows : r.key = w.key => r.label \in {w.label, -1}
  <2>1. PICK u \in names : w = Single(u)
    OBVIOUS
  <2> HIDE DEF names, First
  <2> QED BY <2>1
<1> HIDE DEF plain
<1>5. ASSUME NEW w \in attacks
      PROVE  /\ w \in plain /\ w.label = 1 /\ ~ w.conflict
             /\ Merged(w) = [env |-> w.env, label |-> w.label, key |-> w.key, rep |-> w.rep, rows |-> w.rows,
                     group |-> MergedGroup(attacks, w.group), infra |-> w.infra, conflict |-> w.conflict]
  <2>1. w \in plain /\ w.label = 1 /\ ~ w.conflict
    OBVIOUS
  <2> HIDE DEF attacks
  <2> QED BY <2>1, <1>4
<1>6. IsFiniteSet(attacks) /\ IsFiniteSet(plain \ attacks)
  <2>1. attacks \in SUBSET plain /\ plain \ attacks \in SUBSET plain
    OBVIOUS
  <2> HIDE DEF attacks
  <2> QED BY <1>3, <2>1, FS_Subset
<1> HIDE DEF attacks, Merged
<1>7. IsFiniteSet(units')
  <2> DEFINE f == [u \in attacks |-> Merged(u)]
  <2>1. f = [u \in attacks |-> f[u]] /\ {Merged(u) : u \in attacks} = {f[u] : u \in attacks}
    OBVIOUS
  <2> HIDE DEF f
  <2>2. IsFiniteSet({Merged(u) : u \in attacks})
    BY <1>6, <2>1, ImageIsFinite
  <2> QED BY <1>1, <1>6, <2>2, FS_Union
<1>8. \A w \in units' : \/ w \in plain \ attacks
                        \/ \E a \in attacks : w = Merged(a)
  BY <1>1
<1>9. \A w \in plain : w.label = 1 /\ ~ w.conflict => w \in attacks
  BY DEF attacks
<1>10. \A w \in units' : /\ w.rows \subseteq rows
                         /\ protocol = "loeo" /\ ~ w.conflict =>
                              \A r \in rows : r.key = w.key => r.label \in {w.label, -1}
  BY <1>4, <1>5, <1>8
<1>11. ASSUME NEW u \in units', NEW v \in units',
              u.label = 1, ~ u.conflict, v.label = 1, ~ v.conflict,
              u.rep.template = v.rep.template \/ u.rep.group = v.rep.group
       PROVE  u.group = v.group
  <2>1. PICK a \in attacks : u = Merged(a)
    BY <1>8, <1>9, <1>11
  <2>2. PICK b \in attacks : v = Merged(b)
    BY <1>8, <1>9, <1>11
  <2>3. /\ u.rep = a.rep /\ v.rep = b.rep /\ a.group = a.rep.group /\ b.group = b.rep.group
        /\ u.group = MergedGroup(attacks, a.group) /\ v.group = MergedGroup(attacks, b.group)
    BY <1>4, <1>5, <2>1, <2>2
  <2> QED BY <1>11, <2>3, MergedTogether
<1>12. UnitsSound'
  BY <1>1, <1>7, <1>10, <1>11 DEF UnitsSound
<1> QED BY <1>1, <1>2, <1>12 DEF FoldsInv, FoldsSound

(* The threshold for a budget keeps within it, and no lower score does.     *)
LEMMA ThresholdMeets ==
  ASSUME rows \in RowSets, NEW us, IsFiniteSet(us), us # {}, \A u \in us : u.rows \subseteq rows,
         NEW oof, \A u \in us : oof[u] \in Nat, NEW allowed \in Nat
  PROVE  LET t == ThresholdForBudget(us, oof, allowed)
         IN  /\ t \in Nat
             /\ CountOf({u \in us : oof[u] >= t}) <= allowed
             /\ \A u \in us : oof[u] < t => CountOf({v \in us : oof[v] >= oof[u]}) > allowed
<1> DEFINE t == ThresholdForBudget(us, oof, allowed)
           scores == {oof[u] : u \in us}
           Flagged(x) == {u \in us : oof[u] >= x}
           within == {x \in scores : CountOf(Flagged(x)) <= allowed}
           over == Max(scores) + 1
<1>1. IsFiniteSet(scores) /\ scores \in SUBSET Nat /\ scores # {}
  <2> DEFINE f == [u \in us |-> oof[u]]
  <2>1. f = [u \in us |-> f[u]] /\ scores = {f[u] : u \in us}
    OBVIOUS
  <2>2. scores \in SUBSET Nat /\ scores # {}
    OBVIOUS
  <2> HIDE DEF f
  <2> QED BY <2>1, <2>2, ImageIsFinite
<1>2. Max(scores) \in Nat /\ \A u \in us : oof[u] <= Max(scores)
  <2> HIDE DEF scores
  <2>1. Max(scores) \in scores /\ \A y \in scores : y <= Max(scores)
    BY <1>1, MaxIsGreatest
  <2> QED BY <1>1, <2>1 DEF scores
<1> HIDE DEF scores
<1>3. over \in Nat /\ Flagged(over) = {}
  BY <1>2
<1>4. \A x : CountOf(Flagged(x)) \in Nat
  <2> TAKE x
  <2>1. Flagged(x) \in SUBSET us
    OBVIOUS
  <2> QED BY <2>1, CountsGrow
<1>5. CountOf(Flagged(over)) = 0
  <2>1. {} \in SUBSET us
    OBVIOUS
  <2> QED BY <1>3, <2>1, CountsGrow
<1>6. t = Min({over} \cup within)
  BY DEF ThresholdForBudget, scores
<1>7. {over} \cup within \in SUBSET Nat /\ {over} \cup within # {}
  BY <1>1, <1>3
<1>8. t \in {over} \cup within /\ \A y \in {over} \cup within : t <= y
  <2> DEFINE T == {over} \cup within
  <2>1. t = Min(T) /\ T \in SUBSET Nat /\ T # {}
    BY <1>6, <1>7
  <2> HIDE DEF T
  <2>2. t \in T /\ \A y \in T : t <= y
    BY <2>1, MinIsLeast
  <2> QED BY <2>2 DEF T
<1> HIDE DEF t, over
<1>9. t \in Nat
  BY <1>7, <1>8
<1>10. CountOf(Flagged(t)) <= allowed
  BY <1>5, <1>8
<1>11. ASSUME NEW u \in us, oof[u] < t PROVE CountOf(Flagged(oof[u])) > allowed
  <2>1. oof[u] \in scores
    BY DEF scores
  <2>2. ~ (t <= oof[u])
    BY <1>9, <1>11
  <2>3. ~ (CountOf(Flagged(oof[u])) <= allowed)
    BY <1>8, <2>1, <2>2
  <2> QED BY <1>4, <2>3
<1> HIDE DEF Flagged
<1> QED BY <1>9, <1>10, <1>11 DEF t, Flagged

(* The thresholds of what was heard: the strictest meets every budget, and  *)
(* no lower score meets that of the environment it is of.                   *)
LEMMA StrictestMeets ==
  ASSUME rows \in RowSets, NEW us, IsFiniteSet(us), us # {}, \A u \in us : u.rows \subseteq rows,
         NEW oof, \A u \in us : oof[u] \in Nat
  PROVE  LET of(env) == {u \in us : u.env = env}
             t == Thresholds("minimax", us, oof)
         IN  /\ DOMAIN t.per_env = {u.env : u \in us}
             /\ \A env \in DOMAIN t.per_env :
                  CountOf({u \in of(env) : oof[u] >= t.alert}) <= Budget * ObservedHours(env)
             /\ \E env \in DOMAIN t.per_env : \A u \in of(env) :
                  oof[u] < t.alert => CountOf({v \in of(env) : oof[v] >= oof[u]}) > Budget * ObservedHours(env)
<1> DEFINE of(env) == {u \in us : u.env = env}
           envs == {u.env : u \in us}
           allowed(env) == Budget * ObservedHours(env)
           perEnv == [env \in envs |-> ThresholdForBudget(of(env), oof, allowed(env))]
           limits == {perEnv[env] : env \in envs}
           t == Thresholds("minimax", us, oof)
<1>1. t.per_env = perEnv /\ t.alert = Max(limits)
  BY DEF Thresholds
<1>2. ASSUME NEW env \in envs
      PROVE  /\ of(env) \in SUBSET us /\ IsFiniteSet(of(env)) /\ of(env) # {}
             /\ \A u \in of(env) : u.rows \subseteq rows /\ oof[u] \in Nat
             /\ allowed(env) \in Nat
  <2>1. of(env) \in SUBSET us /\ of(env) # {}
    OBVIOUS
  <2>2. IsFiniteSet(of(env))
    BY <2>1, FS_Subset
  <2>3. ObservedHours(env) \in Nat /\ Budget \in Nat
    BY HoursType, FoldsAssumption
  <2>4. \A a, b \in Nat : a * b \in Nat
    OBVIOUS
  <2> QED BY <2>1, <2>2, <2>3, <2>4
<1> HIDE DEF allowed
<1>3. ASSUME NEW env \in envs
      PROVE  /\ perEnv[env] \in Nat
             /\ CountOf({u \in of(env) : oof[u] >= perEnv[env]}) <= allowed(env)
             /\ \A u \in of(env) : oof[u] < perEnv[env] =>
                  CountOf({v \in of(env) : oof[v] >= oof[u]}) > allowed(env)
  <2> DEFINE mine == of(env)
             limit == ThresholdForBudget(mine, oof, allowed(env))
  <2>1. IsFiniteSet(mine) /\ mine # {} /\ allowed(env) \in Nat
        /\ (\A u \in mine : u.rows \subseteq rows) /\ \A u \in mine : oof[u] \in Nat
    BY <1>2
  <2>2. perEnv[env] = limit
    OBVIOUS
  <2> HIDE DEF mine
  <2>3. /\ limit \in Nat
        /\ CountOf({u \in mine : oof[u] >= limit}) <= allowed(env)
        /\ \A u \in mine : oof[u] < limit => CountOf({v \in mine : oof[v] >= oof[u]}) > allowed(env)
    BY <2>1, ThresholdMeets
  <2> HIDE DEF perEnv, limit
  <2> QED BY <2>2, <2>3 DEF mine
<1>4. IsFiniteSet(envs)
  <2> DEFINE f == [u \in us |-> u.env]
  <2>1. f = [u \in us |-> f[u]] /\ envs = {f[u] : u \in us}
    OBVIOUS
  <2> HIDE DEF f
  <2> QED BY <2>1, ImageIsFinite
<1>5. IsFiniteSet(limits) /\ limits \in SUBSET Nat /\ limits # {}
  <2>1. perEnv = [env \in envs |-> perEnv[env]] /\ envs # {}
    OBVIOUS
  <2> HIDE DEF perEnv, envs
  <2> QED BY <1>3, <1>4, <2>1, ImageIsFinite
<1> HIDE DEF perEnv, t
<1>6. t.alert \in limits /\ \A y \in limits : y <= t.alert
  <2> HIDE DEF limits
  <2> QED BY <1>1, <1>5, MaxIsGreatest
<1>7. t.alert \in Nat
  BY <1>5, <1>6
<1>8. ASSUME NEW env \in envs PROVE CountOf({u \in of(env) : oof[u] >= t.alert}) <= allowed(env)
  <2> DEFINE more == {u \in of(env) : oof[u] >= perEnv[env]}
             less == {u \in of(env) : oof[u] >= t.alert}
  <2>1. perEnv[env] <= t.alert /\ perEnv[env] \in Nat
    BY <1>3, <1>6
  <2>2. more \in SUBSET us /\ less \in SUBSET more
    BY <1>2, <1>7, <2>1
  <2>3. \A u \in more : u.rows \subseteq rows
    BY <2>2
  <2>4. CountOf(more) <= allowed(env)
    BY <1>3
  <2> HIDE DEF more, less
  <2>5. CountOf(less) <= CountOf(more) /\ CountOf(less) \in Nat /\ CountOf(more) \in Nat
    BY <2>2, <2>3, CountsGrow
  <2>6. CountOf(less) <= allowed(env)
    <3>1. \A a, b, c \in Nat : a <= b /\ b <= c => a <= c
      OBVIOUS
    <3>2. allowed(env) \in Nat
      BY <1>2
    <3> QED BY <2>4, <2>5, <3>1, <3>2
  <2> QED BY <2>6 DEF less
<1>9. PICK env \in envs : t.alert = perEnv[env]
  BY <1>6
<1>10. \A u \in of(env) : oof[u] < t.alert => CountOf({v \in of(env) : oof[v] >= oof[u]}) > allowed(env)
  BY <1>3, <1>9
<1>11. DOMAIN t.per_env = envs
  BY <1>1 DEF perEnv
<1> HIDE DEF envs, of
<1>12. /\ DOMAIN t.per_env = envs
       /\ \A e \in DOMAIN t.per_env : CountOf({u \in of(e) : oof[u] >= t.alert}) <= allowed(e)
       /\ \E e \in DOMAIN t.per_env : \A u \in of(e) :
            oof[u] < t.alert => CountOf({v \in of(e) : oof[v] >= oof[u]}) > allowed(e)
  BY <1>8, <1>10, <1>11
<1> QED BY <1>12 DEF of, allowed, t, envs

(* Fitting without an environment.                                         *)
LEMMA FitKeeps ==
  ASSUME FoldsInv, FitFold
  PROVE  FoldsInv'
<1> DEFINE recipe == Recipes[turn[1]]
           out == Environments[turn[2]]
           train == TrainingUnits(recipe, out)
           thr == Benign(out, train)
           mine == thr \cup {u \in train : u.label = 1 /\ protocol = "loeo"}
           Groups(label) == {u.group : u \in {v \in train \cup thr : v.label = label}}
<1>1. /\ units # {} /\ UNCHANGED <<rows, protocol, units, res>>
      /\ rows \in RowSets /\ UnitsSound
  BY DEF FitFold, FoldsInv
<1>2. SUFFICES ASSUME fit' # Everywhere PROVE FoldsSound'
  BY <1>1 DEF FoldsInv, UnitsSound, FoldsSound
<1>3. PICK benign \in FoldAssignments(Groups(0)), attack \in FoldAssignments(Groups(1)) :
         LET InFold(u) == IF u.label = 1 THEN attack[u.group] ELSE benign[u.group]
             Teaches(k) == {u \in train : InFold(u) # k}
             lost == {u \in mine : Cardinality({v.label : v \in Teaches(InFold(u))}) < 2}
             heard == Heard(thr \ lost)
         IN  IF (lost # {} /\ protocol = "loeo") \/ heard = {}
             THEN turn' = <<Len(Recipes) + 1, 1>> /\ UNCHANGED fit
             ELSE \E oof \in [thr \ lost -> ScoreSet] :
                    /\ fit' = [recipe |-> recipe, held_out |-> out, train |-> train, oof |-> oof,
                               teachers |-> [u \in mine \ lost |-> Teaches(InFold(u))],
                               thresholds |-> Thresholds(recipe.policy, heard, oof)]
                    /\ UNCHANGED turn
  BY DEF FitFold
<1> DEFINE InFold(u) == IF u.label = 1 THEN attack[u.group] ELSE benign[u.group]
           Teaches(k) == {u \in train : InFold(u) # k}
           lost == {u \in mine : Cardinality({v.label : v \in Teaches(InFold(u))}) < 2}
           heard == Heard(thr \ lost)
<1>4. fit = Everywhere
  BY DEF FitFold
<1>5. ~ ((lost # {} /\ protocol = "loeo") \/ heard = {})
  BY <1>2, <1>3, <1>4
<1>6. PICK oof \in [thr \ lost -> ScoreSet] :
         fit' = [recipe |-> recipe, held_out |-> out, train |-> train, oof |-> oof,
                 teachers |-> [u \in mine \ lost |-> Teaches(InFold(u))],
                 thresholds |-> Thresholds(recipe.policy, heard, oof)]
  BY <1>3, <1>5
<1>7. \A u \in train : u \in units /\ u.env # out /\ ~ u.conflict /\ ~ u.infra
  BY DEF TrainingUnits, Capped
<1>8. thr \in SUBSET units /\ \A u \in thr : u.label = 0
  BY DEF Benign
<1>9. heard = {u \in thr \ lost : protocol = "loeo" \/ ObservedHours(u.env) > 0}
  BY DEF Heard
<1> HIDE DEF train, thr, heard
<1>10. ASSUME NEW u \in train
       PROVE  /\ ~ u.infra /\ u.env # out
              /\ \A row \in rows : protocol = "loeo" /\ row.key = u.key /\ row.label # -1 => row.label = u.label
  BY <1>1, <1>7 DEF UnitsSound
<1>11. ASSUME NEW u \in mine \ lost, u.label = 1, NEW v \in Teaches(InFold(u)), v.label = 1
       PROVE  v.rep.template # u.rep.template /\ v.rep.group # u.rep.group
  <2>1. u \in train /\ v \in train /\ attack[v.group] # attack[u.group]
    BY <1>8, <1>11
  <2>2. u.group # v.group
    BY <2>1
  <2> QED BY <1>1, <1>7, <1>11, <2>1, <2>2 DEF UnitsSound
<1>12. ASSUME NEW env \in ToSet(Environments) \ (recipe.exclude \cup {out}), protocol = "loeo"
       PROVE  {u \in units : u.env = env /\ u.label = 0} \subseteq thr \ lost \/ \A u \in train : u.env # env
  BY <1>5, <1>12 DEF thr, Benign
<1>13. IsFiniteSet(heard) /\ heard # {} /\ \A u \in heard : u.rows \subseteq rows /\ oof[u] \in Nat
  <2>1. heard \in SUBSET units /\ heard \in SUBSET (thr \ lost)
    BY <1>8, <1>9
  <2>2. IsFiniteSet(heard)
    BY <1>1, <2>1, FS_Subset DEF UnitsSound
  <2>3. \A u \in thr \ lost : oof[u] \in Nat
    BY FoldsAssumption
  <2> QED BY <1>1, <1>5, <2>1, <2>2, <2>3 DEF UnitsSound
<1> HIDE DEF lost
<1>14. ASSUME NEW env, \E u \in heard : u.env = env
       PROVE  {u \in heard : u.env = env} = {u \in thr \ lost : u.env = env}
  BY <1>9, <1>14
<1>15. DOMAIN oof = thr \ lost
  OBVIOUS
<1> HIDE DEF InFold, Teaches, mine, recipe, out
<1>16. ASSUME recipe.policy = "minimax"
       PROVE  LET UnitsOf(env) == {u \in DOMAIN oof : u.env = env}
                  t == Thresholds("minimax", heard, oof)
              IN  /\ \A env \in DOMAIN t.per_env :
                       CountOf({u \in UnitsOf(env) : oof[u] >= t.alert}) <= Budget * ObservedHours(env)
                  /\ \E env \in DOMAIN t.per_env : \A u \in UnitsOf(env) :
                       oof[u] < t.alert => CountOf({v \in UnitsOf(env) : oof[v] >= oof[u]}) > Budget * ObservedHours(env)
  <2> DEFINE UnitsOf(env) == {u \in DOMAIN oof : u.env = env}
             of(env) == {u \in heard : u.env = env}
             t == Thresholds("minimax", heard, oof)
  <2>1. /\ DOMAIN t.per_env = {u.env : u \in heard}
        /\ \A env \in DOMAIN t.per_env :
             CountOf({u \in of(env) : oof[u] >= t.alert}) <= Budget * ObservedHours(env)
        /\ \E env \in DOMAIN t.per_env : \A u \in of(env) :
             oof[u] < t.alert => CountOf({v \in of(env) : oof[v] >= oof[u]}) > Budget * ObservedHours(env)
    BY <1>1, <1>13, StrictestMeets
  <2>2. \A env \in DOMAIN t.per_env : of(env) = UnitsOf(env)
    BY <1>14, <1>15, <2>1
  <2> HIDE DEF of, UnitsOf, t
  <2>3. /\ \A env \in DOMAIN t.per_env :
             CountOf({u \in UnitsOf(env) : oof[u] >= t.alert}) <= Budget * ObservedHours(env)
        /\ \E env \in DOMAIN t.per_env : \A u \in UnitsOf(env) :
             oof[u] < t.alert => CountOf({v \in UnitsOf(env) : oof[v] >= oof[u]}) > Budget * ObservedHours(env)
    BY <2>1, <2>2
  <2> QED BY <2>3 DEF UnitsOf, t
<1>17. /\ fit'.oof = oof /\ fit'.train = train /\ fit'.recipe = recipe /\ fit'.held_out = out
       /\ fit'.teachers = [u \in mine \ lost |-> Teaches(InFold(u))]
       /\ fit'.thresholds = Thresholds(recipe.policy, heard, oof)
  BY <1>6
<1>18. \A env : ObservedHours(env)' = ObservedHours(env)
  BY <1>1 DEF ObservedHours
<1> QED BY <1>1, <1>10, <1>11, <1>12, <1>15, <1>16, <1>17, <1>18 DEF FoldsSound, CountOf

(* What is fitted is sound in every run of every protocol on any corpus:    *)
(* the environment left out stays out, and thresholds keep their budgets.   *)
THEOREM FoldsAreKeptApart == FoldsSpec => []FoldsSound
<1>1. FoldsInit => FoldsInv
  <2> SUFFICES ASSUME FoldsInit PROVE FoldsInv
    OBVIOUS
  <2> QED BY FS_EmptySet DEF FoldsInit, FoldsInv, UnitsSound, FoldsSound
<1>2. FoldsInv /\ [FoldsNext]_foldVars => FoldsInv'
  <2> SUFFICES ASSUME FoldsInv, [FoldsNext]_foldVars PROVE FoldsInv'
    OBVIOUS
  <2>1. CASE BuildUnits
    BY <2>1, BuildKeeps
  <2>2. CASE NothingThere
    BY <2>2 DEF NothingThere, FoldsInv, UnitsSound, FoldsSound
  <2>3. CASE FitFold
    BY <2>3, FitKeeps
  <2>4. CASE Evaluate
    BY <2>4 DEF Evaluate, FoldsInv, UnitsSound, FoldsSound
  <2>5. CASE UNCHANGED foldVars
    BY <2>5 DEF foldVars, FoldsInv, UnitsSound, FoldsSound, CountOf, ObservedHours
  <2> QED BY <2>1, <2>2, <2>3, <2>4, <2>5 DEF FoldsNext
<1>3. FoldsInv => FoldsSound
  BY DEF FoldsInv
<1> QED BY <1>1, <1>2, <1>3, PTL DEF FoldsSpec
-----------------------------------------------------------------------------
(* Tuples of one length are in one order.                                   *)
Tuples(m) == {a \in Seq(Int) : Len(a) = m}

LEMMA BeforeIs ==
  ASSUME NEW m \in Nat, NEW a \in Tuples(m), NEW b \in Tuples(m)
  PROVE  Before(a, b) <=> \E i \in 1 .. m : a[i] < b[i] /\ \A j \in 1 .. m : j < i => a[j] = b[j]
<1>1. DOMAIN a = 1 .. m
  BY DEF Tuples
<1>2. \A i \in 1 .. m : 1 .. i - 1 = {j \in 1 .. m : j < i}
  OBVIOUS
<1> QED BY <1>1, <1>2 DEF Before

LEMMA BeforeTotal ==
  ASSUME NEW m \in Nat, NEW a \in Tuples(m), NEW b \in Tuples(m)
  PROVE  /\ ~ Before(a, a)
         /\ ~ (Before(a, b) /\ Before(b, a))
         /\ a = b \/ Before(a, b) \/ Before(b, a)
<1>1. a \in [1 .. m -> Int] /\ b \in [1 .. m -> Int]
  BY DEF Tuples
<1>2. ~ Before(a, a)
  <2>1. \A i \in 1 .. m : ~ (a[i] < a[i])
    BY <1>1
  <2> QED BY <2>1, BeforeIs
<1>3. ~ (Before(a, b) /\ Before(b, a))
  <2>1. SUFFICES ASSUME Before(a, b), Before(b, a) PROVE FALSE
    OBVIOUS
  <2>2. PICK i \in 1 .. m : a[i] < b[i] /\ \A j \in 1 .. m : j < i => a[j] = b[j]
    BY <2>1, BeforeIs
  <2>3. PICK k \in 1 .. m : b[k] < a[k] /\ \A j \in 1 .. m : j < k => b[j] = a[j]
    BY <2>1, BeforeIs
  <2>4. i \in Int /\ k \in Int /\ a[i] \in Int /\ b[i] \in Int /\ a[k] \in Int /\ b[k] \in Int
    BY <1>1
  <2>5. ~ (k < i) /\ ~ (i < k)
    BY <2>2, <2>3, <2>4
  <2> QED BY <2>2, <2>3, <2>4, <2>5
<1>4. ASSUME a # b PROVE Before(a, b) \/ Before(b, a)
  <2> DEFINE D == {i \in 1 .. m : a[i] # b[i]}
  <2>1. D \in SUBSET Nat /\ D # {}
    BY <1>1, <1>4
  <2>2. PICK i \in D : \A j \in D : i <= j
    <3> HIDE DEF D
    <3> QED BY <2>1, LeastOf
  <2>3. \A j \in 1 .. m : j < i => a[j] = b[j]
    BY <2>2
  <2>4. a[i] \in Int /\ b[i] \in Int /\ a[i] # b[i] /\ i \in 1 .. m
    BY <1>1
  <2>5. a[i] < b[i] \/ b[i] < a[i]
    BY <2>4
  <2> QED BY <2>3, <2>4, <2>5, BeforeIs
<1> QED BY <1>2, <1>3, <1>4

LEMMA BeforeTransitive ==
  ASSUME NEW m \in Nat, NEW a \in Tuples(m), NEW b \in Tuples(m), NEW c \in Tuples(m),
         Before(a, b), Before(b, c)
  PROVE  Before(a, c)
<1>1. a \in [1 .. m -> Int] /\ b \in [1 .. m -> Int] /\ c \in [1 .. m -> Int]
  BY DEF Tuples
<1>2. PICK i \in 1 .. m : a[i] < b[i] /\ \A j \in 1 .. m : j < i => a[j] = b[j]
  BY BeforeIs
<1>3. PICK k \in 1 .. m : b[k] < c[k] /\ \A j \in 1 .. m : j < k => b[j] = c[j]
  BY BeforeIs
<1>4. i \in Int /\ k \in Int
  OBVIOUS
<1>5. CASE i < k
  <2>1. a[i] < c[i]
    BY <1>1, <1>2, <1>3, <1>5
  <2>2. \A j \in 1 .. m : j < i => a[j] = c[j]
    BY <1>2, <1>3, <1>4, <1>5
  <2> QED BY <2>1, <2>2, BeforeIs
<1>6. CASE k <= i
  <2>1. a[k] < c[k]
    <3>1. a[k] \in Int /\ b[k] \in Int /\ c[k] \in Int
      BY <1>1
    <3>2. a[k] <= b[k]
      BY <1>1, <1>2, <1>4, <1>6
    <3> QED BY <1>3, <3>1, <3>2
  <2>2. \A j \in 1 .. m : j < k => a[j] = c[j]
    BY <1>2, <1>3, <1>4, <1>6
  <2> QED BY <2>1, <2>2, BeforeIs
<1> QED BY <1>4, <1>5, <1>6

(* Positions and their keys.                                               *)
Keyed(S, key, m) ==
  S \in SUBSET Nat /\ IsFiniteSet(S) /\ m \in Nat /\ \A i \in S : key[i] \in Tuples(m)

(* Sorting by keys is a strict order of the positions: who is ahead of one  *)
(* that is ahead is ahead, and of two one is.                               *)
LEMMA AheadOrders ==
  ASSUME NEW S, NEW key, NEW m, Keyed(S, key, m), NEW i \in S, NEW j \in S
  PROVE  /\ i \notin Ahead(S, key, i)
         /\ j \in Ahead(S, key, i) => i \notin Ahead(S, key, j) /\ Ahead(S, key, j) \subseteq Ahead(S, key, i)
         /\ i = j \/ i \in Ahead(S, key, j) \/ j \in Ahead(S, key, i)
<1>1. m \in Nat /\ i \in Nat /\ j \in Nat /\ key[i] \in Tuples(m) /\ key[j] \in Tuples(m)
  BY DEF Keyed
<1>2. i \notin Ahead(S, key, i)
  BY <1>1, BeforeTotal DEF Ahead
<1>3. ASSUME j \in Ahead(S, key, i) PROVE i \notin Ahead(S, key, j)
  BY <1>1, <1>3, BeforeTotal DEF Ahead
<1>4. ASSUME j \in Ahead(S, key, i), NEW k \in Ahead(S, key, j) PROVE k \in Ahead(S, key, i)
  <2>1. k \in S /\ k \in Nat /\ key[k] \in Tuples(m)
    BY DEF Keyed, Ahead
  <2>2. Before(key[j], key[i]) \/ (key[j] = key[i] /\ j < i)
    BY <1>4 DEF Ahead
  <2>3. Before(key[k], key[j]) \/ (key[k] = key[j] /\ k < j)
    BY <1>4 DEF Ahead
  <2>4. Before(key[k], key[i]) \/ (key[k] = key[i] /\ k < i)
    <3>1. CASE Before(key[k], key[j]) /\ Before(key[j], key[i])
      BY <1>1, <2>1, <3>1, BeforeTransitive
    <3>2. CASE key[k] = key[j] /\ k < j /\ key[j] = key[i] /\ j < i
      BY <1>1, <2>1, <3>2
    <3> QED BY <2>2, <2>3, <3>1, <3>2
  <2> QED BY <2>1, <2>4 DEF Ahead
<1>5. i = j \/ i \in Ahead(S, key, j) \/ j \in Ahead(S, key, i)
  <2>1. CASE key[i] = key[j]
    <3>1. i = j \/ i < j \/ j < i
      BY <1>1
    <3> QED BY <2>1, <3>1 DEF Ahead
  <2>2. CASE key[i] # key[j]
    BY <1>1, <2>2, BeforeTotal DEF Ahead
  <2> QED BY <2>1, <2>2
<1> QED BY <1>2, <1>3, <1>4, <1>5

(* So who comes later has more ahead.                                       *)
LEMMA AheadCounts ==
  ASSUME NEW S, NEW key, NEW m, Keyed(S, key, m), NEW i \in S
  PROVE  /\ IsFiniteSet(Ahead(S, key, i)) /\ Cardinality(Ahead(S, key, i)) \in Nat
         /\ Cardinality(S) \in Nat /\ Cardinality(Ahead(S, key, i)) < Cardinality(S)
         /\ \A j \in S : j \in Ahead(S, key, i) <=> Cardinality(Ahead(S, key, j)) < Cardinality(Ahead(S, key, i))
         /\ \A j \in S : Cardinality(Ahead(S, key, j)) = Cardinality(Ahead(S, key, i)) => i = j
<1>1. IsFiniteSet(S) /\ \A x \in S : Ahead(S, key, x) \in SUBSET S
  BY DEF Keyed, Ahead
<1>2. \A x \in S : IsFiniteSet(Ahead(S, key, x)) /\ Cardinality(Ahead(S, key, x)) \in Nat
  BY <1>1, FS_Subset, FS_CardinalityType
<1>3. Cardinality(S) \in Nat
  BY <1>1, FS_CardinalityType
<1>4. ASSUME NEW T, IsFiniteSet(T), NEW U \in SUBSET T, NEW x \in T, x \notin U
      PROVE  Cardinality(U) < Cardinality(T)
  <2>1. Cardinality(U) <= Cardinality(T) /\ (Cardinality(T) = Cardinality(U) => T = U)
    BY <1>4, FS_Subset
  <2>2. IsFiniteSet(U) /\ Cardinality(U) \in Nat /\ Cardinality(T) \in Nat
    BY <1>4, FS_Subset, FS_CardinalityType
  <2> QED BY <1>4, <2>1, <2>2
<1>5. Cardinality(Ahead(S, key, i)) < Cardinality(S)
  BY <1>1, <1>4, AheadOrders
<1>6. ASSUME NEW x \in S, NEW y \in S, y \in Ahead(S, key, x)
      PROVE  Cardinality(Ahead(S, key, y)) < Cardinality(Ahead(S, key, x))
  <2>1. Ahead(S, key, y) \in SUBSET Ahead(S, key, x) /\ y \notin Ahead(S, key, y)
    BY <1>6, AheadOrders
  <2> QED BY <1>2, <1>4, <1>6, <2>1
<1>7. ASSUME NEW j \in S
      PROVE  /\ j \in Ahead(S, key, i) <=> Cardinality(Ahead(S, key, j)) < Cardinality(Ahead(S, key, i))
             /\ Cardinality(Ahead(S, key, j)) = Cardinality(Ahead(S, key, i)) => i = j
  <2>1. i = j \/ i \in Ahead(S, key, j) \/ j \in Ahead(S, key, i)
    BY AheadOrders
  <2>2. i \in Ahead(S, key, j) => Cardinality(Ahead(S, key, i)) < Cardinality(Ahead(S, key, j))
    BY <1>6
  <2>3. j \in Ahead(S, key, i) => Cardinality(Ahead(S, key, j)) < Cardinality(Ahead(S, key, i))
    BY <1>6
  <2>4. Cardinality(Ahead(S, key, i)) \in Nat /\ Cardinality(Ahead(S, key, j)) \in Nat
    BY <1>2
  <2>5. i = j => i \notin Ahead(S, key, j)
    BY AheadOrders
  <2> QED BY <2>1, <2>2, <2>3, <2>4, <2>5
<1> QED BY <1>2, <1>3, <1>5, <1>7

(* Every number of them is ahead of one of them.                            *)
LEMMA NthIs ==
  ASSUME NEW S, NEW key, NEW m, Keyed(S, key, m), NEW k \in 1 .. Cardinality(S)
  PROVE  Nth(S, key, k) \in S /\ Cardinality(Ahead(S, key, Nth(S, key, k))) = k - 1
<1> DEFINE n == Cardinality(S)
           f == [i \in S |-> Cardinality(Ahead(S, key, i)) + 1]
<1>1. IsFiniteSet(S) /\ n \in Nat
  BY FS_CardinalityType DEF Keyed
<1>2. f \in Injection(S, 1 .. n)
  <2>1. \A i \in S : f[i] \in 1 .. n
    BY <1>1, AheadCounts
  <2>2. ASSUME NEW i \in S, NEW j \in S, f[i] = f[j] PROVE i = j
    <3>1. Cardinality(Ahead(S, key, i)) \in Nat /\ Cardinality(Ahead(S, key, j)) \in Nat
      BY AheadCounts
    <3>2. Cardinality(Ahead(S, key, j)) = Cardinality(Ahead(S, key, i))
      BY <2>2, <3>1
    <3> QED BY <3>2, AheadCounts
  <2>3. f \in [S -> 1 .. n]
    BY <2>1
  <2> HIDE DEF f, n
  <2> QED BY <2>2, <2>3 DEF Injection, IsInjective
<1>3. IsFiniteSet(1 .. n) /\ Cardinality(1 .. n) = n
  BY <1>1, FS_Interval
<1>4. f \in Surjection(S, 1 .. n)
  <2> HIDE DEF f, n
  <2> QED BY <1>1, <1>2, <1>3, FS_Injection DEF n
<1>5. PICK i \in S : f[i] = k
  BY <1>4 DEF Surjection
<1>6. Cardinality(Ahead(S, key, i)) = k - 1
  <2>1. Cardinality(Ahead(S, key, i)) \in Nat
    BY AheadCounts
  <2> QED BY <1>5, <2>1
<1> QED BY <1>6 DEF Nth

(* In order, each is there once, and one before another is ahead of it.     *)
LEMMA Sorts ==
  ASSUME NEW S, NEW key, NEW m, Keyed(S, key, m)
  PROVE  /\ InOrder(S, key) \in Seq(S) /\ Len(InOrder(S, key)) = Cardinality(S) /\ Cardinality(S) \in Nat
         /\ DOMAIN InOrder(S, key) = 1 .. Cardinality(S)
         /\ \A k \in 1 .. Cardinality(S) :
              InOrder(S, key)[k] \in S /\ Cardinality(Ahead(S, key, InOrder(S, key)[k])) = k - 1
         /\ \A k, l \in 1 .. Cardinality(S) : k < l => InOrder(S, key)[k] \in Ahead(S, key, InOrder(S, key)[l])
         /\ \A i \in S : \E k \in 1 .. Cardinality(S) : InOrder(S, key)[k] = i
<1> DEFINE n == Cardinality(S)
           order == InOrder(S, key)
<1>1. n \in Nat
  BY FS_CardinalityType DEF Keyed
<1>2. order = [k \in 1 .. n |-> Nth(S, key, k)]
  BY DEF InOrder
<1>3. \A k \in 1 .. n : order[k] \in S /\ Cardinality(Ahead(S, key, order[k])) = k - 1
  BY <1>2, NthIs
<1> HIDE DEF order
<1>4. order \in Seq(S) /\ Len(order) = n /\ DOMAIN order = 1 .. n
  BY <1>1, <1>2, <1>3
<1>5. ASSUME NEW k \in 1 .. n, NEW l \in 1 .. n, k < l
      PROVE  order[k] \in Ahead(S, key, order[l])
  <2>1. k - 1 < l - 1
    BY <1>1, <1>5
  <2> QED BY <1>3, <2>1, AheadCounts
<1>6. ASSUME NEW i \in S
      PROVE  \E k \in 1 .. n : order[k] = i
  <2> DEFINE k == Cardinality(Ahead(S, key, i)) + 1
  <2>1. k \in 1 .. n /\ Cardinality(Ahead(S, key, i)) = k - 1
    BY <1>1, AheadCounts
  <2>2. order[k] \in S /\ Cardinality(Ahead(S, key, order[k])) = Cardinality(Ahead(S, key, i))
    BY <1>3, <2>1
  <2> QED BY <2>1, <2>2, AheadCounts
<1> QED BY <1>1, <1>3, <1>4, <1>5, <1>6 DEF order

(* n steps from start, the i-th made by G[i].                               *)
Steps(f, n, start, G) == f[0] = start /\ \A i \in 1 .. n : f[i] = G[i][f[i - 1]]
Stays(G, n, V) == \A i \in 1 .. n : \A v \in V : G[i][v] \in V

(* They can be taken.                                                       *)
LEMMA StepsTaken ==
  ASSUME NEW n \in Nat, NEW V, NEW start \in V, NEW G, Stays(G, n, V)
  PROVE  \E f \in [0 .. n -> V] : Steps(f, n, start, G)
<1>0. \A i \in 1 .. n : \A v \in V : G[i][v] \in V
  BY DEF Stays
<1> DEFINE Reached(m) == \E f \in [0 .. m -> V] :
                         f[0] = start /\ \A i \in 1 .. m : f[i] = G[i][f[i - 1]]
           T == {m \in 0 .. n : ~ Reached(m)}
<1>1. T = {}
  <2> SUFFICES ASSUME T # {} PROVE FALSE
    OBVIOUS
  <2>1. PICK m \in T : \A k \in T : m <= k
    <3>1. T \in SUBSET Nat
      OBVIOUS
    <3> HIDE DEF T
    <3> QED BY <3>1, LeastOf
  <2>2. m \in 0 .. n /\ ~ Reached(m)
    OBVIOUS
  <2>3. CASE m = 0
    <3> DEFINE h == [i \in 0 .. 0 |-> start]
    <3>1. h \in [0 .. 0 -> V] /\ h[0] = start /\ 1 .. 0 = {}
      OBVIOUS
    <3> HIDE DEF h
    <3>2. Reached(0)
      BY <3>1
    <3> QED BY <2>2, <2>3, <3>2
  <2>4. CASE m # 0
    <3>1. m - 1 \in 0 .. n /\ m - 1 \notin T
      <4>1. m - 1 \in 0 .. n /\ ~ (m <= m - 1)
        BY <2>2, <2>4
      <4> HIDE DEF T
      <4> QED BY <2>1, <4>1
    <3>2. PICK f \in [0 .. m - 1 -> V] :
            f[0] = start /\ \A i \in 1 .. m - 1 : f[i] = G[i][f[i - 1]]
      BY <3>1
    <3> DEFINE h == [i \in 0 .. m |-> IF i = m THEN G[m][f[m - 1]] ELSE f[i]]
    <3>3. f[m - 1] \in V /\ G[m][f[m - 1]] \in V
      BY <1>0, <2>2, <2>4, <3>2
    <3>4. h \in [0 .. m -> V]
      BY <2>2, <3>2, <3>3
    <3>5. h[0] = start /\ \A i \in 1 .. m : h[i] = G[i][h[i - 1]]
      BY <2>2, <2>4, <3>2
    <3>6. Reached(m)
      BY <3>4, <3>5
    <3> QED BY <2>2, <3>6
  <2> QED BY <2>3, <2>4
<1>2. Reached(n)
  BY <1>1
<1> QED BY <1>2 DEF Steps

(* What each step keeps holds after all of them.                            *)
LEMMA StepsKeep ==
  ASSUME NEW n \in Nat, NEW f, NEW Y, f[0] \in Y[0],
         \A i \in 1 .. n : f[i - 1] \in Y[i - 1] => f[i] \in Y[i]
  PROVE  \A i \in 0 .. n : f[i] \in Y[i]
<1> DEFINE T == {m \in 0 .. n : f[m] \notin Y[m]}
<1>1. T = {}
  <2> SUFFICES ASSUME T # {} PROVE FALSE
    OBVIOUS
  <2>1. PICK m \in T : \A k \in T : m <= k
    <3>1. T \in SUBSET Nat
      OBVIOUS
    <3> HIDE DEF T
    <3> QED BY <3>1, LeastOf
  <2>2. m \in 1 .. n /\ m - 1 \in 0 .. n /\ ~ (m <= m - 1)
    OBVIOUS
  <2>3. f[m - 1] \in Y[m - 1]
    BY <2>1, <2>2
  <2> QED BY <2>2, <2>3
<1> QED BY <1>1
-----------------------------------------------------------------------------
(* The row of a guid is one of the rows, of that guid, and the only one.    *)
LEMMA ByGuidIs ==
  ASSUME NEW starts, starts \in Seq(ToSet(starts)), NEW guid
  PROVE  /\ ByGuid(starts, guid) \subseteq ToSet(starts)
         /\ \A a \in ByGuid(starts, guid) : a.guid = guid /\ \A b \in ByGuid(starts, guid) : a = b
<1> DEFINE having == {i \in DOMAIN starts : starts[i].guid = guid /\ guid # Nobody}
<1>1. having \in SUBSET Nat /\ IsFiniteSet(having)
  <2>1. DOMAIN starts = 1 .. Len(starts) /\ Len(starts) \in Nat
    OBVIOUS
  <2>2. IsFiniteSet(1 .. Len(starts)) /\ having \in SUBSET (1 .. Len(starts))
    BY <2>1, FS_Interval
  <2> QED BY <2>1, <2>2, FS_Subset
<1>2. ByGuid(starts, guid) = IF having = {} THEN {} ELSE {starts[Max(having)]}
  BY DEF ByGuid
<1>3. having # {} => Max(having) \in having
  <2> HIDE DEF having
  <2> QED BY <1>1, MaxIsGreatest
<1> QED BY <1>2, <1>3 DEF ToSet

(* A lineage as far as it is known: every row in it is the recorded parent  *)
(* of the one before, and each is of a guid of its own.                     *)
ChildAt(row, line, i) == IF i = 0 THEN row ELSE line[i]
LineUp(starts, row, line) ==
  /\ line \in Seq(ToSet(starts))
  /\ \A i \in 1 .. Len(line) : /\ line[i] \in ByGuid(starts, ChildAt(row, line, i - 1).parent)
                               /\ line[i].guid # row.guid
                               /\ \A j \in 1 .. Len(line) : line[i].guid = line[j].guid => i = j
Topmost(starts, row, line) ==
  \A a \in ByGuid(starts, ChildAt(row, line, Len(line)).parent) :
    a.guid = row.guid \/ \E i \in 1 .. Len(line) : line[i].guid = a.guid

LEMMA Climbs ==
  ASSUME NEW starts, starts \in Seq(ToSet(starts)), NEW row, NEW line, LineUp(starts, row, line)
  PROVE  /\ LineUp(starts, row, Climb(starts, row, line))
         /\ Topmost(starts, row, line) => Climb(starts, row, line) = line
         /\ ~ Topmost(starts, row, line) => Len(Climb(starts, row, line)) = Len(line) + 1
<1> DEFINE met == {row.guid} \cup {line[i].guid : i \in DOMAIN line}
           child == IF line = <<>> THEN row ELSE line[Len(line)]
           next == {a \in ByGuid(starts, child.parent) : a.guid \notin met}
           up == CHOOSE a \in next : TRUE
<1>1. line \in Seq(ToSet(starts)) /\ Len(line) \in Nat /\ DOMAIN line = 1 .. Len(line)
  BY DEF LineUp
<1>2. child = ChildAt(row, line, Len(line))
  BY <1>1 DEF ChildAt
<1>3. Climb(starts, row, line) = IF next = {} THEN line ELSE Append(line, up)
  BY DEF Climb
<1>4. Topmost(starts, row, line) <=> next = {}
  <2>1. \A a : a.guid \in met <=> a.guid = row.guid \/ \E i \in 1 .. Len(line) : line[i].guid = a.guid
    BY <1>1
  <2> HIDE DEF met, child
  <2> QED BY <1>2, <2>1 DEF Topmost
<1>5. CASE next = {}
  BY <1>3, <1>4, <1>5
<1>6. CASE next # {}
  <2> DEFINE more == Append(line, up)
  <2>1. up \in next
    BY <1>6
  <2>2. up \in ByGuid(starts, child.parent) /\ up.guid # row.guid /\ \A i \in 1 .. Len(line) : line[i].guid # up.guid
    BY <1>1, <2>1
  <2>3. up \in ToSet(starts)
    BY <2>2, ByGuidIs
  <2> HIDE DEF up, next, met
  <2>4. /\ more \in Seq(ToSet(starts)) /\ Len(more) = Len(line) + 1 /\ more[Len(line) + 1] = up
        /\ \A i \in 1 .. Len(line) : more[i] = line[i]
    BY <1>1, <2>3
  <2> HIDE DEF more
  <2>5. \A i \in 1 .. Len(line) : ChildAt(row, more, i - 1) = ChildAt(row, line, i - 1)
    BY <1>1, <2>4 DEF ChildAt
  <2>6. ChildAt(row, more, Len(line)) = child
    BY <1>1, <1>2, <2>4 DEF ChildAt
  <2>7. ASSUME NEW i \in 1 .. Len(more)
        PROVE  /\ more[i] \in ByGuid(starts, ChildAt(row, more, i - 1).parent)
               /\ more[i].guid # row.guid
               /\ \A j \in 1 .. Len(more) : more[i].guid = more[j].guid => i = j
    <3>1. CASE i \in 1 .. Len(line)
      <4>1. more[i] = line[i] /\ ChildAt(row, more, i - 1) = ChildAt(row, line, i - 1)
        BY <2>4, <2>5, <3>1
      <4>2. \A j \in 1 .. Len(more) : j \in 1 .. Len(line) \/ j = Len(line) + 1
        BY <1>1, <2>4
      <4> QED BY <2>2, <2>4, <3>1, <4>1, <4>2 DEF LineUp
    <3>2. CASE i = Len(line) + 1
      <4>1. more[i] = up /\ ChildAt(row, more, i - 1) = child
        BY <1>1, <2>4, <2>6, <3>2
      <4>2. \A j \in 1 .. Len(more) : j \in 1 .. Len(line) \/ j = i
        BY <1>1, <2>4, <3>2
      <4> QED BY <2>2, <2>4, <4>1, <4>2
    <3> QED BY <1>1, <2>4, <3>1, <3>2
  <2>8. LineUp(starts, row, more)
    BY <2>4, <2>7 DEF LineUp
  <2> QED BY <1>3, <1>4, <1>6, <2>4, <2>8 DEF more
<1> QED BY <1>5, <1>6

(* As many turns as there are rows are enough: the loop ends at the top.    *)
LEMMA LineageIs ==
  ASSUME NEW starts, starts \in Seq(ToSet(starts)), NEW row
  PROVE  LineUp(starts, row, Lineage(starts, row)) /\ Topmost(starts, row, Lineage(starts, row))
<1> DEFINE n == Len(starts)
           V == {line \in Seq(ToSet(starts)) : LineUp(starts, row, line)}
           G == [i \in 1 .. n |-> [v \in V |-> Climb(starts, row, v)]]
           Is(f) == f = [k \in 0 .. n |-> IF k = 0 THEN <<>> ELSE Climb(starts, row, f[k - 1])]
           line == CHOOSE f : Is(f)
<1>1. n \in Nat
  OBVIOUS
<1>2. Lineage(starts, row) = line[n]
  BY DEF Lineage
<1>3. <<>> \in V
  BY DEF LineUp
<1>4. \A v \in V : Climb(starts, row, v) \in V
  BY Climbs DEF LineUp
<1> HIDE DEF V, n
<1>5. Stays(G, n, V) /\ \A i \in 1 .. n : \A v \in V : G[i][v] = Climb(starts, row, v)
  BY <1>4 DEF Stays
<1> HIDE DEF G
<1>6. PICK f \in [0 .. n -> V] : Steps(f, n, <<>>, G)
  BY <1>1, <1>3, <1>5, StepsTaken
<1>7. Is(f)
  <2>1. \A i \in 0 .. n : i # 0 => i \in 1 .. n
    BY <1>1
  <2>2. f[0] = <<>> /\ \A i \in 1 .. n : f[i - 1] \in V /\ f[i] = Climb(starts, row, f[i - 1])
    BY <1>1, <1>5, <1>6 DEF Steps
  <2> QED BY <1>6, <2>1, <2>2
<1>8. Is(line)
  BY <1>7
<1> HIDE DEF line
<1>9. line[0] = <<>> /\ \A i \in 1 .. n : line[i] = Climb(starts, row, line[i - 1])
  <2>1. \A i \in 0 .. n : line[i] = IF i = 0 THEN <<>> ELSE Climb(starts, row, line[i - 1])
    BY <1>8, Zenon
  <2>2. 0 \in 0 .. n /\ \A i \in 1 .. n : i \in 0 .. n /\ i # 0
    BY <1>1
  <2> QED BY <2>1, <2>2, Zenon
<1> DEFINE Y == [i \in 0 .. n |-> {v \in V : Len(v) = i \/ Topmost(starts, row, v)}]
<1>10. \A i \in 0 .. n : line[i] \in Y[i]
  <2>1. line[0] \in Y[0]
    BY <1>1, <1>3, <1>9
  <2>2. ASSUME NEW i \in 1 .. n, line[i - 1] \in Y[i - 1] PROVE line[i] \in Y[i]
    <3>1. i - 1 \in 0 .. n /\ i \in 0 .. n
      BY <1>1
    <3>2. line[i - 1] \in V /\ (Len(line[i - 1]) = i - 1 \/ Topmost(starts, row, line[i - 1]))
      BY <2>2, <3>1
    <3>3. LineUp(starts, row, line[i - 1])
      BY <3>2 DEF V
    <3>4. line[i] = Climb(starts, row, line[i - 1]) /\ line[i] \in V
      BY <1>4, <1>9, <3>2
    <3>5. Len(line[i]) = i \/ Topmost(starts, row, line[i])
      <4>1. CASE Topmost(starts, row, line[i - 1])
        BY <3>3, <3>4, <4>1, Climbs
      <4>2. CASE ~ Topmost(starts, row, line[i - 1])
        BY <3>2, <3>3, <3>4, <4>2, Climbs
      <4> QED BY <4>1, <4>2
    <3> QED BY <3>1, <3>4, <3>5
  <2> HIDE DEF Y
  <2> QED BY <1>1, <2>1, <2>2, StepsKeep
<1>11. line[n] \in V /\ (Len(line[n]) = n \/ Topmost(starts, row, line[n]))
  BY <1>1, <1>10
<1>12. LineUp(starts, row, line[n])
  BY <1>11 DEF V
<1>13. ASSUME Len(line[n]) = n, ~ Topmost(starts, row, line[n]) PROVE FALSE
  <2> DEFINE more == Climb(starts, row, line[n])
  <2>1. LineUp(starts, row, more) /\ Len(more) = n + 1
    BY <1>12, <1>13, Climbs
  <2> HIDE DEF more
  <2>2. more \in [1 .. n + 1 -> ToSet(starts)]
    BY <2>1 DEF LineUp
  <2>3. IsFiniteSet(ToSet(starts)) /\ Cardinality(ToSet(starts)) < n + 1
    <3>1. starts \in Surjection(1 .. n, ToSet(starts))
      BY <1>1 DEF ToSet, Surjection, n
    <3>2. IsFiniteSet(1 .. n) /\ Cardinality(1 .. n) = n
      BY <1>1, FS_Interval
    <3>3. IsFiniteSet(ToSet(starts)) /\ Cardinality(ToSet(starts)) <= n
      BY <3>1, <3>2, FS_Surjection
    <3> QED BY <1>1, <3>3, FS_CardinalityType
  <2>4. IsFiniteSet(1 .. n + 1) /\ Cardinality(1 .. n + 1) = n + 1
    BY <1>1, FS_Interval
  <2>5. PICK x \in 1 .. n + 1, y \in 1 .. n + 1 : x # y /\ more[x] = more[y]
    BY <2>2, <2>3, <2>4, FS_PigeonHole
  <2> QED BY <2>1, <2>5 DEF LineUp
<1> QED BY <1>2, <1>11, <1>12, <1>13

(* The turns of _lineage end at the top of what is recorded: the lineage of a *)
(* row is what it descends from, loops of parents or no.                    *)
THEOREM LineageIsAncestry ==
  ASSUME NEW starts, starts \in Seq(ToSet(starts)), NEW row
  PROVE  ToSet(Lineage(starts, row)) = Ancestry(starts, row)
<1> DEFINE line == Lineage(starts, row)
<1>1. LineUp(starts, row, line) /\ Topmost(starts, row, line)
  BY LineageIs
<1> HIDE DEF line
<1>2. /\ line \in Seq(ToSet(starts)) /\ Len(line) \in Nat /\ DOMAIN line = 1 .. Len(line)
      /\ ToSet(line) \in SUBSET ToSet(starts)
  BY <1>1 DEF LineUp, ToSet
<1>3. ASSUME NEW S, Ascends(starts, row, S), NEW i \in 1 .. Len(line) PROVE line[i] \in S
  <2> DEFINE T == {k \in 1 .. Len(line) : line[k] \notin S}
  <2>1. SUFFICES ASSUME T # {} PROVE FALSE
    OBVIOUS
  <2>2. PICK k \in T : \A j \in T : k <= j
    <3>1. T \in SUBSET Nat
      OBVIOUS
    <3> HIDE DEF T
    <3> QED BY <2>1, <3>1, LeastOf
  <2>3. k \in 1 .. Len(line) /\ line[k] \notin S
    OBVIOUS
  <2>4. ChildAt(row, line, k - 1) \in {row} \cup S
    <3>1. CASE k = 1
      BY <3>1 DEF ChildAt
    <3>2. CASE k # 1
      <4>1. k - 1 \in 1 .. Len(line) /\ ~ (k <= k - 1) /\ k - 1 # 0
        BY <1>2, <2>3, <3>2
      <4> QED BY <2>2, <4>1 DEF ChildAt
    <3> QED BY <3>1, <3>2
  <2>5. line[k] \in ByGuid(starts, ChildAt(row, line, k - 1).parent) /\ line[k].guid # row.guid
    BY <1>1, <2>3 DEF LineUp
  <2> QED BY <1>3, <2>3, <2>4, <2>5 DEF Ascends
<1>4. Ascends(starts, row, ToSet(line))
  <2> SUFFICES ASSUME NEW child \in {row} \cup ToSet(line), NEW a \in ByGuid(starts, child.parent), a.guid # row.guid
               PROVE  a \in ToSet(line)
    BY DEF Ascends
  <2>1. PICK i \in 0 .. Len(line) : child = ChildAt(row, line, i)
    <3>1. CASE child = row
      BY <1>2, <3>1 DEF ChildAt
    <3>2. CASE child \in ToSet(line)
      <4>1. PICK j \in 1 .. Len(line) : child = line[j]
        BY <1>2, <3>2 DEF ToSet
      <4> QED BY <1>2, <4>1 DEF ChildAt
    <3> QED BY <3>1, <3>2
  <2>2. CASE i < Len(line)
    <3>1. i + 1 \in 1 .. Len(line) /\ (i + 1) - 1 = i
      BY <1>2, <2>2
    <3>2. line[i + 1] \in ByGuid(starts, child.parent)
      BY <1>1, <2>1, <3>1 DEF LineUp
    <3>3. a = line[i + 1]
      BY <3>2, ByGuidIs
    <3> QED BY <1>2, <3>1, <3>3 DEF ToSet
  <2>3. CASE i = Len(line)
    <3>1. PICK j \in 1 .. Len(line) : line[j].guid = a.guid
      BY <1>1, <2>1, <2>3 DEF Topmost
    <3>2. line[j] \in ByGuid(starts, ChildAt(row, line, j - 1).parent)
      BY <1>1 DEF LineUp
    <3>3. line[j] \in ByGuid(starts, line[j].guid) /\ a \in ByGuid(starts, a.guid)
      BY <3>2, ByGuidIs
    <3>4. a = line[j]
      BY <3>1, <3>3, ByGuidIs
    <3> QED BY <1>2, <3>4 DEF ToSet
  <2>4. i < Len(line) \/ i = Len(line)
    <3> DEFINE n == Len(line)
    <3>1. n \in Nat /\ i \in 0 .. n
      BY <1>2
    <3> HIDE DEF n
    <3>2. i < n \/ i = n
      BY <3>1
    <3> QED BY <3>2 DEF n
  <2> QED BY <2>2, <2>3, <2>4
<1>5. ASSUME NEW a \in ToSet(line) PROVE a \in Ancestry(starts, row)
  <2>1. PICK i \in 1 .. Len(line) : a = line[i]
    BY <1>2 DEF ToSet
  <2> QED BY <1>2, <1>3, <2>1 DEF Ancestry
<1>6. ASSUME NEW a \in Ancestry(starts, row) PROVE a \in ToSet(line)
  <2> DEFINE S == ToSet(line)
  <2>1. S \in SUBSET ToSet(starts) /\ Ascends(starts, row, S)
    BY <1>2, <1>4
  <2> HIDE DEF S
  <2>2. a \in S
    BY <1>6, <2>1 DEF Ancestry
  <2> QED BY <2>2 DEF S
<1> QED BY <1>5, <1>6 DEF line
-----------------------------------------------------------------------------
(* A recording as it should be: rows in a sequence, with times and ids.     *)
Proper(recording) ==
  /\ recording.name \in Int
  /\ recording.rows \in Seq(ToSet(recording.rows))
  /\ \A i \in DOMAIN recording.rows : recording.rows[i].utc \in Int /\ recording.rows[i].id \in Int

LEMMA InfrastructureIs ==
  ASSUME NEW recording, Proper(recording), NEW row
  PROVE  IsInfrastructure(recording, row) <=> OfRecorder(recording, row)
<1>1. ToSet(Lineage(recording.rows, row)) = Ancestry(recording.rows, row)
  BY LineageIsAncestry DEF Proper
<1> QED BY <1>1, Zenon DEF IsInfrastructure, OfRecorder

(* Who is malicious after so many turns, and the order of the turns.        *)
Accused(f, recording, order) ==
  /\ f[0] = {}
  /\ \A k \in 1 .. Len(order) :
       f[k] = f[k - 1] \cup
         {row.guid : row \in {r \in {recording.rows[order[k]]} : LabelOf(recording, r, f[k - 1]) = 1}}

TurnOf(order, i) == CHOOSE k \in DOMAIN order : order[k] = i
LabelledBy(f, recording, order) ==
  [i \in DOMAIN recording.rows |->
     <<recording, recording.rows[i], LabelOf(recording, recording.rows[i], f[TurnOf(order, i) - 1])>>]

LEMMA LabelsAlong ==
  ASSUME NEW recording, NEW order, Len(order) \in Nat
  PROVE  \E f : Accused(f, recording, order) /\ LabelAlong(recording, order) = LabelledBy(f, recording, order)
<1> DEFINE starts == recording.rows
           n == Len(order)
           Next(k, v) == v \cup {row.guid : row \in {r \in {starts[order[k]]} : LabelOf(recording, r, v) = 1}}
           V == SUBSET {starts[order[k]].guid : k \in 1 .. n}
           G == [k \in 1 .. n |-> [v \in V |-> Next(k, v)]]
           Is(f) == f = [k \in 0 .. n |-> IF k = 0 THEN {} ELSE Next(k, f[k - 1])]
           malicious == CHOOSE f : Is(f)
<1>1. LabelAlong(recording, order) = LabelledBy(malicious, recording, order)
  BY DEF LabelAlong, LabelledBy, TurnOf
<1>2. n \in Nat /\ {} \in V
  OBVIOUS
<1>3. \A k \in 1 .. n : \A v \in V : Next(k, v) \in V
  OBVIOUS
<1> HIDE DEF Next, V, n
<1>4. Stays(G, n, V) /\ \A i \in 1 .. n : \A v \in V : G[i][v] = Next(i, v)
  BY <1>3 DEF Stays
<1> HIDE DEF G
<1>5. PICK f \in [0 .. n -> V] : Steps(f, n, {}, G)
  BY <1>2, <1>4, StepsTaken
<1>6. Is(f)
  <2>1. \A i \in 0 .. n : i # 0 => i \in 1 .. n
    BY <1>2
  <2>2. f[0] = {} /\ \A i \in 1 .. n : f[i - 1] \in V /\ f[i] = Next(i, f[i - 1])
    BY <1>2, <1>4, <1>5 DEF Steps
  <2> QED BY <1>5, <2>1, <2>2
<1>7. Is(malicious)
  BY <1>6
<1> HIDE DEF malicious
<1>8. malicious[0] = {} /\ \A i \in 1 .. n : malicious[i] = Next(i, malicious[i - 1])
  <2>1. \A i \in 0 .. n : malicious[i] = IF i = 0 THEN {} ELSE Next(i, malicious[i - 1])
    BY <1>7, Zenon
  <2>2. 0 \in 0 .. n /\ \A i \in 1 .. n : i \in 0 .. n /\ i # 0
    BY <1>2
  <2> QED BY <2>1, <2>2, Zenon
<1>9. Accused(malicious, recording, order)
  BY <1>8 DEF Accused, Next, n
<1> QED BY <1>1, <1>9

(* Once malicious, always malicious.                                       *)
LEMMA AccusedGrows ==
  ASSUME NEW recording, NEW order, Len(order) \in Nat, NEW f, Accused(f, recording, order),
         NEW k \in 0 .. Len(order), NEW x \in f[k]
  PROVE  \A l \in k .. Len(order) : x \in f[l]
<1> DEFINE T == {l \in k .. Len(order) : x \notin f[l]}
<1>1. SUFFICES ASSUME T # {} PROVE FALSE
  OBVIOUS
<1>2. PICK l \in T : \A j \in T : l <= j
  <2>1. T \in SUBSET Nat
    OBVIOUS
  <2> HIDE DEF T
  <2> QED BY <1>1, <2>1, LeastOf
<1>3. l \in k .. Len(order) /\ x \notin f[l] /\ l # k
  OBVIOUS
<1>4. l \in 1 .. Len(order) /\ l - 1 \in k .. Len(order) /\ ~ (l <= l - 1)
  BY <1>3
<1>5. x \in f[l - 1]
  BY <1>2, <1>4
<1> QED BY <1>3, <1>4, <1>5 DEF Accused

(* The labels of an attack recording: none of the recorder's is malicious, *)
(* and what descends from an attack is, if its turn comes later.            *)
LEMMA AttackLabels ==
  ASSUME NEW recording, Proper(recording),
         NEW i \in DOMAIN recording.rows, NEW j \in DOMAIN recording.rows
  PROVE  LET labels == LabelAttackRecording(recording)
             row == recording.rows[i]
         IN  /\ labels[i] = <<recording, row, labels[i][3]>>
             /\ OfRecorder(recording, row) => labels[i][3] # 1
             /\ (/\ labels[j][3] = 1 /\ ParentsFirst(recording)
                 /\ recording.rows[j] \in Ancestry(recording.rows, row))
                => labels[i][3] = 1 \/ OfRecorder(recording, row) \/ row.image \in {"console", "defensive", "browser"}
<1> DEFINE starts == recording.rows
           labels == LabelAttackRecording(recording)
           S == DOMAIN starts
           key == [x \in DOMAIN starts |-> <<starts[x].utc, starts[x].id>>]
           order == ByTime(starts)
           turnOf(x) == TurnOf(order, x)
<1>1. S = 1 .. Len(starts) /\ Len(starts) \in Nat
  BY DEF Proper
<1>2. Keyed(S, key, 2)
  <2>1. \A x \in S : key[x] \in Tuples(2)
    <3> SUFFICES ASSUME NEW x \in S PROVE key[x] \in Tuples(2)
      OBVIOUS
    <3>1. starts[x].utc \in Int /\ starts[x].id \in Int
      BY DEF Proper
    <3>2. <<starts[x].utc, starts[x].id>> \in Seq(Int) /\ Len(<<starts[x].utc, starts[x].id>>) = 2
      BY <3>1
    <3> QED BY <3>2 DEF Tuples
  <2>2. IsFiniteSet(S) /\ S \in SUBSET Nat
    <3>1. IsFiniteSet(1 .. Len(starts)) /\ (1 .. Len(starts)) \in SUBSET Nat
      <4> DEFINE n == Len(starts)
      <4>1. n \in Nat
        BY <1>1
      <4> HIDE DEF n
      <4>2. IsFiniteSet(1 .. n) /\ (1 .. n) \in SUBSET Nat
        BY <4>1, FS_Interval
      <4> QED BY <4>2 DEF n
    <3> HIDE DEF S
    <3> QED BY <1>1, <3>1
  <2> HIDE DEF S, key
  <2> QED BY <2>1, <2>2 DEF Keyed
<1>3. order = InOrder(S, key)
  BY DEF ByTime
<1>4. /\ Len(order) \in Nat /\ DOMAIN order = 1 .. Len(order)
      /\ \A k \in 1 .. Len(order) : order[k] \in S
      /\ \A k, l \in 1 .. Len(order) : k < l => order[k] \in Ahead(S, key, order[l])
      /\ \A x \in S : \E k \in 1 .. Len(order) : order[k] = x
  <2> DEFINE n == Cardinality(S)
             sorted == InOrder(S, key)
  <2> HIDE DEF S, key, order
  <2>1. /\ sorted \in Seq(S) /\ Len(sorted) = n /\ n \in Nat /\ DOMAIN sorted = 1 .. n
        /\ \A k \in 1 .. n : sorted[k] \in S
        /\ \A k, l \in 1 .. n : k < l => sorted[k] \in Ahead(S, key, sorted[l])
        /\ \A x \in S : \E k \in 1 .. n : sorted[k] = x
    BY <1>2, Sorts
  <2> HIDE DEF n
  <2> QED BY <1>3, <2>1
<1>5. PICK f : Accused(f, recording, order) /\ LabelAlong(recording, order) = LabelledBy(f, recording, order)
  <2> HIDE DEF order
  <2> QED BY <1>4, LabelsAlong
<1>51. labels = [x \in S |-> <<recording, starts[x], LabelOf(recording, starts[x], f[turnOf(x) - 1])>>]
  <2>1. labels = LabelAlong(recording, order)
    BY DEF LabelAttackRecording
  <2> HIDE DEF order, labels
  <2> QED BY <1>5, <2>1 DEF LabelledBy
<1> HIDE DEF order, labels
<1>6. \A x \in S : turnOf(x) \in 1 .. Len(order) /\ order[turnOf(x)] = x
  BY <1>4 DEF TurnOf
<1> HIDE DEF turnOf
<1>7. \A x \in S : labels[x] = <<recording, starts[x], labels[x][3]>>
                   /\ labels[x][3] = LabelOf(recording, starts[x], f[turnOf(x) - 1])
  BY <1>51
<1>8. ASSUME OfRecorder(recording, starts[i]) PROVE labels[i][3] # 1
  <2>1. IsInfrastructure(recording, starts[i])
    BY <1>8, InfrastructureIs
  <2>2. labels[i][3] \in {Unlabelled, 0}
    BY <1>7, <2>1 DEF LabelOf
  <2> QED BY <2>2, LabelAssumption
<1>9. ASSUME labels[j][3] = 1, ParentsFirst(recording), starts[j] \in Ancestry(starts, starts[i]),
             ~ OfRecorder(recording, starts[i]), starts[i].image \notin {"console", "defensive", "browser"}
      PROVE  labels[i][3] = 1
  <2>1. Before(key[j], key[i])
    <3>1. starts[i] \in ToSet(starts)
      BY DEF ToSet
    <3>2. Before(<<starts[j].utc, starts[j].id>>, <<starts[i].utc, starts[i].id>>)
      BY <1>9, <3>1 DEF ParentsFirst
    <3> QED BY <3>2
  <2>2. j \in Ahead(S, key, i)
    BY <2>1 DEF Ahead
  <2>3. turnOf(j) < turnOf(i)
    <3>1. /\ turnOf(i) \in 1 .. Len(order) /\ turnOf(j) \in 1 .. Len(order)
          /\ order[turnOf(i)] = i /\ order[turnOf(j)] = j
      BY <1>6
    <3>2. CASE turnOf(i) < turnOf(j)
      <4>1. i \in Ahead(S, key, j)
        BY <1>4, <3>1, <3>2
      <4> HIDE DEF S, key
      <4> QED BY <1>2, <2>2, <4>1, AheadOrders DEF S
    <3>3. CASE turnOf(i) = turnOf(j)
      <4>1. i \in Ahead(S, key, i)
        BY <2>2, <3>1, <3>3
      <4> HIDE DEF key
      <4> QED BY <1>2, <4>1, AheadOrders
    <3> QED BY <1>4, <3>1, <3>2, <3>3
  <2>4. starts[j].guid \in f[turnOf(j)]
    <3>1. turnOf(j) \in 1 .. Len(order) /\ order[turnOf(j)] = j
      BY <1>6
    <3>2. LabelOf(recording, starts[j], f[turnOf(j) - 1]) = 1
      BY <1>7, <1>9
    <3>3. f[turnOf(j)] = f[turnOf(j) - 1] \cup
            {row.guid :
               row \in {r \in {recording.rows[order[turnOf(j)]]} : LabelOf(recording, r, f[turnOf(j) - 1]) = 1}}
      BY <1>5, <3>1 DEF Accused
    <3> QED BY <3>1, <3>2, <3>3
  <2>5. starts[j].guid \in f[turnOf(i) - 1]
    <3>1. turnOf(j) \in 0 .. Len(order) /\ turnOf(i) - 1 \in turnOf(j) .. Len(order)
      BY <1>4, <1>6, <2>3
    <3> QED BY <1>4, <1>5, <2>4, <3>1, AccusedGrows
  <2>6. starts[j] \in ToSet(Lineage(starts, starts[i]))
    BY <1>9, LineageIsAncestry DEF Proper
  <2>7. ~ IsInfrastructure(recording, starts[i])
    BY <1>9, InfrastructureIs
  <2>8. \E a \in ToSet(Lineage(starts, starts[i])) : a.guid \in f[turnOf(i) - 1]
    BY <2>5, <2>6
  <2>9. LabelOf(recording, starts[i], f[turnOf(i) - 1]) = 1
    BY <1>9, <2>7, <2>8 DEF LabelOf
  <2> QED BY <1>7, <2>9
<1> QED BY <1>7, <1>8, <1>9 DEF labels
-----------------------------------------------------------------------------
(* Labelling keeps to the recordings that were read, each row in its place. *)
Recs == UNION {ToSet(corpus) : corpus \in RecordingSets}
OfRecs(l) == l[1] \in Recs /\ l[2] \in ToSet(l[1].rows)
AsAttack(l) ==
  l[1].source \notin ReaderLabelled \cup {"botsv1"} =>
    \E i \in DOMAIN l[1].rows : l = LabelAttackRecording(l[1])[i] /\ l[2] = l[1].rows[i]

LabelInv ==
  /\ unread \in Seq(Recs)
  /\ labelled \in Seq(ToSet(labelled))
  /\ \A l \in ToSet(labelled) : OfRecs(l) /\ AsAttack(l)
  /\ final # Unlabelled => unread = <<>> /\ OneRowPerKey

LEMMA RecsAreProper ==
  /\ \A recording \in Recs : Proper(recording)
  /\ \A corpus \in RecordingSets : corpus \in Seq(Recs)
<1>1. ASSUME NEW corpus \in RecordingSets, NEW recording \in ToSet(corpus) PROVE Proper(recording)
  <2>1. /\ recording.name \in Int /\ recording.rows \in Seq(ToSet(recording.rows))
        /\ \A row \in ToSet(recording.rows) : row.utc \in Int /\ row.id \in Int
    BY LabelAssumption
  <2>2. \A i \in DOMAIN recording.rows : recording.rows[i] \in ToSet(recording.rows)
    BY DEF ToSet
  <2> QED BY <2>1, <2>2 DEF Proper
<1>2. ASSUME NEW corpus \in RecordingSets PROVE corpus \in Seq(Recs)
  <2>1. corpus \in Seq(ToSet(corpus)) /\ ToSet(corpus) \subseteq Recs
    BY LabelAssumption DEF Recs
  <2> QED BY <2>1
<1> QED BY <1>1, <1>2 DEF Recs

(* What a labeller makes of a recording has a place for every row.          *)
LabelsOf(recording) ==
  IF recording.source = "botsv1" THEN LabelBotsv1(recording)
  ELSE IF recording.source \in ReaderLabelled THEN LabelsRead(recording)
  ELSE LabelAttackRecording(recording)

LEMMA LabelsOfRecording ==
  ASSUME NEW recording \in Recs
  PROVE  /\ DOMAIN LabelsOf(recording) = DOMAIN recording.rows
         /\ LabelsOf(recording) \in Seq(ToSet(LabelsOf(recording)))
         /\ \A l \in ToSet(LabelsOf(recording)) : OfRecs(l) /\ AsAttack(l)
<1> DEFINE labels == LabelsOf(recording)
           starts == recording.rows
<1>1. Proper(recording)
  BY RecsAreProper
<1>2. DOMAIN starts = 1 .. Len(starts) /\ Len(starts) \in Nat
  BY <1>1 DEF Proper
<1>3. /\ labels = [i \in DOMAIN starts |-> labels[i]]
      /\ \A i \in DOMAIN starts : labels[i][1] = recording /\ labels[i][2] = starts[i]
      /\ recording.source \notin ReaderLabelled \cup {"botsv1"} => labels = LabelAttackRecording(recording)
  <2>1. CASE recording.source = "botsv1"
    <3>1. labels = LabelBotsv1(recording)
      BY <2>1 DEF LabelsOf
    <3> HIDE DEF labels
    <3> QED BY <2>1, <3>1 DEF LabelBotsv1
  <2>2. CASE recording.source # "botsv1" /\ recording.source \in ReaderLabelled
    <3>1. labels = LabelsRead(recording)
      BY <2>2 DEF LabelsOf
    <3> HIDE DEF labels
    <3> QED BY <2>2, <3>1 DEF LabelsRead
  <2>3. CASE recording.source \notin ReaderLabelled \cup {"botsv1"}
    <3>1. labels = LabelAttackRecording(recording)
      BY <2>3 DEF LabelsOf
    <3> DEFINE order == ByTime(starts)
    <3>2. Len(order) \in Nat
      <4> DEFINE n == Cardinality(DOMAIN starts)
      <4>1. n \in Nat
        <5>1. IsFiniteSet(DOMAIN starts)
          BY <1>2, FS_Interval
        <5> QED BY <5>1, FS_CardinalityType
      <4>2. order = [k \in 1 .. n |-> Nth(DOMAIN starts, [i \in DOMAIN starts |-> <<starts[i].utc, starts[i].id>>], k)]
        BY DEF ByTime, InOrder
      <4> HIDE DEF n, order
      <4> QED BY <4>1, <4>2
    <3>3. labels = LabelAlong(recording, order)
      BY <3>1 DEF LabelAttackRecording
    <3> HIDE DEF order, labels
    <3>4. PICK f : LabelAlong(recording, order) = LabelledBy(f, recording, order)
      BY <3>2, LabelsAlong
    <3>5. labels = [i \in DOMAIN starts |->
                      <<recording, starts[i], LabelOf(recording, starts[i], f[TurnOf(order, i) - 1])>>]
      BY <3>3, <3>4 DEF LabelledBy
    <3> QED BY <3>1, <3>5
  <2> QED BY <2>1, <2>2, <2>3
<1> HIDE DEF labels
<1>4. DOMAIN labels = DOMAIN starts
  BY <1>3
<1>5. labels \in Seq(ToSet(labels))
  BY <1>2, <1>3 DEF ToSet
<1>6. ASSUME NEW l \in ToSet(labels) PROVE OfRecs(l) /\ AsAttack(l)
  <2>1. PICK i \in DOMAIN starts : l = labels[i]
    BY <1>4 DEF ToSet
  <2>2. l[1] = recording /\ l[2] = starts[i]
    BY <1>3, <2>1
  <2> QED BY <1>3, <2>1, <2>2 DEF OfRecs, AsAttack, ToSet
<1> QED BY <1>4, <1>5, <1>6 DEF labels

LEMMA AttacksAreWhole ==
  ASSUME \A l \in ToSet(labelled) : OfRecs(l) /\ AsAttack(l)
  PROVE  AttacksWhole
<1>1. ASSUME NEW l \in ToSet(labelled), l[1].source \notin ReaderLabelled \cup {"botsv1"}
      PROVE  /\ OfRecorder(l[1], l[2]) => l[3] # 1
             /\ \A m \in ToSet(labelled) :
                  (/\ m[1] = l[1] /\ m[3] = 1 /\ ParentsFirst(l[1])
                   /\ m[2] \in Ancestry(l[1].rows, l[2]))
                  => l[3] = 1 \/ OfRecorder(l[1], l[2]) \/ l[2].image \in {"console", "defensive", "browser"}
  <2> DEFINE recording == l[1]
             labels == LabelAttackRecording(recording)
  <2>1. Proper(recording)
    BY RecsAreProper DEF OfRecs
  <2>2. PICK i \in DOMAIN recording.rows : l = labels[i] /\ l[2] = recording.rows[i]
    BY <1>1 DEF AsAttack
  <2>3. ASSUME NEW m \in ToSet(labelled), m[1] = recording
        PROVE  \E j \in DOMAIN recording.rows : m = labels[j] /\ m[2] = recording.rows[j]
    BY <1>1, <2>3 DEF AsAttack
  <2> HIDE DEF labels
  <2>4. \A j \in DOMAIN recording.rows :
          /\ OfRecorder(recording, recording.rows[i]) => labels[i][3] # 1
          /\ (/\ labels[j][3] = 1 /\ ParentsFirst(recording)
              /\ recording.rows[j] \in Ancestry(recording.rows, recording.rows[i]))
             => \/ labels[i][3] = 1 \/ OfRecorder(recording, recording.rows[i])
                \/ recording.rows[i].image \in {"console", "defensive", "browser"}
    BY <2>1, AttackLabels DEF labels
  <2> QED BY <2>2, <2>3, <2>4
<1> QED BY <1>1 DEF AttacksWhole
-----------------------------------------------------------------------------
(* finalize: of the rows of one key that are labelled, one is first.        *)
LEMMA OneIsFirst ==
  ASSUME NEW S, NEW key, NEW m, Keyed(S, key, m), S # {}
  PROVE  \E i \in S : Ahead(S, key, i) = {} /\ \A j \in S : Ahead(S, key, j) = {} => i = j
<1>1. Cardinality(S) \in Nat /\ Cardinality(S) # 0
  BY FS_CardinalityType, FS_EmptySet DEF Keyed
<1>2. 1 \in 1 .. Cardinality(S)
  BY <1>1
<1>3. PICK i \in S : Cardinality(Ahead(S, key, i)) = 0
  <2>1. Nth(S, key, 1) \in S /\ Cardinality(Ahead(S, key, Nth(S, key, 1))) = 1 - 1
    BY <1>2, NthIs
  <2> QED BY <2>1
<1>4. Ahead(S, key, i) = {}
  <2>1. IsFiniteSet(Ahead(S, key, i))
    BY AheadCounts
  <2> QED BY <1>3, <2>1, FS_EmptySet
<1>5. ASSUME NEW j \in S, Ahead(S, key, j) = {} PROVE i = j
  BY <1>4, <1>5, AheadOrders
<1> QED BY <1>4, <1>5

LEMMA TrainingSet ==
  ASSUME LabelInv, Finalize
  PROVE  OneRowPerKey'
<1> DEFINE L == DOMAIN labelled
           kept == {i \in L : labelled[i][3] # Unlabelled}
           alike(i) == {j \in kept : labelled[j][2].key = labelled[i][2].key}
           place == [i \in L |-> <<labelled[i][1].name, labelled[i][2].utc, labelled[i][2].id>>]
           first == {i \in kept : Ahead(alike(i), place, i) = {}}
           chosen == {i \in first : \A j \in alike(i) : labelled[j][3] = labelled[i][3]}
<1>1. labelled' = labelled /\ final' = {labelled[i] : i \in chosen}
  BY DEF Finalize
<1>2. L = 1 .. Len(labelled) /\ Len(labelled) \in Nat /\ IsFiniteSet(L)
  <2>1. L = 1 .. Len(labelled) /\ Len(labelled) \in Nat
    BY DEF LabelInv
  <2> QED BY <2>1, FS_Interval
<1>3. ASSUME NEW i \in L PROVE place[i] \in Tuples(3)
  <2>1. labelled[i] \in ToSet(labelled)
    BY DEF ToSet
  <2>2. Proper(labelled[i][1]) /\ labelled[i][2] \in ToSet(labelled[i][1].rows)
    BY <2>1, RecsAreProper DEF LabelInv, OfRecs
  <2> DEFINE t == <<labelled[i][1].name, labelled[i][2].utc, labelled[i][2].id>>
  <2>3. t \in Seq(Int) /\ Len(t) = 3
    BY <2>2 DEF Proper, ToSet
  <2>4. place[i] = t
    OBVIOUS
  <2> HIDE DEF t, place
  <2> QED BY <2>3, <2>4 DEF Tuples
<1>4. ASSUME NEW i \in L PROVE Keyed(alike(i), place, 3)
  <2>1. alike(i) \in SUBSET L
    OBVIOUS
  <2>2. IsFiniteSet(alike(i)) /\ alike(i) \in SUBSET Nat
    BY <1>2, <2>1, FS_Subset
  <2> HIDE DEF alike, place
  <2> QED BY <1>3, <2>1, <2>2 DEF Keyed
<1> HIDE DEF place
<1>5. ASSUME NEW key
      PROVE  LET labels == {l[3] : l \in {m \in ToSet(labelled) : m[2].key = key}} \ {Unlabelled}
                 starts == {l \in final' : l[2].key = key}
             IN  IF Cardinality(labels) = 1 THEN Cardinality(starts) = 1 /\ \A l \in starts : l[3] \in labels
                                            ELSE starts = {}
  <2> DEFINE labels == {l[3] : l \in {m \in ToSet(labelled) : m[2].key = key}} \ {Unlabelled}
             starts == {l \in final' : l[2].key = key}
             Alike == {i \in kept : labelled[i][2].key = key}
  <2>1. labels = {labelled[i][3] : i \in Alike}
    BY DEF ToSet
  <2>2. \A i \in Alike : alike(i) = Alike
    OBVIOUS
  <2>3. starts = {labelled[i] : i \in {i \in chosen : labelled[i][2].key = key}}
    BY <1>1
  <2>4. {i \in chosen : labelled[i][2].key = key}
          = {i \in Alike : Ahead(Alike, place, i) = {} /\ \A j \in Alike : labelled[j][3] = labelled[i][3]}
    BY <2>2
  <2>5. starts = {labelled[i] : i \in {i \in Alike : /\ Ahead(Alike, place, i) = {}
                                                   /\ \A j \in Alike : labelled[j][3] = labelled[i][3]}}
    BY <2>3, <2>4
  <2>6. Alike # {} => Keyed(Alike, place, 3)
    BY <1>4, <2>2
  <2> HIDE DEF labels, starts, Alike
  <2>7. ASSUME NEW l, l \in starts PROVE labels = {l[3]}
    BY <2>1, <2>5, <2>7
  <2>8. CASE Cardinality(labels) = 1
    <3>0. labels # {}
      BY <2>8, FS_EmptySet
    <3>1. PICK x : labels = {x}
      <4>1. IsFiniteSet(labels)
        <5>1. IsFiniteSet(Alike)
          BY <2>1, <2>6, <3>0 DEF Keyed
        <5> DEFINE f == [i \in Alike |-> labelled[i][3]]
        <5>2. {f[i] : i \in Alike} = labels
          BY <2>1
        <5>3. IsFiniteSet({f[i] : i \in Alike})
          BY <5>1, ImageIsFinite
        <5> QED BY <5>2, <5>3
      <4> QED BY <2>8, <4>1, FS_Singleton
    <3>2. PICK i \in Alike : Ahead(Alike, place, i) = {} /\ \A j \in Alike : Ahead(Alike, place, j) = {} => i = j
      BY <2>1, <2>6, <3>0, OneIsFirst
    <3>3. \A j \in Alike : labelled[j][3] = x
      BY <2>1, <3>1
    <3>4. starts = {labelled[i]}
      BY <2>5, <3>2, <3>3
    <3> QED BY <2>1, <2>8, <3>4, FS_Singleton DEF starts, labels
  <2>9. CASE Cardinality(labels) # 1
    <3>1. \A l : l \in starts => Cardinality(labels) = 1
      BY <2>7, FS_Singleton
    <3> QED BY <2>9, <3>1 DEF starts, labels
  <2> QED BY <2>8, <2>9
<1> QED BY <1>1, <1>5 DEF OneRowPerKey

LabelSpec == LabelInit /\ [][LabelNext]_labelVars

(* Of any corpora and labels that readers gave: what an attack started is   *)
(* labelled with it, what the recorder started is not, and the training set *)
(* has one row of each key.                                                *)
THEOREM LabelsAreEarned == LabelSpec => []LabelsSound
<1>1. ASSUME LabelInit PROVE LabelInv
  <2>1. unread \in Seq(Recs)
    BY <1>1, RecsAreProper DEF LabelInit
  <2>2. labelled = <<>> /\ ToSet(<<>>) = {} /\ final = Unlabelled
    BY <1>1 DEF LabelInit, ToSet
  <2> QED BY <2>1, <2>2 DEF LabelInv
<1>2. ASSUME LabelInv, [LabelNext]_labelVars PROVE LabelInv'
  <2>1. CASE LabelRecording
    <3> DEFINE recording == Head(unread)
               more == LabelsOf(recording)
    <3>1. unread # <<>> /\ unread' = Tail(unread) /\ final' = final /\ labelled' = labelled \o more
      BY <2>1 DEF LabelRecording, LabelsOf
    <3>2. recording \in Recs /\ unread' \in Seq(Recs)
      BY <1>2, <3>1 DEF LabelInv
    <3>3. more \in Seq(ToSet(more)) /\ \A l \in ToSet(more) : OfRecs(l) /\ AsAttack(l)
      BY <3>2, LabelsOfRecording
    <3> HIDE DEF more, recording
    <3>4. labelled \in Seq(ToSet(labelled)) /\ \A l \in ToSet(labelled) : OfRecs(l) /\ AsAttack(l)
      BY <1>2 DEF LabelInv
    <3>5. labelled' \in Seq(ToSet(labelled')) /\ ToSet(labelled') = ToSet(labelled) \cup ToSet(more)
      <4>1. /\ Len(labelled \o more) = Len(labelled) + Len(more) /\ Len(labelled) \in Nat /\ Len(more) \in Nat
            /\ DOMAIN labelled = 1 .. Len(labelled) /\ DOMAIN more = 1 .. Len(more)
            /\ DOMAIN (labelled \o more) = 1 .. Len(labelled) + Len(more)
            /\ \A i \in 1 .. Len(labelled) : (labelled \o more)[i] = labelled[i]
            /\ \A i \in 1 .. Len(more) : (labelled \o more)[Len(labelled) + i] = more[i]
        BY <3>3, <3>4
      <4>2. ToSet(labelled') = ToSet(labelled) \cup ToSet(more)
        <5>1. ASSUME NEW x \in ToSet(labelled') PROVE x \in ToSet(labelled) \cup ToSet(more)
          <6>1. PICK i \in 1 .. Len(labelled) + Len(more) : x = (labelled \o more)[i]
            BY <3>1, <4>1 DEF ToSet
          <6>2. CASE i <= Len(labelled)
            BY <4>1, <6>1, <6>2 DEF ToSet
          <6>3. CASE i > Len(labelled)
            <7>1. i - Len(labelled) \in 1 .. Len(more) /\ Len(labelled) + (i - Len(labelled)) = i
              BY <4>1, <6>1, <6>3
            <7>2. x = more[i - Len(labelled)]
              BY <4>1, <6>1, <7>1
            <7> QED BY <4>1, <7>1, <7>2 DEF ToSet
          <6> QED BY <4>1, <6>1, <6>2, <6>3
        <5>2. ASSUME NEW x \in ToSet(labelled) PROVE x \in ToSet(labelled')
          BY <3>1, <4>1 DEF ToSet
        <5>3. ASSUME NEW x \in ToSet(more) PROVE x \in ToSet(labelled')
          <6>1. PICK i \in 1 .. Len(more) : x = more[i]
            BY <4>1 DEF ToSet
          <6>2. Len(labelled) + i \in 1 .. Len(labelled) + Len(more)
            BY <4>1
          <6> QED BY <3>1, <4>1, <6>1, <6>2 DEF ToSet
        <5> QED BY <5>1, <5>2, <5>3
      <4>3. labelled' \in Seq(ToSet(labelled) \cup ToSet(more))
        BY <3>1, <3>3, <3>4
      <4> QED BY <4>2, <4>3
    <3>6. final' = Unlabelled
      BY <1>2, <3>1 DEF LabelInv
    <3> QED BY <3>2, <3>3, <3>4, <3>5, <3>6 DEF LabelInv
  <2>2. CASE Finalize
    <3>1. unread = <<>> /\ UNCHANGED <<unread, labelled>>
      BY <2>2 DEF Finalize
    <3>2. OneRowPerKey'
      BY <1>2, <2>2, TrainingSet
    <3> QED BY <1>2, <3>1, <3>2 DEF LabelInv
  <2>3. CASE UNCHANGED labelVars
    BY <1>2, <2>3 DEF labelVars, LabelInv, OneRowPerKey
  <2> QED BY <1>2, <2>1, <2>2, <2>3 DEF LabelNext
<1>3. LabelInv => LabelsSound
  BY AttacksAreWhole DEF LabelInv, LabelsSound
<1> QED BY <1>1, <1>2, <1>3, PTL DEF LabelSpec
-----------------------------------------------------------------------------
(* What is known of a record's fields.                                     *)
Legible(r) == {r.utc, r.wall, r.image} \subseteq {Missing} \cup Int /\ r.happened \in Int
Legibly == records \in Seq(ToSet(records)) /\ \A i \in DOMAIN records : Legible(records[i])

(* The records of process starts are records of the file.                   *)
LEMMA StartsAreRecords ==
  ASSUME NEW file, file \in Seq(ToSet(file))
  PROVE  StartsOf(file) \in Seq(ToSet(file)) /\ ToSet(StartsOf(file)) \subseteq ToSet(file)
<1> DEFINE S == {i \in DOMAIN file : IsStart(file[i])}
           key == [i \in S |-> <<i>>]
           order == InOrder(S, key)
<1>1. DOMAIN file = 1 .. Len(file) /\ Len(file) \in Nat
  OBVIOUS
<1>2. S \in SUBSET Nat /\ IsFiniteSet(S) /\ \A i \in S : i \in DOMAIN file
  <2>1. IsFiniteSet(1 .. Len(file)) /\ S \in SUBSET (1 .. Len(file))
    BY <1>1, FS_Interval
  <2> QED BY <1>1, <2>1, FS_Subset
<1>3. StartsOf(file) = [k \in DOMAIN order |-> file[order[k]]]
  BY DEF StartsOf
<1> HIDE DEF S
<1>4. Keyed(S, key, 1)
  <2>1. ASSUME NEW i \in S PROVE key[i] \in Tuples(1)
    <3>1. <<i>> \in Seq(Int) /\ Len(<<i>>) = 1
      BY <1>2
    <3> QED BY <3>1 DEF Tuples
  <2> HIDE DEF key
  <2> QED BY <1>2, <2>1 DEF Keyed
<1> HIDE DEF key
<1>5. /\ Cardinality(S) \in Nat /\ DOMAIN order = 1 .. Cardinality(S)
      /\ \A k \in 1 .. Cardinality(S) : order[k] \in S
  BY <1>4, Sorts
<1> HIDE DEF order
<1>6. \A k \in 1 .. Cardinality(S) : file[order[k]] \in ToSet(file)
  BY <1>2, <1>5 DEF ToSet
<1>7. StartsOf(file) \in Seq(ToSet(file))
  BY <1>3, <1>5, <1>6
<1> QED BY <1>7 DEF ToSet
-----------------------------------------------------------------------------
(* The median of gaps.                                                     *)
GapOrder == InOrder(Both, [i \in Both |-> <<Gap(i)>>])

LEMMA GapsInOrder ==
  ASSUME Legibly
  PROVE  /\ Keyed(Both, [i \in Both |-> <<Gap(i)>>], 1)
         /\ \A i \in Both : Gap(i) \in Int
<1>1. DOMAIN records = 1 .. Len(records) /\ Len(records) \in Nat
  BY DEF Legibly
<1>2. Both \in SUBSET Nat /\ IsFiniteSet(Both)
  <2>1. IsFiniteSet(1 .. Len(records)) /\ Both \in SUBSET (1 .. Len(records))
    BY <1>1, FS_Interval DEF Both
  <2>2. 1 .. Len(records) \in SUBSET Nat
    BY <1>1
  <2> QED BY <2>1, <2>2, FS_Subset
<1>3. ASSUME NEW i \in Both PROVE Gap(i) \in Int
  <2>1. records[i].utc \in Int /\ records[i].wall \in Int
    BY DEF Both, Legibly, Legible
  <2> QED BY <2>1 DEF Gap
<1>4. ASSUME NEW i \in Both PROVE <<Gap(i)>> \in Tuples(1)
  <2>1. <<Gap(i)>> \in Seq(Int) /\ Len(<<Gap(i)>>) = 1
    BY <1>3
  <2> QED BY <2>1 DEF Tuples
<1> QED BY <1>2, <1>3, <1>4 DEF Keyed

LEMMA TimeOffsetIs ==
  ASSUME Legibly
  PROVE  LET n == Cardinality(Both)
         IN  /\ n \in Nat
             /\ n = 0 => TimeOffset = 0
             /\ n # 0 => /\ (n + 1) \div 2 \in 1 .. n /\ n \div 2 + 1 \in 1 .. n
                         /\ GapOrder[(n + 1) \div 2] \in Both /\ GapOrder[n \div 2 + 1] \in Both
                         /\ TimeOffset = HalfEven(Gap(GapOrder[(n + 1) \div 2]) + Gap(GapOrder[n \div 2 + 1]))
             /\ TimeOffset \in Int
<1> DEFINE n == Cardinality(Both)
<1>1. n \in Nat /\ Len(GapOrder) = n /\ \A k \in 1 .. n : GapOrder[k] \in Both
  BY GapsInOrder, Sorts DEF GapOrder
<1>2. TimeOffset = IF n = 0 THEN 0 ELSE HalfEven(Gap(GapOrder[(n + 1) \div 2]) + Gap(GapOrder[n \div 2 + 1]))
  <2>1. TimeOffset = LET sorted == GapOrder
                         m == Len(sorted)
                     IN  IF m = 0 THEN 0 ELSE HalfEven(Gap(sorted[(m + 1) \div 2]) + Gap(sorted[m \div 2 + 1]))
    BY DEF TimeOffset, GapOrder
  <2> QED BY <1>1, <2>1
<1> HIDE DEF n
<1>3. n # 0 => (n + 1) \div 2 \in 1 .. n /\ n \div 2 + 1 \in 1 .. n
  BY <1>1
<1>4. \A x \in Int : HalfEven(x) \in Int
  BY DEF HalfEven
<1>5. TimeOffset \in Int
  <2>1. CASE n = 0
    BY <1>2, <2>1
  <2>2. CASE n # 0
    <3>1. Gap(GapOrder[(n + 1) \div 2]) \in Int /\ Gap(GapOrder[n \div 2 + 1]) \in Int
      BY <1>1, <1>3, <2>2, GapsInOrder
    <3> QED BY <1>2, <1>4, <2>2, <3>1
  <2> QED BY <2>1, <2>2
<1> QED BY <1>1, <1>2, <1>3, <1>5 DEF n

(* A gap that more than half of them have is the median.                    *)
LEMMA MedianOfMost ==
  ASSUME Legibly, NEW g \in Int, 2 * Cardinality({j \in Both : Gap(j) = g}) > Cardinality(Both)
  PROVE  TimeOffset = g
<1> DEFINE n == Cardinality(Both)
           most == {j \in Both : Gap(j) = g}
           m == Cardinality(most)
           key == [i \in Both |-> <<Gap(i)>>]
<1>1. Keyed(Both, key, 1) /\ IsFiniteSet(Both) /\ \A i \in Both : Gap(i) \in Int
  BY GapsInOrder DEF Keyed
<1>2. most \in SUBSET Both /\ IsFiniteSet(most) /\ n \in Nat /\ m \in Nat /\ 2 * m > n /\ n # 0
  <2>1. most \in SUBSET Both /\ IsFiniteSet(most)
    BY <1>1, FS_Subset
  <2>2. n \in Nat /\ m \in Nat /\ m <= n
    BY <1>1, <2>1, FS_Subset, FS_CardinalityType
  <2> QED BY <2>1, <2>2
<1>3. \A i, j \in Both : Before(key[i], key[j]) <=> Gap(i) < Gap(j)
  <2> SUFFICES ASSUME NEW i \in Both, NEW j \in Both
               PROVE  Before(<<Gap(i)>>, <<Gap(j)>>) <=> Gap(i) < Gap(j)
    OBVIOUS
  <2>1. DOMAIN <<Gap(i)>> = {1} /\ 1 .. 1 - 1 = {} /\ <<Gap(i)>>[1] = Gap(i) /\ <<Gap(j)>>[1] = Gap(j)
    OBVIOUS
  <2> QED BY <2>1 DEF Before
<1>4. \A i, j \in Both : j \in Ahead(Both, key, i) <=> Gap(j) < Gap(i) \/ (Gap(j) = Gap(i) /\ j < i)
  <2>1. \A i, j \in Both : key[i] = key[j] <=> Gap(i) = Gap(j)
    OBVIOUS
  <2> HIDE DEF key
  <2> QED BY <1>3, <2>1 DEF Ahead
<1>5. \A k \in 1 .. n : GapOrder[k] \in Both /\ Cardinality(Ahead(Both, key, GapOrder[k])) = k - 1
  BY <1>1, Sorts DEF GapOrder
<1> HIDE DEF key, n, m, most
<1>6. ASSUME NEW k \in 1 .. n, k = (n + 1) \div 2 \/ k = n \div 2 + 1 PROVE Gap(GapOrder[k]) = g
  <2> DEFINE i == GapOrder[k]
             ahead == Ahead(Both, key, i)
  <2>1. i \in Both /\ Cardinality(ahead) = k - 1 /\ ahead \in SUBSET Both /\ IsFiniteSet(ahead) /\ k \in Nat
    BY <1>1, <1>5, FS_Subset DEF Ahead
  <2>2. Gap(i) \in Int
    BY <1>1, <2>1
  <2>3. n <= 2 * k /\ 2 * (k - 1) <= n
    BY <1>2, <1>6
  <2> HIDE DEF i, ahead
  <2>4. ~ (Gap(i) < g)
    <3> SUFFICES ASSUME Gap(i) < g PROVE FALSE
      OBVIOUS
    <3>1. i \notin ahead /\ Cardinality(ahead \cup {i}) = k /\ IsFiniteSet(ahead \cup {i})
      <4>1. i \notin ahead
        BY <1>1, <2>1, AheadOrders DEF ahead
      <4> QED BY <2>1, <4>1, FS_AddElement
    <3>2. (ahead \cup {i}) \cap most = {}
      <4>1. \A j \in most : j \in Both /\ Gap(j) = g
        BY DEF most
      <4>2. \A j \in most : j \notin ahead
        BY <1>4, <2>1, <2>2, <4>1 DEF ahead
      <4> QED BY <2>1, <2>2, <4>1, <4>2
    <3>3. Cardinality((ahead \cup {i}) \cup most) = k + m
      <4>1. Cardinality((ahead \cup {i}) \cup most)
              = Cardinality(ahead \cup {i}) + Cardinality(most) - Cardinality((ahead \cup {i}) \cap most)
        BY <1>2, <3>1, FS_Union
      <4>2. Cardinality((ahead \cup {i}) \cap most) = 0
        BY <3>2, FS_EmptySet
      <4> QED BY <1>2, <2>1, <3>1, <4>1, <4>2 DEF m
    <3>4. (ahead \cup {i}) \cup most \in SUBSET Both
      BY <1>2, <2>1
    <3>5. k + m <= n
      BY <1>1, <3>3, <3>4, FS_Subset DEF n
    <3> QED BY <1>2, <2>1, <2>3, <3>5
  <2>5. ~ (g < Gap(i))
    <3> SUFFICES ASSUME g < Gap(i) PROVE FALSE
      OBVIOUS
    <3>1. most \in SUBSET ahead
      BY <1>4, <2>1 DEF ahead, most
    <3>2. m <= k - 1
      BY <2>1, <3>1, FS_Subset DEF m
    <3> QED BY <1>2, <2>1, <2>3, <3>2
  <2> QED BY <2>2, <2>4, <2>5 DEF i
<1>7. TimeOffset = HalfEven(g + g)
  <2>1. /\ (n + 1) \div 2 \in 1 .. n /\ n \div 2 + 1 \in 1 .. n
        /\ TimeOffset = HalfEven(Gap(GapOrder[(n + 1) \div 2]) + Gap(GapOrder[n \div 2 + 1]))
    BY <1>2, TimeOffsetIs DEF n
  <2>2. Gap(GapOrder[(n + 1) \div 2]) = g /\ Gap(GapOrder[n \div 2 + 1]) = g
    BY <1>6, <2>1
  <2> QED BY <2>1, <2>2
<1>8. HalfEven(g + g) = g
  <2>1. (g + g) \div 2 = g /\ (g + g) % 2 = 0
    OBVIOUS
  <2> QED BY <2>1 DEF HalfEven
<1> QED BY <1>7, <1>8
-----------------------------------------------------------------------------
(* Every usable record has a time.                                         *)
LEMMA WhenIs ==
  ASSUME Legibly, NEW i \in DOMAIN records, Usable(records[i])
  PROVE  When(records[i]) \in Int
<1>1. Legible(records[i])
  BY DEF Legibly
<1>2. TimeOffset \in Int
  BY TimeOffsetIs
<1>3. \A x \in Int : x + TimeOffset \in Int
  BY <1>2
<1> QED BY <1>1, <1>3 DEF When, Usable, Legible

(* The time it gives is the time it was.                                    *)
LEMMA WhenIsTrue ==
  ASSUME Legibly, ClocksExplained, NEW i \in DOMAIN records, Usable(records[i])
  PROVE  When(records[i]) = records[i].happened
<1> DEFINE Off(r) == r.happened - r.wall
           stamped == {j \in DOMAIN records : records[j].wall # Missing}
           both == {j \in stamped : records[j].utc # Missing}
           r == records[i]
<1>1. PICK k \in both :
        /\ 2 * Cardinality({j \in both : Off(records[j]) = Off(records[k])}) > Cardinality(both)
        /\ \A j \in stamped \ both : Off(records[j]) = Off(records[k])
  BY DEF ClocksExplained
<1>2. both = Both
  BY DEF Both
<1>3. \A j \in DOMAIN records : records[j] \in ToSet(records)
  BY DEF ToSet
<1>4. ASSUME NEW j \in Both PROVE Gap(j) = Off(records[j])
  <2>1. j \in DOMAIN records /\ records[j].utc = records[j].happened
    BY <1>3 DEF ClocksExplained, Both
  <2> QED BY <2>1 DEF Gap
<1> DEFINE g == Off(records[k])
<1>5. g \in Int
  <2>1. records[k].wall \in Int /\ records[k].happened \in Int
    BY <1>1 DEF Legibly, Legible
  <2> QED BY <2>1
<1>6. {j \in both : Off(records[j]) = Off(records[k])} = {j \in Both : Gap(j) = g}
  BY <1>2, <1>4
<1>7. TimeOffset = g
  <2> HIDE DEF g
  <2>1. 2 * Cardinality({j \in Both : Gap(j) = g}) > Cardinality(Both)
    BY <1>1, <1>2, <1>6
  <2> QED BY <1>5, <2>1, MedianOfMost
<1>8. (r.utc = r.happened /\ r.channel = "sysmon") \/ (r.utc = Missing /\ ~ IsStart(r))
  BY <1>3 DEF ClocksExplained
<1>9. r.happened \in Int /\ r.wall \in {Missing} \cup Int /\ When(r) # Missing /\ Missing \notin Int
  BY FileAssumption DEF Legibly, Legible, Usable
<1>10. CASE r.utc = r.happened /\ r.channel = "sysmon"
  BY <1>9, <1>10 DEF When
<1>11. CASE r.utc = Missing
  <2>1. r.wall # Missing /\ When(r) = r.wall + TimeOffset
    BY <1>9, <1>11 DEF When
  <2>2. i \in stamped \ both
    BY <1>11, <2>1
  <2>3. Off(r) = g
    BY <1>1, <2>2
  <2> HIDE DEF g
  <2>4. r.happened - r.wall = TimeOffset
    BY <1>7, <2>3
  <2>5. r.wall \in Int /\ TimeOffset \in Int
    BY <1>5, <1>7, <1>9, <2>1
  <2> QED BY <1>9, <2>1, <2>4, <2>5
<1> QED BY <1>8, <1>10, <1>11

(* Only a script's family is that of scripts.                               *)
LEMMA Scripts ==
  ASSUME NEW r, Family(r) # Missing, Family(r)[1] = "script_block"
  PROVE  r.channel = "powershell"
<1> SUFFICES ASSUME r.channel = "sysmon", r.eid \in DOMAIN SysmonFamilies PROVE FALSE
  BY DEF Family
<1>1. Family(r) = SysmonFamilies[r.eid] \/ Family(r) = <<"registry", "delete_key">>
  BY DEF Family
<1>2. r.eid \in {1, 3, 5, 7, 8, 10, 11, 12, 13, 14, 22, 23, 26}
  BY DEF SysmonFamilies
<1>3. SysmonFamilies[r.eid] \in
        {<<"process", "start">>, <<"process", "stop">>, <<"network", "connect">>, <<"image_load", "load">>,
         <<"remote_thread", "create">>, <<"process_access", "access">>, <<"file", "create">>,
         <<"file", "delete">>, <<"registry", "add_key">>, <<"registry", "set_value">>,
         <<"registry", "rename_key">>, <<"dns", "query">>}
  BY <1>2 DEF SysmonFamilies
<1> QED BY <1>1, <1>3

(* The image it gives is that of the newest start there was by then.        *)
LEMMA ImageIsTrue ==
  ASSUME Legibly, ClocksExplained, StartsNamed, NEW i \in DOMAIN records, TrueImage(records[i]) # {}
  PROVE  ImageAt(records[i].host, records[i].pid, records[i].happened) \in TrueImage(records[i])
<1> DEFINE r == records[i]
           Names(s) == /\ IsStart(s) /\ Missing \notin {s.utc, s.pid, s.image}
                       /\ s.host = r.host /\ s.pid = r.pid /\ s.utc <= r.happened
           S == {j \in DOMAIN records : Names(records[j])}
           key == [j \in S |-> <<records[j].utc, records[j].image>>]
           sorted == InOrder(S, key)
           starts == {s \in ToSet(records) : /\ IsStart(s) /\ s.pid = r.pid /\ s.host = r.host
                                             /\ s.happened <= r.happened}
<1>1. ImageAt(r.host, r.pid, r.happened) = IF S = {} THEN Missing ELSE records[sorted[Len(sorted)]].image
  BY DEF ImageAt
<1>2. TrueImage(r) = {s.image : s \in {x \in starts : \A o \in starts : o.happened <= x.happened}}
  BY DEF TrueImage
<1>3. DOMAIN records = 1 .. Len(records) /\ Len(records) \in Nat
  BY DEF Legibly
<1>4. ASSUME NEW j \in DOMAIN records
      PROVE  /\ records[j] \in ToSet(records) /\ Legible(records[j])
             /\ IsStart(records[j]) => /\ records[j].utc = records[j].happened
                                       /\ Missing \notin {records[j].pid, records[j].image}
  <2>1. records[j] \in ToSet(records)
    BY DEF ToSet
  <2> QED BY <2>1 DEF Legibly, ClocksExplained, StartsNamed
<1>5. Missing \notin Int
  BY FileAssumption
<1>6. ASSUME NEW j \in DOMAIN records
      PROVE  j \in S <=> records[j] \in starts
  <2>1. records[j].happened \in Int
    BY <1>4 DEF Legible
  <2>2. IsStart(records[j]) => /\ records[j].utc = records[j].happened
                               /\ Missing \notin {records[j].utc, records[j].pid, records[j].image}
    BY <1>4, <1>5, <2>1
  <2> QED BY <1>4, <2>2
<1>7. S \in SUBSET DOMAIN records
  OBVIOUS
<1>8. \A j \in S : IsStart(records[j])
  OBVIOUS
<1> HIDE DEF S
<1>9. ASSUME NEW j \in S
      PROVE  records[j].utc \in Int /\ records[j].image \in Int /\ records[j].utc = records[j].happened
  <2>1. j \in DOMAIN records /\ IsStart(records[j])
    BY <1>7, <1>8
  <2> QED BY <1>4, <2>1 DEF Legible
<1>10. Keyed(S, key, 2)
  <2>1. IsFiniteSet(S) /\ S \in SUBSET Nat
    <3>1. IsFiniteSet(1 .. Len(records)) /\ 1 .. Len(records) \in SUBSET Nat
      BY <1>3, FS_Interval
    <3> QED BY <1>3, <1>7, <3>1, FS_Subset
  <2>2. ASSUME NEW j \in S PROVE key[j] \in Tuples(2)
    <3> DEFINE t == <<records[j].utc, records[j].image>>
    <3>1. t \in Seq(Int) /\ Len(t) = 2
      BY <1>9
    <3> QED BY <3>1 DEF Tuples
  <2> HIDE DEF key
  <2> QED BY <2>1, <2>2 DEF Keyed
<1>11. S # {}
  <2>1. PICK s \in ToSet(records) : s \in starts
    BY <1>2
  <2>2. PICK j \in DOMAIN records : s = records[j]
    BY DEF ToSet
  <2> QED BY <1>6, <2>1, <2>2
<1>12. \A j, k \in S : key[j] = <<records[j].utc, records[j].image>> /\ DOMAIN key[j] = 1 .. 2
  OBVIOUS
<1> HIDE DEF key
<1> DEFINE n == Cardinality(S)
<1>13. /\ n \in Nat /\ Len(sorted) = n /\ \A k \in 1 .. n : sorted[k] \in S
       /\ \A k, l \in 1 .. n : k < l => sorted[k] \in Ahead(S, key, sorted[l])
       /\ \A j \in S : \E k \in 1 .. n : sorted[k] = j
  BY <1>10, Sorts
<1>14. n # 0 /\ n \in 1 .. n
  BY <1>10, <1>11, <1>13, FS_EmptySet DEF Keyed
<1> HIDE DEF sorted, n
<1> DEFINE last == sorted[n]
<1>15. last \in S
  BY <1>13, <1>14
<1>16. ASSUME NEW j \in S PROVE records[j].utc <= records[last].utc
  <2>1. PICK k \in 1 .. n : sorted[k] = j
    BY <1>13
  <2>2. CASE k = n
    BY <1>9, <2>1, <2>2
  <2>3. CASE k # n
    <3>1. k < n
      BY <1>13, <2>3
    <3>2. j \in Ahead(S, key, last)
      BY <1>13, <1>14, <2>1, <3>1
    <3>3. Before(key[j], key[last]) \/ key[j] = key[last]
      BY <3>2 DEF Ahead
    <3>4. key[j][1] = records[j].utc /\ key[last][1] = records[last].utc
      BY <1>12, <1>15
    <3>5. CASE Before(key[j], key[last])
      <4>1. PICK m \in 1 .. 2 : key[j][m] < key[last][m] /\ \A l \in 1 .. m - 1 : key[j][l] = key[last][l]
        BY <1>12, <3>5 DEF Before
      <4>2. CASE m = 1
        BY <1>9, <1>15, <3>4, <4>1, <4>2
      <4>3. CASE m = 2
        <5>1. 1 \in 1 .. m - 1
          BY <4>3
        <5> QED BY <1>9, <1>15, <3>4, <4>1, <5>1
      <4> QED BY <4>1, <4>2, <4>3
    <3> QED BY <1>9, <1>15, <3>3, <3>4, <3>5
  <2> QED BY <2>2, <2>3
<1>17. records[last] \in starts
  BY <1>6, <1>7, <1>15
<1>18. ASSUME NEW o \in starts PROVE o.happened <= records[last].happened
  <2>1. PICK j \in DOMAIN records : o = records[j]
    BY DEF ToSet
  <2>2. j \in S
    BY <1>6, <2>1
  <2> QED BY <1>9, <1>15, <1>16, <2>1, <2>2
<1>19. records[last].image \in TrueImage(r)
  <2> HIDE DEF starts, last, r
  <2> QED BY <1>2, <1>17, <1>18
<1>20. ImageAt(r.host, r.pid, r.happened) = records[last].image
  BY <1>1, <1>11, <1>13
<1> QED BY <1>19, <1>20
-----------------------------------------------------------------------------
(* What an event is made of, and what was counted.                          *)
Made(e) == e.of \in 1 .. at /\ Usable(records[e.of]) /\ e = EventOf(e.of)
Counted ==
  /\ report \in [skipped : Nat, rejected : Nat, dropped : Nat, mapped : Nat]
  /\ report.skipped + report.rejected + report.dropped + report.mapped = at
  /\ report.mapped = Len(produced)

EventOrder ==
  InOrder(DOMAIN produced, [j \in DOMAIN produced |-> <<produced[j].timestamp, produced[j].of>>])

AdapterInv ==
  /\ Legibly /\ at \in 0 .. Len(records) /\ Counted
  /\ produced \in Seq(ToSet(produced))
  /\ \A j \in DOMAIN produced : Made(produced[j])
  /\ \A j, k \in DOMAIN produced : produced[j].id = produced[k].id => j = k
  /\ \A i \in 1 .. at : Usable(records[i]) => Taken(i)
  /\ events # Missing => at = Len(records) /\ events = [k \in DOMAIN EventOrder |-> produced[EventOrder[k]]]
  /\ joined # Missing =>
       events # Missing /\ joined = [i \in DOMAIN events |-> [event |-> events[i], record |-> ByKey(events[i].id)]]

(* What a record makes is the same as long as the records are.              *)
LEMMA RecordsFixed ==
  ASSUME records' = records
  PROVE  /\ \A i : KeyOf(i)' = KeyOf(i) /\ EventOf(i)' = EventOf(i)
         /\ \A r : Usable(r)' = Usable(r)
         /\ \A id : ByKey(id)' = ByKey(id)
<1>1. Both' = Both /\ \A i : Gap(i)' = Gap(i)
  BY DEF Both, Gap
<1>2. TimeOffset' = TimeOffset
  BY <1>1 DEF TimeOffset
<1>3. \A r : When(r)' = When(r)
  BY <1>2 DEF When
<1>4. \A i : KeyOf(i)' = KeyOf(i)
  BY DEF KeyOf
<1>5. \A host, pid, when : ImageAt(host, pid, when)' = ImageAt(host, pid, when)
  BY DEF ImageAt
<1>6. \A i : EventOf(i)' = EventOf(i)
  BY <1>3, <1>4, <1>5 DEF EventOf
<1>7. \A r : Usable(r)' = Usable(r)
  BY <1>3 DEF Usable
<1>8. \A id : ByKey(id)' = ByKey(id)
  BY <1>4 DEF ByKey
<1> QED BY <1>4, <1>6, <1>7, <1>8

LEMMA AdapterStarts == AdapterInit => AdapterInv
<1> SUFFICES ASSUME AdapterInit PROVE AdapterInv
  OBVIOUS
<1>1. PICK file \in Files : records = IF purpose = "rows" THEN StartsOf(file) ELSE file
  BY DEF AdapterInit
<1>2. file \in Seq(ToSet(file)) /\ \A r \in ToSet(file) : Legible(r)
  BY FileAssumption DEF Legible
<1>3. records \in Seq(ToSet(file)) /\ ToSet(records) \subseteq ToSet(file)
  BY <1>1, <1>2, StartsAreRecords
<1>4. Legibly
  <2>1. \A i \in DOMAIN records : records[i] \in ToSet(records)
    BY DEF ToSet
  <2>2. records \in Seq(ToSet(records))
    BY <1>3, <2>1
  <2> QED BY <1>2, <1>3, <2>1, <2>2 DEF Legibly
<1>5. at = 0 /\ produced = <<>> /\ events = Missing /\ joined = Missing /\ at \in 0 .. Len(records)
  BY <1>3 DEF AdapterInit
<1>6. Counted
  BY <1>5 DEF Counted, AdapterInit
<1>7. produced \in Seq(ToSet(produced)) /\ DOMAIN produced = {} /\ 1 .. at = {}
  BY <1>5
<1> QED BY <1>4, <1>5, <1>6, <1>7 DEF AdapterInv

(* A record taken is counted once, and its key is there if it is usable.    *)
LEMMA RecordTaken ==
  ASSUME AdapterInv, TakeRecord
  PROVE  AdapterInv'
<1>0. PICK i : i = at + 1
  OBVIOUS
<1>1. /\ at' = i /\ at \in Nat /\ i \in 1 .. Len(records) /\ i \in DOMAIN records
      /\ records' = records /\ events' = events /\ joined' = joined
      /\ Skip(records[i]) \/ Reject(records[i]) \/ Drop(i) \/ Produce(i)
  BY <1>0 DEF TakeRecord, AdapterInv, Legibly
<1>2. Legibly' /\ at' \in 0 .. Len(records')
  BY <1>1 DEF Legibly, AdapterInv
<1>3. produced \in Seq(ToSet(produced)) /\ Len(produced) \in Nat /\ DOMAIN produced = 1 .. Len(produced)
  BY DEF AdapterInv
<1>4. events = Missing /\ joined = Missing
  <2>1. at # Len(records)
    BY <1>1 DEF TakeRecord
  <2> QED BY <2>1 DEF AdapterInv
<1>5. Counted
  BY DEF AdapterInv
<1>6. CASE Skip(records[i]) \/ Reject(records[i]) \/ Drop(i)
  <2>1. produced' = produced
    BY <1>6 DEF Skip, Reject, Drop
  <2>2. Counted'
    <3> DEFINE sum(r) == r.skipped + r.rejected + r.dropped + r.mapped
    <3>1. /\ report' \in [skipped : Nat, rejected : Nat, dropped : Nat, mapped : Nat]
          /\ sum(report') = sum(report) + 1
          /\ report'.mapped = report.mapped
      BY <1>5, <1>6 DEF Counted, Skip, Reject, Drop
    <3> QED BY <1>0, <1>1, <1>5, <2>1, <3>1 DEF Counted
  <2>3. Usable(records[i]) => Taken(i)
    BY <1>6 DEF Skip, Reject, Drop, Usable
  <2>4. \A k : Taken(k)' = Taken(k)
    BY <1>1, <2>1, RecordsFixed DEF Taken
  <2>5. \A k \in 1 .. at' : Usable(records[k])' => Taken(k)'
    <3>1. \A k \in 1 .. at' : k \in 1 .. at \/ k = i
      BY <1>0, <1>1
    <3> QED BY <1>1, <2>3, <2>4, <3>1, RecordsFixed DEF AdapterInv
  <2>6. \A j \in DOMAIN produced' : Made(produced[j])'
    <3>1. 1 .. at \subseteq 1 .. at'
      BY <1>0, <1>1
    <3> QED BY <1>1, <2>1, <3>1, RecordsFixed DEF AdapterInv, Made
  <2> QED BY <1>1, <1>2, <1>4, <2>1, <2>2, <2>5, <2>6 DEF AdapterInv
<1>7. CASE Produce(i)
  <2> DEFINE e == EventOf(i)
             n == Len(produced)
  <2>1. produced' = Append(produced, e) /\ Usable(records[i]) /\ ~ Taken(i)
    BY <1>7 DEF Produce
  <2>2. e.of = i /\ e.id = KeyOf(i)
    BY DEF EventOf
  <2> HIDE DEF e
  <2>3. /\ Len(produced') = n + 1 /\ DOMAIN produced' = 1 .. n + 1 /\ produced'[n + 1] = e
        /\ \A j \in 1 .. n : produced'[j] = produced[j]
        /\ produced' \in Seq(ToSet(produced) \cup {e})
    BY <1>3, <2>1
  <2>4. produced' \in Seq(ToSet(produced'))
    <3>1. \A j \in DOMAIN produced' : produced'[j] \in ToSet(produced')
      BY DEF ToSet
    <3> QED BY <2>3, <3>1
  <2>5. Counted'
    <3> DEFINE sum(r) == r.skipped + r.rejected + r.dropped + r.mapped
    <3>1. /\ report' \in [skipped : Nat, rejected : Nat, dropped : Nat, mapped : Nat]
          /\ sum(report') = sum(report) + 1
          /\ report'.mapped = report.mapped + 1
      <4>1. report' = [report EXCEPT !.mapped = @ + 1]
        BY <1>7 DEF Produce
      <4> QED BY <1>5, <4>1 DEF Counted
    <3> QED BY <1>0, <1>1, <1>5, <2>3, <3>1 DEF Counted
  <2>6. \A j \in DOMAIN produced' : j \in DOMAIN produced \/ j = n + 1
    BY <1>3, <2>3
  <2>7. DOMAIN produced \subseteq DOMAIN produced' /\ n + 1 \in DOMAIN produced' /\ n + 1 \notin DOMAIN produced
    BY <1>3, <2>3
  <2>8. \A j \in DOMAIN produced : produced'[j] = produced[j] /\ produced[j].id # e.id
    BY <1>3, <2>1, <2>2, <2>3 DEF Taken
  <2>9. ASSUME NEW j \in DOMAIN produced' PROVE Made(produced[j])'
    <3>1. 1 .. at \subseteq 1 .. at' /\ i \in 1 .. at'
      BY <1>0, <1>1
    <3>2. CASE j \in DOMAIN produced
      <4>1. Made(produced[j]) /\ produced'[j] = produced[j]
        BY <2>8, <3>2 DEF AdapterInv
      <4> QED BY <1>1, <3>1, <4>1, RecordsFixed DEF Made
    <3>3. CASE j = n + 1
      <4>1. produced'[j] = e /\ e = EventOf(i)
        BY <2>3, <3>3 DEF e
      <4> QED BY <1>1, <2>1, <2>2, <3>1, <4>1, RecordsFixed DEF Made
    <3> QED BY <2>6, <3>2, <3>3
  <2>10. \A j, k \in DOMAIN produced' : produced'[j].id = produced'[k].id => j = k
    <3>1. \A j, k \in DOMAIN produced : produced[j].id = produced[k].id => j = k
      BY DEF AdapterInv
    <3> QED BY <2>3, <2>6, <2>8, <3>1
  <2>11. \A k : Taken(k) => Taken(k)'
    BY <1>1, <2>7, <2>8, RecordsFixed DEF Taken
  <2>12. Taken(i)'
    BY <1>1, <2>2, <2>3, <2>7, RecordsFixed DEF Taken
  <2>13. \A k \in 1 .. at' : Usable(records[k])' => Taken(k)'
    <3>1. \A k \in 1 .. at' : k \in 1 .. at \/ k = i
      BY <1>0, <1>1
    <3> QED BY <1>1, <2>11, <2>12, <3>1, RecordsFixed DEF AdapterInv
  <2> QED BY <1>1, <1>2, <1>4, <2>4, <2>5, <2>9, <2>10, <2>13 DEF AdapterInv
<1> QED BY <1>1, <1>6, <1>7

LEMMA AdapterSteps == AdapterInv /\ [AdapterNext]_adapterVars => AdapterInv'
<1> SUFFICES ASSUME AdapterInv, [AdapterNext]_adapterVars PROVE AdapterInv'
  OBVIOUS
<1>1. CASE TakeRecord
  BY <1>1, RecordTaken
<1>2. ASSUME records' = records, at' = at, produced' = produced, report' = report
      PROVE  /\ Legibly' /\ Counted' /\ at' \in 0 .. Len(records') /\ produced' \in Seq(ToSet(produced'))
             /\ \A j \in DOMAIN produced' : Made(produced[j])'
             /\ \A j, k \in DOMAIN produced' : produced'[j].id = produced'[k].id => j = k
             /\ \A k \in 1 .. at' : Usable(records[k])' => Taken(k)'
             /\ EventOrder' = EventOrder
  <2>1. Legibly' /\ Counted' /\ at' \in 0 .. Len(records') /\ produced' \in Seq(ToSet(produced'))
    BY <1>2 DEF AdapterInv, Legibly, Counted
  <2>2. \A j \in DOMAIN produced' : Made(produced[j])'
    BY <1>2, RecordsFixed DEF AdapterInv, Made
  <2>3. \A k \in 1 .. at' : Usable(records[k])' => Taken(k)'
    BY <1>2, RecordsFixed DEF AdapterInv, Taken
  <2>4. EventOrder' = EventOrder
    BY <1>2 DEF EventOrder
  <2> QED BY <1>2, <2>1, <2>2, <2>3, <2>4 DEF AdapterInv
<1>3. CASE Return
  <2>1. /\ records' = records /\ at' = at /\ produced' = produced /\ report' = report /\ joined' = joined
        /\ at = Len(records) /\ events = Missing
        /\ events' = [k \in DOMAIN EventOrder |-> produced[EventOrder[k]]]
    BY <1>3 DEF Return, EventOrder
  <2>2. joined = Missing
    BY <2>1 DEF AdapterInv
  <2> QED BY <1>2, <2>1, <2>2 DEF AdapterInv
<1>4. CASE Join
  <2>1. /\ records' = records /\ at' = at /\ produced' = produced /\ report' = report /\ events' = events
        /\ events # Missing
        /\ joined' = [i \in DOMAIN events |-> [event |-> events[i], record |-> ByKey(events[i].id)]]
    BY <1>4 DEF Join
  <2>2. joined' = [i \in DOMAIN events' |-> [event |-> events'[i], record |-> ByKey(events[i].id)']]
    BY <2>1, RecordsFixed
  <2>3. events' # Missing => at' = Len(records') /\ events' = [k \in DOMAIN EventOrder' |-> produced'[EventOrder'[k]]]
    BY <1>2, <2>1 DEF AdapterInv
  <2> QED BY <1>2, <2>1, <2>2, <2>3 DEF AdapterInv
<1>5. CASE UNCHANGED adapterVars
  <2>1. /\ records' = records /\ at' = at /\ produced' = produced /\ report' = report /\ events' = events
        /\ joined' = joined
    BY <1>5 DEF adapterVars
  <2>2. joined' # Missing =>
          /\ events' # Missing
          /\ joined' = [i \in DOMAIN events' |-> [event |-> events'[i], record |-> ByKey(events[i].id)']]
    BY <2>1, RecordsFixed DEF AdapterInv
  <2>3. events' # Missing => at' = Len(records') /\ events' = [k \in DOMAIN EventOrder' |-> produced'[EventOrder'[k]]]
    BY <1>2, <2>1 DEF AdapterInv
  <2> QED BY <1>2, <2>1, <2>2, <2>3 DEF AdapterInv
<1> QED BY <1>1, <1>3, <1>4, <1>5 DEF AdapterNext

(* The events in order, each of them once.                                  *)
LEMMA EventsAre ==
  ASSUME AdapterInv, events # Missing
  PROVE  LET n == Len(produced)
         IN  /\ n \in Nat /\ DOMAIN events = 1 .. n /\ Len(events) = n
             /\ \A k \in 1 .. n : EventOrder[k] \in 1 .. n /\ events[k] = produced[EventOrder[k]]
             /\ \A k, l \in 1 .. n : k < l =>
                  \/ events[k].timestamp < events[l].timestamp
                  \/ events[k].timestamp = events[l].timestamp /\ events[k].of < events[l].of
             /\ \A j \in 1 .. n : \E k \in 1 .. n : EventOrder[k] = j
<1> DEFINE n == Len(produced)
           S == DOMAIN produced
           key == [j \in S |-> <<produced[j].timestamp, produced[j].of>>]
<1>1. n \in Nat /\ S = 1 .. n /\ IsFiniteSet(S) /\ Cardinality(S) = n
  <2>1. n \in Nat /\ S = 1 .. n
    BY DEF AdapterInv
  <2> HIDE DEF n, S
  <2> QED BY <2>1, FS_Interval
<1>2. ASSUME NEW j \in S PROVE produced[j].timestamp \in Int /\ produced[j].of \in Int
  <2>1. Made(produced[j]) /\ Legibly /\ at \in 0 .. Len(records)
    BY DEF AdapterInv
  <2>2. produced[j].of \in DOMAIN records /\ produced[j].of \in Int
    BY <2>1 DEF Made, Legibly
  <2>3. produced[j].timestamp = When(records[produced[j].of])
    BY <2>1 DEF Made, EventOf
  <2> QED BY <2>1, <2>2, <2>3, WhenIs DEF Made
<1>3. \A j \in S : key[j] = <<produced[j].timestamp, produced[j].of>>
  OBVIOUS
<1> HIDE DEF S, n
<1>4. Keyed(S, key, 2)
  <2>1. ASSUME NEW j \in S PROVE key[j] \in Tuples(2)
    <3> DEFINE t == <<produced[j].timestamp, produced[j].of>>
    <3>1. t \in Seq(Int) /\ Len(t) = 2
      BY <1>2
    <3> HIDE DEF key
    <3> QED BY <1>3, <3>1 DEF Tuples
  <2> HIDE DEF key
  <2> QED BY <1>1, <2>1 DEF Keyed
<1>5. EventOrder = InOrder(S, key)
  BY DEF EventOrder, S
<1> HIDE DEF key
<1>6. /\ DOMAIN EventOrder = 1 .. n /\ \A k \in 1 .. n : EventOrder[k] \in S
      /\ \A k, l \in 1 .. n : k < l => EventOrder[k] \in Ahead(S, key, EventOrder[l])
      /\ \A j \in S : \E k \in 1 .. n : EventOrder[k] = j
  <2> DEFINE order == InOrder(S, key)
             c == Cardinality(S)
  <2>0. /\ DOMAIN order = 1 .. c /\ \A k \in 1 .. c : order[k] \in S
        /\ \A k, l \in 1 .. c : k < l => order[k] \in Ahead(S, key, order[l])
        /\ \A j \in S : \E k \in 1 .. c : order[k] = j
    BY <1>4, Sorts
  <2> HIDE DEF order
  <2>1. /\ DOMAIN order = 1 .. n /\ \A k \in 1 .. n : order[k] \in S
        /\ \A k, l \in 1 .. n : k < l => order[k] \in Ahead(S, key, order[l])
        /\ \A j \in S : \E k \in 1 .. n : order[k] = j
    BY <1>1, <2>0
  <2> QED BY <1>5, <2>1 DEF order
<1>7. events = [k \in 1 .. n |-> produced[EventOrder[k]]]
  BY <1>6 DEF AdapterInv
<1>8. ASSUME NEW i \in S, NEW j \in S, i \in Ahead(S, key, j)
      PROVE  \/ produced[i].timestamp < produced[j].timestamp
             \/ /\ produced[i].timestamp = produced[j].timestamp
                /\ produced[i].of < produced[j].of \/ produced[i].of = produced[j].of
  <2>1. Before(key[i], key[j]) \/ key[i] = key[j]
    BY <1>8 DEF Ahead
  <2>2. /\ key[i] = <<produced[i].timestamp, produced[i].of>> /\ key[j] = <<produced[j].timestamp, produced[j].of>>
        /\ DOMAIN key[i] = 1 .. 2
    BY <1>3
  <2>3. CASE Before(key[i], key[j])
    <3>1. PICK m \in 1 .. 2 : key[i][m] < key[j][m] /\ \A l \in 1 .. m - 1 : key[i][l] = key[j][l]
      BY <2>2, <2>3 DEF Before
    <3>2. CASE m = 1
      BY <2>2, <3>1, <3>2
    <3>3. CASE m = 2
      <4>1. 1 \in 1 .. m - 1
        BY <3>3
      <4>2. key[i][1] = key[j][1] /\ key[i][2] < key[j][2]
        BY <3>1, <3>3, <4>1
      <4> QED BY <2>2, <4>2
    <3> QED BY <3>1, <3>2, <3>3
  <2>4. CASE key[i] = key[j]
    BY <2>2, <2>4
  <2> QED BY <2>1, <2>3, <2>4
<1>9. ASSUME NEW i \in S, NEW j \in S, produced[i].of = produced[j].of PROVE i = j
  <2>1. Made(produced[i]) /\ Made(produced[j])
    BY DEF AdapterInv, S
  <2>2. produced[i] = produced[j]
    BY <1>9, <2>1 DEF Made
  <2> QED BY <2>2 DEF AdapterInv, S
<1>10. ASSUME NEW k \in 1 .. n, NEW l \in 1 .. n, k < l
       PROVE  \/ events[k].timestamp < events[l].timestamp
              \/ events[k].timestamp = events[l].timestamp /\ events[k].of < events[l].of
  <2>1. EventOrder[k] \in S /\ EventOrder[l] \in S /\ EventOrder[k] \in Ahead(S, key, EventOrder[l])
    BY <1>6, <1>10
  <2>2. EventOrder[k] # EventOrder[l]
    BY <1>4, <2>1, AheadOrders
  <2>3. events[k] = produced[EventOrder[k]] /\ events[l] = produced[EventOrder[l]]
    BY <1>7
  <2> QED BY <1>8, <1>9, <2>1, <2>2, <2>3
<1>11. DOMAIN events = 1 .. n /\ Len(events) = n
  BY <1>1, <1>7
<1> QED BY <1>1, <1>6, <1>7, <1>10, <1>11 DEF n

LEMMA AdapterIsSound == AdapterInv => RecordingsSound
<1> SUFFICES ASSUME AdapterInv, events # Missing PROVE RecordingsSound
  BY DEF RecordingsSound
<1> DEFINE n == Len(produced)
<1>1. /\ n \in Nat /\ DOMAIN events = 1 .. n /\ Len(events) = n
      /\ \A k \in 1 .. n : EventOrder[k] \in 1 .. n /\ events[k] = produced[EventOrder[k]]
      /\ \A k, l \in 1 .. n : k < l =>
           \/ events[k].timestamp < events[l].timestamp
           \/ events[k].timestamp = events[l].timestamp /\ events[k].of < events[l].of
      /\ \A j \in 1 .. n : \E k \in 1 .. n : EventOrder[k] = j
  BY EventsAre
<1>2. /\ Legibly /\ at = Len(records) /\ DOMAIN produced = 1 .. n /\ DOMAIN records = 1 .. Len(records)
      /\ Len(records) \in Nat
  BY DEF AdapterInv, Legibly
<1>3. Len(records) = report.skipped + report.rejected + report.dropped + Len(events)
  BY <1>1, <1>2 DEF AdapterInv, Counted
<1>4. \A j \in 1 .. n : Made(produced[j])
  BY <1>2 DEF AdapterInv
<1> HIDE DEF n
<1>5. ASSUME NEW k \in 1 .. n
      PROVE  /\ events[k].of \in DOMAIN records /\ Usable(records[events[k].of])
             /\ events[k] = EventOf(events[k].of) /\ events[k].id = KeyOf(events[k].of)
             /\ events[k].timestamp = When(records[events[k].of])
  <2>1. Made(events[k])
    BY <1>1, <1>4
  <2> QED BY <1>2, <2>1 DEF Made, EventOf
<1>6. ASSUME NEW k \in 1 .. n, NEW l \in 1 .. n, events[k].id = events[l].id PROVE k = l
  <2> DEFINE i == EventOrder[k]
             j == EventOrder[l]
  <2>0. i \in DOMAIN produced /\ j \in DOMAIN produced /\ events[k] = produced[i] /\ events[l] = produced[j]
    BY <1>1, <1>2
  <2> HIDE DEF i, j
  <2>1. i = j
    BY <1>6, <2>0 DEF AdapterInv
  <2>2. events[k] = events[l]
    BY <2>0, <2>1
  <2>3. ~ (k < l) /\ ~ (l < k)
    <3>1. /\ events[k].timestamp \in Int /\ events[k].of \in Int
      <4>1. events[k].timestamp \in Int /\ events[k].of \in 1 .. Len(records)
        BY <1>2, <1>5, WhenIs
      <4> QED BY <4>1
    <3>2. ~ (events[k].timestamp < events[k].timestamp) /\ ~ (events[k].of < events[k].of)
      BY <3>1
    <3> QED BY <1>1, <2>2, <3>2
  <2> QED BY <1>1, <2>3
<1>7. ASSUME NumbersIdentify
      PROVE  /\ {records[e.of] : e \in ToSet(events)} = {r \in ToSet(records) : Usable(r)}
             /\ joined # Missing => \A row \in ToSet(joined) : records[row.event.of] = records[row.record]
  <2>1. ASSUME NEW e \in ToSet(events) PROVE records[e.of] \in {r \in ToSet(records) : Usable(r)}
    <3>1. PICK k \in 1 .. n : e = events[k]
      BY <1>1 DEF ToSet
    <3> QED BY <1>5, <3>1 DEF ToSet
  <2>2. ASSUME NEW r \in ToSet(records), Usable(r) PROVE r \in {records[e.of] : e \in ToSet(events)}
    <3>1. PICK i \in DOMAIN records : r = records[i]
      BY DEF ToSet
    <3>2. Taken(i)
      BY <1>2, <2>2, <3>1 DEF AdapterInv
    <3>3. PICK j \in 1 .. n : produced[j].id = KeyOf(i)
      BY <1>2, <3>2 DEF Taken
    <3>4. PICK k \in 1 .. n : EventOrder[k] = j
      BY <1>1
    <3>5. events[k] = produced[j] /\ events[k] \in ToSet(events)
      BY <1>1, <3>4 DEF ToSet
    <3>6. events[k].of \in DOMAIN records /\ KeyOf(events[k].of) = KeyOf(i)
      BY <1>5, <3>3, <3>5
    <3>7. records[events[k].of] = r
      BY <1>7, <3>1, <3>6 DEF NumbersIdentify
    <3> QED BY <3>5, <3>7
  <2>3. ASSUME joined # Missing, NEW row \in ToSet(joined) PROVE records[row.event.of] = records[row.record]
    <3>1. joined = [i \in DOMAIN events |-> [event |-> events[i], record |-> ByKey(events[i].id)]]
      BY <2>3 DEF AdapterInv
    <3>2. PICK k \in 1 .. n : row = [event |-> events[k], record |-> ByKey(events[k].id)]
      BY <1>1, <3>1 DEF ToSet
    <3> DEFINE S == {i \in DOMAIN records : KeyOf(i) = events[k].id}
    <3>3. S \in SUBSET Nat /\ IsFiniteSet(S) /\ events[k].of \in S
      <4>1. S \in SUBSET DOMAIN records /\ events[k].of \in S
        BY <1>5
      <4>2. IsFiniteSet(1 .. Len(records)) /\ 1 .. Len(records) \in SUBSET Nat
        BY <1>2, FS_Interval
      <4> HIDE DEF S
      <4> QED BY <1>2, <4>1, <4>2, FS_Subset
    <3>4. Max(S) \in S
      <4> HIDE DEF S
      <4> QED BY <3>3, MaxIsGreatest
    <3>5. row.record \in DOMAIN records /\ KeyOf(row.record) = KeyOf(row.event.of) /\ row.event.of \in DOMAIN records
      BY <1>5, <3>2, <3>4 DEF ByKey
    <3> QED BY <1>7, <3>5 DEF NumbersIdentify
  <2> QED BY <2>1, <2>2, <2>3
<1>8. ASSUME ClocksExplained, NEW e \in ToSet(events)
      PROVE  /\ e.timestamp = records[e.of].happened
             /\ e.family[1] = "script_block" /\ StartsNamed /\ TrueImage(records[e.of]) # {}
                  => e.executable \in TrueImage(records[e.of])
  <2>1. PICK k \in 1 .. n : e = events[k]
    BY <1>1 DEF ToSet
  <2> DEFINE r == records[e.of]
  <2>2. e.of \in DOMAIN records /\ Usable(r) /\ e = EventOf(e.of)
    BY <1>5, <2>1
  <2>3. When(r) = r.happened
    BY <1>2, <1>8, <2>2, WhenIsTrue
  <2>4. /\ e.timestamp = When(r) /\ e.family = Family(r)
        /\ r.channel = "powershell" => e.executable = ImageAt(r.host, r.pid, When(r))
    BY <2>2 DEF EventOf
  <2>5. ASSUME e.family[1] = "script_block", StartsNamed, TrueImage(r) # {}
        PROVE  e.executable \in TrueImage(r)
    <3>1. r.channel = "powershell"
      BY <2>2, <2>4, <2>5, Scripts DEF Usable
    <3> QED BY <1>2, <1>8, <2>2, <2>3, <2>4, <2>5, <3>1, ImageIsTrue
  <2> QED BY <2>3, <2>4, <2>5
<1> QED BY <1>1, <1>3, <1>6, <1>7, <1>8 DEF RecordingsSound

AdapterSpec == AdapterInit /\ [][AdapterNext]_adapterVars

(* Of any recording, of whatever order: its events come out in order, one of *)
(* each usable record, at the times they happened, and with the record they *)
(* were made of.                                                           *)
THEOREM RecordingsAreTold == AdapterSpec => []RecordingsSound
BY AdapterStarts, AdapterSteps, AdapterIsSound, PTL DEF AdapterSpec
=============================================================================
