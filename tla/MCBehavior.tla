----------------------------- MODULE MCBehavior -----------------------------
(* The behavioral components, for TLC. They share no state: a run is of one *)
(* of them, chosen as it starts.                                           *)
EXTENDS BeaconDetector, StorylineIndex, ProcessFeatures, RarityBaseline

CONSTANTS k1, p, q, other, exe, dll, lsass, site, word, shell

VARIABLE focus

vars == <<focus, beaconVars, storyVars, edges, rarityVars>>

Init == /\ focus \in {"beacons", "storyline", "features", "rarity"}
        /\ BeaconInit /\ StoryInit /\ FeaturesInit /\ RarityInit

Beacons == focus = "beacons" /\ BeaconNext /\ UNCHANGED <<focus, storyVars, edges, rarityVars>>
Storyline == focus = "storyline" /\ StoryNext /\ UNCHANGED <<focus, beaconVars, edges, rarityVars>>
Features4 == focus = "features" /\ FeaturesNext /\ UNCHANGED <<focus, beaconVars, storyVars, rarityVars>>
Rarity == focus = "rarity" /\ RarityNext /\ UNCHANGED <<focus, beaconVars, storyVars, edges>>

Next == Beacons \/ Storyline \/ Features4 \/ Rarity

Spec == Init /\ [][Next]_vars

ThreeTwentieths == <<3, 20>>
OneFifth == <<1, 5>>
FourFifths == <<4, 5>>

(* Rules of three tactics, a model and a rarity, with their points.         *)
Kind(source, soft, object, score, tactic) ==
  [source |-> source, soft |-> soft, object |-> object, score |-> score, tactic |-> tactic]
SomeRisks ==
  {Kind("r1", FALSE, "x", RulePoints(12, 80), 1), Kind("r1", FALSE, "x", RulePoints(8, 80), 1),
   Kind("r2", FALSE, "x", RulePoints(9, 90), 2), Kind("r3", FALSE, "x", RulePoints(4, -1), 3),
   Kind("ml", TRUE, "x", 25, 0), Kind("rarity", TRUE, "y", 90, 0)}

(* p writes what q runs, loads, opens and injects; q forks and connects.   *)
Happening(kind, src, dst, ts, traits) ==
  [kind |-> kind, src |-> src, dst |-> dst, ts |-> ts, traits |-> traits]
SomeHappenings ==
  {Happening("wrote", x, exe, t, {}) : x \in {p, other}, t \in {1, 2}}
   \cup {Happening("forked", p, q, t, {}) : t \in {2, 3}}
   \cup {Happening("injected", p, q, 3, {}), Happening("injected", q, p, 3, {}),
         Happening("injected", q, q, 3, {}), Happening("loaded", q, dll, 2, {}),
         Happening("accessed", q, lsass, 3, {"reads_memory"}),
         Happening("connected_to", p, site, 2, {}), Happening("resolved", q, site, 3, {"failed"})}
NodeTraits ==
  (p :> {"lolbin"}) @@ (q :> {"lolbin"}) @@ (other :> {})
    @@ (exe :> {"user_path", "droppable", "executable"}) @@ (dll :> {"unsigned", "user_path"})
    @@ (lsass :> {"lsass"}) @@ (site :> {"public"})
Starts2 == (p :> 1) @@ (q :> 2)
Ends2 == (p :> NoTime) @@ (q :> 3)
Images2 == (p :> dll) @@ (q :> exe)

Start(name, parent, class, access, threads, start, inferred) ==
  [name |-> name, parent |-> parent, path_class |-> class, access |-> access,
   threads |-> threads, start |-> start, inferred |-> inferred]
SomeStarts ==
  {Start(word, shell, "system", {}, {}, 1, FALSE), Start(shell, word, "temp", {lsass}, {}, 2, FALSE),
   Start(shell, None, "system", {}, {lsass}, 3, FALSE), Start(word, shell, None, {}, {}, 4, TRUE)}
=============================================================================
