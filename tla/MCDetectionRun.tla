--------------------------- MODULE MCDetectionRun ---------------------------
(* Instances of DetectionRun for TLC.                                      *)
EXTENDS DetectionRun

CONSTANTS a1, v1, v2, noisy, strong, rare, sequence, windowed

OneActor == {a1}
AllRules == {noisy, strong, rare, sequence, windowed}

Shape(steps, value, rule) == [steps |-> steps, value |-> value, rule |-> rule]

(* A first step, a second step, an event that is both, and an event that   *)
(* only counts; the rules of the first and the third are evidence.         *)
TwoStepShapes ==
  {Shape({1}, v1, noisy), Shape({2}, v2, None),
   Shape({1, 2}, None, strong), Shape({}, v1, rare)}

BehavioralRules == {rare}

(* The levels of these rules: they earn different points.                 *)
MCLevel(r) ==
  CASE r = strong -> 16 [] r = sequence -> 13 [] r = noisy -> 12 [] OTHER -> 9

MCStrength(r) == MCLevel(r) * 2 + (IF r = rare THEN 1 ELSE 0)

(* int(s * 0.5 ** (d / 2)), for a half-life of two ticks.                  *)
MCDecayed(s, d) ==
  (IF d % 2 = 0 THEN s ELSE (s * 7071) \div 10000) \div 2 ^ (d \div 2)
=============================================================================
