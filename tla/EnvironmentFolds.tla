--------------------------- MODULE EnvironmentFolds ---------------------------
(***************************************************************************)
(* The evaluation of the models, loeo.py and context_loeo.py: a model is   *)
(* trained with every environment but one, its threshold set from scores   *)
(* out of inner folds, and what it does in the environment left out is     *)
(* counted. How good a model is, and how GroupKFold fills its folds, is    *)
(* not known here: any score and any assignment will do. Budgets are events*)
(* per host-hour, scores whole numbers.                                    *)
(***************************************************************************)
EXTENDS Integers, Sequences, SequencesExt, FiniteSets, FiniteSetsExt

CONSTANTS
  RowSets,         (* the corpora                                            *)
  Environments,    (* a sequence: they are left out in turn                   *)
  Recipes,         (* sequence of [exclude, policy]: the candidates          *)
  NInner, GroupCap, ImageCap, Budget, GapCap,
  ScoreSet,
  Everywhere       (* held out: nothing                                      *)

(* A row: [id, env, host, hour, label, key, group, template, image, infra].  *)
ASSUME FoldsAssumption ==
  /\ \A corpus \in RowSets : IsFiniteSet(corpus) /\ \A r \in corpus : r.hour \in Nat
  /\ ScoreSet \subseteq Nat /\ {GapCap, Budget} \subseteq Nat

VARIABLES
  rows,            (* the corpus                                             *)
  protocol,        (* "loeo": units of rows; "context": replayed processes   *)
  units,           (* build_units, or load_replays, of them                  *)
  fit,             (* the Fit at hand, or Everywhere when there is none      *)
  turn,            (* the recipe and the environment that are next           *)
  res              (* what evaluate said last, or Everywhere                 *)

foldVars == <<rows, protocol, units, fit, turn, res>>

FoldsInit ==
  /\ rows \in RowSets /\ protocol \in {"loeo", "context"} /\ units = {} /\ fit = Everywhere
  /\ turn = <<1, 1>> /\ res = Everywhere

(* Mutant of MergedGroup: groups that share a template, one step only.      *)
GroupsSharing(attacks, group) ==
  {g \in {u.group : u \in attacks} :
     \E u, v \in attacks : u.group = group /\ v.group = g /\ u.rep.template = v.rep.template}

(* _merge_templates: the groups of attack rows that share a template, and   *)
(* so on, are one group; it is named by the set of them.                   *)
MergedGroup(attacks, group) ==
  LET groups == {u.group : u \in attacks}
      Whole(found) == \A u, v \in attacks :
                        u.rep.template = v.rep.template /\ u.group \in found => v.group \in found
  IN  {g \in groups : \A found \in SUBSET groups : Whole(found) /\ group \in found => g \in found}

(* What makes rows one unit; load_replays has a process of every row.      *)
UnitOf(r) == <<r.env, r.label, r.key, IF protocol = "loeo" THEN 0 ELSE r.id>>

(* build_units: a unit of rows is in conflict when its key is labelled both *)
(* ways; a process never is.                                               *)
BuildUnits ==
  LET plain == {LET of == {r \in rows : UnitOf(r) = u}
                    rep == CHOOSE r \in of : \A s \in of : r.hour < s.hour \/ (r.hour = s.hour /\ r.id <= s.id)
                IN  [env |-> u[1], label |-> u[2], key |-> u[3], rep |-> rep, rows |-> of,
                     group |-> rep.group, infra |-> rep.infra,
                     conflict |-> protocol = "loeo" /\ \E r \in rows : r.key = u[3] /\ r.label \notin {u[2], -1}] :
                u \in {UnitOf(r) : r \in {s \in rows : s.label # -1}}}
      attacks == {u \in plain : u.label = 1 /\ ~ u.conflict}
  IN  /\ units = {}
      /\ units' = (plain \ attacks) \cup {[u EXCEPT !.group = MergedGroup(attacks, @)] : u \in attacks}
      /\ UNCHANGED <<rows, protocol, fit, turn, res>>

(* How many rows some units are of.                                        *)
CountOf(us) == Cardinality(UNION {u.rows : u \in us})

(* observed_hours: gaps between a host's events, each of at most GapCap; an *)
(* hour counts after an event if another follows within GapCap.            *)
ObservedHours(env) ==
  LET of == {r \in rows : r.env = env}
      Observed(r) == {h \in 0 .. r.hour - 1 : h >= r.hour - GapCap /\ \E s \in of : s.host = r.host /\ s.hour <= h}
  IN  Cardinality(UNION {{r.host} \X Observed(r) : r \in of})

(* _capped: at most cap units of each kind, in a fixed order.               *)
Capped(us, kind, cap) ==
  {u \in us : Cardinality({v \in us : kind[v] = kind[u] /\ v.rep.id < u.rep.id}) < cap}

TrainingUnits(recipe, out) ==
  LET pool == {u \in units : u.env \notin recipe.exclude \cup {out} /\ ~ u.conflict /\ ~ u.infra}
  IN  Capped({u \in pool : u.label = 1}, [u \in pool |-> u.group], GroupCap)
      \cup Capped({u \in pool : u.label = 0}, [u \in pool |-> <<u.env, u.rep.image>>], ImageCap)

(* threshold_for_budget: the lowest score at which what is flagged stays    *)
(* within what is allowed; tied scores go together.                        *)
ThresholdForBudget(us, oof, allowed) ==
  LET flagged(t) == CountOf({u \in us : oof[u] >= t})
  IN  Min({Max({oof[u] : u \in us}) + 1} \cup {t \in {oof[u] : u \in us} : flagged(t) <= allowed})

(* _thresholds: the strictest of the environments, or one for all of them.  *)
Thresholds(policy, us, oof) ==
  LET of(env) == {u \in us : u.env = env}
      envs == {u.env : u \in us}
      perEnv == [env \in envs |-> ThresholdForBudget(of(env), oof, Budget * ObservedHours(env))]
  IN  [per_env |-> perEnv,
       alert |-> IF policy = "minimax" THEN Max({perEnv[env] : env \in envs})
                 ELSE ThresholdForBudget(us, oof, MapThenSumSet(LAMBDA env : Budget * ObservedHours(env), envs))]

(* GroupKFold, per class: every fold gets a group; one fold where there is  *)
(* one group.                                                              *)
FoldAssignments(groups) ==
  LET n == Min({NInner, Cardinality(groups)})
  IN  {f \in [groups -> 0 .. Max({n, 1}) - 1] : \A k \in 0 .. n - 1 : \E g \in groups : f[g] = k}

(* run_recipe takes the environments that have units one by one.           *)
NextTurn == IF turn[2] = Len(Environments) THEN <<turn[1] + 1, 1>> ELSE <<turn[1], turn[2] + 1>>

NothingThere ==
  /\ units # {} /\ fit = Everywhere /\ turn[1] \in DOMAIN Recipes
  /\ \A u \in units : u.env # Environments[turn[2]]
  /\ turn' = NextTurn
  /\ UNCHANGED <<rows, protocol, units, fit, res>>

(* What thresholds are set from.                                           *)
Heard(us) == {u \in us : protocol = "loeo" \/ ObservedHours(u.env) > 0}

(* What fit_fold scores: all that is benign outside the environment.       *)
Benign(out, train) ==
  {u \in units : u.label = 0 /\ (IF protocol = "loeo" THEN \E t \in train : t.env = u.env ELSE u.env # out)}

(* fit, and fit_fold: what every fold but one teaches scores that one. A    *)
(* fold that would learn one class only ends the run, or, in context_loeo,  *)
(* is left unscored. The scores of attacks set no threshold: who taught     *)
(* their scorer is all that is kept of them.                               *)
FitFold ==
  LET recipe == Recipes[turn[1]]
      out == Environments[turn[2]]
      train == TrainingUnits(recipe, out)
      thr == Benign(out, train)
      mine == thr \cup {u \in train : u.label = 1 /\ protocol = "loeo"}
      Groups(label) == {u.group : u \in {v \in train \cup thr : v.label = label}}
  IN  /\ units # {} /\ fit = Everywhere /\ turn[1] \in DOMAIN Recipes
      /\ \E u \in units : u.env = out
      /\ \E benign \in FoldAssignments(Groups(0)), attack \in FoldAssignments(Groups(1)) :
           LET InFold(u) == IF u.label = 1 THEN attack[u.group] ELSE benign[u.group]
               Teaches(k) == {u \in train : InFold(u) # k}
               lost == {u \in mine : Cardinality({v.label : v \in Teaches(InFold(u))}) < 2}
               heard == Heard(thr \ lost)
           IN  IF (lost # {} /\ protocol = "loeo") \/ heard = {}
               THEN turn' = <<Len(Recipes) + 1, 1>> /\ UNCHANGED fit
               ELSE \E oof \in [thr \ lost -> ScoreSet] :
                      /\ fit' = [recipe |-> recipe, held_out |-> out, train |-> train, oof |-> oof,
                                 teachers |-> [u \in mine \ lost |-> Teaches(InFold(u))],
                                 thresholds |-> Thresholds(recipe.policy, heard, oof)]
                      /\ UNCHANGED turn
      /\ UNCHANGED <<rows, protocol, units, res>>

(* evaluate: what the final model flags in the environment left out, per    *)
(* hour where any was observed.                                            *)
Evaluate ==
  LET mine == {u \in units : u.env = fit.held_out}
      attacks == {u \in mine : u.label = 1 /\ ~ u.conflict}
      hours == ObservedHours(fit.held_out)
  IN  /\ fit # Everywhere
      /\ \E flagged \in SUBSET mine :
           LET fp == CountOf({u \in flagged : u.label = 0})
           IN  res' = [fp |-> fp, meets |-> hours = 0 \/ fp <= Budget * hours,
                       detected |-> Cardinality(flagged \cap attacks), attacks |-> Cardinality(attacks)]
      /\ fit' = Everywhere /\ turn' = NextTurn
      /\ UNCHANGED <<rows, protocol, units>>

FoldsNext == BuildUnits \/ NothingThere \/ FitFold \/ Evaluate

FoldsSpec == FoldsInit /\ [][FoldsNext]_foldVars
-----------------------------------------------------------------------------
(* loeo.py:187-188 ("near-duplicates never straddle folds"), :414-425 and   *)
(* :452-467, experiment.py:416. Nothing a model learned from, in the final  *)
(* fit or in the fold that scores a unit, is of the environment left out,   *)
(* of the recording itself, of a key labelled both ways, or, for an attack, *)
(* of its group or of the same command; each environment trained on meets   *)
(* its budget at the threshold, under the strict policy, on the hours it    *)
(* was observed, and one of them would not at any lower score it saw.       *)
FoldsSound ==
  /\ fit # Everywhere =>
       LET benign(env) == {u \in DOMAIN fit.oof : u.env = env}
           events(env, t) == CountOf({u \in benign(env) : fit.oof[u] >= t})
           meets(t) == \A env \in DOMAIN fit.thresholds.per_env : events(env, t) <= Budget * ObservedHours(env)
       IN  /\ \A u \in fit.train :
                /\ ~ u.infra /\ u.env # fit.held_out
                /\ \A row \in rows : protocol = "loeo" /\ row.key = u.key /\ row.label # -1 => row.label = u.label
           /\ \A u \in DOMAIN fit.teachers : u.label = 1 =>
                \A v \in fit.teachers[u] : v.label = 1 => v.rep.template # u.rep.template /\ v.rep.group # u.rep.group
           /\ \A env \in ToSet(Environments) \ (fit.recipe.exclude \cup {fit.held_out}) :
                protocol = "loeo" =>
                  {u \in units : u.env = env /\ u.label = 0} \subseteq DOMAIN fit.oof \/ \A u \in fit.train : u.env # env
           /\ fit.recipe.policy = "minimax" =>
                /\ meets(fit.thresholds.alert)
                /\ \E env \in DOMAIN fit.thresholds.per_env : \A u \in benign(env) :
                     fit.oof[u] < fit.thresholds.alert => events(env, fit.oof[u]) > Budget * ObservedHours(env)
=============================================================================
