----------------------------- MODULE RuleEngine -----------------------------
(***************************************************************************)
(* rules/loader.py, evaluator/engine.py and alerting/: a directory of rule *)
(* files becomes the rules of an evaluator, or an error; events are judged *)
(* by each rule of their type on its own; and a match becomes an alert     *)
(* with the response the rule recommends.                                  *)
(***************************************************************************)
EXTENDS RuleTree

CONSTANTS
  Directories,   (* the sequences of files, sorted by path, that may be there *)
  Lists,         (* the named lists: name -> values                          *)
  Events,        (* records of type, fields, odd, ancestors, decoded, pid    *)
  MaxEvaluated   (* bound: events evaluated                                  *)

ASSUME EngineAssumption ==
  /\ \A files \in Directories : files \in Seq(Range(files))
  /\ \A files \in Directories : \A file \in Range(files) :
       /\ DOMAIN file = {"id", "kind", "status", "type", "logic", "level", "evidence", "response"}
       /\ file.logic \in Nodes /\ file.level \in Nat
  /\ \A node \in Nodes :
       (\A c \in Conditions(node) : c.list \in DOMAIN Lists \cup {None}) => Resolved(node, Lists) \in Nodes

VARIABLES
  directory,     (* the files: records of id, kind, status, type, logic,     *)
                 (* level, evidence and response; kind None does not parse   *)
  rules,         (* the rules the evaluator was given                        *)
  loading,       (* "no", "done" or "failed"                                 *)
  rule_errors,   (* id -> exceptions counted                                 *)
  alerts,        (* the alerts made                                          *)
  evaluated      (* ghost: the events evaluated, in order                    *)

engineVars == <<directory, rules, loading, rule_errors, alerts, evaluated>>

RuleKinds == {"single", "sequence", "threshold", "value_count"}

(* load_file and validate_rule, after the files whose ids are seen.         *)
Sound(file, seen) ==
  /\ file.kind \in RuleKinds
  /\ \A c \in Conditions(file.logic) : c.list \in DOMAIN Lists \cup {None}
  /\ file.id # None /\ file.id \notin seen
  /\ file.type # None
  /\ ValidLogic(Resolved(file.logic, Lists))

(* The ids of the files before the i-th.                                   *)
Seen(files, i) == {files[j].id : j \in 1 .. i - 1}

(* The rules of the enabled files, with their lists in place.              *)
EnabledRules(files, sound) ==
  {[files[i] EXCEPT !.logic = Resolved(@, Lists)] : i \in {j \in sound : files[j].status = "enabled"}}

(* Mutant of LoadDirectory: a file that fails is passed over.               *)
LoadLeniently(files) ==
  [ok |-> TRUE, rules |-> EnabledRules(files, {i \in DOMAIN files : Sound(files[i], Seen(files, i))})]

(* load_directory: the enabled ones, or an error at the first that fails.   *)
LoadDirectory(files) ==
  LET sound == {i \in DOMAIN files : Sound(files[i], Seen(files, i))}
  IN  IF sound = DOMAIN files THEN [ok |-> TRUE, rules |-> EnabledRules(files, sound)]
      ELSE [ok |-> FALSE, rules |-> {}]

(* resolve_action: what the rule asks for comes first; a level decides only *)
(* for a rule that asks for nothing; what is not supported is nothing.      *)
ResolveAction(rule, e) ==
  LET asked == rule.response
  IN  CASE asked = "TERMINATE_PROCESS" \/ (asked = None /\ e.pid # None /\ rule.level \in {12, 13})
             -> [action |-> "TERMINATE_PROCESS", pid |-> e.pid]
        [] asked = "ISOLATE_HOST" \/ (asked = None /\ rule.level >= 14)
             -> [action |-> "ISOLATE_HOST", pid |-> e.pid]
        [] asked \in {"COLLECT_PROCESS_INFO", "COLLECT_NETWORK_CONNECTIONS", "QUARANTINE_FILE"}
             -> [action |-> asked, pid |-> IF asked = "COLLECT_PROCESS_INFO" THEN e.pid ELSE None]
        [] OTHER -> None

(* collect_evidence: the fields the rule names that have a value.           *)
Evidence(rule, e) == {f \in rule.evidence : ExtractField(e, f) # None}

(* from_detection_result, and _stable_alert_id.                             *)
AlertOf(rule, e, trace) ==
  [id |-> <<rule.id, e, Evidence(rule, e)>>, rule |-> rule.id, level |-> rule.level,
   conditions |-> trace, response |-> ResolveAction(rule, e), event |-> e]

(* One rule on one event: judging it or collecting evidence may raise.      *)
Judged(rule, e) ==
  LET r == EvaluateLogic(rule.logic, e)
  IN  [r EXCEPT !.raised = @ \/ (r.ok /\ \E f \in rule.evidence : ExtractRaises(e, f))]

Reading(e) == {r \in rules : r.kind = "single" /\ r.type = e.type}

(* Mutant of Matches: a rule that raises ends the loop over the others.     *)
MatchesUntilOneRaises(e) ==
  {r \in Reading(e) : Judged(r, e).ok /\ \A other \in Reading(e) : ~ Judged(other, e).raised}

Matches(e) == {r \in Reading(e) : Judged(r, e).ok /\ ~ Judged(r, e).raised}

EngineInit ==
  /\ directory \in Directories
  /\ rules = {} /\ loading = "no" /\ rule_errors = <<>>
  /\ alerts = {} /\ evaluated = <<>>

(* A loader reads the directory once, and the evaluator takes what it read. *)
LoadRules ==
  /\ loading = "no"
  /\ LET done == LoadDirectory(directory)
     IN  /\ loading' = IF done.ok THEN "done" ELSE "failed"
         /\ rules' = done.rules
  /\ UNCHANGED <<directory, rule_errors, alerts, evaluated>>

(* evaluate_event.                                                         *)
EvaluateEvent(e) ==
  LET raising == {r.id : r \in {x \in Reading(e) : Judged(x, e).raised}}
      Errors(id) == IF id \in DOMAIN rule_errors THEN rule_errors[id] ELSE 0
  IN  /\ loading = "done" /\ Len(evaluated) < MaxEvaluated
      /\ evaluated' = Append(evaluated, e)
      /\ alerts' = alerts \cup {AlertOf(r, e, Judged(r, e).trace) : r \in Matches(e)}
      /\ rule_errors' = [id \in DOMAIN rule_errors \cup raising |->
                           Errors(id) + (IF id \in raising THEN 1 ELSE 0)]
      /\ UNCHANGED <<directory, rules, loading>>

EngineNext == LoadRules \/ \E e \in Events : EvaluateEvent(e)

EngineSpec == EngineInit /\ [][EngineNext]_engineVars
-----------------------------------------------------------------------------
Rearranged(files) ==
  {[i \in DOMAIN files |-> files[order[i]]] :
     order \in {f \in [DOMAIN files -> DOMAIN files] : \A i, j \in DOMAIN files : i # j => f[i] # f[j]}}

(* Loading is all or nothing, loader.py:93-117 and validator.py:45-70: the  *)
(* rules in use are every enabled file of the directory, each once, sound  *)
(* by itself and with its lists in place, whatever order the files came in; *)
(* or there are none.                                                      *)
RulesSound ==
  /\ loading = "done" =>
       /\ \A i, j \in DOMAIN directory : i # j => directory[i].id # directory[j].id
       /\ {r.id : r \in rules} = {f.id : f \in {x \in Range(directory) : x.status = "enabled"}}
       /\ \A r \in rules : Sound(r, {}) /\ \A c \in Conditions(r.logic) : c.list = None
  /\ \A files \in Rearranged(directory) :
       /\ LoadDirectory(files).ok = LoadDirectory(directory).ok
       /\ LoadDirectory(directory).ok =>
            LoadDirectory(files).rules = LoadDirectory(directory).rules

(* The conditions that hold of an event, and what no odd field can unsettle. *)
TrueOf(rule, e) == {c \in Conditions(rule.logic) : MatchCondition(c, e)}
Plain(rule, e) ==
  /\ \A c \in Conditions(rule.logic) : ~ MatchRaises(c, e)
  /\ \A f \in rule.evidence : ~ ExtractRaises(e, f)

(* "Isolated per rule", engine.py:75-90; the trace, matcher.py:116-117; and *)
(* active_response.py:63-134. Every event is judged by every rule of its   *)
(* type as the rule reads, whatever another rule does with it; an alert    *)
(* names conditions that held and that suffice; and it recommends only     *)
(* what its rule asks for, or, asked for nothing, what its level stands for. *)
VerdictsSound ==
  LET AlertsOf(r, e) == {a \in alerts : a.rule = r.id /\ a.event = e}
  IN  \A i \in DOMAIN evaluated : \A r \in Reading(evaluated[i]) :
        LET e == evaluated[i]
        IN  /\ Plain(r, e) => (AlertsOf(r, e) # {} <=> Means(r.logic, TrueOf(r, e)))
            /\ \A a \in AlertsOf(r, e) :
                 /\ a.conditions \subseteq TrueOf(r, e)
                 /\ Explains(a.conditions, r.logic, TrueOf(r, e))
                 /\ a.response # None =>
                      \/ a.response.action = r.response
                      \/ /\ r.response = None
                         /\ a.response.action = IF r.level < 14 THEN "TERMINATE_PROCESS" ELSE "ISOLATE_HOST"
                         /\ r.level >= 12
=============================================================================
