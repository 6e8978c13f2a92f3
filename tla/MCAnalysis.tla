----------------------------- MODULE MCAnalysis -----------------------------
(* Rules, ingestion and the training tools, for TLC. They share no state: a *)
(* run is of one of them, chosen as it starts.                             *)
EXTENDS RuleEngine, Ingestion, PinnedFetch, RecordingLabels, EnvironmentFolds, DatasetAdapter,
        TLC

CONSTANTS office, scripts, word, WORD, ps, other, p1, archive, page, good, better

VARIABLE focus

offlineVars == <<fetchVars, labelVars, foldVars, adapterVars>>
vars == <<focus, engineVars, ingestVars, offlineVars>>

(* The parts that a run is not of have nothing to do.                      *)
NoRules == /\ directory = <<>> /\ rules = {} /\ loading = "no" /\ rule_errors = <<>>
           /\ alerts = {} /\ evaluated = <<>>
NoFetch == /\ remote = [k \in FetchKeys |-> Page] /\ on_disk = [k \in FetchKeys |-> Absent]
           /\ part = on_disk /\ data = on_disk /\ saved = on_disk /\ answers = 0
           /\ job = [k \in FetchKeys |-> "waiting"] /\ tries = [k \in FetchKeys |-> 0]
NoLines == /\ from = "file" /\ unwritten = <<>> /\ pipe = <<>> /\ delivered = <<>> /\ taken = <<>>
           /\ agent = "exited" /\ session = FALSE /\ halted = FALSE /\ stream = "open"
NoLabels == unread = <<>> /\ labelled = <<>> /\ final = Unlabelled
NoFolds == /\ rows = {} /\ protocol = "loeo" /\ units = {} /\ fit = Everywhere
           /\ turn = <<1, 1>> /\ res = Everywhere
NoRecords == /\ purpose = "events" /\ records = <<>> /\ at = 0 /\ produced = <<>> /\ joined = Missing
             /\ report = [skipped |-> 0, rejected |-> 0, dropped |-> 0, mapped |-> 0] /\ events = Missing

Init == /\ focus \in {"rules", "ingestion", "fetch", "labels", "folds", "recordings"}
        /\ IF focus = "rules" THEN EngineInit ELSE NoRules
        /\ IF focus = "ingestion" THEN IngestInit ELSE NoLines
        /\ IF focus = "fetch" THEN FetchInit ELSE NoFetch
        /\ IF focus = "labels" THEN LabelInit ELSE NoLabels
        /\ IF focus = "folds" THEN FoldsInit ELSE NoFolds
        /\ IF focus = "recordings" THEN AdapterInit ELSE NoRecords

Rules == focus = "rules" /\ EngineNext /\ UNCHANGED <<focus, ingestVars, offlineVars>>
Lines == focus = "ingestion" /\ IngestNext /\ UNCHANGED <<focus, engineVars, offlineVars>>
Fetching == focus = "fetch" /\ FetchNext /\ UNCHANGED <<focus, engineVars, ingestVars, labelVars, foldVars, adapterVars>>
Labelling == focus = "labels" /\ LabelNext /\ UNCHANGED <<focus, engineVars, ingestVars, fetchVars, foldVars, adapterVars>>
Folding == focus = "folds" /\ FoldsNext /\ UNCHANGED <<focus, engineVars, ingestVars, fetchVars, labelVars, adapterVars>>
Adapting == /\ focus = "recordings" /\ AdapterNext
            /\ UNCHANGED <<focus, engineVars, ingestVars, fetchVars, labelVars, foldVars>>

Next == Rules \/ Lines \/ Fetching \/ Labelling \/ Folding \/ Adapting

Spec == Init /\ [][Next]_vars

Folded == (WORD :> word) @@ [v \in {word, ps, other, None, TRUE, FALSE} |-> v]
Found2 == {<<"contains", ps, word>>, <<"regex", other, word>>, <<"regex", ps, ps>>}
SomeIndicators == {<<"hash", ps>>}
NoNumbers == <<>>
NamedLists == office :> {word, ps}

Cond(op, field, values, list, cased) ==
  [op |-> op, field |-> field, values |-> values, list |-> list, cased |-> cased]
Node(all, any, none) == [all |-> all, any |-> any, none |-> none]

IsWord == Cond("equals", "name", {word}, None, FALSE)
IsWORD == Cond("not_equals", "name", {WORD}, None, TRUE)
Office == Cond("in", "name", {}, office, FALSE)
Unknown == Cond("in", "name", {}, scripts, FALSE)
Hides == Cond("contains", "command_line", {word}, None, FALSE)
NotOdd == Cond("not_contains", "command_line", {word}, None, FALSE)
Under == Cond("has_ancestor", "parent", {word}, None, FALSE)
Bad == Cond("in_threat_intel", "hash", {"hash"}, None, FALSE)
HasHash == Cond("exists", "hash", {TRUE}, None, FALSE)
Odd == Cond("exists", "hash", {word}, None, FALSE)

Trees ==
  {Node(<<IsWord>>, None, None), Node(<<Office>>, <<HasHash, Hides>>, None), Node(<<Unknown>>, None, None),
   Node(<<NotOdd>>, None, <<Under>>), Node(None, <<Node(<<IsWord>>, None, <<Bad>>), Hides>>, None),
   Node(None, None, <<IsWORD, Node(<<HasHash>>, None, None)>>), Node(None, <<>>, None), Node(<<Odd>>, None, None),
   Node(None, None, <<Node(None, None, <<HasHash, Hides>>)>>)}

RECURSIVE Within(_), Nested(_), PutInPlace(_)
Within(node) == {node} \cup (IF IsCondition(node) THEN {} ELSE UNION {Within(item) : item \in Below(node)})
Nested(node) == IF IsCondition(node) THEN 0 ELSE 1 + Max({0} \cup {Nested(item) : item \in Below(node)})
PutInPlace(node) ==
  IF IsCondition(node) THEN IF node.list \in DOMAIN NamedLists THEN InPlace(node, NamedLists) ELSE node
  ELSE [b \in DOMAIN node |->
          IF node[b] = None THEN None ELSE [i \in DOMAIN node[b] |-> PutInPlace(node[b][i])]]
(* What is in the trees, before and after the lists are in place.           *)
SomeNodes == UNION {Within(tree) \cup Within(PutInPlace(tree)) : tree \in Trees}
SomeHeights == [node \in SomeNodes |-> Nested(node)]

File(id, kind, status, logic, level, response) ==
  [id |-> id, kind |-> kind, status |-> status, type |-> "process_create", logic |-> logic,
   level |-> level, evidence |-> {"name", "hash"}, response |-> response]
(* A rule whose evidence an odd hash does not unsettle.                     *)
Watch == [File("watch", "single", "enabled", Node(<<IsWord>>, None, None), 12, None)
            EXCEPT !.evidence = {"name"}]
SomeDirectories ==
  {<<>>} \cup
  {<<Watch, File(id, kind, status, logic, 14, response)>> :
     id \in {"rule", "watch"}, kind \in {"single", "threshold", None}, status \in {"enabled", "disabled"},
     logic \in Trees, response \in {None, "QUARANTINE_FILE", "LOG_OFF"}}

Event(name, hash, command, decoded, ancestors, odd) ==
  [type |-> "process_create", fields |-> [name |-> name, hash |-> hash, command_line |-> command],
   odd |-> odd, ancestors |-> ancestors, decoded |-> decoded, pid |-> p1]
SomeEvents ==
  {Event(word, None, other, None, {}, {}), Event(WORD, other, other, ps, {word}, {}),
   Event(word, ps, ps, None, {}, {"hash"}), Event(None, ps, None, None, {word}, {})}

Agent(category, type, block, context) ==
  [kind |-> "agent", category |-> category, type |-> type, block |-> block, context |-> context]
Other(kind) == [kind |-> kind]
SomeLines ==
  {Other("noise"), Other("empty"), Other("foreign"), Other("odd"),
   Agent("network", "connect", "src_ip" :> other, "hostname" :> other),
   Agent("process", "start", <<>>, "executable" :> word),
   Agent("pipe", "create", <<>>, <<>>), Agent("process", "access", <<>>, <<>>),
   Agent("process_access", "access", "target" :> WORD, <<>>),
   Agent("file", "create", "operation" :> "modify", <<>>),
   Agent("registry", "set_value", "target_object" :> other, <<>>)}
SomeContents ==
  {<<>>} \cup {<<first, second, Agent("dns", "query", "query_name" :> WORD, <<>>)>> :
                first \in SomeLines, second \in SomeLines}
Parts == [v \in {word, WORD} |-> v]

Row(id, utc, guid, parent, image, key) ==
  [id |-> id, utc |-> utc, guid |-> guid, parent |-> parent, image |-> image,
   parent_image |-> IF parent = Nobody THEN "" ELSE "other", key |-> key,
   label |-> CASE image = "scenario" -> 1 [] image = "background" -> 0 [] OTHER -> Unlabelled]
Recording(name, source, them) == [name |-> name, source |-> source, rows |-> them]
(* A root, its child and grandchild, the clock in any order; a loop of      *)
(* parents; one key that comes twice.                                      *)
SomeCorpora ==
  {<<>>} \cup
  {<<Recording(1, source, <<Row(3, at3, 3, 2, image3, key), Row(1, at1, 1, Nobody, image1, 1), Row(2, at2, 2, 1, image2, 2)>>),
     Recording(2, "otrf", <<Row(4, 2, 4, 5, image1, 1), Row(5, 1, 5, 4, image3, 5)>>)>> :
     source \in {"otrf", "compound", "botsv1", "officer_vm"}, at1 \in 1 .. 2, at2 \in 1 .. 2, at3 \in 1 .. 3, key \in 1 .. 3,
     image1 \in {"other", "background", "infrastructure", "scenario", "trace"},
     image2 \in {"other", "background", "interactive", "console"}, image3 \in {"background", "interactive", "infrastructure"}}

Start(id, env, label, key, group, cmd) ==
  [id |-> id, env |-> env, host |-> "h", hour |-> id, label |-> label, key |-> key, group |-> group,
   template |-> cmd, image |-> "image", infra |-> group = "lab"]
(* Three environments; attacks of four groups, of which three share commands *)
(* in a chain or not, one of them perhaps of the lab, a key perhaps labelled *)
(* otherwise elsewhere, or twice in its environment.                        *)
SomeRows ==
  {{}} \cup
  {{Start(0, "a", 0, 1, "g0", 0), Start(1, "a", 0, key, "g0", 0), Start(3, "a", 1, 3, "g2", 1),
    Start(4, "b", 0, 4, "g3", 0), Start(6, "b", 0, 2, "g3", 0), Start(7, "b", 1, 5, "g5", cmd), Start(8, "b", 1, 9, "g5", 4),
    Start(9, "c", 0, 7, "g6", 0), Start(10, "c", 1, 6, group, cmd2), Start(11, "c", 1, 8, "g8", 4)} :
     key \in {1, 2, 3}, cmd \in {1, 2}, cmd2 \in {2, 4}, group \in {"g7", "lab"}}
Abc == <<"a", "b", "c">>
SomeKeys == {archive, page}
SomeChecked == {archive}
SomeFiles == {good, better}
SomeRecipes == <<[exclude |-> {}, policy |-> "minimax"], [exclude |-> {}, policy |-> "pooled"]>>

Record(channel, eid, happened, gap, number, pid, image) ==
  [channel |-> channel, eid |-> eid, happened |-> happened, wall |-> happened - gap, host |-> "h",
   utc |-> IF channel = "sysmon" THEN happened ELSE Missing, number |-> number, pid |-> pid,
   target |-> IF eid = 10 THEN 7 ELSE Missing, image |-> image, guid |-> image, deletes |-> eid = 12]
Untimed(r) == [r EXCEPT !.utc = Missing]
(* A process, another that reuses its PID or not, a script of one of them,  *)
(* and one record more, with the export's clock off by the same or another  *)
(* gap; the records in several orders, numbered, or renumbered from one,    *)
(* or not at all, and the first perhaps twice.                              *)
Shuffled(x) ==
  {x, Reverse(x), <<x[3], x[1], x[4], x[2]>>, <<x[2], x[4], x[1], x[3]>>}
SomeFiles2 ==
  {<<>>} \cup
  UNION {UNION {{y, Append(y, y[1])} :
            y \in Shuffled(<<Record("sysmon", 1, 1, 5, number1, 4, 1), Record("sysmon", 1, 3, 5, number2, pid, 2),
                             Record("powershell", 4104, then, 5, number2, 4, Missing), more>>)} :
         number1 \in {1, Missing}, number2 \in {1, 2, Missing}, pid \in {4, 6}, then \in 2 .. 4,
         more \in {Record("sysmon", eid, 2, gap, 9, 4, 1) : eid \in {3, 10, 12}, gap \in {5, 60}}
                    \cup {Record("security", 4624, 2, 5, 9, 4, 1), Record("sysmon", 5, 3, 5, 9, Missing, 1),
                          Untimed(Record("sysmon", 11, 2, 5, 9, 4, 1)),
                          [Untimed(Record("sysmon", 7, 2, 5, 9, 4, 1)) EXCEPT !.wall = Missing]}}
=============================================================================
