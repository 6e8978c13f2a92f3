------------------------------ MODULE Ingestion ------------------------------
(***************************************************************************)
(* ingestion/: the agent's lines become the engine's events. Lines come    *)
(* from a file or from an agent process the stream started, which it must  *)
(* also stop; the agent is external, and holds a kernel trace session for  *)
(* as long as nobody stops it.                                             *)
(*                                                                         *)
(* A line is a record of kind: "noise" (blank, a comment, not JSON or not  *)
(* an object), "empty" (the object without fields), "foreign" (an event    *)
(* that is not an agent's), "odd" (an agent's, its event not an object) or *)
(* "agent", with a category, a type, a block (key -> value) of that family *)
(* and a context (likewise, of process, host and user).                    *)
(***************************************************************************)
EXTENDS Integers, Sequences, SequencesExt

CONSTANTS
  Contents,     (* the sequences of lines that may come                    *)
  Base,         (* path -> its last part                                   *)
  Lower,        (* value -> the value in lower case                        *)
  Numbers,      (* text -> the number it is in base 16                     *)
  Nothing,      (* a missing value                                         *)
  PipeCap       (* lines the pipe between agent and stream holds           *)

VARIABLES
  from,         (* "file" or "agent"                                       *)
  unwritten,    (* the lines the agent has still to write                  *)
  pipe,         (* the lines written and not read                          *)
  delivered,    (* the events handed on                                    *)
  taken,        (* ghost: the lines read                                   *)
  agent,        (* "running", "asked" to stop, "doomed" by a kill,         *)
                (* "exited" in good order, "crashed" by itself, "dead"     *)
  session,      (* whether the agent's trace session is on                 *)
  halted,       (* ghost: the consumer stopped listening                   *)
  stream        (* "open", "closing", then "asked", "terminated", "killed",*)
                (* and "closed"                                            *)

ingestVars == <<from, unwritten, pipe, delivered, taken, agent, session, halted, stream>>

Key(block, k) == IF k \in DOMAIN block THEN block[k] ELSE Nothing

(* a.get(x) or a.get(y) or ...                                             *)
FirstOf(block, keys) ==
  LET i == SelectInSeq(keys, LAMBDA k : Key(block, k) # Nothing)
  IN  IF i = 0 THEN Nothing ELSE Key(block, keys[i])

Else(value, default) == IF value = Nothing THEN default ELSE value
Of(f, value) == IF value = Nothing THEN Nothing ELSE f[value]

(* Which keys a field of a family's block is read from.                     *)
Reads ==
  [network |-> [source |-> <<"source_ip", "src_ip">>, destination |-> <<"destination_ip", "dst_ip">>,
                hostname |-> <<"destination_hostname", "dst_hostname">>, protocol |-> <<"protocol">>],
   file |-> [path |-> <<"path", "target_path">>, previous |-> <<"previous_path">>, hash |-> <<"hash">>],
   registry |-> [key_path |-> <<"key_path", "key", "target_object">>, key |-> <<"key_path", "key", "target_object">>,
                 value |-> <<"value_name">>],
   image_load |-> [path |-> <<"path", "image_loaded">>, is_signed |-> <<"is_signed", "signed">>,
                   signed |-> <<"is_signed", "signed">>, status |-> <<"signature_status", "signature">>],
   dns |-> [query |-> <<"query_name">>, answers |-> <<"query_results">>],
   process_access |-> [target |-> <<"target">>, access_mask |-> <<"granted_access">>],
   remote_thread |-> [target |-> <<"target">>, thread |-> <<"new_thread_id">>, module |-> <<"start_module">>],
   script_block |-> [text |-> <<"text">>, script |-> <<"script_block_id">>]]
Families == {"process"} \cup DOMAIN Reads

FileTypes == {"create", "delete", "rename"}
RegistryTypes == [set_value |-> "registry_write", add_key |-> "registry_add_key",
                  delete_key |-> "registry_delete_key", rename_key |-> "registry_rename_key"]
FixedTypes == [network |-> "network_connect", image_load |-> "image_load", dns |-> "dns_query",
               process_access |-> "process_access", remote_thread |-> "remote_thread",
               script_block |-> "script_block"]

(* category_of.                                                            *)
CategoryOf(raw) == IF raw.category \in Families THEN raw.category ELSE "process"

(* The event type each normalizer gives; file and registry take theirs from *)
(* the operation of the block first. Types are pairs where the code joins   *)
(* a prefix and a word.                                                    *)
EventType(raw) ==
  LET category == CategoryOf(raw)
      Operation(default) == Else(FirstOf(raw.block, <<"operation">>), Else(raw.type, default))
      touched == Operation("create")
      key == Operation("set_value")
  IN  CASE category = "process" ->
             IF raw.type \in {Nothing, "start", "create"} THEN <<"process", "create">>
             ELSE IF raw.type \in {"stop", "terminate"} THEN <<"process", "terminate">>
             ELSE <<"process", raw.type>>
        [] category = "file" -> <<"file", touched>>
        [] category = "registry" ->
             IF key \in DOMAIN RegistryTypes THEN <<RegistryTypes[key]>> ELSE <<"registry", key>>
        [] category = "process_access" -> <<"process", "access">>
        [] category \in DOMAIN FixedTypes \ {"process_access"} -> <<FixedTypes[category]>>

(* _common: who did it, on every event.                                    *)
Common(raw) ==
  LET c == raw.context
      executable == FirstOf(c, <<"executable">>)
  IN  [host_id |-> Else(FirstOf(c, <<"host.id", "hostname", "host_id">>), "OFFICER-ENDPOINT"),
       name |-> Else(FirstOf(c, <<"name">>), Of(Base, executable)),
       executable |-> executable,
       parent |-> Else(FirstOf(c, <<"parent.name">>), Of(Base, FirstOf(c, <<"parent.executable">>))),
       sha256 |-> FirstOf(c, <<"hash", "sha256">>)]

(* The family's block, its fields renamed, folded and converted.           *)
FamilyBlock(raw) ==
  LET category == CategoryOf(raw)
      reads == Reads[category]
      Value(f) == FirstOf(raw.block, reads[f])
  IN  IF category = "process"
      THEN [path |-> Common(raw).executable, hash |-> Common(raw).sha256]
      ELSE [f \in DOMAIN reads |->
              CASE f \in {"protocol", "query"} -> Of(Lower, Value(f))
                [] f = "access_mask" -> IF Value(f) \in DOMAIN Numbers THEN Numbers[Value(f)] ELSE Nothing
                [] f = "target" -> Of(Lower, Of(Base, Value(f)))
                [] f \notin {"protocol", "query", "access_mask", "target"} -> Value(f)]

(* normalize: never without an event type, whatever the category.          *)
Normalize(raw) ==
  [kind |-> "agent", event_type |-> EventType(raw), common |-> Common(raw),
   block |-> FamilyBlock(raw), raw |-> raw]

(* FIELD_REGISTRY: what each event type can carry, found by running every  *)
(* normalizer on the types of its family.                                  *)
FamilyTypes ==
  [process |-> {"start", "stop"}, network |-> {"connect"}, file |-> FileTypes,
   registry |-> DOMAIN RegistryTypes, image_load |-> {"load"}, dns |-> {"query"},
   process_access |-> {"access"}, remote_thread |-> {"create"}, script_block |-> {"execute"}]
Full(family, type) ==
  [kind |-> "agent", category |-> family, type |-> type, context |-> <<>>, block |-> <<>>]
Listed == {l \in Families \X UNION {FamilyTypes[f] : f \in Families} : l[2] \in FamilyTypes[l[1]]}
ProducibleFields(event_type) ==
  UNION {DOMAIN Normalize(Full(l[1], l[2])).block :
           l \in {x \in Listed : EventType(Full(x[1], x[2])) = event_type}}

AnyLine == UNION {Range(lines) : lines \in Contents}

ASSUME IngestAssumption ==
  /\ Contents \subseteq Seq(AnyLine)
  /\ \A line \in AnyLine : line.kind \in {"noise", "empty", "foreign", "odd", "agent"}
  /\ Nothing \notin UNION {FamilyTypes[f] : f \in Families}
  /\ PipeCap \in Nat

(* parse_line, and the same in stream_from_file, which also hands on an     *)
(* object without fields. An odd one raises.                               *)
Parsed(line) ==
  CASE line.kind = "agent" -> <<Normalize(line)>>
    [] line.kind = "foreign" -> <<line>>
    [] line.kind = "empty" -> IF from = "file" THEN <<line>> ELSE <<>>
    [] line.kind \in {"noise", "odd"} -> <<>>

Alive == agent \in {"running", "asked", "doomed"}

IngestInit ==
  /\ from \in {"file", "agent"}
  /\ \E lines \in Contents :
       IF from = "file" THEN pipe = lines /\ unwritten = <<>> ELSE pipe = <<>> /\ unwritten = lines
  /\ delivered = <<>> /\ taken = <<>>
  /\ agent = IF from = "agent" THEN "running" ELSE "exited"
  /\ session = (from = "agent")
  /\ halted = FALSE /\ stream = "open"

(* The agent writes while there is room, and stops there if there is none.  *)
AgentWrites ==
  /\ agent \in {"running", "asked"} /\ unwritten # <<>> /\ Len(pipe) < PipeCap
  /\ pipe' = Append(pipe, Head(unwritten)) /\ unwritten' = Tail(unwritten)
  /\ UNCHANGED <<from, delivered, taken, agent, session, halted, stream>>

(* It ends of itself, or as asked unless it is stuck writing: its session   *)
(* with it.                                                                *)
AgentExits ==
  /\ \/ agent = "running" /\ unwritten = <<>>
     \/ agent = "asked" /\ (unwritten = <<>> \/ Len(pipe) < PipeCap)
  /\ agent' = "exited" /\ session' = FALSE
  /\ UNCHANGED <<from, unwritten, pipe, delivered, taken, halted, stream>>

AgentCrashes ==
  /\ agent \in {"running", "asked"}
  /\ agent' = "crashed"
  /\ UNCHANGED <<from, unwritten, pipe, delivered, taken, session, halted, stream>>

AgentDies ==
  /\ agent = "doomed" /\ agent' = "dead"
  /\ UNCHANGED <<from, unwritten, pipe, delivered, taken, session, halted, stream>>

(* Mutant of ReadLine: what is not an object ends the stream.               *)
ReadLineOrStop ==
  /\ stream = "open" /\ pipe # <<>>
  /\ pipe' = Tail(pipe) /\ taken' = Append(taken, Head(pipe))
  /\ delivered' = delivered \o Parsed(Head(pipe))
  /\ stream' = IF Head(pipe).kind \in {"odd", "noise"} THEN "closing" ELSE "open"
  /\ UNCHANGED <<from, unwritten, agent, session, halted>>

(* The generator's loop, up to a line that raises.                          *)
ReadLine ==
  /\ stream = "open" /\ pipe # <<>>
  /\ pipe' = Tail(pipe) /\ taken' = Append(taken, Head(pipe))
  /\ delivered' = delivered \o Parsed(Head(pipe))
  /\ stream' = IF Head(pipe).kind = "odd" THEN "closing" ELSE "open"
  /\ UNCHANGED <<from, unwritten, agent, session, halted>>

(* The end of the lines.                                                   *)
EndOfLines ==
  /\ stream = "open" /\ pipe = <<>> /\ ~ Alive
  /\ stream' = "closing"
  /\ UNCHANGED <<from, unwritten, pipe, delivered, taken, agent, session, halted>>

(* Ctrl-C, or a consumer that closes the generator.                         *)
StopReading ==
  /\ stream = "open"
  /\ stream' = "closing" /\ halted' = TRUE
  /\ UNCHANGED <<from, unwritten, pipe, delivered, taken, agent, session>>

(* _shutdown_officer: one that has exited is left alone; the others are     *)
(* asked, then terminated, then killed, each time for so long.             *)
Shutdown ==
  /\ stream = "closing"
  /\ IF Alive THEN stream' = "asked" /\ agent' = "asked" ELSE stream' = "closed" /\ agent' = agent
  /\ UNCHANGED <<from, unwritten, pipe, delivered, taken, session, halted>>

Escalate ==
  /\ Alive
  /\ \/ stream = "asked" /\ stream' = "terminated" /\ agent' \in {agent, "doomed"}
     \/ stream = "terminated" /\ stream' = "killed" /\ agent' = "doomed"
  /\ UNCHANGED <<from, unwritten, pipe, delivered, taken, session, halted>>

(* A wait ends as the agent does, or after the kill for good; the session   *)
(* is swept unless the agent went when it was asked.                       *)
Closed ==
  /\ stream \in {"asked", "terminated", "killed"}
  /\ ~ Alive \/ stream = "killed"
  /\ session' = (session /\ stream = "asked")
  /\ stream' = "closed"
  /\ UNCHANGED <<from, unwritten, pipe, delivered, taken, agent, halted>>

IngestNext ==
  \/ AgentWrites \/ AgentExits \/ AgentCrashes \/ AgentDies
  \/ ReadLine \/ EndOfLines \/ StopReading \/ Shutdown \/ Escalate \/ Closed

IngestSpec == IngestInit /\ [][IngestNext]_ingestVars
-----------------------------------------------------------------------------
(* The fields of an event are those its type is listed with, but for the    *)
(* types the process normalizer makes up for what it does not know.         *)
AsListed(e) ==
  \/ ProducibleFields(e.event_type) = {}
  \/ CategoryOf(e.raw) = "process" /\ e.event_type[2] \notin {"create", "terminate"}
  \/ DOMAIN e.block = ProducibleFields(e.event_type)

(* parse_line and stream_from_file, FIELD_REGISTRY ("it cannot drift from   *)
(* the normalizers", telemetry.py:364) and _shutdown_officer. Only a line   *)
(* that raises keeps the lines after it from being delivered: a stream that *)
(* nobody stopped ends there or with the last line its agent wrote. An     *)
(* event of a listed type carries the fields the rules are checked against. *)
(* A closed stream leaves no agent behind but one a kill has not ended yet, *)
(* and no trace session but that of an agent that crashed.                 *)
IngestSound ==
  /\ delivered = FlattenSeq([i \in DOMAIN taken |-> Parsed(taken[i])])
  /\ stream # "open" /\ ~ halted =>
       \/ pipe = <<>> /\ (agent = "exited" => unwritten = <<>>)
       \/ Last(taken).kind = "odd"
  /\ \A i \in DOMAIN taken : taken[i].kind = "odd" => stream # "open" /\ i = Len(taken)
  /\ \A i \in DOMAIN delivered : delivered[i].kind = "agent" => AsListed(delivered[i])
  /\ stream = "closed" => /\ Alive => agent = "doomed"
                          /\ session => agent = "crashed"
=============================================================================
