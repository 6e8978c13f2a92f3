--------------------------- MODULE RecordingLabels ---------------------------
(***************************************************************************)
(* label.py of the training tools: each recording's process starts are     *)
(* labelled by their lineage and the results de-duplicated into the        *)
(* training set. An image stands for the list it is on.                    *)
(***************************************************************************)
EXTENDS StableSort, SequencesExt, FiniteSetsExt

CONSTANTS
  RecordingSets,   (* the corpora: sequences of recordings                   *)
  ReaderLabelled,  (* the sources whose readers label: officer_vm, optc, ... *)
  Unlabelled, Nobody

(* A recording: [name, source, rows], name a number that sorts as the     *)
(* source and data set do; a row: [id, utc, guid, parent, image,          *)
(* parent_image, key, label], parent a guid or Nobody, label the reader's  *)
(* or Unlabelled. Images: "console", "defensive", "browser",               *)
(* "infrastructure", "trace" (netsh trace), "background", "interactive",    *)
(* "scenario" (a documented root), "other", and "" for a parent that was    *)
(* not recorded.                                                           *)
ASSUME LabelAssumption ==
  /\ Unlabelled \notin {0, 1}
  /\ \A corpus \in RecordingSets :
       /\ corpus \in Seq(ToSet(corpus))
       /\ \A recording \in ToSet(corpus) :
            /\ recording.name \in Int
            /\ recording.rows \in Seq(ToSet(recording.rows))
            /\ \A row \in ToSet(recording.rows) : row.utc \in Int /\ row.id \in Int

VARIABLES
  unread,          (* the recordings still to label                          *)
  labelled,        (* what was labelled: <<recording, row, label>>           *)
  final            (* the training set, Unlabelled until it is written       *)

labelVars == <<unread, labelled, final>>

LabelInit == unread \in RecordingSets /\ labelled = <<>> /\ final = Unlabelled

(* by_guid: of two rows with one guid, the later in the file.              *)
ByGuid(rows, guid) ==
  LET at == {i \in DOMAIN rows : rows[i].guid = guid /\ guid # Nobody}
  IN  IF at = {} THEN {} ELSE {rows[Max(at)]}

(* One turn of _lineage's loop: the parent of the last one, unless its guid *)
(* was met already.                                                        *)
Climb(rows, row, line) ==
  LET met == {row.guid} \cup {line[i].guid : i \in DOMAIN line}
      child == IF line = <<>> THEN row ELSE line[Len(line)]
      next == {a \in ByGuid(rows, child.parent) : a.guid \notin met}
  IN  IF next = {} THEN line ELSE Append(line, CHOOSE a \in next : TRUE)

(* _lineage: the ancestors recorded, nearest first, each once; so there are *)
(* no more turns than rows.                                                *)
Lineage(rows, row) ==
  LET line[k \in 0 .. Len(rows)] == IF k = 0 THEN <<>> ELSE Climb(rows, row, line[k - 1])
  IN  line[Len(rows)]

(* is_infrastructure: the recording tools and whatever they started.       *)
IsInfrastructure(recording, row) ==
  LET line == ToSet(Lineage(recording.rows, row))
  IN  \/ "infrastructure" \in {row.image, row.parent_image} \cup {a.image : a \in line}
      \/ recording.source = "compound" /\ \E node \in line \cup {row} : node.image = "trace"

(* is_background, of what is not infrastructure: a service all the way up.  *)
IsBackground(rows, row) ==
  LET line == <<row>> \o Lineage(rows, row)
  IN  /\ \A i \in DOMAIN line : line[i].image = "background"
      /\ Last(line).parent_image \in {"", "background"}

(* What label_attack_recording makes of a row, malicious being the guids it *)
(* has called that so far.                                                 *)
LabelOf(recording, row, malicious) ==
  LET inherited == \E a \in ToSet(Lineage(recording.rows, row)) : a.guid \in malicious
  IN  IF row.image \in {"console", "defensive", "browser"} THEN Unlabelled
      ELSE IF IsInfrastructure(recording, row) THEN 0
      ELSE IF ~ inherited /\ IsBackground(recording.rows, row) THEN 0
      ELSE IF ~ inherited /\ row.image = "interactive" THEN Unlabelled
      ELSE 1

(* The rows in the order their labels are given.                           *)
ByTime(rows) == InOrder(DOMAIN rows, [i \in DOMAIN rows |-> <<rows[i].utc, rows[i].id>>])

(* Each row is labelled when its turn comes, by what is malicious then.     *)
LabelAlong(recording, order) ==
  LET rows == recording.rows
      malicious[k \in 0 .. Len(order)] ==
        IF k = 0 THEN {}
        ELSE malicious[k - 1] \cup
               {row.guid : row \in {r \in {rows[order[k]]} : LabelOf(recording, r, malicious[k - 1]) = 1}}
      turn(i) == CHOOSE k \in DOMAIN order : order[k] = i
  IN  [i \in DOMAIN rows |-> <<recording, rows[i], LabelOf(recording, rows[i], malicious[turn(i) - 1])>>]

(* Mutant of LabelAttackRecording: the rows are taken as the file has them. *)
LabelAsFiled(recording) == LabelAlong(recording, [i \in DOMAIN recording.rows |-> i])

(* label_attack_recording: parents are looked at before their children.    *)
LabelAttackRecording(recording) == LabelAlong(recording, ByTime(recording.rows))

(* label_botsv1: a documented root, and what descends from one.            *)
LabelBotsv1(recording) ==
  [i \in DOMAIN recording.rows |->
     LET row == recording.rows[i]
     IN  <<recording, row,
           IF \E node \in {row} \cup ToSet(Lineage(recording.rows, row)) : node.image = "scenario" THEN 1 ELSE 0>>]

(* Some sources come with the labels their readers gave.                    *)
LabelsRead(recording) ==
  [i \in DOMAIN recording.rows |-> <<recording, recording.rows[i], recording.rows[i].label>>]

LabelRecording ==
  /\ unread # <<>>
  /\ LET recording == Head(unread)
     IN  labelled' = labelled \o
           IF recording.source = "botsv1" THEN LabelBotsv1(recording)
           ELSE IF recording.source \in ReaderLabelled THEN LabelsRead(recording)
           ELSE LabelAttackRecording(recording)
  /\ unread' = Tail(unread)
  /\ UNCHANGED final

(* finalize: one row of each key, the first; none of a key labelled both ways. *)
Finalize ==
  LET kept == {i \in DOMAIN labelled : labelled[i][3] # Unlabelled}
      alike(i) == {j \in kept : labelled[j][2].key = labelled[i][2].key}
      place == [i \in DOMAIN labelled |-> <<labelled[i][1].name, labelled[i][2].utc, labelled[i][2].id>>]
      first == {i \in kept : Ahead(alike(i), place, i) = {}}
  IN  /\ unread = <<>> /\ final = Unlabelled
      /\ final' = {labelled[i] : i \in {i \in first : \A j \in alike(i) : labelled[j][3] = labelled[i][3]}}
      /\ UNCHANGED <<unread, labelled>>

LabelNext == LabelRecording \/ Finalize
-----------------------------------------------------------------------------
(* What a row descends from: what every set has that has the row's recorded *)
(* parent and those of its own, but another row of the same guid.           *)
Ascends(rows, row, S) ==
  \A child \in {row} \cup S : \A a \in ByGuid(rows, child.parent) : a.guid # row.guid => a \in S
Ancestry(rows, row) ==
  {a \in ToSet(rows) : \A S \in SUBSET ToSet(rows) : Ascends(rows, row, S) => a \in S}

(* Whether the clock of a recording puts every process after its ancestors. *)
ParentsFirst(recording) ==
  \A row \in ToSet(recording.rows) : \A a \in Ancestry(recording.rows, row) :
     Before(<<a.utc, a.id>>, <<row.utc, row.id>>)

(* What is the recorder's, by what it is or descends from.                  *)
OfRecorder(recording, row) ==
  \E node \in {row} \cup Ancestry(recording.rows, row) :
    \/ node.image = "infrastructure" \/ row.parent_image = "infrastructure"
    \/ recording.source = "compound" /\ node.image = "trace"

(* Of what one recording was labelled: the recorder's own is not malicious,  *)
(* and what an attack started is, in so far as it is labelled at all.       *)
AttacksWhole ==
  \A l \in ToSet(labelled) : l[1].source \notin ReaderLabelled \cup {"botsv1"} =>
    /\ OfRecorder(l[1], l[2]) => l[3] # 1
    /\ \A m \in ToSet(labelled) :
         (/\ m[1] = l[1] /\ m[3] = 1 /\ ParentsFirst(l[1])
          /\ m[2] \in Ancestry(l[1].rows, l[2]))
         => l[3] = 1 \/ OfRecorder(l[1], l[2]) \/ l[2].image \in {"console", "defensive", "browser"}

(* One row of every key that was labelled in one way, and none of the others. *)
OneRowPerKey ==
  \A key \in {l[2].key : l \in ToSet(labelled)} :
    LET labels == {l[3] : l \in {m \in ToSet(labelled) : m[2].key = key}} \ {Unlabelled}
        rows == {l \in final : l[2].key = key}
    IN  IF Cardinality(labels) = 1 THEN Cardinality(rows) = 1 /\ \A l \in rows : l[3] \in labels
                                   ELSE rows = {}

(* label.py:236 ("Parents before children, so 'descends from malicious' is  *)
(* already known"), :245-249 and :286-289. Where the clock does put parents *)
(* first, whatever an attack started is part of it, a service or a shell    *)
(* included, unless it is a helper of the recording or is excluded; what    *)
(* the recording itself started never is, whoever started the recorder; and *)
(* the training set has one row of every key labelled one way, and no key  *)
(* that was labelled both ways.                                            *)
LabelsSound == AttacksWhole /\ (final # Unlabelled => OneRowPerKey)
=============================================================================
