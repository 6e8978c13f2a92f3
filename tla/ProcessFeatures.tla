--------------------------- MODULE ProcessFeatures ---------------------------
(***************************************************************************)
(* FeatureExtractor of features.py: what one process did, as of a time,    *)
(* counted from the edges of the graph, and who wrote its image. What the  *)
(* code reads off a name, path, address or mask is a trait: of the node at *)
(* the other end, or of the edge.                                          *)
(***************************************************************************)
EXTENDS Integers, FiniteSets, FiniteSetsExt

CONSTANTS
  Processes, Objects,
  TraitsOf,       (* node -> its traits                                      *)
  StartOf,        (* process -> its start                                    *)
  EndOf,          (* process -> when its stop was observed, or NoTime        *)
  ImageOf,        (* process -> the file it runs                             *)
  Happenings,     (* the edges that may come: kind, src, dst, ts, traits     *)
  ObjectCap,      (* BIT_OBJECT_CAP                                          *)
  NoTime, NoWriter,
  MaxEdges        (* bound: edges in the graph                               *)

ASSUME FeaturesAssumption ==
  /\ StartOf \in [Processes -> Int] /\ ObjectCap \in Nat
  /\ \A e \in Happenings : e.ts \in Int /\ e.src \in Processes \cup Objects
  /\ NoTime \notin Int /\ NoWriter \notin [writer : Processes \cup Objects, age : Int]

VARIABLE edges    (* edge -> its place in the order they were added          *)

Bit(kinds, needs, name) == [kinds |-> kinds, needs |-> needs, bit |-> name]

(* edge_bits, of the process an edge leaves: the trait each bit asks for.   *)
BitTable == {
  Bit({"forked"}, {"lolbin"}, "child:shell_or_lolbin"),
  Bit({"wrote"}, {"user_path", "droppable"}, "file:executable_to_user_path"),
  Bit({"set_value", "created_key"}, {"persistence"}, "registry:persistence_key"),
  Bit({"loaded"}, {"user_path"}, "image_load:user_path_module"),
  Bit({"loaded"}, {"unsigned"}, "image_load:unsigned_module"),
  Bit({"accessed"}, {"lsass", "reads_memory"}, "process_access:lsass_read"),
  Bit({"injected"}, {}, "remote_thread:out"),
  Bit({"connected_to"}, {"public"}, "network:public_destination"),
  Bit({"connected_to"}, {"public", "odd_port"}, "network:public_nonstandard_port"),
  Bit({"resolved"}, {"failed"}, "dns:failed_query"),
  Bit({"ran_script"}, {"obfuscated"}, "script_block:obfuscated")}

OtherEnd(e, n) == IF e.src = n THEN e.dst ELSE e.src
TraitsAt(e, n) == e.traits \cup TraitsOf[OtherEnd(e, n)]

EdgeBits(e, n) ==
  IF e.src = n
  THEN {row.bit : row \in {r \in BitTable : e.kind \in r.kinds /\ r.needs \subseteq TraitsAt(e, n)}}
  ELSE IF e.kind = "injected" THEN {"remote_thread:in"} ELSE {}

(* The counts of _behavior: what is counted, and of what.                   *)
CountTable == {
  Bit({"forked"}, {}, "child_count"),
  Bit({"wrote"}, {}, "file_write_count"),
  Bit({"wrote"}, {"executable"}, "executable_write_count"),
  Bit({"set_value", "created_key", "deleted_key"}, {}, "registry_write_count"),
  Bit({"connected_to"}, {}, "network_connect_count"),
  Bit({"connected_to"}, {"public"}, "public_connect_count"),
  Bit({"loaded"}, {}, "module_load_count"),
  Bit({"resolved"}, {}, "dns_query_count"),
  Bit({"resolved"}, {"failed"}, "failed_dns_query_count"),
  Bit({"accessed"}, {}, "process_access_count"),
  Bit({"accessed"}, {"lsass"}, "lsass_access_count"),
  Bit({"injected"}, {}, "remote_thread_count"),
  Bit({"ran_script"}, {}, "script_block_count"),
  Bit({"ran_script"}, {"obfuscated"}, "obfuscated_script_block_count")}

(* An injection into the process is counted as such, even its own.          *)
Counted(e, n) ==
  IF e.dst = n /\ e.kind = "injected" THEN {"injected_thread_count"}
  ELSE IF e.src # n THEN {}
  ELSE {row.bit : row \in {r \in CountTable : e.kind \in r.kinds /\ r.needs \subseteq TraitsAt(e, n)}}

CountNames == {r.bit : r \in CountTable} \cup {"injected_thread_count"}
BitNames == {r.bit : r \in BitTable} \cup {"remote_thread:in"}

(* The adjacency of a node lists an edge once for each end that is the node. *)
IncidentEdges(g, n) == {x \in g \X {"src", "dst"} : x[1][x[2]] = n}

(* Mutant of AsOf: the end of the interval is left open.                    *)
AsOfEverything(g, n, when) == IncidentEdges(g, n)

AsOf(g, n, when) == {x \in IncidentEdges(g, n) : when = NoTime \/ x[1].ts <= when}

(* _behavior, from the edges g.                                            *)
Behavior(g, n, when) ==
  LET seen == AsOf(g, n, when)
      ObjectsOf(b) == {OtherEnd(x[1], n) : x \in {y \in seen : b \in EdgeBits(y[1], n)}}
      Ends(kind) == {x[1].dst : x \in {y \in seen : y[1].src = n /\ y[1].kind = kind}}
  IN  [count |-> [c \in CountNames |-> Cardinality({x \in seen : c \in Counted(x[1], n)})],
       bits |-> [b \in {x \in BitNames : ObjectsOf(x) # {}} |->
                   Min({Cardinality(ObjectsOf(b)), ObjectCap})],
       domains |-> Cardinality(Ends("resolved")),
       access_targets |-> Ends("accessed"),
       remote_thread_targets |-> Ends("injected") \ {n}]

(* _lifetime: known once the stop is, and is not after the time asked of.   *)
Lifetime(p, when) ==
  IF EndOf[p] = NoTime \/ (when # NoTime /\ EndOf[p] > when) THEN NoTime
  ELSE EndOf[p] - StartOf[p]

(* image_write_for: the last write of a process's image by another before   *)
(* it started; of two at one time, the one added first.                    *)
Writes(g, p) ==
  {e \in g : /\ e.kind \in {"wrote", "renamed"} /\ e.dst = ImageOf[p]
             /\ e.src # p /\ e.ts <= StartOf[p]}

ImageWrite(placed, p) ==
  LET writes == Writes(DOMAIN placed, p)
      best == CHOOSE w \in writes : \A e \in writes :
                 w.ts > e.ts \/ (w.ts = e.ts /\ placed[w] <= placed[e])
  IN  IF writes = {} THEN NoWriter ELSE [writer |-> best.src, age |-> StartOf[p] - best.ts]

(* extract.                                                                *)
Extract(p, when) ==
  [behavior |-> Behavior(DOMAIN edges, p, when), lifetime |-> Lifetime(p, when),
   written |-> ImageWrite(edges, p)]

FeaturesInit == edges = <<>>

(* An event of any time adds an edge the graph does not have.              *)
AddEdge(e) ==
  /\ Cardinality(DOMAIN edges) < MaxEdges
  /\ e \notin DOMAIN edges
  /\ edges' = [x \in DOMAIN edges \cup {e} |->
                 IF x = e THEN 1 + Max({0} \cup {edges[y] : y \in DOMAIN edges}) ELSE edges[x]]

PruneEdges(before) ==
  /\ \E e \in DOMAIN edges : e.ts < before
  /\ edges' = [e \in {x \in DOMAIN edges : x.ts >= before} |-> edges[e]]

FeaturesNext ==
  \/ \E e \in Happenings : AddEdge(e)
  \/ \E e \in DOMAIN edges : PruneEdges(e.ts + 1)

FeaturesSpec == FeaturesInit /\ [][FeaturesNext]_edges
-----------------------------------------------------------------------------
Starts == {StartOf[p] : p \in Processes}
Moments == {e.ts : e \in Happenings} \cup Starts

(* A count that takes all an edge can give the bit for.                    *)
Backs(c, b) ==
  \/ b = "remote_thread:in" /\ c = "injected_thread_count"
  \/ /\ b # "remote_thread:in"
     /\ \E row \in CountTable :
          row.bit = c /\ row.needs = {} /\ \A r \in BitTable : r.bit = b => r.kinds \subseteq row.kinds

(* A bit stands for something counted, and for no more objects.            *)
BitsAreCounted ==
  (\A e \in DOMAIN edges : e.src # e.dst) =>
    \A p \in Processes, when \in Moments \cup {NoTime} :
      LET b == Behavior(DOMAIN edges, p, when)
      IN  \A bit \in DOMAIN b.bits :
            /\ \E c \in CountNames : Backs(c, bit)
            /\ \A c \in CountNames : Backs(c, bit) => b.bits[bit] <= b.count[c]

(* What is asked as of a time never learns of a later one: an edge that    *)
(* comes changes the features as of its own time and after, and only there *)
(* can a count grow; and the write a process is said to come from is only  *)
(* ever replaced by a later one. (Training and live scoring agree on this; *)
(* features.py:8-13, :25-28, enrichment.py:180-202.)                       *)
FeaturesSteady ==
  /\ [][\A e \in DOMAIN edges' \ DOMAIN edges : \A p \in Processes :
          /\ \A when \in Moments :
               LET before == Behavior(DOMAIN edges, p, when)
                   after == Behavior(DOMAIN edges', p, when)
               IN  /\ e.ts > when => after = before
                   /\ \A c \in CountNames : before.count[c] <= after.count[c]
          /\ LET before == ImageWrite(edges, p)
                 after == ImageWrite(edges', p)
             IN  before # NoWriter => after # NoWriter /\ after.age <= before.age]_edges
  /\ []BitsAreCounted
=============================================================================
