--------------------------- MODULE DatasetAdapter ---------------------------
(***************************************************************************)
(* OtrfAdapter of datasets/otrf.py with canonical.py: the Windows events of *)
(* a recording become events of the engine, once each and in order of time, *)
(* although they come from several channels with different clocks. And     *)
(* rows_for of the training tools, which joins a row of every process start *)
(* from such an event and the record it was made of.                       *)
(*                                                                         *)
(* A record: [channel, eid, utc, wall, host, number, pid, target, image,   *)
(* guid, deletes], utc being Sysmon's own time and wall that of the export, *)
(* and the ghost happened. Image names are numbers that sort like them.     *)
(***************************************************************************)
EXTENDS StableSort, SequencesExt, FiniteSetsExt

CONSTANTS
  Files,       (* the recordings: sequences of records                      *)
  Missing      (* a field that a record does not have, or "-"               *)

ASSUME FileAssumption ==
  /\ Missing \notin Int
  /\ \A file \in Files :
       /\ file \in Seq(ToSet(file))
       /\ \A r \in ToSet(file) :
            {r.utc, r.wall, r.image} \subseteq {Missing} \cup Int /\ r.happened \in Int

VARIABLES
  purpose,     (* "events", or "rows" for the training tools                *)
  records,     (* the records given to the adapter                          *)
  at,          (* how many of them it has taken                             *)
  produced,    (* the events made of them                                   *)
  report,      (* how many records were skipped, rejected, dropped as       *)
               (* duplicates, and mapped                                    *)
  events,      (* what normalize returns, Missing until it does             *)
  joined       (* the rows, Missing until rows_for returns                  *)

adapterVars == <<purpose, records, at, produced, report, events, joined>>

SysmonFamilies ==
  [eid \in {1, 3, 5, 7, 8, 10, 11, 12, 13, 14, 22, 23, 26} |->
     CASE eid = 1 -> <<"process", "start">> [] eid = 5 -> <<"process", "stop">>
       [] eid = 3 -> <<"network", "connect">> [] eid = 7 -> <<"image_load", "load">>
       [] eid = 8 -> <<"remote_thread", "create">> [] eid = 10 -> <<"process_access", "access">>
       [] eid = 11 -> <<"file", "create">> [] eid \in {23, 26} -> <<"file", "delete">>
       [] eid = 12 -> <<"registry", "add_key">> [] eid = 13 -> <<"registry", "set_value">>
       [] eid = 14 -> <<"registry", "rename_key">> [] eid = 22 -> <<"dns", "query">>]

(* _builder and what each builder makes of the record; Missing is skipped.  *)
Family(r) ==
  IF r.channel = "sysmon" /\ r.eid \in DOMAIN SysmonFamilies
  THEN IF r.eid = 12 /\ r.deletes THEN <<"registry", "delete_key">> ELSE SysmonFamilies[r.eid]
  ELSE IF r.channel = "powershell" /\ r.eid = 4104 THEN <<"script_block", "execute">> ELSE Missing

NewShape(family) ==
  family[1] \in {"dns", "process_access", "remote_thread", "script_block"} \/ family = <<"process", "stop">>

IsStart(r) == r.channel = "sysmon" /\ r.eid = 1

(* The event_key of a record; one without a number goes by its position.    *)
KeyOf(i) ==
  LET r == records[i]
  IN  <<r.host, r.channel, r.eid, IF r.number = Missing THEN <<"line", i>> ELSE <<"number", r.number>>>>

(* Half of an odd sum goes to the even neighbour, as round does.            *)
HalfEven(sum) ==
  LET half == sum \div 2 IN IF sum % 2 = 1 /\ half % 2 = 1 THEN half + 1 ELSE half

Both == {i \in DOMAIN records : records[i].utc # Missing /\ records[i].wall # Missing}
Gap(i) == records[i].utc - records[i].wall

(* Mutant of TimeOffset: the mean instead of the median.                    *)
MeanOffset ==
  IF Both = {} THEN 0 ELSE MapThenSumSet(Gap, Both) \div Cardinality(Both)

(* measure_time_offset: the median, to the second.                          *)
TimeOffset ==
  LET sorted == InOrder(Both, [i \in Both |-> <<Gap(i)>>])
      n == Len(sorted)
  IN  IF n = 0 THEN 0 ELSE HalfEven(Gap(sorted[(n + 1) \div 2]) + Gap(sorted[n \div 2 + 1]))

(* Sysmon's time for its events, the export's set right for the others.     *)
When(r) ==
  IF r.channel = "sysmon" /\ r.utc # Missing THEN r.utc
  ELSE IF r.wall # Missing THEN r.wall + TimeOffset ELSE Missing

(* The image of a PID at some time: that of its last start by then.         *)
ImageAt(host, pid, when) ==
  LET Names(r) == /\ IsStart(r) /\ Missing \notin {r.utc, r.pid, r.image}
                  /\ r.host = host /\ r.pid = pid /\ r.utc <= when
      starts == {i \in DOMAIN records : Names(records[i])}
      sorted == InOrder(starts, [i \in starts |-> <<records[i].utc, records[i].image>>])
  IN  IF starts = {} THEN Missing ELSE records[sorted[Len(sorted)]].image

(* The entity id of a process that starts, and of one that is mentioned.    *)
Entity(r, when) ==
  IF IsStart(r) THEN <<"start", r.host, r.pid, when>> ELSE <<"context", r.host, r.pid, r.guid>>
Target(r) ==
  IF r.channel = "sysmon" /\ r.eid \in {8, 10} /\ r.target # Missing
  THEN <<"context", r.host, r.target, Missing>> ELSE Missing

EventOf(i) ==
  LET r == records[i]
      when == When(r)
      script == r.channel = "powershell"
  IN  [of |-> i, id |-> KeyOf(i), family |-> Family(r), new_shape |-> NewShape(Family(r)),
       timestamp |-> when, host |-> r.host, pid |-> r.pid, entity |-> Entity(r, when), target |-> Target(r),
       executable |-> IF script THEN ImageAt(r.host, r.pid, when) ELSE r.image]

(* The records of process starts, which is all the training tools read.     *)
StartsOf(file) ==
  LET starts == {i \in DOMAIN file : IsStart(file[i])}
      order == InOrder(starts, [i \in starts |-> <<i>>])
  IN  [k \in DOMAIN order |-> file[order[k]]]

AdapterInit ==
  /\ purpose \in {"events", "rows"}
  /\ \E file \in Files : records = IF purpose = "rows" THEN StartsOf(file) ELSE file
  /\ at = 0 /\ produced = <<>>
  /\ report = [skipped |-> 0, rejected |-> 0, dropped |-> 0, mapped |-> 0]
  /\ events = Missing /\ joined = Missing

Usable(r) == Family(r) # Missing /\ When(r) # Missing /\ r.pid # Missing
Taken(i) == \E j \in DOMAIN produced : produced[j].id = KeyOf(i)

Skip(r) ==
  /\ Family(r) = Missing
  /\ report' = [report EXCEPT !.skipped = @ + 1]
  /\ UNCHANGED produced

Reject(r) ==
  /\ Family(r) # Missing /\ ~ Usable(r)
  /\ report' = [report EXCEPT !.rejected = @ + 1]
  /\ UNCHANGED produced

Drop(i) ==
  /\ Usable(records[i]) /\ Taken(i)
  /\ report' = [report EXCEPT !.dropped = @ + 1]
  /\ UNCHANGED produced

Produce(i) ==
  /\ Usable(records[i]) /\ ~ Taken(i)
  /\ report' = [report EXCEPT !.mapped = @ + 1]
  /\ produced' = Append(produced, EventOf(i))

TakeRecord ==
  /\ at < Len(records)
  /\ at' = at + 1
  /\ Skip(records[at']) \/ Reject(records[at']) \/ Drop(at') \/ Produce(at')
  /\ UNCHANGED <<purpose, records, events, joined>>

(* By time, then by position in the file.                                  *)
Return ==
  /\ at = Len(records) /\ events = Missing
  /\ LET order == InOrder(DOMAIN produced, [j \in DOMAIN produced |-> <<produced[j].timestamp, produced[j].of>>])
     IN  events' = [k \in DOMAIN order |-> produced[order[k]]]
  /\ UNCHANGED <<purpose, records, at, produced, report, joined>>

(* by_key: of two records with one key, the later.                          *)
ByKey(id) == Max({i \in DOMAIN records : KeyOf(i) = id})

Join ==
  /\ purpose = "rows" /\ events # Missing /\ joined = Missing
  /\ joined' = [i \in DOMAIN events |-> [event |-> events[i], record |-> ByKey(events[i].id)]]
  /\ UNCHANGED <<purpose, records, at, produced, report, events>>

AdapterNext == TakeRecord \/ Return \/ Join
-----------------------------------------------------------------------------
(* A number stands for one record, which may be there several times.        *)
NumbersIdentify ==
  \A i, j \in DOMAIN records : KeyOf(i) = KeyOf(j) => records[i] = records[j]

(* Sysmon's clock is right, on every start and on no other channel; the      *)
(* export's is off by one and the same gap for more than half of the records *)
(* that carry both, and for all the others.                                 *)
ClocksExplained ==
  LET Off(r) == r.happened - r.wall
      stamped == {i \in DOMAIN records : records[i].wall # Missing}
      both == {i \in stamped : records[i].utc # Missing}
  IN  /\ \A r \in ToSet(records) :
           (r.utc = r.happened /\ r.channel = "sysmon") \/ (r.utc = Missing /\ ~ IsStart(r))
      /\ \E i \in both :
           /\ 2 * Cardinality({j \in both : Off(records[j]) = Off(records[i])}) > Cardinality(both)
           /\ \A j \in stamped \ both : Off(records[j]) = Off(records[i])

(* Every start says which process it is and of what image.                  *)
StartsNamed == \A r \in ToSet(records) : IsStart(r) => Missing \notin {r.pid, r.image}

(* The image a PID really had when a record's event happened.               *)
TrueImage(r) ==
  LET starts == {s \in ToSet(records) : /\ IsStart(s) /\ s.pid = r.pid /\ s.host = r.host
                                        /\ s.happened <= r.happened}
      Newest(s) == \A o \in starts : o.happened <= s.happened
  IN  {s.image : s \in {x \in starts : Newest(x)}}

(* otrf.py:35-41, :366-368, :375-383 ("Replay assumes near-ordered         *)
(* arrival") and normalize.py:76-105. Every record is counted in one way.   *)
(* Events come out ordered, in the file's order where times tie, no two of  *)
(* one id. Whatever that order, there is an event of every usable record,   *)
(* and a row's two halves are of one record. An event is stamped with the   *)
(* time it happened although an export's clock was off, some of it by       *)
(* another gap; and a script is given to the program that had its PID then, *)
(* not to one that had it before or since.                                  *)
RecordingsSound ==
  events # Missing =>
    /\ Len(records) = report.skipped + report.rejected + report.dropped + Len(events)
    /\ \A i, j \in DOMAIN events : i < j =>
         \/ events[i].timestamp < events[j].timestamp
         \/ events[i].timestamp = events[j].timestamp /\ events[i].of < events[j].of
    /\ \A i, j \in DOMAIN events : events[i].id = events[j].id => i = j
    /\ NumbersIdentify =>
         /\ {records[e.of] : e \in ToSet(events)} = {r \in ToSet(records) : Usable(r)}
         /\ joined # Missing =>
              \A row \in ToSet(joined) : records[row.event.of] = records[row.record]
    /\ ClocksExplained =>
         \A e \in ToSet(events) :
           /\ e.timestamp = records[e.of].happened
           /\ e.family[1] = "script_block" /\ StartsNamed /\ TrueImage(records[e.of]) # {}
                => e.executable \in TrueImage(records[e.of])
=============================================================================
