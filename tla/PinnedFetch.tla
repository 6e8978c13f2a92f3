----------------------------- MODULE PinnedFetch -----------------------------
(***************************************************************************)
(* fetch.py of the training tools: workers download the recordings, each   *)
(* file trusted on first use and pinned by its digest from then on. Hosts  *)
(* answer with what they like; runs may be killed anywhere; an operator    *)
(* may put files in place between runs. A content stands for its digest.   *)
(***************************************************************************)
EXTENDS Integers, FiniteSets

CONSTANTS
  FetchKeys,       (* the files to fetch                                     *)
  Checked,         (* those whose suffix has a magic number                  *)
  Recordings,      (* the contents that are a file of the kind asked for     *)
  Page,            (* a sign-in page: not a file, and not an error           *)
  Pointer,         (* a Git LFS pointer                                      *)
  Absent,
  Attempts,
  MaxChanges       (* bound: times a host changes its answer, or a file is   *)
                   (* put in place                                           *)

ASSUME FetchAssumption == Absent \notin Recordings \cup {Page, Pointer}

VARIABLES
  on_disk,         (* FetchKeys -> the content in place, or Absent           *)
  part,            (* FetchKeys -> the content of the .part file, or Absent  *)
  data,            (* the pins in memory: FetchKeys -> content or Absent     *)
  saved,           (* the pins on disk                                       *)
  remote,          (* FetchKeys -> what its host answers                     *)
  job,             (* FetchKeys -> "waiting", "fetching", "fetched",         *)
                   (* "checked", or how download ended                       *)
  tries,           (* FetchKeys -> attempts that failed                      *)
  answers          (* ghost: what the bound counts                           *)

fetchVars == <<on_disk, part, data, saved, remote, job, tries, answers>>

Answers == Recordings \cup {Page, Pointer}
Ended == {"cached", "registered", "downloaded", "failed"}

FetchInit ==
  /\ on_disk = [k \in FetchKeys |-> Absent] /\ part = on_disk
  /\ data = on_disk /\ saved = on_disk
  /\ remote \in [FetchKeys -> Answers]
  /\ job = [k \in FetchKeys |-> "waiting"]
  /\ tries = [k \in FetchKeys |-> 0]
  /\ answers = 0

(* _content_problem: a wrong magic number.                                 *)
Problem(k, content) == k \in Checked /\ content \notin Recordings

(* Pins.check: what is new is pinned, and what is pinned must agree.       *)
AgreesWithPin(k, content) == data[k] \in {Absent, content}
Pinned(k, content) == [data EXCEPT ![k] = content]

(* Mutant of Look: a file that is there and pinned is not looked into.     *)
LookAtName(k) ==
  /\ job[k] = "waiting"
  /\ IF on_disk[k] # Absent /\ data[k] # Absent
     THEN job' = [job EXCEPT ![k] = "cached"] /\ UNCHANGED data
     ELSE job' = [job EXCEPT ![k] = "fetching"] /\ UNCHANGED data
  /\ UNCHANGED <<on_disk, part, saved, remote, tries, answers>>

(* download, before it downloads: a file that is there and as pinned, or    *)
(* there and not pinned yet, is taken as it is.                            *)
Look(k) ==
  /\ job[k] = "waiting"
  /\ IF on_disk[k] # Absent /\ data[k] = on_disk[k]
     THEN job' = [job EXCEPT ![k] = "cached"] /\ UNCHANGED data
     ELSE IF on_disk[k] # Absent /\ data[k] = Absent /\ ~ Problem(k, on_disk[k])
     THEN job' = [job EXCEPT ![k] = "registered"] /\ data' = Pinned(k, on_disk[k])
     ELSE job' = [job EXCEPT ![k] = "fetching"] /\ UNCHANGED data
  /\ UNCHANGED <<on_disk, part, saved, remote, tries, answers>>

(* _stream; a connection that fails leaves something in the .part file.    *)
Stream(k) ==
  /\ job[k] = "fetching"
  /\ part' = [part EXCEPT ![k] = remote[k]]
  /\ job' = [job EXCEPT ![k] = "fetched"]
  /\ UNCHANGED <<on_disk, data, saved, remote, tries, answers>>

StreamFails(k) ==
  /\ job[k] = "fetching"
  /\ part' = [part EXCEPT ![k] = Page]
  /\ tries' = [tries EXCEPT ![k] = @ + 1]
  /\ job' = [job EXCEPT ![k] = IF tries[k] + 1 = Attempts THEN "failed" ELSE @]
  /\ UNCHANGED <<on_disk, data, saved, remote, answers>>

(* What is downloaded is checked for what it is, then against its pin.     *)
CheckFetched(k) ==
  LET content == part[k]
      wrong == content = Pointer \/ Problem(k, content)
  IN  /\ job[k] = "fetched"
      /\ part' = IF wrong THEN [part EXCEPT ![k] = Absent] ELSE part
      /\ IF wrong \/ ~ AgreesWithPin(k, content)
         THEN job' = [job EXCEPT ![k] = "failed"] /\ UNCHANGED data
         ELSE job' = [job EXCEPT ![k] = "checked"] /\ data' = Pinned(k, content)
      /\ UNCHANGED <<on_disk, saved, remote, tries, answers>>

Replace(k) ==
  /\ job[k] = "checked"
  /\ on_disk' = [on_disk EXCEPT ![k] = part[k]]
  /\ part' = [part EXCEPT ![k] = Absent]
  /\ job' = [job EXCEPT ![k] = "downloaded"]
  /\ UNCHANGED <<data, saved, remote, tries, answers>>

(* Pins.save, every so many files while others are still at it.            *)
SavePins ==
  /\ \E k \in FetchKeys : job[k] \in Ended
  /\ saved' = data
  /\ UNCHANGED <<on_disk, part, data, remote, job, tries, answers>>

(* A run is over, or killed, and another one reads the pins that were saved. *)
Again ==
  /\ \E k \in FetchKeys : job[k] # "waiting"
  /\ data' = saved
  /\ job' = [k \in FetchKeys |-> "waiting"]
  /\ tries' = [k \in FetchKeys |-> 0]
  /\ UNCHANGED <<on_disk, part, saved, remote, answers>>

(* The world: a host answers otherwise, an operator puts a file in place.  *)
HostChanges(k, content) ==
  /\ answers < MaxChanges /\ answers' = answers + 1
  /\ remote' = [remote EXCEPT ![k] = content]
  /\ UNCHANGED <<on_disk, part, data, saved, job, tries>>

PlaceByHand(k, content) ==
  /\ answers < MaxChanges /\ answers' = answers + 1
  /\ \A other \in FetchKeys : job[other] = "waiting"
  /\ on_disk' = [on_disk EXCEPT ![k] = content]
  /\ UNCHANGED <<part, data, saved, remote, job, tries>>

FetchNext ==
  \/ \E k \in FetchKeys : \/ Look(k) \/ Stream(k) \/ StreamFails(k) \/ CheckFetched(k) \/ Replace(k)
                          \/ \E content \in Answers : HostChanges(k, content) \/ PlaceByHand(k, content)
  \/ SavePins \/ Again

FetchSpec == FetchInit /\ [][FetchNext]_fetchVars
-----------------------------------------------------------------------------
(* Trust on first use, fetch.py:43-65 and :91-97 ("pinning that page would  *)
(* make a wrong file "verified" forever"). A pin once saved stays; a file  *)
(* a run took or fetched is in place and as pinned, whatever was there      *)
(* before and whenever an earlier run was killed; and no pin is of a page  *)
(* where the kind of file can tell, or of a pointer that was downloaded.   *)
FetchSound ==
  /\ [][\A k \in FetchKeys : saved[k] # Absent => saved'[k] = saved[k]]_fetchVars
  /\ [](\A k \in FetchKeys :
          /\ job[k] \in Ended \ {"failed"} => on_disk[k] # Absent /\ on_disk[k] = data[k]
          /\ saved[k] # Absent => data[k] = saved[k]
          /\ k \in Checked => {data[k], saved[k]} \subseteq Recordings \cup {Absent}
          /\ job[k] \in {"checked", "downloaded"} => data[k] # Pointer)
=============================================================================
