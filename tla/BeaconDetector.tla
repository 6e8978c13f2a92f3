--------------------------- MODULE BeaconDetector ---------------------------
(***************************************************************************)
(* C2BeaconDetector of behavioral/beacon.py: a bounded history of          *)
(* connection times per process and destination, a test of how regular it  *)
(* is, and a latch per series. Times are whole seconds; the ratios of the  *)
(* code (dispersion, band, fraction) are compared as fractions.            *)
(***************************************************************************)
EXTENDS Integers, Sequences, SequencesExt

CONSTANTS
  Keys,             (* host, process and destination                        *)
  MinConnections, History, MinSpan, MinInterval, MaxInterval, LatchTtl,
  MaxDispersion,    (* <<numerator, denominator>>; likewise the next two    *)
  RegularBand,
  MinRegular,
  MaxBeaconTime,    (* bound: connection times are in 0 .. MaxBeaconTime    *)
  MaxConnections    (* bound: connections kept                              *)

ASSUME BeaconAssumption ==
  /\ MinConnections \in Nat \ {0, 1} /\ History \in Nat \ {0}
  /\ MinSpan \in Nat /\ LatchTtl \in Nat
  /\ MinInterval \in Nat \ {0} /\ MaxInterval \in Nat
  /\ {MaxDispersion, RegularBand, MinRegular} \subseteq Nat \X (Nat \ {0})
  /\ MinRegular[1] <= MinRegular[2]
  /\ MaxBeaconTime \in Nat /\ MaxConnections \in Nat

VARIABLES
  connection_history,   (* Keys -> the connections kept: time and number    *)
  alerted_beacons,      (* Keys -> the time of the last alert, or -1        *)
  kept,                 (* how many connections were kept so far            *)
  alerts                (* ghost: the alerts, with the series of each       *)

beaconVars == <<connection_history, alerted_beacons, kept, alerts>>

Abs(n) == IF n < 0 THEN -n ELSE n
AtMost(a, b, ratio) == a * ratio[2] <= b * ratio[1]

(* The k-th smallest value of f.                                            *)
Ranked(f, k) ==
  CHOOSE v \in Range(f) :
    /\ Cardinality({i \in DOMAIN f : f[i] < v}) < k
    /\ k <= Cardinality({i \in DOMAIN f : f[i] <= v})

(* Twice statistics.median of the values of f.                              *)
TwiceMedian(f) ==
  LET n == Cardinality(DOMAIN f)
  IN  Ranked(f, (n + 1) \div 2) + Ranked(f, n \div 2 + 1)

(* The positive differences of consecutive times.                          *)
Gaps(times) ==
  LET rising == {i \in 1 .. Len(times) - 1 : times[i + 1] > times[i]}
  IN  [i \in rising |-> times[i + 1] - times[i]]

(* The dispersion: twice the deviation of each gap from the median, and    *)
(* their median over the median of the gaps.                               *)
SteadyGaps(gaps) ==
  LET median == TwiceMedian(gaps)
      off == [i \in DOMAIN gaps |-> Abs(2 * gaps[i] - median)]
      regular == {i \in DOMAIN gaps : AtMost(off[i], median, RegularBand)}
  IN  /\ 2 * MinInterval <= median /\ median <= 2 * MaxInterval
      /\ AtMost(TwiceMedian(off), 2 * median, MaxDispersion)
      /\ Cardinality(regular) * MinRegular[2] >= MinRegular[1] * Cardinality(DOMAIN gaps)

IsBeacon(times) ==
  /\ Len(times) >= MinConnections
  /\ Last(times) - Head(times) >= MinSpan
  /\ Cardinality(DOMAIN Gaps(times)) >= MinConnections - 1
  /\ SteadyGaps(Gaps(times))

Times(series) == [i \in DOMAIN series |-> series[i].ts]

BeaconInit ==
  /\ connection_history = [k \in Keys |-> <<>>]
  /\ alerted_beacons = [k \in Keys |-> -1]
  /\ kept = 0
  /\ alerts = <<>>

Latched(k, now) == alerted_beacons[k] >= 0 /\ now - alerted_beacons[k] < LatchTtl

Appended(series, c) ==
  IF Len(series) = History THEN Append(Tail(series), c) ELSE Append(series, c)

(* Mutant of Fire: the series that fired is kept.                          *)
FireKeeping(k, now, series) ==
  /\ alerted_beacons' = [alerted_beacons EXCEPT ![k] = now]
  /\ connection_history' = [connection_history EXCEPT ![k] = series]
  /\ alerts' = Append(alerts, [key |-> k, at |-> now, series |-> series, latched |-> TRUE])

(* The latch is set and the series begins anew.                            *)
Fire(k, now, series) ==
  /\ alerted_beacons' = [alerted_beacons EXCEPT ![k] = now]
  /\ connection_history' = [connection_history EXCEPT ![k] = <<>>]
  /\ alerts' = Append(alerts, [key |-> k, at |-> now, series |-> series, latched |-> TRUE])

(* ingest_connection, for an outbound connection to a public address with a *)
(* time: everything else returns before any state is read, and so does a   *)
(* connection the latch covers, or one earlier than the last one kept.     *)
IngestConnection(k, now) ==
  LET series == Appended(connection_history[k], [ts |-> now, nth |-> kept + 1])
  IN  /\ kept < MaxConnections
      /\ ~ Latched(k, now)
      /\ connection_history[k] # <<>> => now >= Last(connection_history[k]).ts
      /\ kept' = kept + 1
      /\ \/ IsBeacon(Times(series)) /\ Fire(k, now, series)
         \/ /\ ~ IsBeacon(Times(series))
            /\ connection_history' = [connection_history EXCEPT ![k] = series]
            /\ UNCHANGED <<alerted_beacons, alerts>>

(* prune: histories and latches of before the cut-off go.                  *)
PruneBeacons(before) ==
  /\ connection_history' = [k \in Keys |->
       IF connection_history[k] # <<>> /\ Last(connection_history[k]).ts < before THEN <<>>
       ELSE connection_history[k]]
  /\ alerted_beacons' = [k \in Keys |->
       IF alerted_beacons[k] < before THEN -1 ELSE alerted_beacons[k]]
  /\ alerts' = [i \in DOMAIN alerts |->
       [alerts[i] EXCEPT !.latched = @ /\ alerts[i].at >= before]]
  /\ UNCHANGED kept

BeaconNext ==
  \/ \E k \in Keys, now \in 0 .. MaxBeaconTime : IngestConnection(k, now)
  \/ \E before \in 1 .. MaxBeaconTime : PruneBeacons(before)

BeaconSpec == BeaconInit /\ [][BeaconNext]_beaconVars
-----------------------------------------------------------------------------
(* The gaps of a series that fired are the multiples of one period, within *)
(* the band, but for the fraction that may stray: some period says so.     *)
OnePeriod(series) ==
  LET gaps == Gaps(series)
  IN  \E period \in MinInterval .. 2 * MaxInterval :
        Cardinality({i \in DOMAIN gaps : AtMost(Abs(2 * gaps[i] - period), period, RegularBand)})
          * MinRegular[2] >= MinRegular[1] * Cardinality(DOMAIN gaps)

(* No connection is counted for two alerts.                                *)
SeriesDisjoint ==
  \A i, j \in DOMAIN alerts :
    i # j => Range(alerts[i].series) \cap Range(alerts[j].series) = {}

(* Until it is pruned, a latch keeps the next alert of its key away.       *)
AlertsSpaced ==
  \A i, j \in DOMAIN alerts :
    (i < j /\ alerts[i].key = alerts[j].key /\ alerts[i].latched)
      => alerts[j].at - alerts[i].at >= LatchTtl

(* A series as regular as can be is never held in silence.                 *)
NoQuietBeacon ==
  \A k \in Keys :
    LET times == Times(connection_history[k])
        step == times[2] - times[1]
    IN  ~ /\ Len(times) >= MinConnections /\ Last(times) - Head(times) >= MinSpan
          /\ step \in MinInterval .. MaxInterval
          /\ \A i \in 1 .. Len(times) - 1 : times[i + 1] - times[i] = step

(* What the beacon detector owes its reader, beacon.py:95-162: an alert    *)
(* rests on one regular period, and on connections no other alert rests on; *)
(* alerts of one process and destination keep their distance; and no       *)
(* perfect series goes unreported.                                         *)
BeaconsSound ==
  /\ \A i \in DOMAIN alerts : OnePeriod(Times(alerts[i].series))
  /\ SeriesDisjoint
  /\ AlertsSpaced
  /\ NoQuietBeacon
=============================================================================
