# Verification of the Panopticon detection engine

TLA+ models of the stateful core of `panopticon_detection`, the TLC runs that
check them on small instances, and the theorems TLAPS proves about them for
every instance. The engine is a Python program that reads telemetry events of
Windows hosts, matches them against rules, correlates what matched over a
provenance graph, and appends alerts to `alerts.ndjson` through a durable spool.

Paths below are relative to `src/panopticon_detection/`.

## 1. The system

```
 source generator ──put──▶ BoundedEventQueue ──get──▶ DetectionRun.process_event
 (producer thread)          (one condition)            │  registry + graph: record
                                                       │  rules, stateful rules, beacon,
        stop event, duration, request_stop,            │  rarity: detect
        Ctrl-C, max_events ──▶ StreamingPipeline.run   │  dedup, tag, incident, risk
                                                       ▼
                     alerts.ndjson ◀──write── AlertSpool (SQLite) ◀──persist── alerts
```

Two threads matter: the producer drains the source, the thread in `run()` does
everything else. They share the queue, two events (`_stop`, `_producer_done`)
and the metrics. The spool and the file outlive the process; everything the
detection stages know is in memory and is ordered by the timestamps of the
events, which arrive late, twice and out of order.

### Inventory

| Part | State | Operations | Talks to | Hard because | Must hold |
|---|---|---|---|---|---|
| Event queue `reliability/queue.py` | deque, closed flag, waiters of one condition, counters | put, get, get_nowait, close, drain | producer, consumer | three overflow policies, waits with timeouts, one condition for both sides | bounded, nothing lost uncounted, order kept, no lost wakeup, close releases all |
| Streaming pipeline `reliability/pipeline.py` | `_stop`, `_producer_done`, deadline, both threads, counters | run, recover, request_stop | all of the above and below | five ways to stop, at any moment, against a source that may be idle | a run that is told to stop ends; received events are accounted for |
| Alert spool `reliability/spool.py` | a table row per alert: status, attempts, payload, backoff | persist, claim_deliverable, mark_delivered, mark_failed, requeue_dead | pipeline | crash between two calls, damaged rows, retries | every accepted alert settles; nothing owed is lost |
| Alert sink `reliability/alert_sink.py` | file, write buffer, index of ids | open (repair, index), write, flush, close | pipeline, file system | torn lines, failing flush and fsync | append-only, one line per alert |
| Process registry `provenance/identity.py` | per PID a timeline of incarnations, an index by node id | observe_start, observe_context, observe_stop, resolve, prune | graph builder, enrichment, stateful rules | PID reuse; events late, twice, out of order; inferred starts, ends and parents | an event is never attributed across a reuse; the kill token is genuine |
| Provenance graph `provenance/graph.py`, `builder.py`, `boundary.py` | nodes, edges, capped adjacency | ingest, add_edge, backward, forward, prune | registry, incidents, features | disorder, times rounded to seconds, caps, pruning | walks follow cause and time; index and edges agree |
| Incidents `provenance/incident.py`, `tagging.py` | incidents, member index, tags | on_tag, merge, emit, prune | graph, dispatch | overlapping scopes merge; emission once per growth | a process is in one open incident; no tactic goes unreported |
| Storylines `provenance/storyline.py` | risk events of a process tree, latch | add, score, prune | dispatch | repeats, expiry, a cap on what models add | no alert on models alone; one alert per crossing |
| Risk meter `provenance/risk_scorer.py` | score, timeline, latch and last-seen time per host | record_detection (decay, points, re-arm), prune | dispatch | late events against a decaying score | a rule counts once per half-life; alerts are apart |
| Stateful rules `evaluator/stateful.py` | per rule and key: open matches, window | evaluate_event, prune | dispatch | windows under disorder, caps | a hit has a true witness inside the window |
| Dispatch `detection_run.py` | dedup table with times | process_event, prune | all detection stages | late duplicates, prunes | one alert per key and window |
| Beacon detector `behavioral/beacon.py` | times per series, latch | ingest_connection, prune | dispatch | a history cut in half while it is latched | a perfect series is never held in silence; no connection counts twice |
| Rarity baseline `behavioral/rarity.py`, `signal.py` | table of counts, total, range of time | observe, score, save, load | dispatch, training | learnt in one run, edited, loaded in another | a tally of what was learnt; nothing scored against a file that does not add up |
| Behaviour features `features.py`, `enrichment.py` | none: computed from the graph | extract, image_write_for | rules, models | asked as of a time, on a graph that already knows more | as of a time means as of that time |
| Rules `rules/`, `evaluator/engine.py`, `matcher.py`, `operators.py` | the rules in force, error counts | load_directory, evaluate_event | dispatch, alerts | conditions that raise, missing fields, negation | isolated per rule; a directory loads whole or not at all |
| Ingestion `ingestion/` | agent process, its pipe and trace session | parse_line, normalize, stream, shutdown | source of the pipeline | bad lines, an agent that dies or will not | a bad line costs itself; nothing is left running |
| Recorded data sets `datasets/` | none between recordings: records in, events out | normalize | training tools, command line | channels with clocks of their own, duplicates, PIDs that are reused | one event per record, in order, at the time it happened |
| Training tools `tools/train/pdtrain/` | pins, labelled recordings, folds | fetch, label, evaluate by environment | – | kills, hosts that change, near-duplicates, ties | trust on first use; labels follow lineage; no leak into what is held out |
| DNS, entropy, ML scoring, metrics, wiring, scripts | none that outlives a call, or text | – | – | – | – |

Status of each part, with the reason for what is left out, is in
`PROJECT.json` under `components`; the hazards, each at its line, under
`hazards`.

## 2. The modules

| Module | Models | Built on |
|---|---|---|
| `BoundedEventQueue` | queue.py, with CPython's `Condition` | – |
| `StreamingPipeline` | `run()` of pipeline.py: both threads, all the ways to stop | instantiates `BoundedEventQueue` |
| `AlertDelivery` | spool.py, alert_sink.py and the delivery half of pipeline.py, over any number of process runs | instantiates `AlertOutbox` as what it implements |
| `AlertOutbox` | what delivery promises about an alert | – |
| `ProcessIds` | how a node id names a process | – |
| `ProcessRegistry` | identity.py | extends `ProcessIds` |
| `EventStream` | the events detection sees, nearly in order of time | – |
| `SequenceRule`, `WindowRule` | the two kinds of stateful rules of evaluator/stateful.py | extend `EventStream` |
| `RiskMeter` | risk_scorer.py | – |
| `DetectionRun` | `process_event` and `prune`: rules, dedup, risk meter | extends the three above |
| `GraphEdges` | the vocabulary of graph.py: nodes, edges, which way information flows | extends `ProcessIds` |
| `ProvenanceGraph` | graph.py, builder.py, boundary.py: ingesting an event, caps, pruning | extends `GraphEdges` and `ProcessRegistry` |
| `CausalWalk` | backward, forward and tree_root | extends `ProvenanceGraph` |
| `IncidentTracker` | incident.py and tagging.py, over any scopes | extends `GraphEdges` |
| `Correlation` | one event through registry, graph, tags and incidents | extends `CausalWalk` and `IncidentTracker` |
| `BeaconDetector` | beacon.py | – |
| `StorylineIndex` | storyline.py, one process tree | – |
| `RarityBaseline` | rarity.py and signal.py, with the file between two runs | – |
| `ProcessFeatures` | features.py and the write of an image of enrichment.py | – |
| `RuleTree` | conditions, operators, trees and their validation | – |
| `RuleEngine` | loader.py, engine.py, alert.py, active_response.py | extends `RuleTree` |
| `Ingestion` | officer_adapter.py, telemetry.py, live_stream.py | – |
| `PinnedFetch` | fetch.py of the training tools | – |
| `StableSort` | Python's `sorted`: positions in the order of keys that are tuples | – |
| `RecordingLabels` | label.py of the training tools | extends `StableSort` |
| `EnvironmentFolds` | the protocols of loeo.py and context_loeo.py with their thresholds | – |
| `DatasetAdapter` | otrf.py with canonical.py, and rows_for of the training tools | extends `StableSort` |
| `MC...` | instances for TLC | the module named |
| `...Proofs` | theorems and their proofs | the module named; `BehaviorProofs` and `AnalysisProofs` several modules of one run |

Definitions whose comment begins "Mutant of" are not part of a specification.
Each is a plausible bug in the operator it names; the project's properties are
required to fail when it takes that operator's place.

### BoundedEventQueue

Every method runs under one lock, so an atomic step is the stretch between
taking and releasing it: a whole call that does not wait, or one of the two
halves of a call that does (`Put`/`PutResume`, `Get`/`GetResume`). The condition
is explicit: `waiters` is its list, oldest first, shared by producers and
consumers, and `NotifyOne` wakes its head, which may be of the wrong kind, or
one whose timeout has just elapsed and who swallows the notification
(`Timeout`). `got`, `dropped` and `refused` are history: they record where each
item went.

### StreamingPipeline

`prod` is the producer's place in `_produce`, `run` that of the calling thread
in `run`/`_consume`. The queue is `Q == INSTANCE BoundedEventQueue` with one
producer and one consumer that always pass a timeout; the pipeline's steps are
conjunctions of a queue step and what the caller does with its outcome, so a
`put` that blocks and a `get` that waits are two pipeline steps as well. The
source is a generator that is suspended (the producer is anywhere else),
executing (`prod = "source"`, possibly for ever) or finished (`sourceClosed`).
Being closed from another thread while executing is refused, as in Python.
`Interrupt` is a `KeyboardInterrupt` in the calling thread at any point,
`DeliveryRaises` an exception out of the spool. Shared flags are read and
written in the order the code does; where several reads are one step, a comment
says why that is the same.

### AlertDelivery and AlertOutbox

One thread delivers; its steps are its calls, each spool call one committed
transaction, and a kill, an interrupt or a failing disk may come between any
two and inside a write. `file` is the complete lines of `alerts.ndjson`, `torn`
an incomplete one after them, `buf` what Python's file object still holds,
`seen` the writer's index. `AlertOutbox` has two variables: the fate of each
alert, and the log. An alert is accepted, published at most once, and settled
only after that; the log only grows. `ImplementsOutbox` is the refinement under
`fate <- status, log <- file`.

### ProcessRegistry

`timeline[p]` is the sorted list of incarnations of a PID. A node id is a pair
of PID and start time, so two incarnations can share one, as in the code.
`Resolve` is the bisect; `Inserted`, `Linked`, `FillMissing`, `SameCreation`
are the helpers of the same names. Time counts microseconds. `pace` is chosen at
the start and says how the stream runs: `gap` is the least step of its timestamps
(negative: events may be late; 2: in order and far enough apart that an inferred
start never ties with another event), `horizon` their bound.

### EventStream, SequenceRule, WindowRule, RiskMeter, DetectionRun

The four detectors that remember something share one stream. An event is its
time, the incarnation it resolves to (or none) and its shape: which steps of the
sequence rule its conditions satisfy, which value the windowed rule counts, which
single-event rule matches. An open match is the sequence of the positions of its
events; the code's list of open matches is the set of them ordered by first
position, because one event opens at most one match, and the code's deque is a
set of positions ordered by position. The timeline of the risk meter is a set
because `record_detection` never puts one rule there twice at one time. The
steps are the code's: expire, advance the oldest match per step from the last step
down and stop at a completion, open, cap; append, evict from the head, cap, fire,
clear; decay, de-duplicate, add points, re-arm, latch; suppress or emit, then weigh
the strongest new detection. `ProcessEvent` is one step because one thread runs it.

The decay is a parameter: any function that does not raise the score. For TLC it
is `int(s * 0.5 ** (d / half_life))` with a half-life of two ticks.

### GraphEdges, ProvenanceGraph, CausalWalk, IncidentTracker, Correlation

A node is a node id of the registry or a thing (file, socket, key, domain,
script); an edge is its kind, its ends and its time, so that two events alike in
everything are one edge, as in the code's dictionary. `graph` holds edges, nodes
and the adjacency bucket of every node, a sequence that takes no more
once it has `MaxBucket` entries. An event is the registry's step and the edge the builder draws.
`Backward` and `Forward` are the queue of the code, one node after the other
with the bound it was reached with, rounded down to `Second` as in the code, the
boundary at hubs included. Backward is a recursive function over its turns and, in a
turn, over the edges listed (`WalkNode`). Forward is one over its depths, for the
queue holds one depth behind the other, and so over the turns of a depth
(`ReachDepth`) and the edges of a turn (`ReachNode`). `Causes` is what the walk
backward is compared with: what the start leads back to over at most `MaxDepth`
edges without passing a hub, without a queue, an order or seconds. `Effects` is the
same for the walk forward. `Ancestors` climbs the parent links that still resolve,
at most 16 of them.

`IncidentTracker` is written over any scopes: `OnTag` joins, merges, opens or
ignores; the context factors of a score add up to any natural number.
`Correlation` gives it the scopes of the walks. `ProcessEvent` records an event
and attaches its tags; `todo` is the tags that are still to be correlated, one by
one, in the order of the code. `fresh` is history: every event so far was the latest
and drew an edge of its own time, if it drew one. It turns false at an event that
comes late, and at a creation reported again, to which the builder answers with the
edge of the first report. What `Correlation` promises of ordered streams is said of
fresh ones.

### BeaconDetector, StorylineIndex, RarityBaseline, ProcessFeatures

Four components that share no state, in one MC module that runs one at a time.
Ratios are compared as fractions, and times are whole seconds. The state of each
is the code's; the ghosts are what a property needs of the past (the series an
alert was raised for, the starts a baseline was learnt from). In
`RarityBaseline` a version is the content it is a hash of. A median is the value of
the middle rank or ranks. In `StorylineIndex` what is added up is five times the
code's, so that the fifth each lesser score counts for is a whole number; a tactic
is its phase in the kill chain; and an event keeps its place among those held, as a
dictionary does, so that sorting by time leaves ties in order. `ProcessFeatures` has
its table of bits and counts as two sets of rows of kinds and traits, one per
branch of `edge_bits` and per field of the dataclass; its edges are a function to
the place each was added at, which tells which of two writes of one time is found.

### RuleTree, RuleEngine, Ingestion

A condition tree is evaluated as the code does, with the conditions in order,
missing fields, negated operators, and values at which a condition raises;
`Means` in `RuleTree` is the two-valued reading it is compared with. The trees are a
set of nodes, each with a height above all that is nested in it, and what is said
of trees is a recursive function on the nodes. What a text operator finds is a
relation (`Holds`). A directory is a sequence of files
that may fail to parse, to validate or to be unique. `Ingestion` has the lines
of the agent, its pipe of bounded length, the agent's process (it exits,
crashes, is killed, ignores a request) and the shutdown with its three stages;
the families of telemetry are tables of keys, and `FIELD_REGISTRY` is compared
with what the normalizers produce.

### PinnedFetch, RecordingLabels, EnvironmentFolds

The training tools. A content stands for its digest; a run of `fetch_all` may be
killed between any two steps of a download, and begins again with the pins that
were saved. A recording's rows have a clock that may put a child before its
parent, and parents may form a loop, as in the data. `Lineage` is a function of the turns
of the code's loop, of which there are no more than rows; `Ancestry`, with which it is
compared, is the least set of rows closed under recorded parents. The labels are given
one row after the other, each by what is malicious when its turn comes, but are
written where the row stands in the file. The sources in `ReaderLabelled` (officer_vm, optc,
atlasv2) come with the labels of their readers. `EnvironmentFolds` keeps who
learnt from whom: a fit is the units it was trained on, for every scored unit the
units its scorer learnt from, and the thresholds. A unit carries its rows, which are
what a budget counts; merged groups are the least set that is closed under shared
commands, where the code joins trees of a forest; the hours observed are counted one
by one, as pairs of a host and an hour. Scores are chosen at will and so
is the assignment of groups to folds within what GroupKFold guarantees, and so is
what the final model flags. Left out: features, weights, confidence intervals,
robustness, export, the choice between recipes, the recipes' uncapped
environments. The order of ids under a cap is that of row ids.

### DatasetAdapter

The loop of `normalize` takes one record per step and skips, rejects, drops or
maps it; `events` is what it returns. A record is of the Sysmon, the PowerShell or
another channel, with a number or without, and carries the time it happened as a
ghost, which no operation reads. The table of starts is built before the loop from
all records, so a script may find a start that stands behind it. `Join` is
`rows_for`, on the process starts only (`StartsOf`).

Both this module and the labels sort. `StableSort` does it by rank: the k-th of the
positions is the one that k - 1 others are ahead of, by their keys or, of equal
keys, by their place. What is said of times has three hypotheses, which recordings
do not always meet: `ClocksExplained`, that Sysmon's clock is right and the export's is
off by one gap for most records; `StartsNamed`, that a start has a PID and an image; and
`NumbersIdentify`, that a number stands for one record.

## 3. The runs

Every run finishes within five minutes on two cores. "Violation" runs each
check one statement of the repository's own documentation that the code does
not keep; `findings` quotes it. All of them were reproduced with the program.

| Run | Instance | Shows |
|---|---|---|
| `queue` | 2 producers, 1 consumer, 2 slots, 3 items, all policies, timed or not | capacity, high-water mark and counters; order per producer; nothing stranded by a close; no lost wakeup; every call returns |
| `delivery_safety` | 2 alerts, 2 attempts, each generated up to twice, 1 crash, 3 faults of any kind, 1 requeue | acknowledged means in the file, rows stay sound, claims stay good, every alert settles |
| `delivery_outbox` | 2 alerts, 2 crashes, 4 faults, 2 requeues; flushes work | at most one line per alert; AlertDelivery implements AlertOutbox |
| `pipeline` | 1 slot, 3 events, cap 2 or none, blocking and evicting queue, all stops, 1 interrupt | event accounting and what a graceful stop leaves; results are final; the run ends |
| `pipeline_idle_source` (violation) | 2 events, stop event only | an idle source keeps a stopped run alive |
| `registry` | 2 PIDs, 4 events; either in any order at times 0..4 or in order at times 0..9 | attribution, kill tokens and timelines under disorder; in order, disjoint intervals and invisible pruning |
| `detection` | 4 events at times 1..5, each up to one tick late, all four detectors, prunes | what fires happened, what happened fires, once; dedup and the meter keep their promises |
| `correlation` | a hub, 2 processes, 1 file, 3 rules, 3 events, depth 3, in order or late, creations reported twice, prunes | index and edges agree; walks are causal; incidents are disjoint, emitted distinctly, report every tactic and end whole or quiet |
| `walk_bucket` (violation) | the same, 4 events, ten times to a second | a walk that depends on the order in which it visits |
| `behavior` | 8 connections of one series; 4 risk events of a tree; 3 edges of 2 processes; 3 starts learnt | `BeaconsSound`, `StorylinesSound`, `RaritySound`, `FeaturesSteady` |
| `storyline_forgets` (violation) | the same | a repeated risk event expires with its first occurrence |
| `analysis` | directories of 2 files over 9 trees, 3 events; 3 lines; 2 downloads; 2 recordings of 4 sources, one labelled by its reader; 10 rows in 3 environments, 2 recipes; 4 or 5 records of 3 channels | `RulesSound`, `VerdictsSound`, `IngestSound`, `FetchSound`, `LabelsSound`, `FoldsSound`, `RecordingsSound` |

Why the bounds are enough. Queue: two slots are the fewest at which "full",
"one free" and "empty" are different, and two producers beside a consumer the fewest
threads at which a wakeup can go to the wrong one. Pipeline: with one slot, one event can be
in the consumer's hands, one queued, one blocked in `put`. Delivery: a duplicate
needs one alert twice and two alerts share a buffer and a batch; two attempts are a
retry and an exhaustion; `delivery_outbox` has the second requeue that follows a
second death. Registry: an overlap or an ambiguous index needs three events; the
fourth lets a prune or a late arrival follow. Detection: a match of two steps,
another one that competes with it, and one event over, be it late, a repeat or the
next breach; spans, windows, half-life and TTL are two ticks, so that a neighbour is
inside, a tick further is on the boundary and two further outside; the cap on open
matches is two and is exceeded by three openings. Correlation: two incidents need
two anchors, and the third event joins their scopes, is late or reports a creation
again; the depth cap of the walk, twelve in the code, is three, and what three events
draw and the parents they bring along make chains that it cuts. Beacon: a series
fires at four connections, is cut and latched, and eight are enough to fire it
again; the history of five is exceeded. Storylines: a cap of two fifths of a
threshold is exceeded by the second model, and three phases are a chain. Rarity:
two starts make a baseline ready and the third is after the load. Rules: trees of
two levels with each block present, absent and empty. Fetch: one file whose
suffix can be checked and one whose cannot. Labels: a root, its child and
grandchild with the clock in every order, and a loop. Folds: three environments,
so that two are left to be split; three groups that share commands in a chain,
the fewest that one step of merging gets wrong. Recordings: a process, another that
reuses its PID or not, a script of one of them and one record more, two clocks off by
different gaps, in four orders, the first record perhaps twice. Every bound is a constant of the
module and a conjunct of a guard.

`CHECK_DEADLOCK FALSE` is set where the system stops of itself: a closed queue,
a run that returned, exhausted bounds. That nobody is left waiting is stated
instead as `NoLostWakeup` and by the liveness properties.

### Differences between code and documentation

With a run of their own: `pipeline_idle_source`, `walk_bucket`,
`storyline_forgets`. Met while modelling and covered by the models, but without
a run of their own:

*Reliability.*

* A flush that fails (alert_sink.py:138) leaves the line in Python's buffer and its
  id out of the index; the retry buffers it again and the next flush writes both.
  pipeline.py:23-26 says recovery never double-emits. (`NoDuplicateLines` fails with
  `Faults = {"flush"}`.) An interrupt between :138 and :140 does the same.
* `close()` on a source the producer is executing raises `ValueError`, which
  pipeline.py:275-278 swallows: `run` returns with the source open, against
  :271-272, "no orphan process, no leaked session".
* With more producers or more consumers than slots (two of either and one slot are
  enough) and untimed calls, `notify()` can wake the wrong side and leave everybody
  asleep next to an item (queue.py:187). The pipeline has one of each and always
  passes a timeout.
* Under BLOCK a `put` gives up after half a second and the event is dropped
  (pipeline.py:127), where pipeline.py:114 says only the DROP policies lose events.
* `persist` that raises (pipeline.py:188) loses the alert that was just made; the
  exception ends the run.
* `mark_failed` on a row that was quarantined in the meantime answers "retry"
  and sets a backoff; the row stays dead.
* The latency ring overwrites its second oldest entry first (`_buf[count % cap]`
  after the count was raised); metrics.py:46 speaks of recent percentiles.

*Detection.*

* An event advances only the oldest open match (stateful.py:208): with a third
  step, an older match can take an event of an occurrence and then run out of
  time, and the occurrence goes unreported, against stateful.py:19, "advances each
  open partial match". `NoneRunsOut` excludes it in `OccurrencesFire`; two steps
  never meet it.
* The risk latch is re-armed only if the score is low after the new points were
  added (risk_scorer.py:126): a later campaign that starts strong is silent, against
  :124-125. One detection of level 16 crosses the threshold alone, though
  risk_scorer.py:86-90 wants several behaviours; a late detection sets `last_seen`
  back, so the same time decays twice (:150).
* A rule whose evidence cannot be collected loses its match (engine.py:84). The id
  of an alert depends on evidence that later events can change (docs CONTRACT.md:46).
* Nothing in the package calls `DetectionContext.prune` (factory.py:47).

*Provenance.*

* A creation that arrives late can overlap an inferred incarnation
  (identity.py:26-27 speak of disjoint intervals); the model states
  disjointness for streams in order. A parent PID filled in later
  (identity.py:556) gets no link. Pruning one of two incarnations with one node id
  removes the index entry of the other (identity.py:461).
* A creation reported again within the duplicate window is answered with the edge of
  the first report (builder.py:130-138), so what is detected in it bears that older
  time. Its incident opens with, or stays at, a last activity before things already
  known of its processes: a tactic then waits for the next detection, and prune may
  close it early. incident.py:24-25 emits an incident "when it gains a tactic". (`AlertsSound` without its `fresh` fails for streams in order.)
* A merge that a late event causes keeps the older incident's last activity only
  (incident.py:265-275), so prune can close an incident that was just active; its
  docstring (:238) says "with no activity since". (`ActivityKept` states it.)
* `forward` keeps the first bound a process was reached with (graph.py:372-376);
  a cap on a bucket together with prune can drop a node that still has edges;
  a re-reported creation without a parent draws an edge that loses the tags of the
  first (builder.py:129-134); a severity that rises by an untagged network edge is
  announced with the next tag only.
* A storyline keeps the time of the first of two equal risk events (storyline.py:98),
  and takes late events that are already outside its window. Its table of tactics
  has twelve phases where mitre/attack.py:3 says fourteen.
* A self-edge is counted once from either end (features.py:349, graph.py:255), so
  twice; docs/behavioral-intelligence.md:80 counts "graph edges whose source is the
  process".

*Ingestion.*

* An event that is not an object, or a category that cannot be hashed, raises in
  `normalize` (telemetry.py:349-351) and ends the stream; :351 says it never raises.
  An unknown category becomes a `process_create`; a process event of type "access"
  becomes a `process_access` without a target.
* The trace session of an agent that crashed stays: `_shutdown_officer` returns
  early when the process has exited (live_stream.py:36-37), although :18-20 says a
  hard-killed agent never leaves one.

*Training tools.*

* A page served for a file whose suffix has no magic number is pinned on first use
  (fetch.py:91), as is a truncated file.
* A child stamped like its parent or before it can be labelled first
  (label.py:236, "Parents before children").
* Of two records with one number, `rows_for` takes the event of the first and the
  fields of the last (normalize.py:81-85): a row then has the command line of one
  process and the image and GUID of another. The side table of integrity levels
  (sysmon_xml.py:104-109) is keyed the same, though it "joins the canonical events
  exactly". Exports that renumber are the case; `NumbersIdentify` excludes them.
* A start without `UtcTime` or without an image becomes an event but is not among the
  starts that scripts are attributed to (otrf.py:349-351): a script then gets the image of
  an older process of that PID.
* Where a fold would learn from one class only, context_loeo.py leaves it
  unscored without a word, so its benign units are missing from the false
  positives, while loeo.py raises; context_loeo.py does not drop conflicting keys.
  An environment without observed hours meets every budget.

## 4. Fairness

* Queue: a woken thread gets the lock back, timeouts elapse, a consumer that is
  not waiting calls `get` again. Nobody has to call `put`, `close` or `drain`.
* Pipeline: both threads run and timeouts elapse. The source owes nothing:
  `StopFinishesIfLive` assumes a live source in its own statement
  (`SourceIsLive`), because without it the statement is false. Nothing that
  stops a run has to happen.
* Delivery: the consumer makes its calls, backoffs elapse, and a process that is
  down is started again. A write may always fail as long as faults remain. The
  code retries only on an empty queue, at start and at the end, so this assumes
  a stream that pauses now and then (see the hazard at pipeline.py:149).
* The other modules: no liveness.

## 5. What is proved

TLAPS proves these for every value of the constants that the modules' named
assumptions allow, without bounds on threads, items, alerts, crashes, faults or
events other than those being natural numbers.

*BoundedEventQueueProofs.* `IInv` is the type invariant, "a producer inside put
has sent an item" (`BlockedHasItem`) and the accounting of the counters with the
capacity bound. `CountersBalance` is not inductive by itself: evicting needs a
nonempty queue, which is the capacity assumption. From it: `TypeCorrect`,
`CapacityHolds`, `CountersAlwaysBalance`, and, with a second invariant about
threads that have seen CLOSED, `NothingStranded`; the action property
`NothingEnters` needs only the guards.
`NothingIsLost` has two halves. `EachOnce` counts: what is queued, taken, dropped or
refused of an item, and whether its put is under way, add up to one if the put has
begun and to nothing if not. `Line` is what consumers got followed by what is queued:
a get moves its border and an eviction cuts one item out, so one producer's items
stay in order in it.
`NoWakeupIsLost` is for one consumer, with as many slots as producers: the pipeline's
case. `WaitersInv` says who is on the condition's list: no thread twice, the consumer
only in front, a consumer asleep only at an empty queue, and
`Backlog`: the more producers are on the list, the fuller the queue. The last one
makes a notification that a consumer uses up harmless, and is what fails with fewer
slots than producers.

*AlertDeliveryProofs.* `IInv` is the type invariant, `IndexTrue` (every id in
the writer's index is in the file, so a skipped write may be acknowledged) and
`Recorded` (the row of an alert under way, claimed or written is in the state its
next step expects). From it: `TypeCorrect`, `NothingAckedIsLost`,
`NothingWrittenUnrecorded`, `ClaimsAreSound`, `NothingReopens`. `RowsTellTheirAttempts`
adds the account of attempts (`Budget`: an alert the spool never saw has none): a row
that is claimed and cannot be read is dead whatever its attempts, a failure on a
row generated again counts on from where the row was left. Under the
assumption `CleanFaults` (no failing flush, no interrupt inside write) a stronger
invariant `Clean` says that the buffer is empty between writes and the index is
exactly the file; from it `NeverTwice` and `DeliveryImplementsOutbox`, the whole
refinement: initial states map to initial states and every step to a step of
`AlertOutbox` or a stutter. Without the assumption both are false.

*DetectionRunProofs.* `IInv` has one part per detector. For the sequence rule:
every match lies in the stream, has the length its set demands, is witnessed and
shares no step with another; the last is what makes "the oldest match that waits
for this step" one match (`OneAdvances`), and so is needed to preserve itself.
The lemma `CapBound` bounds what survives a cap, for open matches and windows. For the
meter: a host that may alert has been quiet. For dedup: an entry of the table is
the time of an alert (`EntryIsAlert`), and in order an alert is remembered at its
time or later unless it is too old to be repeated (`Remembered`), which is where
pruning needs the retention to be at least the TTL (a day and ten minutes by
default). From it: `TypeCorrect`, `FiredIsWitnessed`, `NoStepTwice`,
`PointsOncePerHalfLife`, `BreachesAreApart`, `DedupIsExact`.

Two more theorems compare a detector with the whole stream. `AlarmsAreExact`: the
window holds every event that no alarm has used up, except what is too old for
any event to come or was pushed out by as many newer ones as the window holds
(`WindowInv`); the newest ones decide whether the threshold is met, so both
exceptions are invisible. `OccurrencesAreSeen`: every occurrence that has begun is carried on by an open
match that is as far, started no later and has one of its events (`CarriedOn`); it need not be
the one the occurrence opened, because the oldest match goes first. Such a match could
expire before the last step comes: `NoneRunsOut` excludes exactly that, and
with three steps the code really loses such an occurrence (section 3). Both
assume that prune keeps a span (`Retention`, a day, against windows of minutes), which
the code's prune does only by its caller's choice; without it a prune may forget
what the next event needs. The number of steps, the caps and the stream are any.

*CorrelationProofs.* Of the tracker alone, `TrackerInv` is the type invariant, `ByNodeExact` (the member
index maps each process of an open incident to it, and nothing else) and `Anchored`:
an incident holds the actor of the edge it is named after. Without the last, an
incident opened under an id in use would replace it and leave its processes in the
index. The lemma `TakesPlace` is the core: one incident taking the place of all
that a scope touches. From it: `IndexIsExact`, `ScopesDisjoint`, for any scopes,
scores and tags. What a tag or a prune leaves of an incident is said once
more, as lemmas (`JoinReplaces`, `OpenReplaces`, `OnTagEndsWhole`,
`PruneIncidentsKeeps`), for the composition to use.

Of the composition, `CInv` joins the invariants of the registry and the tracker,
which hold because `Correlation` extends both and takes their steps, to what the
composition adds:
* of the graph, that it is of its type and `Live`, every entry of a bucket an edge.
  Recording keeps that because the graph only grows (`Extends`), pruning because
  it filters edges and buckets by one test. `NoStaleEdge` is that alone. That
  every edge is in the buckets of both its ends (`Listed`) fails at the cap, where
  a full bucket takes no more entries; hence
  `IndexIsExactBelowTheCap` is for runs in which no bucket is ever full: 4,096 edges at
  one node, the code's guard against pathological hubs.
* of a fresh stream, three things that need each other. Everything known is of the
  past (`Dated`). Every incident has told the tactics of its tags, but for the edge
  that is being correlated (`AllTold`). What was alerted at this very time is
  still in an incident, which is past that alert (`Remembered`), so an id that is in
  use is not opened again. From them: `EverythingMaterialIsTold` and
  `IncidentsEndWholeOrQuiet`. TLC checked the whole of `CInv` on the `correlation` run's
  instance before it was proved.
* `OneIncidentPerProcess`, from the tracker's steps alone, of streams in any order.

None of this depends on what the walks return. What the walk backward returns is stated
by two more theorems, whose states are a node and the time by which it mattered:
* `WalksFindOnlyCauses`, of every stream, full buckets and clashing seconds
  included: the walk ends, with nothing left in its queue, and every node it found
  is a cause within the depth cap. It ends because a state is queued once and an
  edge makes at most one (`Spare`). It finds only causes because what is queued at
  some depth is a cause over that many edges (`Causal`).
* `WalkIsExactBelowTheCap`: it also finds all of them, which is `WalkIsCausal`. A state
  that is reached again is not queued again, so it must have been queued the first
  time at no greater depth, or the cap would cut what it leads to. Breadth first gives
  that: the queue is in order of depth and spans at most two depths (`Ordered`),
  everything over fewer edges than its head has is queued or found (`Levelled`), and
  every state taken from it has had its edges looked at (`AllDone`). Together,
  `Deepens` is kept by each edge and so by each turn.

Both hypotheses of the second are needed. `Roomy`: a full bucket does not list the edge
that is the cause. `TellsApart`: with two times in one second, a node is not entered
again with the later bound; that is the finding of `walk_bucket`. Every state of the
`correlation` run meets both: its ticks are seconds and its buckets never fill.

Both walks together say what an incident is made of: `IncidentsTakeInOnlyRelated`, of
every stream. A process enters the incidents only while a detection is correlated, and
then it is the actor, or something that led to it, or something that followed from an
entry of its tree (`Related`); a hub, which every process descends from, enters only
as the actor, so that no shared `explorer.exe` joins two attacks. The argument has four
parts. The walk forward is over after `MaxDepth` depths, and what it queues at a depth
follows over that many edges at most (`WalkedForward`). The walk backward marks
every hub it meets but its start (`Causal`). The line `Ancestors` climbs is one of
parents, none of them twice and none the process itself (`AncestorsAre`), and
`TreeRoot` stays below its first hub (`TreeRootIs`). And what merging adds to an
incident was in the index already (`OnTagTakesIn`).

The walk forward does not find all effects: a process is entered once, with the time of
the edge that finds it first. If another edge led to it earlier, what it did in between
is missed.

*ProcessRegistryProofs.* `IInv` adds to the type invariant that every timeline is
`Sound`: sorted by start, open at most at its end, every kill token reported by a
start of that PID within the duplicate window, every link to a parent of the reported
PID that started no later. Being sorted is what makes bisect split a timeline
into what started by a time and what did not; both inserting and resolving rest on
that, so it is needed to preserve itself. Pruning is a subsequence; that a
subsequence of a sorted sequence is sorted is proved from the least position a kept
entry comes from, without induction. From it, for any number of reuses and
events in any order: `RegistrySound` and `PidReuseSafe`. The assumptions on constants
are the types of times and windows.
Of streams in order, `OrderInv` adds that nothing in a timeline is later than the
clock (`Past`) and every entry but the last is over when the next starts (`Apart`): an
insertion is then an append, which is what a late event breaks. `ReusedPidsAreDisjoint`
follows at once. `PruningIsInvisible` needs more: prune keeps the last entry of
a PID unless it is too old for any answer to come, and an answer about now or
later is given from the last entry, whose place among the kept ones is the last.

*StreamingPipelineProofs.* `IInv` is the type invariant, the sum (`Balanced`),
`ProducerPlace` (where the producer is against its status in the queue) and
`LeftNothing` (a consumer that left on CLOSED saw a closed, empty queue; one that
left idle saw an empty queue of a producer that had reported done). The sum alone is
not inductive: a put must be known to be refused at most once, and nothing left
now says nothing of later unless the queue is closed or the producer past its last
put. The lemmas `PutOutcome` and `GetOutcome` say what a call of the queue, or the
rest of one that waited, does to its contents and its caller. From it, for any
capacity, policy, cap and interleaving: `EventsAreSettled`. `ResultNeverChanges` rests on
how the two threads part (`Parting`): a run that is past its loop has set the stop
flag, and it does not return while the producer is anywhere in front of a put it will count.

*BehaviorProofs.* Four components that share no state.
* Rarity: `RarityInv` says that a baseline is `Tallied`, the count of every relation
  the number of starts learnt that have it, the total their number, the period their
  earliest and latest; and that the file holds it as long as nobody was at it, which
  its version tells unless that was removed too. Counting one start more
  (`TallyOfAppended`) is the core. From it, for any starts: `RarityIsAgainstTheData`.
* Beacons: `BeaconInv` joins the three properties of the run to `KeptOnce` (a
  connection is in the history of one key or in the series of one alert) and
  `LatchCovers`. The arithmetic rests on medians being ranks: that a value of each
  rank exists is proved from a least counterexample (`RankedIsThere`). A series that
  passes the test has a period most of its gaps are near (`BeaconHasPeriod`),
  and a perfect one passes it (`PerfectIsBeacon`). From it, for any thresholds that
  are fractions of naturals: `BeaconsAreEarned`. The median of no gaps raises in the
  code, so at least two connections are assumed to be asked for, and an interval
  over zero.
* Storylines: `StoryInv` says that what alerted is a breach of events that fired,
  and that what did not would not fire now. That the rules bring all but the capped
  share (`RulesCarry`) needs a breach to be split into what its rules score alone
  and what models and rarity may add. The run of the kill chain is a function that
  recurs to earlier events of lesser phases: it exists because phases are numbers
  (`Recursion`, from a least height where it does not), a rising set of that many
  events ends in each event (`RunIsTaken`) and none is larger (`RunIsGreatest`), both
  by height. From it, for any risk events in any order of time:
  `StorylinesAreEarned`. The assumptions on constants are the types of
  scores and caps, and a threshold and a number of tactics over zero.
* Features: `FeaturesInv` is the type of the edges, finitely many, each with its
  place. What is asked as of a time depends on what is seen then only (`BehaviorIs`),
  which a later edge is not among (`LaterIsUnseen`); a last write exists among
  finitely many (`LastWrite`); and the bits and counts are compared row by row
  (`BitIsCounted`, `BitsHaveBacking`), with objects the image of what is counted. From
  it, for edges in any order of arrival: `FeaturesAreSteady`.

*AnalysisProofs.* Six components that share no state.
* Rules: what an operator on trees says of a node is given by what it says of the
  nodes nested in it. That such a function exists is proved once (`TreeRecursion`, from
  a least height where it does not) and used for each operator (`ConditionsOf`,
  `MeansOf`, `EvaluateOf`, `ResolvedOf` and so on); what holds of a node if it holds of
  all that is nested in it holds of all nodes (`TreeInduction`). `LoadIs` reduces a
  directory to "each file is sound by itself and no id comes twice", in which
  the order of files no longer occurs; that resolving a tree leaves no list and does
  nothing a second time (`ResolvedInPlace`, `ResolvedOnce`) makes a loaded rule sound
  again: `RulesAreWhole`. What a trace says is not inductive over the tree as
  `Explains` states it, since the conditions of a subtree are those of its siblings
  too; `Verdict` strengthens it to every set of conditions that has the trace and
  agrees with the event on what is excluded. `EngineInv` says that the alerts are those of the rules that match,
  event by event; ids being distinct, an alert tells its rule: `VerdictsAreEarned`.
  Assumed is that nodes are conditions or trees of finite height and that putting lists
  in place leads to nodes again.
* Ingestion: `IngestInv` says that what was handed on is what each line taken gave,
  joined in order (`AllDelivered`), that a line that raises is the last one, what a
  stream that ended may have left (`NoneLeft`) and how the stages of the shutdown
  stand to the agent (`Stages`). Joined sequences are reached through their prefixes
  (`FlattenJoins`, `FlattenMore`). `NormalizedAsListed` is apart from the states: each
  of the families gives exactly the fields that are listed for it, because a type
  tells its family (`TypeTellsFamily`). From it, for any lines of the five
  kinds, any pipe and any way to stop: `StreamsAreWhole`.
* Downloads: `FetchInv` says of each file alone how its pin, the content and its
  worker are to each other, so a step of one worker cannot disturb another file.
  The one assumption is that absence is no content. From it: `PinsAreKept`.
* Folds: `FoldsInv` is that units are what `build_units` makes of the rows
  (`UnitsSound`: a group is closed under shared commands, which `MergedTogether` gets
  from its being the least such set) and that a fit is as `FoldsSound` says. That
  tied scores go together and the threshold is the lowest one the budget bears rests on finite sets
  having a least and a greatest element and on fewer units having fewer rows
  (`CountsGrow`, `ThresholdMeets`, `StrictestMeets`). From it, for finite sets of
  rows, any recipes and any number of folds: `FoldsAreKeptApart`.

* Sorting, for the two below: who is ahead of whom is a strict order of the positions
  (`AheadOrders`, from the order of tuples, `BeforeTotal` and `BeforeTransitive`), so whoever
  comes later has more ahead of him (`AheadCounts`); the numbers of those ahead are then
  different and less than the number of positions, so each occurs (`NthIs`). From it
  `Sorts`: every position is there once, the earlier ahead of the later.
* Labels: each turn of a lineage adds the recorded parent of its end, with a guid of its own
  (`LineUp`), or nothing, at the top (`Climbs`). A lineage that is not at the top after as many
  turns as there are rows would have more of them than there are (`LineageIs`, by the
  pigeonhole principle). Hence `LineageIsAncestry`: it is what the row descends from, in loops
  as well, where a guid comes twice as well. What is malicious stays so in all later turns
  (`AccusedGrows`); a clock that puts parents first gives them the earlier turn, so
  what descends from an attack inherits it (`AttackLabels`). Labels are never changed once
  given, and `finalize` takes of each key the row that none is ahead of (`OneIsFirst`,
  `TrainingSet`). From it, for any corpora: `LabelsAreEarned`. Assumed is that rows have
  numbers for times and ids, and that no label is the absence of one.
* Data sets: `AdapterInv` says that every event is what its record makes, that no id comes
  twice, that every usable record taken has its id among the events, and that the
  counts add up to the records taken. That ids do not come twice is what makes
  sorting by time and place strict (`EventsAre`). `MedianOfMost`: of a gap that more than half of
  the records have, too few are left below or above for either middle rank to lie there,
  so it is the offset, and the times are right (`WhenIsTrue`). The last of the starts
  by time is a newest one, so the image it gives is a true one (`ImageIsTrue`). From it,
  for any records in any order: `RecordingsAreTold`. Assumed is that times and images are
  numbers or missing, and that no number is missing.

Only model-checked:
* liveness, which is out of the prover's reach.

## 6. What is not modelled

* Data that no property tells apart: payload contents, error texts, the length of
  a backoff, command lines, hashes, gauges, health and metrics text.
* Power loss: SQLite runs with `synchronous=NORMAL`, so committed spool rows could
  roll back while fsynced lines stay. A kill of the process is modelled.
* Several processes on one spool; the code documents one.
* Exceptions inside `process_event`; one key per stateful rule and one host.
* Numbers: floating-point scores and their rounding, entropy and the DNS statistics,
  feature vectors, fitted models, confidence intervals. What they decide enters as a
  trait, a relation or a choice.
* The readers of the other corpora (eCAR, BOTS, ATLAS, OpTC, COMISET) and the XML of
  Sysmon: each translates fields of one record into those of one event and keeps
  nothing between records. The replay over them drives the detection stages.
* Metrics and health: counters behind one lock, rendered as text.
* The parts `PROJECT.json` lists as not modelled.

## 7. Plan

What is left, the most useful first:

1. `DetectionRun` with stages that raise, under the consumer of
   `StreamingPipeline`: state consumed for alerts that are then lost
   (detection_run.py:216), and the ids of the meter's alerts against the spool.
2. Truncation in the risk meter under disorder (risk_scorer.py:147) and retries
   under sustained load (pipeline.py:149), each as an abstract bound.
3. The replay of the training tools: that a checkpoint taken while a recording is
   replayed is what extraction as of that time gives when it is over.
