# A verification of java-dump-analyzer

java-dump-analyzer is a FastAPI backend (`src/backend`), a React frontend
(`src/frontend`) and a transaction flow analyser in Java and Python (`src/tfa`,
`src/pytfa`). The backend takes heap dumps, thread dumps, GC logs and server
logs, analyses them, saves reports as JSON and indexes as SQLite files, and lets
users browse, annotate, compare and delete them.

The project has two halves. What runs in the background while users act on its
results (`HeapJob`, `ServerLogJob`, `HeapJobClient`) is modelled step by step,
checked, and proved. What an analysis says of its input is modelled as the
algorithm the code runs, and checked against a definition of the truth over
every small input.

All paths below are relative to `src/`; line numbers are in `PROJECT.json`.

## 1. Inventory

| Component | State | Operations | Hard behaviour |
|---|---|---|---|
| Background heap analysis (`backend/app/heap_jobs.py`, `main._run_heap_parse`) | the task's local variables, a cancel event, the stages list | start, checkpoint, `publish`, `check`, `finish` | runs in a thread beside every handler; several files and the store are written one after another; any write may fail; the process may die |
| Job store (`backend/app/sessions.py`, `JobStore`) | jobs and cancel callbacks in memory, under a lock | create, update, cancel, remove, gc | read by one thread and acted on by another; forgets at a restart |
| Saved analyses (`backend/app/artifacts.py`) | `<id>.json`, `<id>.sqlite`, `<id>.log.sqlite`, `<id>.job`; one process-wide lock | save, read, remove | atomic replace of one file, nothing atomic across files; not every writer takes the lock |
| Handlers (`backend/app/main.py`, `heap_workbench.py`) | what each has read so far | notes, capture data, source attachment, deletion, cancellation | each is a thread that reads, works, and writes |
| Heap dump scan (`analyzers/heap_dump.py`, `heap_control.py`) | a reader, a chunk of the segment, the stages and findings so far | the main pass, gated stages, snapshots | records cross chunks; budgets stop anywhere; stages are skipped, fail, run out of time |
| Server logs (`backend/app/server_logs.py`, `analyzers/server_log.py`) | uploads, one semaphore, a thread, an index per log; the event being gathered | upload, queue, index, publish, browse, clean up at startup | event loop and threads together; cancellation in every phase; clean-up after a crash; limits of lines, events and marks |
| Frontend job client (`frontend/src/heapJobClient.js`, `App.jsx`) | last revision fetched, a pending status, a stream and timers | event stream, fallback to polling, fetch of a report per revision | messages during a fetch, stream lost, job removed, backend restarted |
| Object index and queries (`heap_index.py`, `heap_queries.py`) | one SQLite file, read only once built | build, retained sizes, root paths, unreachable objects | must agree with the scan of the same file; limits of every search |
| Graph and dominators (`heap_graph.py`, `heap_compact.py`, `heap_sizing.py`) | arrays of a compact graph; the frontier of the tracer | dominator tree, retention traces | an iterative algorithm over packed integers, interrupted anywhere |
| Heap findings (`heap_waste.py`, `heap_deployments.py`) | classes, instances and names retained during the passes | duplicates, deployments, ownership of threads, class loader leaks | a second, best-effort pass resolves names |
| Thread dumps (`thread_dump.py`, `diagnostics.py`) | none | lock operations, deadlock section, blocked chains, verdict | monitors released by `wait`, sections cut off, threads of one name |
| Comparison, correlation, evidence (`compare.py`, `correlate.py`, `evidence.py`, `incident.py`) | none | compare two heaps or thread dumps, correlate, join an incident | histograms cut to their largest entries; identities that are not unique; captures of several processes |
| Transaction flow analyser (`tfa`, `pytfa`) | open segments, clusters, findings | read, segment, cluster, consensus, detect, rank, explain, validate, compare flows | a streaming algorithm over interleaved flows; several parts recompute each other's results |
| GC logs, source repositories, language model client, database diagnosis, user interface | source sessions in memory | statistics, lookup, calls with text, vendored rules, rendering | outside of what is modelled (section 7) |

How they interact: a handler starts a task and a thread; the thread reports
through the job store (memory) and through files; clients poll or stream the job
store and fetch the files it names; other handlers read and write the same
files. The event loop runs coroutines one at a time between awaits; threads run
at any time. After a restart only files are left. An analysis runs inside such a
task, or inside one synchronous request, to its end.

What makes each of them correct:

* heap analysis: what clients are told is there to be fetched; what a user
  wrote stays; a cancelled or deleted analysis does not come back; everything
  ends, and the files left behind are those a report names;
* server logs: the same, and the queue moves on whatever happens to its head;
  every line of a log is in one event;
* client: shows the last report of a job that ended, and never an older one
  after a newer one;
* analyses: the scan counts each record once; index, tracer and histogram agree
  with the file and with each other; dominators and retained sizes are those of
  the definition; deadlocks reported are the cycles there are; growth, stuck
  threads and joint evidence are real whatever the reports have kept; flows are
  those of the log; and nothing incomplete is called healthy.

`PROJECT.json` lists under `hazards` each place where this could go wrong, and
the properties that would show it.

## 2. The modules

### HeapJob: a background heap analysis and the handlers beside it

One job and its one report (jobs share nothing but the lock of `artifacts.py`).
Every write of a file or of the job store is an action of its own, so that any
handler may act in between.

| Model | Code |
|---|---|
| `status`, `result`, `callback` | the job's entry in `JOBS` and its cancel callback |
| `cancelled`, `pc`, `step`, `final`, `indexed`, `draft`, `base` | `HeapRun.cancelled`, and the position and local variables of `_run_heap_parse`, `publish`, `finish` |
| `jobfile`, `disk`, `index`, `input` | the `.job`, `.json` and `.sqlite` files and the dump |
| `lock` | `artifacts.LOCK` |
| `reqs` | what each handler in flight has read and does next |
| `lost`, `deleted`, `acked` | history: an unlocked save over a newer report, a deletion, the annotations answered with success |

A report is its revision, three annotations, whether it names the index and
whether it has pending stages. A checkpoint is `ScanStage`, then `publish` step
by step: `PublishGet`, `PublishLock` (the read under the lock), `PublishSave`,
`PublishAdvertise`, `PublishRecord`. `Raise` is Python's exception routing: one
raised by the scan is handled by `finish`; one raised by that `finish` leaves
the task. Handlers: cancel, delete job (reads the status, acts later), delete
analysis (guard, report, index), notes and capture data (read and save under the
lock), source attachment (read, guard, save without it). `Restart` keeps files
and forgets memory.

### ServerLogJob: uploads, the index queue, clean-up

Several logs at once, since they share the semaphore. `pc` is where a log's
upload or its `_run_log` stands. A task in `OnLoop` has the event loop, so no
other task and no other coroutine moves (`LoopFree`); threads and `def` handlers
do. `OpenIndex`, `ScanEnds` and `ScanRaises` are the thread. `handlers` are
requests that delete or browse a saved analysis, one file at a time. `Crash`
keeps files only; then the process is `starting` and `DiscardUpload`,
`DiscardIndex` and `Serve` are `discard_interrupted_log_jobs`.

### HeapFeed: what a heap job lets its clients see

Status, revision told, revision saved, and nothing of how they come about:
reports are saved before they are told of (`Save`, `Tell`), a job ends with its
last report told of (`End`), the `.job` file answers after a restart and may lag
by one publish (`Interrupt`, `Forget`), and what failed writes and deletions may
do beyond that (`Correct`, `Withdraw`, `FailWrite`). `HeapJobFeed` maps the
store and the files of `HeapJob` to it: `status` and `revision` are what
`get_job` returns, `saved` and `closed` are the report.

### HeapJobClient: the browser beside the abstract job

`watchHeapJob` and the part of `App.jsx` it writes, composed with `HeapFeed`.
JavaScript runs a callback up to its next await, so one callback is one action,
or several that no other callback separates (`EventLoop`); the backend acts in
between. A request is asked, served (the report and the job's status in it are
two reads, as in `_artifact`) and delivered, or fails at any point.

| Model | Code |
|---|---|
| `active`, `stopped` | `active`, and why it was cleared |
| `stream`, `serving`, `events` | the `EventSource`, the generator of `job_events`, what is on its way |
| `poll`, `polled` | `polling`, the timer and the request of `poll` |
| `processing`, `current`, `pending`, `fetched`, `answer` | the variables of `receive`, `revision`, the report on its way |
| `jobStatus`, `shown`, `phase`, `cancel`, `told`, `detached` | `jobStatus`, `heapAnalysis`, `heapPhase`, `cancelBackground`, `activeJobRef` |

### Reports: the analyses of one upload, or of saved reports

`Reports` composes six independent analyses. Each starts from any input of a
constant set and runs to its end; its properties compare the result with what is
true of the input, which the model knows and the code has to find out.

* `DumpScan` (`_Reader`, `_scan_heap_segment`, the loop of `parse_heap_dump`): a
  file is a sequence of cells; the first of a record says how long its parts
  are. The reader has a buffer, the segment scan a chunk of its own; `Refill`,
  `Ensure`, `SkipPayload` and the budgets are as in the code. `IsDump` says what
  the format promises (marked external): records follow each other without
  gaps, those of a segment fill it, up to one of an unknown kind, and the file
  may be cut off anywhere.
* `HeapStages` (`parse_heap_dump` after the main pass): one action per stage, in
  the order of the code, each with its gate, its budget, its failure and the way
  it rebuilds the findings; `Checkpoint` publishes a `Snapshot` with the stages'
  statuses, the findings (as a set: their order is wording) and the verdict.
* `HeapDeployments` (`DeploymentScan`, `analyze_deployments`, `resolve_names`):
  `Capture` is what the main pass retains, then the lookup of names reads record
  by record in two walks, may fail at any point, and the analysis goes on with
  what it has.
* `ThreadDiagnosis` (`parse_thread_dump`, `_parse_deadlock_block`,
  `build_blocked_chains`, `inferred_deadlocks`, `compute_verdict`): the input is
  a state of a JVM's locks and what HotSpot prints of it (`Printed`, `Section`,
  marked external); the output is the diagnosis.
* `ServerLogScan` (`build_log_index`): one action per line read, with the limits
  of a line, an event's characters, frames and lines, and its marks. Of a JSON
  line only the message and the stack trace are text of the event, so a complete
  event is one with all of that.
* `Captures` (`compatibility`, `compare_heaps`, `compare_threads`, `correlate`,
  the conflicts and overlap of `analyze_incident`): a question is asked of saved
  reports that kept the whole histogram, the largest entries or less, next to
  the real one.

### HeapBrowse: index, dominators and traces of one dump

* `HeapIndex`: rows, edges with their strength, sizes and hashes of
  `build_index`, beside what the scan of the file makes of the same dump.
* `HeapDominators`: `retained` and `compute_dominators` (Lengauer and Tarjan over
  arrays: `Prepare`, `Traverse`, `Link` with `Compress` and `Evaluate`,
  `ResolveDominators`, `Save`), after the statements that drop the table and
  delete its marker one by one, with `Interrupt` anywhere and a second start, and
  the queries over the table. Between those two statements a crash leaves a marker
  without a table; a query then fails and shows nothing.
* `HeapTrace`: the tracer level by level, over the file (`StreamTrace`) and over
  the index (`IndexedTrace`), and `root_paths` with its limits.

### Tfa: the transaction flow analyser

* `FlowStream`: `FileSetReader` (order of files, by the first time within a limited
  number of lines; continuations) and the three segmenters, one action per record
  read.
* `FlowVerdicts`: clusters, consensus, the detectors with censoring, ranking,
  suppression, `explain` and `validate`, each as an operator over the finished
  episodes. The commands analyse alike, but only `tfa analyze` gives the ranking
  the rules of a suppressions file; `tfa explain` and `tfa validate` give none.
  So `Rank` takes the rules or no rules (`suppressions`). What `explain` and
  `validate` say is checked against the analysis they were given, with rules too,
  as the library allows it; `SuppressionsOnlyHide` says how a ranking without
  rules relates to the report with them.
* `FlowCompare`: `read_reference_flows` line by line, twice if linking ids are
  followed, and the alignment and differences of `compare_flows`.
  `difflib.SequenceMatcher` is external: any alignment it may choose.

### The others

* `HeapJobInv`: the inductive invariant of `HeapJob`, in named parts. The other
  modules state theirs at their end (`IInv`, `ClientInv`, `StagesInv`, `LogInv`,
  `ScanInv`).
* `HeapJobProofs`, `HeapJobFeedProofs`, `HeapJobClientProofs`,
  `ServerLogJobProofs`, `DumpScanProofs`, `ReportsProofs` (the other analyses of
  `Reports`) and `TfaProofs`: the theorems.
* `StableOrder`: Python's stable sort (`StableSort`, by keys that `Arranged`
  numbers), its lexicographic order, and what a comprehension with a condition
  keeps (`Positions`, `Those`).
* `Sums`, `NumberLemmas`: the sum of a sequence; and induction over numbers, sums
  and sequences, and what the operators of `StableOrder` return, which the proofs
  need.
* `MCHeapJob`, `MCReports`, `MCHeapBrowse`, `MCTfa`: symmetry and the inputs of
  the runs.

Definitions with the comment "Mutant:" are plausible mistakes in the definition
after them. No specification uses them; each is caught by a property when it
replaces that definition.

## 3. What is abstracted, and why that is sound

* In `HeapJob`, reports carry only what the properties tell apart; what the
  stages find, progress counters and texts decide nothing.
* The scan's stages are a number of checkpoints there; the index is built before
  one of them. Any stage may fail, be cancelled or publish nothing.
* `HeapRun.stage` persists the `.job` file during the scan, with the content it
  already has; its failure is covered by `ScanFails`.
* `JobStore.remove` (pop, then callback, then unlink) is one step; the callback
  only sets an event that the task reads later anyway.
* In `ServerLogJob`, marking the outcome and releasing the semaphore are one
  step: no await lies between them, and no thread sees the semaphore.
* A faulty write leaves the old file, as `save` and `persist_job` write a
  temporary file and rename it. Left-over `.tmp` files are not modelled.
* A graceful shutdown is not modelled apart from `Crash`, which leaves the files
  in any state the shutdown could.
* In the client, `queued` and `running` are one status, a watchdog may fire at
  any time, and one request to cancel is under way at a time. The job beside it
  has no failing write and no deletion (`Job`): nothing is promised then.
* Bounds (`MaxFaults`, `MaxRestarts`, `MaxCrashes`) count rare events only, and
  are arbitrary in the proofs.
* In the analyses, a name, a class, a line or a site is a value, and what a
  regular expression tells of a line is a field of it. Bytes are cells. Scores,
  percentages and thresholds of wording are left out unless a verdict depends on
  them; where arithmetic matters (sizes and alignment, percentiles, score scale)
  it is done on integers as the code does it.
* An analysis is deterministic, so an action may be as large as a pass over the
  data, except where something may interrupt it (dominators, name lookup, log
  scan, stages) or where its steps are the point (the scan by chunks, the
  streaming segmenters).

## 4. Runs

| Run | Instance | Shows |
|---|---|---|
| `HeapJobFaults` | 1 handler, 3 checkpoints, 2 failed writes, 1 restart | revisions, files, stages, deletion, outcomes under faults; the report only gains; `HeapJob` implements `HeapFeed` |
| `HeapJobHandlers` | 2 handlers, 1 checkpoint | no lost update while the job runs, annotations kept, the inductive invariant |
| `HeapJobLive` | 1 handler, 2 checkpoints, 1 failed write, fair | jobs end, handlers answer |
| `ServerLog` | 2 logs, 2 handlers, 1 failed save, 1 crash, fair | files, reports, statuses and the semaphore agree; queued logs settle; a log cancelled in time is never published |
| `HeapJobClient` | 2 reports, 1 event in transit, 1 reload or reopening, fair | the last report is shown and the page settles; statuses in order, nothing after leaving; the end is noticed and reports arrive although the stream stalls and requests fail |
| `Reports` | the inputs of `MCReports` | each analysis against the truth of its input |
| `HeapBrowse` | some 1200 dumps: graphs of 4 objects and a class, and mixed dumps of 9 objects | dominators and retained sets by definition; file and index agree; traces are connected, and silence means unreachable |
| `Tfa` | every 3 lines, every 5 entries and terminals, 4 flows of 6 kinds; 3 and 4 lines of two flows | episodes by definition; verdicts agree with each other; compared flows keep their lines |
| `AcknowledgedAnnotationsKept`, `DeletedReportStaysDeleted`, `ThreadsBelongToTheirLoader`, `SharedIdsAreNotFollowed` | as the runs above | promises the code does not keep (section 6) |

A property of a run is often a conjunction of named parts, each stated and
explained where it is defined; several of them have a mutant for each part. Type
invariants are not run by themselves: they are part of the inductive invariants
(`IInv` is run for `HeapJob`) and proved; the other inductive invariants were
checked before they were proved, and can be run by adding them to a
configuration (`ScanInv` without `task \in Scans`, which is slow to evaluate).

Why the bounds are enough to be interesting: three checkpoints give one before,
one at and one after the index build; two handlers give every pair of
conflicting requests, beside the two publishes of a checkpoint and of the end;
two failed writes reach the failure of a failure handler; of two logs, one is in
the thread while the other is uploading, waiting or cancelled in the queue; two
reports and one event in transit let a status arrive while an older report is
awaited. The proofs do away with these bounds for safety.

For the analyses: four objects with a shared path are the smallest graph on
which path compression and semidominators differ; chunks of one, four and five
cells cut records of two to six cells at every place; four threads and four
monitors give a cycle beside a chain, two cycles, and cycles that share a name;
five lines overflow each limit of an event and go on after it; histograms of two
classes with three sizes and lists of one give every case of seen, cut off and
absent; four flows make a consensus with a minority. What only more objects would
show (a queue or list longer than these) is not claimed.

Handlers are symmetric in `HeapJobHandlers`; the liveness runs use no symmetry.
Deadlock is not checked where every job may be over and no user does anything,
and where an analysis has ended.

Fairness: a thread or task that can take a step takes it (the operating system
and the event loop schedule every runnable one). A handler or checkpoint that
waits for `artifacts.LOCK`, which others take and release again and again, gets
it at some time (strong fairness): the lock is held for one file read and write
only. The semaphore needs weak fairness alone: each log takes it once.
In the browser, callbacks run, a silent or ended stream fails (`onerror`, the
watchdog), the backend answers what it is asked, and a poll, or the request for a
report, that is made again and again is not lost every time (any single one may
be).
Users are never assumed to do anything, nor is the job to end. `JobEnds` is
stated for behaviours without a further failed write, because a write that fails
in the `finish` of the exception handler does leave the job running.

## 5. Proofs

TLAPS proves, for any sets of handlers, logs and values, any number of
checkpoints, reports and reloads, any dump, log or setup and any bounds:

* `HeapJobProofs`: `TypeCorrect`, `Invariant`, and from it the state properties
  `NoLostUpdate`, `AnnotationsSurvive`, `RevisionsSaved`, `IndexComplete`,
  `ReportClosed`, `TaskLeavesOrder` (from `NoIndexLeftBehind`,
  `MetadataAgrees`, `InputIsHandled`); the action properties `NeverRecreated`,
  `NeverRegresses`; and `OutcomesStand` (from `StatusStable` and
  `CancellationHonoured`).
* `HeapJobFeedProofs`: `FeedImplemented`, that `HeapJob` implements `HeapFeed`,
  with failed writes and restarts.
* `HeapJobClientProofs`: `ClientInvariant`, `ClientTypes`, `LastReportIsShown`,
  `PageStaysInOrder`.
* `ServerLogJobProofs`: `TypeCorrect`, `InductiveInvariant`, `DoneIsFound` (from
  `ReportsKeepTheirIndex` and `OutcomesAgree`), `FilesCleanedUp`,
  `IndexesOneAtATime`, `CancelledStaysUnpublished`.
* `DumpScanProofs`: `ScansAreExact`.
* `ReportsProofs`: of `HeapStages`, `HealthyReportsAreWhole` and
  `FindingsAreKept`; of `HeapDeployments`, `OwnershipIsTrue`; of `ServerLogScan`,
  `LinesAreInOneEvent`; of `Captures`, `GrowthIsReal`, `StuckIsOneThread` and
  `EvidenceBelongsTogether`.
* `TfaProofs`: of `FlowCompare`, `FlowsKeepTheirLines` and `NoBreakMeansSamePath`.

The assumptions are those the modules name: there is a checkpoint, the index is
built before one of them, bounds are naturals, the values that stand for
"nobody", "nothing" or "no message" are not members of the sets they complete,
the lines of a log have a size and frames and the limits of an event are numbers
(`LogsAssumption`, `LogLimitsAssumption`), and what is scanned is a heap dump, or
the beginning of one (`ScansAssumption`). Of the dumps of deployments, that an
identifier is that of one class, object or array and not null, and that classes
come before objects, as HotSpot writes them (`DumpsAssumption`); no archive is
made of an unknown location (`ArtifactAssumption`). Of the captures that are read together
it is assumed what a parser puts into a report: a histogram that is not marked
partial is true of the heap, in one unit per sizing model, and a complete one
lacks no class (`HeapsAssumption`); a dump prints a thread once and all threads
with the same kind of identity, and a thread that lives on keeps its identities
(`ThreadsAssumption`); lists are lists (`JointAssumption`). Of the flow logs, that
they are files of lines that carry what the comparison reads
(`CorporaAssumption`). TLC evaluates each of them on the inputs of the runs.

Why the invariants need strengthening. *HeapJob*: that no update is lost
while a job runs is not inductive, because a handler that has read the report
may be about to save it. `RunningInv` says who can be where: no unlocked writer
is past its guard, and what a lock holder has read is what is saved. It rests on
`LockInv` (the lock is held exactly between such a read and its save) and
`StatusInv` (how task, store and `.job` agree, and what a failed write may
break). `AckedInv`, `RevisionInv`, `IndexInv` and `ClosedInv` follow a report's
copies through the worker's draft and the handlers; `OrphanInv` and `InputInv`
say who still has to clean up.

*The refinement*: every action of `HeapJob` is a step of the feed or changes
nothing a client is told. After a restart or once the store has forgotten the
job, the `.job` file answers, so what a step may do there depends on how far the
file lags: `FileInv` says that it is never ahead of the store, at most one
publish behind unless a write has failed, and says "running" until the end.

*HeapJobClient*: that the page shows the last report when a watch has ended
depends on what is on its way. `FeedInv` is what the feed keeps of itself,
`WatchInv` where the callbacks stand; `StatusOrderInv` says that the status
worked on, the one that waits, and then the answer of a poll or the events of
the stream are in order, and each still true of the job; `ReportInv` says that
the report on its way is at least the one the page was told of, and that the
one shown was fetched and is not newer than the one saved.

*ServerLogJob*: `LoopInv` ties the semaphore to
the points between admission and outcome, `SavedInv` the task's local flag to
the saved report, `StatusInv` and `FilesInv` what is told and what is on disk to
where the task stands, `HandlersInv` what a handler still knows to be true.
Each part has a lemma with one step per action; a lemma of its own comes before
it for each action that takes more than one step. The cancellation properties are
about two moments; `Doomed` is what stays true from the first one on.

*HeapStages*: the verdict is taken from the list of skipped stages, not from what
became of them. `StagesInv` says that the list is complete (`SkippedAreListed`),
which stages are left at each point (`StagesLeft`), and that the report on disk
is the snapshot of that point.

*HeapDeployments*: `LookupInv` says what the scan has kept of the records read so
far (`Kept`: all classes and roots, and the wanted objects unless the limit was
reached), and that the texts found are those of the file (`TextsAreTrue`), which
rests on each array that is looked for being that of a string already found. So a
field of the scan is the file's or null (`FieldsAgree`), a location is true or
unknown (`OriginsAgree`), and unknown ones are not compared. Whether two
deployments have the same context name is only claimed where both names were
found: the limit, or an array that two strings share, may hide one of them.

*ServerLogScan*: the events are only a partition together with the one being
gathered. `LogInv` says of each event, and of that one, that it holds exactly its
lines (`Sound`) and goes on where the one before it ended (`Follows`), and that
told and omitted frames add up to those read.

*DumpScan*: `ReaderInv` says that the reader's buffer is what comes next in the
file, `WalkInv` the same of the segment's chunk, and that reader and rest of the
segment end where the segment does. `Passed`, the cells before the next one, is
then all that the steps of a record change, by its length and nothing else,
whichever way the record was read (`EnsureKeeps`, `PassKeeps`,
`SkipPayloadKeeps`, `PassPartsKeeps`, one lemma per operation of the code). With
what the format promises, the walk is at the cell of a record again and
everything that counts before it was counted (`InSegment`, `AtTopRecord`), unless
a record of an unknown kind was met, which is remembered as `incomplete`.

*Captures*: each question is answered in one step, so the invariant
(`CapturesInv`) says only that the question asked is one of `Questions` and which
answer it has got; the work is in the lemmas about that answer. What the lists
keep after a selection, a sort and a cut are members of what went in (`Those`,
`StableSort` and `SubSeq` lose or keep entries but make none), and a growth that
is reported is a difference of two true readings in one unit. The sign of the net
growth, a sum over the compared classes, is that of the difference between the
sizes of two sets: the blocks of all classes of either heap (`BlocksAddUp`). A
thread found by its identity is the only one of its bucket in both dumps.

*FlowCompare*: the scan keeps no more than the flow of the line above, so the
invariant (`TfaInv`) relates what it has collected to the log up to the line read
last. `FlowsUpto` says that each flow's steps are exactly the lines that carry
its ids and that each has the stack frames printed below it so far, `InLineOrder`
that they stand in the order of the log, `LastInv` when a continuation would
still belong to a step (`Unbroken`: nothing but continuations and blank lines of
the same file in between), and `WantedInv` that a flow is found by its id and by
its links only. From `FlowsUpto` at the end of the log follows that no line is
lost; that flows without a break really took the same path follows for every
alignment the matcher may choose (`DiffsInv`).

Sums, and the walk past the parts of a class, are recursive functions. What they
compute is proved by induction over a set of numbers: `NumberLemmas` derives that
a set with 0 and every successor is all of them from the least member of a set
(`WFMin`), since the library's induction theorem takes an operator. That such a
function exists at all is proved the same way (`PartialSumsExist`,
`PassPartsDef`).

Model-checked only: everything under fairness (`JobEnds`, `RequestsAnswered`,
`LogSettles`, `WatchEnds`, `ReportsArrive`), which the prover cannot do; and the
analyses of which each property compares a whole computation over a graph or a
list, a recursion or folds, with a definition that is not computed that way:
dominators and retained sizes (`HeapDominators`), index and traces
(`HeapBrowse`), lock cycles (`ThreadDiagnosis`), the episodes of a log and the
verdicts on them (`FlowStream`, `FlowVerdicts`). Each would need an induction over
data of its own, except `FlowVerdicts`: its lists are filtered with the library's
recursive `SelectSeq`, so its definitions would have to be restated before its
properties could be proved, and that has not been done.

## 6. Where the code and its documents differ

Each of these is a run that TLC must find violated, and a finding in
`PROJECT.json`.

1. `AcknowledgedAnnotationsKept`: after a job has ended, `attach_source` may
   overwrite a note or capture data saved while it looked up sources.
2. `DeletedReportStaysDeleted`: a note saved by a request that read the report
   before its deletion brings it back.
3. `ThreadsBelongToTheirLoader`: a thread is attributed by the name of its
   Runnable's class to the first deployment that loaded a class of that name,
   after a redeployment usually the wrong one.
4. `SharedIdsAreNotFollowed`: linking ids are cut to the first few keys, and to the
   first id of a key, before those that both flows carry are ignored. So an id of
   both may be followed for one of them, and lines of the other move to it
   (`compare.py`, `read_reference_flows`). `FlowsKeepTheirLines` says what the two
   flows keep in spite of it.

Met while modelling, and not kept as runs:

* a job removed between `finish`'s update of the store and its write of the
  `.job` file is remembered as running (`heap_jobs.py`, `finish`);
* a request that browses a log while it is deleted leaves an empty event index,
  until the next startup discards it (`server_logs.py`, `_log_index`);
* the answer to a request to cancel may replace the final status of the event
  stream (`App.jsx`, `cancelBackground`), and a status set after `reset` stays
  until the next watch starts;
* an episode that stops at an earlier visit of the terminal site is reported by
  no detector, and `explain` says that it matches the consensus
  (`pytfa/tfa/detect.py`, `validate.py`);
* `tfa validate` and `tfa explain` read no suppressions file, `tfa analyze` may
  (`cli.py`): a defect that validate passes, or a finding that explain calls
  reported, may be hidden in the report or stand at a better rank there
  (`SuppressionsOnlyHide` says that nothing else differs), and at the command line
  explain never says that a finding was suppressed;
* a thread that re-enters a monitor after `Object.wait` is listed as its holder
  (`waiting to re-lock in wait()` is not a lock operation the parser knows), and
  marks of an event beyond the limit are dropped without being counted
  (`server_log.py`); the properties exclude both by name;
* a failed first write of a job leaves a running job without a task; a crash
  during the index build leaves a partial index; `POST cancel` has no effect on
  a queued log; a job the backend does not know is polled for ever. No document
  promises otherwise.

## 7. Not modelled

Statistics of GC logs and the patterns that recognise lines (regular expressions
over text), the matching of log events of an incident, object search and field
values (SQL queries of one statement), source repositories and their sessions,
the language model client, the vendored database rules, the Java original of the
flow analyser and its reconnaissance tools, and the user interface's rendering:
stateless or external, and tested by example in the repository. `PROJECT.json`
gives the reason for each.

## 8. Plan

What is left to prove, in this order: of `FlowVerdicts`, that what `explain` says of
an episode happened; of `ThreadDiagnosis`, that a dump called healthy has no
deadlock the dump shows; of `FlowStream`, that the episodes are the flows. Then, of
what is not modelled: source sessions and their expiry beside use, and the
timeline of an incident.
