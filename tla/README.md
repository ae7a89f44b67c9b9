# TLA+ models of the Origami DevOps platform

TLA+ modules, TLC configurations and TLAPS proofs for the Origami mini PIC 2.0
DevOps platform, the Python program under `src/origami` with its Dashboard and
its scripts. Paths below are relative to the repository.

- [Inventory](#inventory): the parts of the system and what makes them hard
- [Modules](#modules): which module models which part, and how
- [Runs](#runs): what TLC checks, on which instances, and what it shows
- [Findings](#findings): where the code and a document disagree
- [Proofs](#proofs): what TLAPS proves, and along which argument
- [Plan](#plan): what is not modelled yet, in order

To check everything: `tlc -config X.cfg MC_M.tla` for each run below, `tlapm
M_proofs.tla` for each proof module. `PROJECT.json` lists runs, properties, the
source lines of every definition, and for every property a mutated definition
that breaks it.

## Inventory

One FastAPI process (`uvicorn`, handlers in a thread pool) serves the Dashboard
and the API. A command line runs the same scenarios from its own process on the
same artifact root. Everything persistent is a file under that root
(`artifacts/`, or `artifacts/users/<id>/` for an authenticated user); there is
no database. Prometheus scrapes gauges that live in the server's memory.

| component | state it keeps | operations | used by |
|---|---|---|---|
| pipeline `core/pipeline.py` | step counter, stages, audit chain | `step` | runners, smoke |
| AMDC `models/amdc` | moving averages of sensor biases | `calibrate` | pipeline |
| STUM `models/stum` | none | `evaluate` | pipeline |
| HTD-IRL `models/htd_irl` | none | `plan` | pipeline |
| GRPO `models/grpo` | none | `decide` | pipeline |
| SEOM `models/seom` | none | `check` | pipeline |
| CRL-MRS `models/crl_mrs` | none | `coordinate` | pipeline |
| audit chain `audit/chain.py` | list of hashed entries | `append`, `verify` | pipeline, runners |
| scenario runner, benchmark | none (a run is a call) | run a suite, a case, the benchmark; persist | API, CLI |
| multi-step runner | observation and clock of a mission | run a suite or a case; persist | API, CLI |
| artifact store `persistence/artifact_store.py` | files, thread locks, lock files | `write_json`, `write_text`, `write_jsonl`, `append_jsonl`, `lock` | runners, history |
| run history `persistence/run_history.py` | `history/runs.jsonl`, `runs/<id>/` | `record`, `list`, `get`, retention | API |
| metrics `observability/metrics.py` | gauges and counters in memory | `record_*`, render | API; alert rules |
| scenario library `evaluation/scenario_builder.py` | one YAML file per scenario, built-in and overlay directory | list, get, save, update, delete | API; runners read it |
| API `api/app.py` | the objects above | HTTP handlers | Dashboard, scripts |
| Dashboard `dashboard/static/dashboard.js` | selections, caches, run queue in the browser | loads, runs, edits | user |
| scripts | archives, reports | backup, restore, acceptance, probes | operator, CI |

How they interact: a POST handler generates a run id, calls a runner, which
steps the pipeline and writes the run's bundle `runs/<id>/` and then the latest
views (`reports/`, `events/`, `audit/`); the handler records the run in the
history, which writes `runs/<id>/report.json`, appends to the index under a lock
and prunes old runs; it sets the gauges and answers. GET handlers read the same
files without any lock.

What is hard, and what makes each part correct:

- **Run history.** Workers interleave with each other and with readers that take
  no lock; a worker can be killed between any two steps, in the middle of an
  append or of the rewrite of the index. Correct: a run that retention still
  counts in keeps its snapshot and its line, whatever else happens; what is
  missing is always explained by retention or by a named failure; the index stays
  bounded, and what stays on disk beyond it has a named cause; every record completes.
- **Artifact store.** Two locks, one of threads and one of processes, whose names
  do not agree; temporary files named after the process. Correct: a file is an
  atomic register for its readers, and no lock stays held.
- **Run orchestration, metrics.** A dozen writes per run, most of them twice,
  into files other runs replace too, then a record, then a gauge, each under a
  lock of its own or none. Correct: mixtures only come from overlap or failure,
  and anything shown is backed by a complete bundle until retention counts it out.
- **Pipeline.** Five stages that override each other, with thresholds that differ
  between stages (12 % and 15 % battery), fields left over from an overridden
  action, and observations that accumulate disturbances over a mission. Correct:
  the safety rules win over everything, the low-battery return over the plan, the
  fleet over the robot, and each override is explained.
- **Scenario library.** Check-then-write and write-then-unlink without a lock,
  files truncated in place while suites load them. Correct: edits of different
  ids do not disturb each other, and a rename never loses the scenario; what
  overlapping edits of one id may do is said exactly.
- **AMDC, STUM.** Estimates that lag behind the drifts they follow and are shared
  by name; means of residuals, in which one drift can hide. Correct: a verdict
  errs only within a lag that is bounded, and a drift that is large enough closes
  the gate, however many small ones come with it.
- **Dashboard.** Every `await` lets other handlers run: answers arrive in any order
  and after the selection changed, and the buttons are enabled by whoever finishes
  first. Correct: a panel shows the selection, or the exception has a cause that
  the user saw; a save goes to the scenario shown.
- **Backup, acceptance.** A copy of a live root without a lock, a restore that
  moves the root away with the archives in it, an acceptance that trusts exit
  codes and the name that sorts last. Correct: what is verified is complete, what
  was there is somewhere, and what is passed was earned.

The full list, line by line, with the property that covers each, is in
`PROJECT.json` under `hazards`.

## Modules

### RunHistory

`persistence/run_history.py`, for one artifact root. A *worker* is the thread or
process that serves one POST: `PersistRun` (the run and its bundle), then
`record()` as `WriteSnapshot`, `AcquireIndexLock`, `AppendRecord`, and the
retention of `_apply_retention_locked` as `SkipRetention`, or `BeginPrune`,
`PruneOldest` once per surplus record, `TruncateIndex` and `RewriteLine`, then
`ReleaseIndexLock`. `Abort` is a kill or an `OSError` anywhere; one in the middle
of a write may leave the index torn. A *reader* serves `GET
/api/history/runs/{id}` in the three steps of `get()`: `LookUp`, `CheckSnapshot`,
`ReadSnapshot`. `PersistCliRun` is a run command of `cli/main.py` on the same root: it
leaves a bundle that nothing records.

`PruneOldest` is `_remove_run_artifacts` as it is: the directory goes (`RemoveRun`), or
it stays, whole or without its snapshot, because `rmtree` ignores errors or because the
record leads to no directory under `runs/` of this root (`LeaveRun`); the line goes
either way. The index is the sequence of its parsable lines with two flags: `garbled` (some
line in the middle does not parse) and `torn` (the last line has no end, and the
next append continues it). A record is its id. `shutil.rmtree` of one directory
is one step. The index lock is one mutex: by `LockHoldersAreApart` of
ArtifactStore, that is what `lock()` is for stores with the same root, and the
history store of an artifact root always has that root. `order`, `appended`,
`started`, `strays`, `damaged` are history variables for the properties; `order` is not on
disk. `strays` are the directories that nothing is going to remove: of the command
line, and those that a removal has left.

### AtomicFile, ArtifactStore

AtomicFile is what `ArtifactStore` promises of one file: a write takes effect at
one instant between call and return. ArtifactStore is the code for one path:
`lock()` as `AcquireThreadLock` (one lock per process and path) and
`AcquireFileLock` (one flock per *root* and path, because the lock file lies
under the store's root), `_atomic_write_text` as `OpenTemp`, `WriteTemp`,
`Replace`, and both releases. The run handlers do write one report through
`ArtifactStore(artifact_root)` and through `ArtifactStore(".")`, so both roots
occur. `FailFileLock` and `FailWrite` are system calls that raise, `Kill` kills a
process; its successor has the same process id, as process 1 of a container has.
Processes that run at once have different ids: two containers that each see the other's
files and have an id space of their own are left out.
`append_jsonl` is called by no module of the program and is left out.

### RunLifecycle

One run from request to answer, for the handlers of `api/app.py` and the run
commands of `cli/main.py`; it composes the two components above at their
interfaces: a file write is one step (AtomicFile) and `record()`, with its retention,
is one step (RunHistory). `RecordHistory` appends to `index`, and `Retain` drops the
lines beyond `Limit` and their bundles, or leaves any of these, as `rmtree` may.
`recorded` is history: all runs ever recorded, where `index` holds the youngest of them.
Every `_persist_*_artifacts` has the same order, which is the order of `WriteBundle`,
`WriteLatestReport` (before `report["artifacts"]` is set),
`WriteLatestLogs`, `RewriteLatestReport`, `WriteReportPath`; then
`RecordHistory`, `PublishGauge`, `Answer`. A *scope* is the label of a gauge: the
suite, one scenario, the benchmark; the scopes of a *family* (scenario,
multistep, benchmark) replace the same views. Of a report only whether its gate
passed matters. The benchmark has a handler that passes `report_path` and one
that does not; both end with the same copy on disk.

### CarryGoPipeline

One tick of `PIC2Pipeline.step` as pure operators: `TaskPlan`, `CurrentSubtask`,
`PlannerCandidates` (HTD-IRL), `Proposals` (GRPO), `RuleResults`, `Checked`
(SEOM), `Coordinated` (CRL-MRS), `Tick`. The stages run in one thread and pass
copies on, so there is no state in a tick. GRPO's score is a sum of a dozen
real-valued rewards; `Proposals` lets any candidate have the largest, so what is
shown does not depend on the rewards. Observations are what AMDC and STUM make of
the sensors, in integer units: `sigma` in hundredths, distances and speeds in
centimetres, priorities in halves (the bonus of a payload is one half).

### MultistepMission

`_run_multistep_case`: `BuildObservation` is `_build_step_observation` (advance
by the last action, drain, merge the patch, set the clock), `RunTick` the
pipeline on it and the end of the run. The scenario is any timeline of the given
patches, times and drains. Positions are on a grid of whole cells, where the code takes
fractions, and no patch moves the robot or its dock: what the properties say of distances
is said of such missions.

### ScenarioLibrary

`evaluation/scenario_builder.py` on the custom directory of one user, over
read-only built-in files. A *client* is the thread of a POST, PUT or DELETE:
`Create` and `Replace` (`save_scenario` without and with `overwrite`), `Update`
(which the handler calls with `create_if_missing`) and `Delete` are the calls with
the test each makes of the files; `Open` and `Write` are the two system calls of
`write_text`; `FindOld`, `MissOld` and `Unlink` the end of a rename, `Unlink` also
that of a delete; `UnlinkMissing` is the `FileNotFoundError` when the file has
gone since, and `Fail` any other call that raises or dies. A file that is unlinked
while a client has it open is no longer what the client writes (`linked`). A
*reader* lists the directories in one step (`Files`) and loads file by file, for
`list_scenarios`, which puts up with files that do not parse, or for a suite, which
does not; `get_scenario` and the run of one scenario read their file as a suite
reads each of its own. A text is a version; of two texts written to one open file,
the tail of the longer one may remain (`"mixed"`, which may or may not parse).

`serial` and `tainted` are history variables. `serial` is what the completed calls
leave when they are applied one by one; an id is tainted from when two calls that
name it overlap, or one that names it fails, until a call begins that has it to
itself.

### SensorCalibration

`AMDCCalibrator.calibrate` and `STUMGate.evaluate`, tick after tick (`Sense`), on
integers in units of 1/10000. The state is `bias_estimates`, one moving average per
name (`Averaged`), in which an absent name counts as zero. `SensorBiases` and
`CarryGoBiases` are what a tick shows of each bias; the former are learned first,
so a sensor named like one of AMDC's own biases is averaged twice into one
estimate. `CarryGoResiduals`, `Merged` and `AmdcResidual` are the residuals,
`SpatialSigma`, `StateSigma`, `FreshnessSigma` and `ModelSigma` the parts of
`sigma_total`. There is no root in TLA+: `TotalSquare` is the square, and is
compared with squared thresholds; the exponential of the state's age is a table of
rounded values (`AgedSigma`, none negative: `AgedSigmaAssumption`). Everything AMDC and STUM return that a later stage
reads is in `calibrated`; corrected readings, the calibration error and the
recommendation are not. `drift` is a history variable: per name, the range of the
bias so far and the distance that the estimate may have to it.

This is where the observations of MultistepMission come from. The two are not
composed into one state space: the mission takes `sigma` and the payload verdict
as inputs, and its patches range over their values on both sides of each threshold.

### ArtifactBackup

`scripts/artifact_backup.sh` and `artifact_restore.sh`, with the run history of the
root: the module extends RunHistory and `ServeRequests` is its `Next`. `tar` is
external. It reads the index (`ArchiveIndex`), lists `runs/` (`ListRuns`), reads the
directories one by one (`ArchiveRun`) and looks at `runs/` again (`LeaveRuns`); if it
changed, tar exits with 1 and `set -e` ends the script (`EndChangedTar`), else the
manifest follows (`EndTar`, `WriteManifest`). An archive is its contents, where it
lies and whether it is partial, whole, or verified by a manifest. It is numbered in the
order of the times that name it; the script's names have a resolution of one second
(`artifact_backup.sh:9`), and two backups in one second, which would write one file, are
left out, here and in the acceptance. `ServeRequests` includes runs of the command line
beside the API; none runs while it is stopped. A restore is
`BeginRestore` (which copies an archive out of the root), `MoveAside` and `Extract`,
each of which can fail (`FailScript`, `FailExtract`, in the middle of the files).
`known`, `since`, `expired` and `excused` of an archive and `before` are history; an archive
is excused if tar met a rewrite of the index or the index was damaged, and if it was begun
after a restore, when `order` no longer says what the root held. A restore
runs while the API is stopped, as `docs/artifact_backup_restore.md` asks; what a
restore under a serving API does is not a question the scripts answer.

### StagingAcceptance

`scripts/run_staging_acceptance.py` and the verdict of
`write_staging_acceptance_report.py`, on top of ArtifactBackup: `RehearseBackup`
starts a backup by one operator while the API serves and others back up and
restore; `RehearseRestore` takes the archive that sorts last. `StatusesOf`,
`OverallStatus` and `ExitCode` are the report, for every result of the two probes
and every override on the command line. The restore goes into a root of its own,
of which only the contents matter.

### Dashboard

`dashboard/static/dashboard.js` in one browser tab. An action is a click with what
its handler does before it awaits, or an answer with what follows it up to the next
await: JavaScript runs nothing else in between. `task` says what each handler
awaits. The history panel is `ToggleDetail`, `DetailArrives`, `ToggleCompare`,
`CompareArrives`, `CompareFails`, `FilterHistory`; the scenario manager
`LoadScenario`, `SaveScenario`, `NewScenario`, `DuplicateScenario`,
`DeleteScenarios`, `TypeId`, `ToggleScenario` and their answers; `DashboardArrives`
and `DashboardFails` are the end of `loadDashboard`, which every handler but two
awaits. `enabled` is which groups of buttons can be clicked. The server's scenario
files change at once with each request (`ServeSave` and its siblings), as
ScenarioLibrary shows them to do for calls that do not overlap; history answers are
any. `form.of` is the scenario whose text the form holds, which the code does not
record; `crossed` and the `touched` flag of a task are history.

### MC modules and proofs

`MC_M` gives the constants of `M` their values; `M_proofs` holds its theorems.

## Runs

| run | what it asks | instance | states |
|---|---|---|---|
| `history` | are retained runs safe, is what is missing or left over explained, do records complete | 2 workers, 1 reader, 4 runs, limit 2, 2 aborts, 2 strays | 1,435,707 |
| `history_snapshot` | does every record have its snapshot | the same, no aborts, 1 stray | violated |
| `history_indexed` | is every retained run in the index | the same, no aborts, 1 stray | violated |
| `artifact_file` | is a file an atomic register, are locks let go | 2 API threads, 1 CLI thread, 2 roots, 3 writes, 2 failures | 72,764 |
| `run_lifecycle` | what may overlapping and failing runs mix up, what does retention take from under the views | 2 API runs, 1 CLI run, 3 scopes in 2 families, limit 1, 1 failure | 1,191,282 |
| `gate_alert` | does a failed latest run raise the alert | 2 API runs, 3 scopes, no failure, no overlap | violated |
| `scenario_library` | what may edits without a lock do to each other and to readers | 2 clients, 1 reader, 2 ids, one built in, 3 texts, 1 failure | 753,947 |
| `scenario_overwrite` | does only a request to overwrite replace a text | the same, no reader, no failure | violated |
| `sensor_calibration` | how far does a payload verdict lag, which drifts reach the gate | 5 ticks, 21 observations, 3 sensor names | 315,269 |
| `staging_acceptance` | is a verified archive complete, does a restore lose anything, is a passed acceptance earned | 1 worker, 2 runs, limit 1, 1 stray, 2 operators, 2 archives, 2 restores, 1 failure | 6,065,819 |
| `dashboard` | do panels follow the selection, do saves go to the scenario shown | 4 clicks, 2 handlers, 3 runs, 2 scenarios, one built in | 1,832,989 |
| `mission` | do overrides and adjustments combine safely, tick after tick | 2 ticks, 31 patches | 619,569 |

Bounds and why they are enough. `history`: four runs under a limit of two are two
prunes by different workers, each of which can follow an aborted one; two aborts
are what it takes to abort the recovery from an abort. Three lines and a limit of
two let prune counts differ by one. Two strays are a run of the command line and
a removal that fails, or two of one kind. `artifact_file`: three threads in two
processes and two roots are the smallest instance with every relation between two
writers (same process, same root, neither, both); two failures allow one in the
recovery from another. `run_lifecycle`: three runs let two overlap
while the third finds or replaces what they leave; two families and a limit of one let the
record of a scenario count out the run in the benchmark's view; further families and
scopes are independent of each other. `scenario_library`: two ids are what a rename
takes, two clients every pair of overlapping calls, three texts a call before,
during and after; texts and clients are interchangeable (symmetry). `mission`: an initial observation off by one
field, and one more field at each of two steps, reach every pair and triple of
disturbances for single-field rules; battery 16 with a drain of 1 crosses the
return threshold of 15, and 12 the abort threshold. `sensor_calibration`: an estimate needs two
ticks to lag and a third to catch up, and the observations hold each drift alone,
all together, and at both sides of the thresholds; five ticks let a drift jump,
stand still, and jump back. `staging_acceptance`: under a limit of one, the second
run prunes the first while tar is anywhere in its walk; two operators and two
archives are what it takes for the latest archive not to be one's own. One tar at a
time reads the root: two read it and write different archives, so neither affects
the other; the order of their numbers is that of their start, as the time in the
name is. The one failure is a script's, as the aborts of workers are the question of `history`; the
one stray is a run of the command line, or a removal that fails. Runs are interchangeable, and
archives lie under the root, the place where a restore moves them. What follows the
verdict is left out, as nothing of the acceptance is decided after it. `dashboard`:
a race takes two handlers, and the shortest known paths to the exceptions that the
properties allow take three clicks; three runs let a comparison replace one of its
two, one built-in scenario is one that cannot be deleted. `MaxAborts`, `MaxStrays`, `MaxFailures`,
`MaxTicks`, `MaxClicks`, `MaxArchives`, `MaxRestores` and the handlers in `Slots` are
the only bounds in guards; ids and versions run out because they are fresh by
definition.

Deadlock is not checked where the system stops by design: run ids, versions,
clicks, archives and ticks run out (in `scenario_library` it is not a question, as no step waits). In `artifact_file` and `history` the liveness properties show that
no handler is stuck when that happens; a `mission` has two actions that alternate
and cannot block.

Fairness. `history`, `artifact_file`, `run_lifecycle`: weak fairness of the steps
of each handler that has begun. A thread of a running process is scheduled, a
system call returns or raises; nothing obliges a client to send a request, a
reader to read, or a process to fail, so those actions have none. Neither
`threading.Lock` nor `flock` promises an order of arrival; weak fairness suffices
because the competing writers are finitely many, so a waiting one is passed over
only finitely often. No liveness is claimed of an endless stream of writers.

What the passing runs say that is not obvious: an index that lost lines to torn
writes never makes retention reach a run it should keep, because lost lines only
make the index shorter (`RetainedRunsKeepSnapshots`); a reader's race with
retention can only hit runs that have expired by the time it is answered
(`MissingSnapshotIsExpired`); writers of different processes and roots are not
serialised at all, and it takes the process id in the temporary name *and* the
thread lock to make up for it (`WritesAreAtomic`); the low-battery return can only
coexist with operational holds because it is applied before them
(`UnsafeMeansHold`). Of the new parts: a drift of the camera or the IMU cannot be
averaged away, because it counts a second time as perception or localization
uncertainty, whereas any other residual hides behind n - 1 small ones up to n times
the threshold, and nothing validates the reported uncertainties, so a negative one
hides as much drift as it is negative (`DriftsReachTheGate`); a backup without a lock is nevertheless
complete, because the snapshot of a run is written before its line and removed
before its line, and because tar notices a changed `runs/` and the script trusts its
exit code (`VerifiedArchivesAreFaithful`: the mutant that ignores it fails).

Observations beside the properties, or what a property leaves room for, all
consequences of the code as modelled:

- A history detail whose answer is late replaces the row that was selected since;
  `HistoryPanelsFollowTheSelection` allows exactly these (`late`). A comparison
  error is shown although other runs are compared by then.
- `setActionBusy` excludes nothing: `setScenarioManagerMode`,
  `updateScenarioSelectionControls` and the end of any handler enable buttons while
  others await. A save that overlaps a click in the library can leave the manager
  with the id of one scenario and the form of another, and the next save then
  renames the one to the other (`crossed`).
- `refreshArtifacts` can never say "Refresh failed" (`dashboard.js:1340`), because
  `loadDashboard` catches its own errors.
- The rehearsal's `pass` means that two scripts exited with 0; the acceptance text
  of the item is not checked by them. `ORIGAMI_BACKUP_TIMESTAMP` reaches the backup
  script through the environment, and `archives[-1]` is the latest only if all names
  carry times.
- History records hold the paths of the run directories as they were written: in a
  root restored to another place, retention finds no directory to remove under them
  and only shortens the index (`LeaveRun`).
- A directory that `rmtree` fails to remove is out of reach from then on: its line goes,
  and nobody is told. Bundles of the command line are never removed. `OrphansAreExplained`
  says that these, with the runs aborted before their record, are all there is; none of
  the three is bounded by the limit.
- The latest views are not part of retention: after `Limit` further records of any
  family, the benchmark's latest report can name a bundle that is gone.
  `ViewsAreBacked` allows exactly these (`CountedOut`).
- `GaugeIsLatestRecorded` says that the run of a gauge *was* recorded: its line may have
  left the index since.

## Findings

Three statements of the documentation and one of a test are checked as they stand
and are violated by what the code does.

1. `EveryRecordHasSnapshot` (README.md:118, "each history record points back to
   its run directory and full `report.json` snapshot"): retention removes the
   directories before it rewrites the index, and readers take no lock. The
   passing run shows the limits of the damage: only expired runs, oldest lines
   first, gone with the next record. Without an abort it lasts as long as a worker
   prunes (`SnapshotsLackOnlyMeanwhile`, proved).
2. `RecordedRunsAreIndexed` (README.md:118, "Dashboard-triggered runs are indexed
   in `artifacts/history/runs.jsonl`"): the rewrite truncates the index in place,
   although `_atomic_write_text` is at hand; a reader meanwhile finds an empty
   history, and a kill meanwhile makes it so.
3. `FailedLatestRunRaisesAlert` (`origami-alerts.yml:45`, "The latest scenario run
   reported a failed quality gate."): the expression takes the maximum over
   scopes, each of which shows its own latest run; a scope that passed once hides
   the failures of all the others.
4. `ReplacedOnlyOnRequest` (`test_scenario_builder.py:63`,
   `requires_overwrite_for_existing_yaml`): the test for the file and the write are
   two steps without a lock, so two creations of one id both answer that they
   saved it and one text is lost; a rename does the same to its target. In a
   longer race, two updates that exchange ids, neither of which exists yet, both
   answer that they saved and each then unlinks what the other has written. It takes
   such an overlap, or a failure (`ReplacementsAreAskedFor`, proved).

## Proofs

Every theorem holds for all values of the constants that satisfy the named
assumptions of the module; TLC evaluates these in every run.

**RunHistory_proofs** proves the seven safety properties of `history`. Those of the
records are not inductive: that a prune spares retained
runs depends on what the holder of the lock computed some steps ago, and that
depends on the index being sorted by the order of records. `IndInv` says so: the
lock holder is the only worker in a critical step; the index is strictly
increasing in `order`; in each step of the holder, how `index`, `doomed` and
`keep` fit together; every indexed run was recorded, with its snapshot unless it
is older than all runs that have theirs; a worker's own run is fresh until it is
recorded. `Invariance` has one step per action; the theorems follow from `IndInv`
by arithmetic on `order` and positions: two lines differ in position by at most
their difference in order, so a line with at least `Limit` lines behind it belongs
to an expired run. `OrphanInv` counts directories: what is neither in the index, nor
about to be written back, nor of a worker is, strays apart, at most one directory per abort, because
the own run of a worker past the append is the youngest and so stays listed, and what
a truncation drops has been removed or is a stray (`TruncateOrphans`). `SnapshotsLackOnlyMeanwhile`
is about finding 1: without an abort every record has its snapshot except while a
worker prunes.

**ArtifactStore_proofs** proves the exclusion `LockHoldersAreApart` and the
refinement `Spec => Abstract!Spec`. `IndInv` says which locks each step holds, and
that from `WriteTemp` to `Replace` the temporary file of the process contains the
thread's own version, which holds because no other thread of that process is past
`lock()`. The mapping makes a pending write effective exactly when its thread has
replaced the file.

**MultistepMission_proofs** proves all invariants and both action properties of
`mission`. Its lemmas are about the operators: every proposal is a candidate
whose speed fits its move; SEOM returns a hold, the return to the dock, or what
it was given; CRL-MRS returns a hold with a deferral or what it was given; one
greedy step on an unbounded grid brings a robot one cell nearer to its dock. The
inductive invariant is the type invariant and that `tick` was computed from the
current observation.

**ScenarioLibrary_proofs** proves the two properties of edits, the one of reads and
the one of truncated files, for any number of clients, readers, ids and texts. For edits, `EditInv` says that
two clients that name one id taint it (`WorksAlone`), and that a client that has an
id to itself finds there what its handler's steps so far have made of it
(`OwnFilesOK`). `OthersUndisturbed` is the one argument for all steps: who changes
only the ids its call names cannot falsify what the others expect. For reads,
`ReadsOK` says that what is found or loaded of an unchanged file is still right. For
truncated files, `AbandonedInv` says that those which no handler has opened are
finitely many, one per failure at most. `ReplacementsAreAskedFor` is about finding 4:
the test for the file still holds at the write unless another call names the id
meanwhile (`TestStillHolds`), so a text is replaced unasked only if its id is tainted.

**RunLifecycle_proofs** proves the type invariant and the five safety properties of
`run_lifecycle`. `IInv` follows the writes of one run and which of them still stand:
`BundleIsFirst` (past `bundled` a run has its bundle until it is counted out), `ReportIsKnown` (a report is
early only between the two writes of its run), `ReplacedByOverlap` (whoever replaced
what a run had just written overlapped it), `SoloKeepsItsWrites`, `HistoryIsOrdered` (a
run that has not set its gauge overlapped every run recorded after it). Retention is
`IndexIsSuffix`: the index is the end of `recorded`, so a line beyond the limit is of a run
with `Limit` younger ones (`BackedStep`), and no retention reaches the line that its own
record has just appended (`RecordKeepsItsOwn`).

**SensorCalibration_proofs** proves the type invariant, `VerdictErrsWithinLag` and
`DriftsReachTheGate`, for any observations, any sensors and any number of ticks. The invariant `AllFollow` is about all
names: the estimate lies in the range of the drift so far and at most `lag` from the
last. One step of the average keeps it (`AveragedIsBetween`, `AveragedComesNearer`),
rounding included, and a tick is two such steps. The verdict on the payload is the
case of one name, told its bias in the same tick (`VerdictIsCurrent`). The gate needs
facts about sums over a function: a finite sum of naturals is at least each of them
(`SumOfNaturals`), so a mean below a limit averages nothing away beyond the limit times
the number (`MeanHidesLittle`). `SumFunction` is a recursion over sets, so the
induction is done by hand (`SetInduction`, over the number of elements, by the
well-foundedness of the naturals): `SumsExist` gives the recursion a value on every
finite set and `SumUnfolds` the equation that the rest uses. Below HIGH, the spatial
part alone is below the threshold (`GateBoundsSpatial`), and with it each residual that
counts in it (`SpatialCounts`); `SenseReachesTheGate` puts these together for one tick,
which is enough, as what a tick publishes is computed within the tick.

**StagingAcceptance_proofs** first proves the type invariant, `VerifiedArchivesAreFaithful`
and `RestoreLosesNothing` of ArtifactBackup's `BackupSpec`, on top of `IndInv` of RunHistory_proofs: until a
restore begins, the root is what its API makes of it (`HistoryOK`). `Collected` says
of a tar at work, whatever the API has recorded and pruned since it began: each run
it is to hold has expired, or is in the index if tar has read that, and is still to
be read or in a snapshot if tar has listed the runs. `EndTarStep` turns this into what
the properties ask of a finished archive, and nothing later changes the order of
records, so it stays (`FaithfulStays`). `ScriptInv` and `RestoreInv` say that scripts
work one at a time and that a restore that has moved the root has its archive at
hand.

The second half of the module proves that `AcceptanceSpec` implements `BackupSpec`, so
that the theorems above hold of the acceptance, and `AcceptanceIsEarned`. The
rehearsal may restore an archive that another operator made later, and `Inherits` is
why that does not matter: an archive holds what it and all archives before it were to
hold, as far as still retained, since what is still retained was in the root when the
later tar began.

**Dashboard_proofs** proves `HistoryPanelsFollowTheSelection` and
`SavesGoToTheScenarioShown`, for any number of clicks, concurrent handlers, runs and
scenarios. What the panels show is not inductive without the answers under way.
`HistoryInv` says of these: a detail that may still arrive is of the run selected, or
marked as late; a comparison panel that waits has a request for the runs compared now.
`ManagerInv` does it for saves: one whose answer is processed is of the scenario edited,
or the manager has gone on and it is marked, and what the title lacks such a save will
set. Most actions touch one handler and one panel; `HistoryUndisturbed` and its siblings
say once what keeps the invariant of the other.

Only model-checked: liveness (`SnapshottedRunIsRecorded`, `WritesEnd`, `EveryRunEnds`),
which is out of the prover's reach. Every other property of a passing run is stated by
a theorem, for all values of the constants. That the variables of `dashboard` keep
their types is neither a property of its run nor a theorem; the invariants above hold
the types they need, and `SelectSeq`, by which a run leaves the comparison, is defined
by recursion in the standard module and opaque to the provers. The four findings are
counterexamples on the instances of their runs; three theorems say how far they go
(`RetainedListed` for finding 2, and the two named above).

## Plan

In order of importance; each module with a run of its own unless it says
otherwise.

1. `AuditChain` (append, verify, export) with a proof that verify accepts what
   append produces, as an invariant.
2. The Test Lab of the dashboard with its run queue.

Abstract specifications worth stating besides AtomicFile: a history as a set of
records with one linearisation point for readers that RunHistory would have to
refine (finding 2 shows that it does not, and under which condition it would). A
scenario library as an atomic map is not one: overlapping edits do not implement
it, and `SerialUnlessOverlapping` says when they do.

Not planned: the lookup limit of 10000 records in `get()`, beyond any instance TLC
can enumerate; two robots that decide on each other's old priorities, as nothing in
the repository runs two; log validation and the placeholders for export, edge mock
and plots, which keep no state; rendering, Markdown, latency statistics, HTTP middleware and
authentication decisions, deployment probes: no state across steps, or nothing
that a model would say better than a test.
