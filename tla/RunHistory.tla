----------------------------- MODULE RunHistory -----------------------------
(***************************************************************************)
(* The run history of one artifact root: RunHistoryStore of               *)
(* persistence/run_history.py, driven by the POST handlers of api/app.py  *)
(* that execute a run and record it, and read without a lock by the GET    *)
(* handlers.                                                               *)
(*                                                                         *)
(* On disk: one directory runs/<id> per run, with the runner's artifacts   *)
(* (the bundle) and the snapshot report.json, and the index                *)
(* history/runs.jsonl with one line per recorded run.  A worker is the     *)
(* thread or process serving one POST; its steps interleave with every     *)
(* other worker and with the readers.  The index lock is the two-level     *)
(* lock of ArtifactStore, taken here as one mutex.                         *)
(*                                                                         *)
(* Data abstractions: a record is its run id; a line of the index that     *)
(* does not parse carries no data, so the index is the sequence of its     *)
(* parsable lines plus two flags; shutil.rmtree of a run directory is one  *)
(* step.                                                                   *)
(***************************************************************************)
EXTENDS Naturals, Sequences, FiniteSets

CONSTANTS
    Workers,    \* request handlers that execute and record runs
    Readers,    \* request handlers of GET /api/history/runs/{record_id}
    RunIds,     \* the run ids new_run_id can generate
    Limit,      \* retention_limit; 0 stands for None and every value <= 0
    MaxAborts,  \* bound on killed workers and failed writes
    MaxStrays,  \* bound on runs of the command line and on failed removals
    NoWorker,
    NoRun

ASSUME LimitAssumption == Limit \in Nat
ASSUME AbortsAssumption == MaxAborts \in Nat /\ MaxStrays \in Nat
ASSUME NoneAssumption == NoWorker \notin Workers /\ NoRun \notin RunIds

VARIABLES
    bundles,    \* ids with a directory runs/<id>
    snapshots,  \* ids with a file runs/<id>/report.json
    index,      \* the parsable lines of history/runs.jsonl, oldest first
    garbled,    \* some complete line of the index does not parse
    torn,       \* the last line of the index is cut short, with no newline
    indexLock,  \* the worker inside `with self.store.lock(...)`, or NoWorker
    pc,         \* where each worker is in its handler
    run,        \* the run each worker executes
    doomed,     \* prune_records of _apply_retention_locked still to remove
    keep,       \* keep_records of _apply_retention_locked
    reading,    \* where each reader is in get()
    wanted,     \* the record_id each reader asks for
    answer,     \* what get() gave each reader
    started,    \* history: the ids generated so far
    order,      \* history: order[id] = n if id was the n-th run recorded, 0 if none
    appended,   \* history: the number of runs recorded so far
    strays,     \* history: runs whose directory nothing is going to remove: those of
                \* the command line, and those that retention failed to remove
    damaged,    \* history: a write of the index was cut short
    aborts      \* the number of aborts so far, bounded by MaxAborts

diskVars   == <<bundles, snapshots>>
indexVars  == <<index, garbled, torn>>
workVars   == <<pc, run, doomed, keep, indexLock>>
readVars   == <<reading, wanted, answer>>
recordVars == <<order, appended, strays>>
vars == <<diskVars, indexVars, workVars, readVars, recordVars, started, damaged, aborts>>

-----------------------------------------------------------------------------

Critical == {"locked", "appended", "pruning", "rewriting", "release"}
Steps    == Critical \cup {"idle", "ran", "snapshotted"}
Answers  == {"none", "record_not_found", "snapshot_not_found", "snapshot", "raised"}

TypeOK ==
    /\ bundles \in SUBSET RunIds
    /\ snapshots \in SUBSET RunIds
    /\ index \in Seq(RunIds)
    /\ garbled \in BOOLEAN
    /\ torn \in BOOLEAN
    /\ indexLock \in Workers \cup {NoWorker}
    /\ pc \in [Workers -> Steps]
    /\ run \in [Workers -> RunIds \cup {NoRun}]
    /\ doomed \in [Workers -> Seq(RunIds)]
    /\ keep \in [Workers -> Seq(RunIds)]
    /\ reading \in [Readers -> {"idle", "found", "exists"}]
    /\ wanted \in [Readers -> RunIds \cup {NoRun}]
    /\ answer \in [Readers -> Answers]
    /\ started \in SUBSET RunIds
    /\ order \in [RunIds -> Nat]
    /\ appended \in Nat
    /\ strays \in SUBSET RunIds
    /\ damaged \in BOOLEAN
    /\ aborts \in Nat

Init ==
    /\ bundles = {} /\ snapshots = {}
    /\ index = <<>> /\ garbled = FALSE /\ torn = FALSE
    /\ indexLock = NoWorker
    /\ pc = [w \in Workers |-> "idle"]
    /\ run = [w \in Workers |-> NoRun]
    /\ doomed = [w \in Workers |-> <<>>]
    /\ keep = [w \in Workers |-> <<>>]
    /\ reading = [r \in Readers |-> "idle"]
    /\ wanted = [r \in Readers |-> NoRun]
    /\ answer = [r \in Readers |-> "none"]
    /\ started = {}
    /\ order = [id \in RunIds |-> 0]
    /\ appended = 0
    /\ strays = {}
    /\ damaged = FALSE
    /\ aborts = 0

InLine(s, id) == \E i \in 1..Len(s) : s[i] = id
Indexed(id) == InLine(index, id)

Recorded(id) == order[id] > 0

\* Retention counts a recorded run out once Limit newer ones are recorded.
Expired(id) == Limit > 0 /\ order[id] + Limit <= appended
Retained(id) == Recorded(id) /\ ~Expired(id)

Goto(w, from, to) == pc[w] = from /\ pc' = [pc EXCEPT ![w] = to]

-----------------------------------------------------------------------------
(***************************************************************************)
(* Workers.                                                                *)
(***************************************************************************)

\* The handler generates a fresh id, executes the run and persists its bundle.
PersistRun(w) ==
    /\ Goto(w, "idle", "ran")
    /\ \E id \in RunIds \ started :
          /\ run' = [run EXCEPT ![w] = id]
          /\ started' = started \cup {id}
          /\ bundles' = bundles \cup {id}
    /\ UNCHANGED <<snapshots, indexVars, doomed, keep, indexLock, readVars,
                   recordVars, damaged, aborts>>

\* A run command of cli/main.py on the same root persists its bundle with an id of
\* its own, prints the report and exits: nothing records it.
PersistCliRun ==
    /\ Cardinality(strays) < MaxStrays
    /\ \E id \in RunIds \ started :
          /\ started' = started \cup {id}
          /\ bundles' = bundles \cup {id}
          /\ strays' = strays \cup {id}
    /\ UNCHANGED <<snapshots, indexVars, workVars, readVars, order, appended, damaged,
                   aborts>>

\* Mutant: no snapshot is written.
WriteNoSnapshot(w) ==
    /\ Goto(w, "ran", "snapshotted")
    /\ UNCHANGED <<diskVars, indexVars, run, doomed, keep, indexLock, readVars,
                   recordVars, started, damaged, aborts>>

\* record() writes report.json before it takes the index lock.
WriteSnapshot(w) ==
    /\ Goto(w, "ran", "snapshotted")
    /\ snapshots' = snapshots \cup {run[w]}
    /\ UNCHANGED <<bundles, indexVars, run, doomed, keep, indexLock, readVars,
                   recordVars, started, damaged, aborts>>

\* Mutant: the lock excludes nobody.
EnterUnlocked(w) ==
    /\ Goto(w, "snapshotted", "locked")
    /\ indexLock' = w
    /\ UNCHANGED <<diskVars, indexVars, run, doomed, keep, readVars, recordVars,
                   started, damaged, aborts>>

AcquireIndexLock(w) ==
    /\ Goto(w, "snapshotted", "locked")
    /\ indexLock = NoWorker
    /\ indexLock' = w
    /\ UNCHANGED <<diskVars, indexVars, run, doomed, keep, readVars, recordVars,
                   started, damaged, aborts>>

\* Mutant: the record appended lacks its run id.
AppendBlankRecord(w) ==
    /\ Goto(w, "locked", "appended")
    /\ index' = IF torn THEN index ELSE Append(index, NoRun)
    /\ garbled' = (garbled \/ torn)
    /\ torn' = FALSE
    /\ order' = [order EXCEPT ![run[w]] = appended + 1]
    /\ appended' = appended + 1
    /\ UNCHANGED <<diskVars, run, doomed, keep, indexLock, readVars, strays, started,
                   damaged, aborts>>

\* The appended text continues a torn last line: neither of the two parses.
AppendRecord(w) ==
    /\ Goto(w, "locked", "appended")
    /\ index' = IF torn THEN index ELSE Append(index, run[w])
    /\ garbled' = (garbled \/ torn)
    /\ torn' = FALSE
    /\ order' = [order EXCEPT ![run[w]] = appended + 1]
    /\ appended' = appended + 1
    /\ UNCHANGED <<diskVars, run, doomed, keep, indexLock, readVars, strays, started,
                   damaged, aborts>>

OverLimit == Limit > 0 /\ Len(index) > Limit

SkipRetention(w) ==
    /\ Goto(w, "appended", "release")
    /\ ~OverLimit
    /\ UNCHANGED <<diskVars, indexVars, run, doomed, keep, indexLock, readVars,
                   recordVars, started, damaged, aborts>>

\* Mutant: one record too many.
SurplusPlusOne == Len(index) - Limit + 1

Surplus == Len(index) - Limit

\* Mutant: only the oldest line goes, whatever the surplus.
BeginPruneOne(w) ==
    /\ Goto(w, "appended", "pruning")
    /\ OverLimit
    /\ doomed' = [doomed EXCEPT ![w] = SubSeq(index, 1, 1)]
    /\ keep' = [keep EXCEPT ![w] = SubSeq(index, 2, Len(index))]
    /\ UNCHANGED <<diskVars, indexVars, run, indexLock, readVars, recordVars,
                   started, damaged, aborts>>

BeginPrune(w) ==
    /\ Goto(w, "appended", "pruning")
    /\ OverLimit
    /\ doomed' = [doomed EXCEPT ![w] = SubSeq(index, 1, Surplus)]
    /\ keep' = [keep EXCEPT ![w] = SubSeq(index, Surplus + 1, Len(index))]
    /\ UNCHANGED <<diskVars, indexVars, run, indexLock, readVars, recordVars,
                   started, damaged, aborts>>

\* Mutant: newest of the doomed first.
PruneNewest(w) ==
    /\ pc[w] = "pruning"
    /\ doomed[w] # <<>>
    /\ LET last == doomed[w][Len(doomed[w])]
       IN  snapshots' = snapshots \ {last} /\ bundles' = bundles \ {last}
    /\ doomed' = [doomed EXCEPT ![w] = SubSeq(@, 1, Len(@) - 1)]
    /\ UNCHANGED <<indexVars, pc, run, keep, indexLock, readVars, recordVars,
                   started, damaged, aborts>>

\* Mutant: only report.json is removed.
PruneSnapshotOnly(w) ==
    /\ pc[w] = "pruning"
    /\ doomed[w] # <<>>
    /\ snapshots' = snapshots \ {Head(doomed[w])}
    /\ doomed' = [doomed EXCEPT ![w] = Tail(@)]
    /\ UNCHANGED <<bundles, indexVars, pc, run, keep, indexLock, readVars,
                   recordVars, started, damaged, aborts>>

RemoveRun(id) ==
    /\ snapshots' = snapshots \ {id}
    /\ bundles' = bundles \ {id}
    /\ strays' = strays \ {id}

\* rmtree ignores errors, so some files may stay, and a record may lead to no
\* directory under runs/ (in a root restored to another place): no one is told.
LeaveRun(id) ==
    /\ id \in bundles
    /\ Cardinality(strays) < MaxStrays
    /\ snapshots' \in {snapshots, snapshots \ {id}}
    /\ strays' = strays \cup {id}
    /\ UNCHANGED bundles

\* _remove_run_artifacts, for the oldest record not yet dealt with.
PruneOldest(w) ==
    /\ pc[w] = "pruning"
    /\ doomed[w] # <<>>
    /\ RemoveRun(Head(doomed[w])) \/ LeaveRun(Head(doomed[w]))
    /\ doomed' = [doomed EXCEPT ![w] = Tail(@)]
    /\ UNCHANGED <<indexVars, pc, run, keep, indexLock, readVars, order, appended,
                   started, damaged, aborts>>

\* path.write_text opens the index for writing, which empties it ...
TruncateIndex(w) ==
    /\ Goto(w, "pruning", "rewriting")
    /\ doomed[w] = <<>>
    /\ index' = <<>>
    /\ garbled' = FALSE
    /\ torn' = FALSE
    /\ UNCHANGED <<diskVars, run, doomed, keep, indexLock, readVars, recordVars,
                   started, damaged, aborts>>

Unwritten(w) == pc[w] = "rewriting" /\ Len(index) < Len(keep[w])

\* ... and then writes the kept lines, in order.
RewriteLine(w) ==
    /\ Unwritten(w)
    /\ index' = Append(index, keep[w][Len(index) + 1])
    /\ UNCHANGED <<diskVars, garbled, torn, workVars, readVars, recordVars,
                   started, damaged, aborts>>

\* Mutant: the lock stays held.
LeaveLocked(w) ==
    /\ pc[w] \in {"release", "rewriting"}
    /\ ~Unwritten(w)
    /\ pc' = [pc EXCEPT ![w] = "idle"]
    /\ run' = [run EXCEPT ![w] = NoRun]
    /\ UNCHANGED <<diskVars, indexVars, doomed, keep, indexLock, readVars,
                   recordVars, started, damaged, aborts>>

ReleaseIndexLock(w) ==
    /\ pc[w] \in {"release", "rewriting"}
    /\ ~Unwritten(w)
    /\ pc' = [pc EXCEPT ![w] = "idle"]
    /\ run' = [run EXCEPT ![w] = NoRun]
    /\ indexLock' = NoWorker
    /\ UNCHANGED <<diskVars, indexVars, doomed, keep, readVars, recordVars,
                   started, damaged, aborts>>

\* The worker is killed, or a write of its raises OSError: the lock is released
\* by the kernel or by the context manager.  A write of the index in progress
\* may leave its last line without the end.
Abort(w) ==
    /\ pc[w] # "idle"
    /\ aborts < MaxAborts
    /\ aborts' = aborts + 1
    /\ \E cut \in IF pc[w] = "locked" \/ Unwritten(w) THEN BOOLEAN ELSE {FALSE} :
          /\ torn' = (torn \/ cut)
          /\ damaged' = (damaged \/ cut \/ Unwritten(w))
    /\ pc' = [pc EXCEPT ![w] = "idle"]
    /\ run' = [run EXCEPT ![w] = NoRun]
    /\ indexLock' = IF indexLock = w THEN NoWorker ELSE indexLock
    /\ UNCHANGED <<diskVars, index, garbled, doomed, keep, readVars, recordVars,
                   started>>

-----------------------------------------------------------------------------
(***************************************************************************)
(* Readers: get() lists the index, tests that the snapshot exists and      *)
(* reads it, three separate steps and no lock.  list() alone is one read   *)
(* of the index, so what it can return is what holds of index, garbled and *)
(* torn in every state.                                                    *)
(***************************************************************************)

LookUp(r) ==
    /\ reading[r] = "idle"
    /\ \E id \in started :
          /\ wanted' = [wanted EXCEPT ![r] = id]
          /\ IF Indexed(id)
             THEN /\ reading' = [reading EXCEPT ![r] = "found"]
                  /\ answer' = [answer EXCEPT ![r] = "none"]
             ELSE /\ answer' = [answer EXCEPT ![r] = "record_not_found"]
                  /\ UNCHANGED reading
    /\ UNCHANGED <<diskVars, indexVars, workVars, recordVars, started, damaged, aborts>>

CheckSnapshot(r) ==
    /\ reading[r] = "found"
    /\ IF wanted[r] \in snapshots
       THEN /\ reading' = [reading EXCEPT ![r] = "exists"]
            /\ UNCHANGED answer
       ELSE /\ reading' = [reading EXCEPT ![r] = "idle"]
            /\ answer' = [answer EXCEPT ![r] = "snapshot_not_found"]
    /\ UNCHANGED <<diskVars, indexVars, workVars, wanted, recordVars, started,
                   damaged, aborts>>

\* read_text raises FileNotFoundError, which get() does not catch.
ReadSnapshot(r) ==
    /\ reading[r] = "exists"
    /\ reading' = [reading EXCEPT ![r] = "idle"]
    /\ answer' = [answer EXCEPT ![r] =
                     IF wanted[r] \in snapshots THEN "snapshot" ELSE "raised"]
    /\ UNCHANGED <<diskVars, indexVars, workVars, wanted, recordVars, started,
                   damaged, aborts>>

-----------------------------------------------------------------------------

Record(w) ==
    \/ WriteSnapshot(w)
    \/ AcquireIndexLock(w)
    \/ AppendRecord(w)
    \/ SkipRetention(w)
    \/ BeginPrune(w)
    \/ PruneOldest(w)
    \/ TruncateIndex(w)
    \/ RewriteLine(w)
    \/ ReleaseIndexLock(w)

Get(r) == LookUp(r) \/ CheckSnapshot(r) \/ ReadSnapshot(r)

Next ==
    \/ \E w \in Workers : PersistRun(w) \/ Record(w) \/ Abort(w)
    \/ PersistCliRun
    \/ \E r \in Readers : Get(r)

Spec == Init /\ [][Next]_vars

\* A handler that has begun runs on to its end; nothing obliges a client to
\* start a run or to read one, and nothing obliges a worker to fail.
Fairness == \A w \in Workers : WF_vars(Record(w))

FairSpec == Spec /\ Fairness

-----------------------------------------------------------------------------
(***************************************************************************)
(* Properties.                                                             *)
(***************************************************************************)

\* The snapshot of a run that retention still counts in is on disk, whatever
\* the other workers prune and wherever a worker was aborted: pruning works on
\* the parsed lines of an index that may have lost some, and must never reach
\* a run among the Limit newest (record, _apply_retention_locked).
RetainedRunsKeepSnapshots ==
    \A id \in RunIds : Retained(id) => id \in snapshots

\* get() answers "snapshot not found", or fails, only for a run that retention
\* has counted out by then, although it looks at the index and at the directory
\* in separate steps and takes no lock.
MissingSnapshotIsExpired ==
    \A r \in Readers :
        answer[r] \in {"snapshot_not_found", "raised"} => Expired(wanted[r])

\* Unless a write of the index was cut short, every retained run is listed,
\* except while some worker is inside write_text: concurrent records never
\* overwrite each other's line.
RetainedRunsAreListed ==
    \/ damaged
    \/ \E w \in Workers : pc[w] = "rewriting"
    \/ \A id \in RunIds : Retained(id) => Indexed(id)

\* A record whose snapshot is gone is older than every record whose snapshot is
\* there, except for those that retention tried to remove and could not: a worker
\* aborted between rmtree and the rewrite leaves dangling lines, and they are the
\* ones the next record's retention takes first.
DanglingRecordsAreOldest ==
    \A i, j \in 1..Len(index) :
        i < j /\ index[i] \in snapshots \ strays => index[j] \in snapshots

\* A directory under runs/ that neither the index nor a worker knows belongs to a
\* run of the command line, or is one that retention tried to remove, or is left
\* over from an aborted worker, one for each.  Retention finds directories by the
\* lines of the index: one it never gets to would stay for ever, and as far as the
\* three causes go, the limit does not bound the disk.
OrphansAreExplained ==
    LET orphans == {id \in bundles : ~Indexed(id) /\ \A w \in Workers : run[w] # id}
    IN  ~damaged /\ (\A w \in Workers : pc[w] # "rewriting") =>
            Cardinality(orphans \ strays) <= aborts

\* A worker that completes its record leaves at most Limit lines, also when an
\* aborted worker had left more behind.
CompletedRecordMeetsLimit ==
    [][\A w \in Workers :
          ReleaseIndexLock(w) => Limit = 0 \/ Len(index') <= Limit]_vars

\* A run whose snapshot is written is recorded unless its worker is aborted: no
\* worker waits for the index lock for ever.
SnapshottedRunIsRecorded ==
    \A w \in Workers : pc[w] = "snapshotted" ~> pc[w] = "idle"

\* README.md:118: "each history record points back to its run directory and full
\* report.json snapshot".
EveryRecordHasSnapshot ==
    \A i \in 1..Len(index) : index[i] \in snapshots

\* README.md:118: "Dashboard-triggered runs are indexed in
\* artifacts/history/runs.jsonl".  list() and get() read the index in one step and
\* without the lock, so a run the index misses is a run they do not find.
RecordedRunsAreIndexed ==
    \A id \in RunIds : Retained(id) => Indexed(id)

=============================================================================
