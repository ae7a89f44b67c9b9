---------------------------- MODULE ArtifactBackup ----------------------------
(***************************************************************************)
(* Backup and restore of an artifact root: scripts/artifact_backup.sh and  *)
(* scripts/artifact_restore.sh, composed with the run history              *)
(* (RunHistory) that the API keeps in the same root.  A backup copies the  *)
(* root while the API serves; a restore is run with the API stopped, as    *)
(* docs/artifact_backup_restore.md asks.                                   *)
(*                                                                         *)
(* Of the root only history/runs.jsonl and runs/ are modelled: the files   *)
(* that have to agree with each other.  tar is external: it walks the two  *)
(* directories in either order, reads each file as it is at that time, and *)
(* notices that a directory changed while it was inside: it goes on and    *)
(* exits with 1, and `set -e` ends the script before the manifest.         *)
(* Archives are numbered by their timestamps, which name them: the names   *)
(* have a resolution of one second, and two backups begun in one second,   *)
(* which would write one file, are left out.  A manifest carries the       *)
(* checksum of its archive, so that one is complete.                       *)
(***************************************************************************)
EXTENDS RunHistory

CONSTANTS
    BackupPlaces,  \* where ORIGAMI_BACKUP_DIR may lie: under the root, or outside
    Operators,     \* who runs the scripts: one script at a time each
    MaxArchives,   \* bound on the number of backups
    MaxRestores,   \* bound on the different roots that a restore finds
    MaxFailures    \* bound on scripts that fail, together with the workers aborted before

ASSUME PlacesAssumption == BackupPlaces \subseteq {"root", "outside"}
ASSUME ArchivesAssumption == MaxArchives \in Nat
ASSUME RestoresAssumption == MaxRestores \in Nat
ASSUME FailuresAssumption == MaxFailures \in Nat

VARIABLES
    online,    \* the API serves
    script,    \* where the script of each operator is, or how it ended
    archive,   \* the archive the script of each operator writes or restores
    source,    \* where the restore of each operator reads the archive from
    archives,  \* the archive files, by timestamp
    present,   \* the artifact root exists and is not empty
    aside,     \* the roots moved to <artifact_root>.pre-restore-<timestamp>
    before,    \* history: what the root held when a restore began
    failures   \* the number of failures so far, bounded by MaxFailures

historyVars == vars
restoreVars == <<present, aside, before>>
scriptVars  == <<script, archive, source>>
backupVars  == <<online, scriptVars, archives, restoreVars, failures>>

Places == {"root", "outside", "aside"}
Exits  == {"idle", "succeeded", "failed"}
Stages == Exits \cup {"tarring", "tarred", "checked", "moved"}

Contents == [index : Seq(RunIds), garbled : BOOLEAN, torn : BOOLEAN,
             bundles : SUBSET RunIds, snapshots : SUBSET RunIds]

Archives == [place : Places, state : {"partial", "whole", "verified"}, image : Contents,
             read : SUBSET {"history", "listing", "runs"},
             listed : SUBSET RunIds, unread : SUBSET RunIds,
             changed : BOOLEAN,
             known : SUBSET RunIds, since : Nat, expired : SUBSET RunIds, excused : BOOLEAN]

BackupTypeOK ==
    /\ TypeOK
    /\ online \in BOOLEAN
    /\ script \in [Operators -> Stages]
    /\ archive \in [Operators -> Nat]
    /\ source \in [Operators -> Places \cup {"temp"}]
    /\ archives \in Seq(Archives)
    /\ present \in BOOLEAN
    /\ aside \in SUBSET Contents
    /\ before \in SUBSET Contents
    /\ failures \in Nat

Empty == [index |-> <<>>, garbled |-> FALSE, torn |-> FALSE, bundles |-> {}, snapshots |-> {}]

Content == [index |-> index, garbled |-> garbled, torn |-> torn,
            bundles |-> bundles, snapshots |-> snapshots]

\* The root becomes c; the API, which is stopped, keeps no state of its own.
RootBecomes(c) ==
    /\ index' = c.index /\ garbled' = c.garbled /\ torn' = c.torn
    /\ bundles' = c.bundles /\ snapshots' = c.snapshots
    /\ UNCHANGED <<workVars, readVars, recordVars, started, damaged, aborts>>

BackupInit ==
    /\ Init
    /\ online = TRUE
    /\ script = [p \in Operators |-> "idle"]
    /\ archive = [p \in Operators |-> 0]
    /\ source = [p \in Operators |-> "outside"]
    /\ archives = <<>>
    /\ present = TRUE
    /\ aside = {}
    /\ before = {}
    /\ failures = 0

Enter(p, from, to) == script[p] = from /\ script' = [script EXCEPT ![p] = to]

Mine(p) == archives[archive[p]]

\* What tar had noted of its walk is gone when it ends.
Closed(a, state) == [a EXCEPT !.state = state, !.read = {}, !.listed = {}]

-----------------------------------------------------------------------------
(***************************************************************************)
(* The API.                                                                *)
(***************************************************************************)

\* Runs of the command line included, beside the API; none while it is stopped.
ServeRequests == online /\ Next /\ UNCHANGED backupVars

\* docker compose stop api: handlers have ended or been killed (Abort).
StopApi ==
    /\ online
    /\ \A w \in Workers : pc[w] = "idle"
    /\ online' = FALSE
    /\ UNCHANGED <<historyVars, scriptVars, archives, restoreVars, failures>>

-----------------------------------------------------------------------------
(***************************************************************************)
(* artifact_backup.sh.                                                     *)
(***************************************************************************)

New(place) ==
    [place |-> place, state |-> "partial", image |-> Empty, read |-> {},
     listed |-> {}, unread |-> {}, changed |-> FALSE,
     known |-> {}, since |-> 0, expired |-> {}, excused |-> before # {}]

\* What the archive is to hold is noted for the properties: the runs the
\* history retains, and how many were recorded, when the backup began.  Two tars
\* read the root and write different archives, so one at a time is enough.
StartBackup(p, place) ==
    /\ \A q \in Operators : script[q] \in Exits
    /\ present
    /\ Len(archives) < MaxArchives
    /\ script' = [script EXCEPT ![p] = "tarring"]
    /\ archive' = [archive EXCEPT ![p] = Len(archives) + 1]
    /\ archives' = Append(archives,
           [New(place) EXCEPT !.known = {id \in RunIds : Retained(id)}, !.since = appended])
    /\ UNCHANGED <<historyVars, online, source, restoreVars, failures>>

\* tar reads history/runs.jsonl.
ArchiveIndex(p) ==
    /\ script[p] = "tarring"
    /\ "history" \notin Mine(p).read
    /\ archives' = [archives EXCEPT ![archive[p]] = [Mine(p) EXCEPT
           !.image = [index |-> index, garbled |-> garbled, torn |-> torn,
                      bundles |-> @.bundles, snapshots |-> @.snapshots],
           !.read = @ \cup {"history"},
           !.excused = @ \/ damaged \/ \E w \in Workers : pc[w] = "rewriting"]]
    /\ UNCHANGED <<historyVars, online, scriptVars, restoreVars, failures>>

\* tar reads the directory runs/ ...
ListRuns(p) ==
    /\ script[p] = "tarring"
    /\ "listing" \notin Mine(p).read
    /\ archives' = [archives EXCEPT ![archive[p]] = [Mine(p) EXCEPT
           !.listed = bundles, !.unread = bundles, !.read = @ \cup {"listing"}]]
    /\ UNCHANGED <<historyVars, online, scriptVars, restoreVars, failures>>

\* ... then each directory in it ...
ArchiveRun(p) ==
    /\ script[p] = "tarring"
    /\ \E id \in Mine(p).unread :
          archives' = [archives EXCEPT ![archive[p]] = [Mine(p) EXCEPT
              !.unread = @ \ {id},
              !.image.bundles = @ \cup ({id} \cap bundles),
              !.image.snapshots = @ \cup ({id} \cap snapshots)]]
    /\ UNCHANGED <<historyVars, online, scriptVars, restoreVars, failures>>

\* ... and sees whether runs/ is still as it was listed.
LeaveRuns(p) ==
    /\ script[p] = "tarring"
    /\ "listing" \in Mine(p).read /\ "runs" \notin Mine(p).read /\ Mine(p).unread = {}
    /\ archives' = [archives EXCEPT ![archive[p]] = [Mine(p) EXCEPT
           !.read = @ \cup {"runs"}, !.changed = (bundles # Mine(p).listed)]]
    /\ UNCHANGED <<historyVars, online, scriptVars, restoreVars, failures>>

TarIsThrough(p) == {"history", "runs"} \subseteq Mine(p).read

\* "file changed as we read it": the archive is complete, but tar exits with 1 and
\* the script ends there.
EndChangedTar(p) ==
    /\ Enter(p, "tarring", "failed")
    /\ TarIsThrough(p) /\ Mine(p).changed
    /\ archives' = [archives EXCEPT ![archive[p]] =
           [New(@.place) EXCEPT !.state = "whole", !.image = Mine(p).image,
                                 !.excused = Mine(p).excused]]
    /\ UNCHANGED <<historyVars, online, archive, source, restoreVars, failures>>

EndTar(p) ==
    /\ Enter(p, "tarring", "tarred")
    /\ TarIsThrough(p) /\ ~Mine(p).changed
    /\ archives' = [archives EXCEPT ![archive[p]] =
           [Closed(@, "whole") EXCEPT !.expired = {id \in RunIds : Expired(id)}]]
    /\ UNCHANGED <<historyVars, online, archive, source, restoreVars, failures>>

\* The checksum is taken and the manifest written.
WriteManifest(p) ==
    /\ Enter(p, "tarred", "succeeded")
    /\ archives' = [archives EXCEPT ![archive[p]] = [Mine(p) EXCEPT !.state = "verified"]]
    /\ UNCHANGED <<historyVars, online, archive, source, restoreVars, failures>>

-----------------------------------------------------------------------------
(***************************************************************************)
(* artifact_restore.sh, with ORIGAMI_RESTORE_ALLOW_DIRTY and no other      *)
(* script at work.  Checks that refuse (no such archive, wrong checksum,   *)
(* tar -t fails, a root that is not empty and may not be moved) come first *)
(* and change nothing: the actions are those of a restore that goes on.    *)
(***************************************************************************)

\* Mutant: an archive under the root is not copied out of it.
RestoreInPlace(p, n) ==
    /\ ~online
    /\ \A q \in Operators : script[q] \in Exits
    /\ archives[n].state # "partial"
    /\ Cardinality(before) < MaxRestores
    /\ script' = [script EXCEPT ![p] = "checked"]
    /\ archive' = [archive EXCEPT ![p] = n]
    /\ source' = [source EXCEPT ![p] = archives[n].place]
    /\ before' = IF present THEN before \cup {Content} ELSE before
    /\ UNCHANGED <<historyVars, online, archives, present, aside, failures>>

\* An archive under the root is copied to TMPDIR before the root is moved.
BeginRestore(p, n) ==
    /\ ~online
    /\ \A q \in Operators : script[q] \in Exits
    /\ archives[n].state # "partial"
    /\ Cardinality(before) < MaxRestores
    /\ script' = [script EXCEPT ![p] = "checked"]
    /\ archive' = [archive EXCEPT ![p] = n]
    /\ source' = [source EXCEPT ![p] =
                     IF archives[n].place = "root" THEN "temp" ELSE archives[n].place]
    /\ before' = IF present THEN before \cup {Content} ELSE before
    /\ UNCHANGED <<historyVars, online, archives, present, aside, failures>>

\* mv of the root takes along the archives that lie in it.
MoveAside(p) ==
    /\ Enter(p, "checked", "moved")
    /\ aside' = IF present THEN aside \cup {Content} ELSE aside
    /\ archives' = [n \in DOMAIN archives |->
                       IF archives[n].place = "root"
                       THEN [archives[n] EXCEPT !.place = "aside"] ELSE archives[n]]
    /\ present' = FALSE
    /\ RootBecomes(Empty)
    /\ UNCHANGED <<online, archive, source, before, failures>>

\* The archive is where the script goes to read it.
AtHand(p) == source[p] \in {"temp", Mine(p).place}

Extract(p) ==
    /\ Enter(p, "moved", "succeeded")
    /\ AtHand(p)
    /\ present' = TRUE
    /\ RootBecomes(Mine(p).image)
    /\ UNCHANGED <<online, archive, source, archives, aside, before, failures>>

\* Mutant: no `set -e`, so that the manifest is written when tar has failed.
FailTarUnnoticed(p) ==
    /\ Enter(p, "tarring", "tarred")
    /\ failures + aborts < MaxFailures
    /\ failures' = failures + 1
    /\ archives' = [archives EXCEPT ![archive[p]] = Closed(@, "whole")]
    /\ UNCHANGED <<historyVars, online, archive, source, restoreVars>>

\* A script is killed, or a command of it fails; what tar leaves is no archive.
FailTar(p) ==
    /\ Enter(p, "tarring", "failed")
    /\ failures + aborts < MaxFailures
    /\ failures' = failures + 1
    /\ archives' = [archives EXCEPT ![archive[p]] = New(@.place)]
    /\ UNCHANGED <<historyVars, online, archive, source, restoreVars>>

FailScript(p) ==
    /\ script[p] \in {"tarred", "checked"}
    /\ failures + aborts < MaxFailures
    /\ failures' = failures + 1
    /\ script' = [script EXCEPT ![p] = "failed"]
    /\ UNCHANGED <<historyVars, online, archive, source, archives, restoreVars>>

\* In the middle of tar -x some files are there and some are not.
FailExtract(p) ==
    /\ Enter(p, "moved", "failed")
    /\ failures + aborts < MaxFailures
    /\ failures' = failures + 1
    /\ \E withIndex \in BOOLEAN, runs \in SUBSET Mine(p).image.bundles :
          /\ RootBecomes([Mine(p).image EXCEPT
                 !.index = IF withIndex THEN @ ELSE <<>>,
                 !.garbled = @ /\ withIndex, !.torn = @ /\ withIndex,
                 !.bundles = runs, !.snapshots = @ \cap runs])
          /\ present' = (withIndex \/ runs # {})
    /\ UNCHANGED <<online, archive, source, archives, aside, before>>

-----------------------------------------------------------------------------

ScriptStep(p) ==
    \/ ArchiveIndex(p) \/ ListRuns(p) \/ ArchiveRun(p) \/ LeaveRuns(p)
    \/ EndChangedTar(p) \/ EndTar(p) \/ WriteManifest(p)
    \/ MoveAside(p) \/ Extract(p)
    \/ FailTar(p) \/ FailScript(p) \/ FailExtract(p)

BackupNext ==
    \/ ServeRequests
    \/ StopApi
    \/ \E p \in Operators :
          \/ \E place \in BackupPlaces : StartBackup(p, place)
          \/ \E n \in DOMAIN archives : BeginRestore(p, n)
          \/ ScriptStep(p)

BackupSpec == BackupInit /\ [][BackupNext]_<<historyVars, backupVars>>

-----------------------------------------------------------------------------
(***************************************************************************)
(* Properties.                                                             *)
(***************************************************************************)

\* An archive with a manifest holds, line and snapshot, every run that was in the
\* history when the backup began and is still retained when it ends, although
\* the API records and prunes meanwhile; unless the index was damaged or being
\* rewritten when tar read it.
HoldsKnownRuns(a) ==
    ~a.excused => \A id \in a.known \ a.expired :
                      InLine(a.image.index, id) /\ id \in a.image.snapshots

\* A line without a snapshot in it is of a run recorded while the backup ran, or
\* of one that retention counted out by then.
DanglingIsExplained(a) ==
    ~a.excused => \A i \in 1..Len(a.image.index) : LET id == a.image.index[i] IN
                      id \in a.image.snapshots \cup a.expired \/ order[id] > a.since

\* A backup of a live root that ends with a manifest is as good as its moment
\* allows (artifact_backup.sh takes no lock).
VerifiedArchivesAreFaithful ==
    \A n \in DOMAIN archives : archives[n].state = "verified" =>
        HoldsKnownRuns(archives[n]) /\ DanglingIsExplained(archives[n])

\* Whatever a restore does and wherever it is killed, what the root held is in
\* the root or aside; and once the root has been moved, the archive to extract
\* is where the script looks for it, also if it lay in the root.
RestoreLosesNothing ==
    /\ \A c \in before : c \in aside \/ (present /\ c = Content)
    /\ \A p \in Operators : script[p] = "moved" => AtHand(p)

=============================================================================
