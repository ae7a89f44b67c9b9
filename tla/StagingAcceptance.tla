-------------------------- MODULE StagingAcceptance --------------------------
(***************************************************************************)
(* The acceptance of a staging environment: run_staging_acceptance.py,     *)
(* with the report of write_staging_acceptance_report.py.  It probes the   *)
(* sign-on, validates the logs of the API, rehearses a backup and a        *)
(* restore (ArtifactBackup) into a root of its own while the API serves    *)
(* and other backups run into the same directory, lets the command line    *)
(* override every status, and reports one verdict.                         *)
(*                                                                         *)
(* The two probes touch nothing that is modelled, so what they return is   *)
(* chosen when the report is built.                                        *)
(***************************************************************************)
EXTENDS ArtifactBackup

CONSTANTS
    Tester,       \* the operator that runs the acceptance
    ManualItems,  \* the items of ACCEPTANCE_ITEMS that only a person can settle
    Overrides,    \* the sets of --status options given: item -> status, for some items
    FailOnPending \* --fail-on-pending

Items    == {"sso_smoke", "structured_logs", "backup_restore"} \cup ManualItems
Statuses == {"pending", "pass", "fail", "blocked", "not_applicable"}

ASSUME TesterAssumption == Tester \in Operators
ASSUME OverridesAssumption ==
    \A o \in Overrides : DOMAIN o \subseteq Items /\ \A i \in DOMAIN o : o[i] \in Statuses

ASSUME FailOnPendingAssumption == FailOnPending \in BOOLEAN

VARIABLES
    phase,    \* where the acceptance is
    verdict,  \* statuses["backup_restore"] as collected
    restored, \* the archive restored into restore_root, 0 if none is
    promised  \* history: runs known when the rehearsal began and retained at its end

acceptanceVars == <<phase, verdict, restored, promised>>

AcceptanceTypeOK ==
    /\ BackupTypeOK
    /\ phase \in {"idle", "rehearsing", "collected"}
    /\ verdict \in Statuses
    /\ restored \in Nat
    /\ promised \in SUBSET RunIds

AcceptanceInit ==
    /\ BackupInit
    /\ phase = "idle" /\ verdict = "pending"
    /\ restored = 0 /\ promised = {}

Proceed(from, to) == phase = from /\ phase' = to

-----------------------------------------------------------------------------
(***************************************************************************)
(* _collect_backup_restore.                                                *)
(***************************************************************************)

\* Not without --run-backup-restore, and not without a root.
SkipRehearsal ==
    /\ Proceed("idle", "collected")
    /\ verdict' \in IF present THEN {"pending"} ELSE {"pending", "blocked"}
    /\ UNCHANGED <<historyVars, backupVars, restored, promised>>

RehearseBackup ==
    /\ Proceed("idle", "rehearsing")
    /\ \E place \in BackupPlaces : StartBackup(Tester, place)
    /\ UNCHANGED <<verdict, restored, promised>>

BackupFailed ==
    /\ Proceed("rehearsing", "collected")
    /\ script[Tester] = "failed"
    /\ verdict' = "fail"
    /\ UNCHANGED <<historyVars, backupVars, restored, promised>>

\* Archives of the directory the rehearsal wrote to: backup_dir.glob(...).
InBackupDir == {n \in DOMAIN archives : archives[n].place = "root"
                                        <=> Mine(Tester).place = "root"}

\* Mutant: archives[0].
OldestArchive == CHOOSE n \in InBackupDir : \A m \in InBackupDir : n <= m

\* archives[-1] of the sorted names, which end in the time.
LatestArchive == CHOOSE n \in InBackupDir : \A m \in InBackupDir : m <= n

\* The last archive is restored into a root that should be empty; what matters of
\* the restore is that tar can read the archive to its end.
RehearseRestore ==
    /\ Proceed("rehearsing", "collected")
    /\ script[Tester] = "succeeded"
    /\ LET readable == InBackupDir # {} /\ archives[LatestArchive].state # "partial"
       IN  \/ /\ readable
              /\ verdict' = "pass"
              /\ restored' = LatestArchive
           \/ /\ verdict' = "fail"
              /\ UNCHANGED restored
    /\ promised' = {id \in Mine(Tester).known : ~Expired(id)}
    /\ UNCHANGED <<historyVars, backupVars>>

-----------------------------------------------------------------------------

(***************************************************************************)
(* The report.                                                             *)
(***************************************************************************)

\* _collect_sso_smoke: skipped, no base URL, or the exit code of the smoke check.
SsoStatuses == {"pending", "blocked", "pass", "fail"}

\* _collect_structured_logs: no log file, or the exit code of the validation.
LogStatuses == {"pending", "pass", "fail"}

\* statuses.update(options.status_overrides); what is not set is pending.
StatusesOf(sso, logs, overrides) ==
    LET collected == [item \in Items |->
            CASE item = "sso_smoke"       -> sso
              [] item = "structured_logs" -> logs
              [] item = "backup_restore"  -> verdict
              [] OTHER                    -> "pending"]
    IN  {IF item \in DOMAIN overrides THEN overrides[item] ELSE collected[item] : item \in Items}

\* Mutant: what is blocked is not worse than what is pending.
OverallWithoutBlocked(statuses) ==
    CASE "fail" \in statuses    -> "fail"
      [] "pending" \in statuses -> "pending"
      [] OTHER                  -> "pass"

OverallStatus(statuses) ==
    CASE "fail" \in statuses    -> "fail"
      [] "blocked" \in statuses -> "blocked"
      [] "pending" \in statuses -> "pending"
      [] OTHER                  -> "pass"

\* main: --fail-on-pending asks for every item to be settled.
ExitCode(statuses) ==
    LET overall == OverallStatus(statuses)
    IN  IF overall = "fail" \/ (FailOnPending /\ overall \in {"blocked", "pending"}) THEN 1 ELSE 0

-----------------------------------------------------------------------------

Acceptance ==
    SkipRehearsal \/ RehearseBackup \/ BackupFailed \/ RehearseRestore

Backups ==
    \/ ServeRequests
    \/ StopApi
    \/ \E p \in Operators \ {Tester} :
          \/ \E place \in BackupPlaces : StartBackup(p, place)
          \/ \E n \in DOMAIN archives : BeginRestore(p, n)
    \/ \E p \in Operators : ScriptStep(p)

\* What goes on after the acceptance is what goes on without it.
AcceptanceNext ==
    \/ Acceptance
    \/ phase # "collected" /\ Backups /\ UNCHANGED acceptanceVars

AcceptanceSpec ==
    AcceptanceInit /\ [][AcceptanceNext]_<<historyVars, backupVars, acceptanceVars>>

-----------------------------------------------------------------------------

\* An acceptance that asks for everything to be settled exits with 0 only if every
\* item is passed or not applicable; and if the rehearsal's own result stands, the
\* restored root holds every run that was recorded before the rehearsal and
\* retained to its end, whichever archive was the latest by then, unless the
\* index was damaged or being rewritten when tar read it.
AcceptanceIsEarned ==
    phase = "collected" =>
        \A sso \in SsoStatuses, logs \in LogStatuses, o \in Overrides :
            LET statuses == StatusesOf(sso, logs, o) IN
            FailOnPending /\ ExitCode(statuses) = 0 =>
                /\ statuses \subseteq {"pass", "not_applicable"}
                /\ "backup_restore" \notin DOMAIN o /\ ~archives[restored].excused =>
                       \A id \in promised :
                          /\ InLine(archives[restored].image.index, id)
                          /\ id \in archives[restored].image.snapshots

=============================================================================
