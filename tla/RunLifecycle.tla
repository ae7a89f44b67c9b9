---------------------------- MODULE RunLifecycle ----------------------------
(***************************************************************************)
(* One run from request to response: the POST /runs/... and                *)
(* /benchmarks/... handlers of api/app.py and the run commands of          *)
(* cli/main.py, with what every run writes that another one writes too:    *)
(* the latest views under reports/, events/ and audit/, the history index  *)
(* and the Prometheus gauges, and the alert computed from the gauges.      *)
(*                                                                         *)
(* Every write of a file is atomic (module AtomicFile) and record() of the *)
(* history, with its retention, is one step (module RunHistory has its     *)
(* steps and what a failure between them leaves).  Data                    *)
(* abstractions: a view holds the id of the run it shows; of a report only *)
(* whether its quality gate passed matters, and whether the copy on disk   *)
(* already names the run's artifacts; the event and audit logs are one     *)
(* view, written after the report and its Markdown form.                   *)
(***************************************************************************)
EXTENDS Naturals, Sequences, FiniteSets

CONSTANTS
    Runs,         \* the run ids
    CliRuns,      \* those of the command line; the others are of the API
    PassingRuns,  \* those whose report passes its quality gate
    Scopes,       \* what a run executes: a suite, one scenario, the benchmark
    Families,     \* the views a run replaces: scenario, multistep or benchmark
    FamilyOf,     \* the family of each scope
    TypeOf,       \* the run_type label of each scope's gauge
    Suites,       \* the scopes whose handler also passes report_path
    Limit,        \* run_retention_limit; 0 stands for None and every value <= 0
    MaxFailures,  \* bound on runs that raise and servers that restart
    NoRun

ASSUME RunsAssumption == CliRuns \subseteq Runs /\ PassingRuns \subseteq Runs
ASSUME ScopesAssumption == Scopes # {}
ASSUME FamilyAssumption == FamilyOf \in [Scopes -> Families]
ASSUME TypeAssumption == TypeOf \in [Scopes -> {"scenario", "benchmark"}]
ASSUME SuitesAssumption == Suites \subseteq Scopes
ASSUME LimitAssumption == Limit \in Nat
ASSUME FailuresAssumption == MaxFailures \in Nat
ASSUME NoneAssumption == NoRun \notin Runs

VARIABLES
    pc,        \* where the handler of each run is
    scope,     \* what each run executes
    bundles,   \* runs whose bundle under runs/<id> is complete
    report,    \* per family, the latest report: its run, and if it names artifacts
    logs,      \* per family, the run of the latest event and audit logs
    index,     \* the runs in the history index, oldest first
    recorded,  \* history: the runs ever recorded, oldest first
    gauge,     \* per scope, the run whose gate origami_run_quality_gate shows
    last,      \* history: the run executed last
    shared,    \* history: runs that were in flight together with another one
    failures   \* the number of failures so far, bounded by MaxFailures

runVars  == <<scope, last>>
viewVars == <<report, logs>>
histVars == <<index, recorded>>
vars == <<pc, runVars, bundles, viewVars, histVars, gauge, shared, failures>>

Steps == {"new", "executed", "bundled", "reported", "logged", "finalized",
          "persisted", "recorded", "published", "answered", "failed"}
Done == {"new", "answered", "failed"}

InFlight == {r \in Runs : pc[r] \notin Done}

TypeOK ==
    /\ pc \in [Runs -> Steps]
    /\ scope \in [Runs -> Scopes]
    /\ bundles \in SUBSET Runs
    /\ report \in [Families -> [run : Runs \cup {NoRun}, final : BOOLEAN]]
    /\ logs \in [Families -> Runs \cup {NoRun}]
    /\ index \in Seq(Runs)
    /\ recorded \in Seq(Runs)
    /\ gauge \in [Scopes -> Runs \cup {NoRun}]
    /\ last \in Runs \cup {NoRun}
    /\ shared \in SUBSET Runs
    /\ failures \in Nat

\* The scope of a run is read once it is executed.
Init ==
    /\ pc = [r \in Runs |-> "new"]
    /\ scope = [r \in Runs |-> CHOOSE s \in Scopes : TRUE]
    /\ bundles = {}
    /\ report = [f \in Families |-> [run |-> NoRun, final |-> FALSE]]
    /\ logs = [f \in Families |-> NoRun]
    /\ index = <<>>
    /\ recorded = <<>>
    /\ gauge = [s \in Scopes |-> NoRun]
    /\ last = NoRun
    /\ shared = {}
    /\ failures = 0

Goto(r, from, to) == pc[r] = from /\ pc' = [pc EXCEPT ![r] = to]
Family(r) == FamilyOf[scope[r]]

-----------------------------------------------------------------------------

\* The scenarios run and the report is built; nothing is written yet.
Execute(r) ==
    /\ Goto(r, "new", "executed")
    /\ \E s \in Scopes : scope' = [scope EXCEPT ![r] = s]
    /\ last' = r
    /\ shared' = shared \cup (IF InFlight = {} THEN {} ELSE InFlight \cup {r})
    /\ UNCHANGED <<bundles, viewVars, histVars, gauge, failures>>

\* Mutant: the latest views are written before the bundle is.
SkipBundle(r) ==
    /\ Goto(r, "executed", "bundled")
    /\ UNCHANGED <<runVars, bundles, viewVars, histVars, gauge, shared, failures>>

WriteBundle(r) ==
    /\ Goto(r, "executed", "bundled")
    /\ bundles' = bundles \cup {r}
    /\ UNCHANGED <<runVars, viewVars, histVars, gauge, shared, failures>>

\* The first copy of the report is written before report["artifacts"] is set.
WriteLatestReport(r) ==
    /\ Goto(r, "bundled", "reported")
    /\ report' = [report EXCEPT ![Family(r)] = [run |-> r, final |-> FALSE]]
    /\ UNCHANGED <<runVars, bundles, logs, histVars, gauge, shared, failures>>

\* Mutant: a single scenario leaves the latest logs alone.
WriteSuiteLogs(r) ==
    /\ Goto(r, "reported", "logged")
    /\ logs' = IF scope[r] \in Suites THEN [logs EXCEPT ![Family(r)] = r] ELSE logs
    /\ UNCHANGED <<runVars, bundles, report, histVars, gauge, shared, failures>>

WriteLatestLogs(r) ==
    /\ Goto(r, "reported", "logged")
    /\ logs' = [logs EXCEPT ![Family(r)] = r]
    /\ UNCHANGED <<runVars, bundles, report, histVars, gauge, shared, failures>>

\* Mutant: only the bundle's copy is rewritten.
RewriteBundleOnly(r) ==
    /\ Goto(r, "logged", "finalized")
    /\ UNCHANGED <<runVars, bundles, viewVars, histVars, gauge, shared, failures>>

\* The report now names its artifacts and is written again.
RewriteLatestReport(r) ==
    /\ Goto(r, "logged", "finalized")
    /\ report' = [report EXCEPT ![Family(r)] = [run |-> r, final |-> TRUE]]
    /\ UNCHANGED <<runVars, bundles, logs, histVars, gauge, shared, failures>>

\* A suite's caller passes report_path, which is the latest report once more.
WriteReportPath(r) ==
    /\ Goto(r, "finalized", "persisted")
    /\ report' = IF scope[r] \in Suites
                 THEN [report EXCEPT ![Family(r)] = [run |-> r, final |-> TRUE]]
                 ELSE report
    /\ UNCHANGED <<runVars, bundles, logs, histVars, gauge, shared, failures>>

Surplus(lines) == IF Limit > 0 /\ Len(lines) > Limit THEN Len(lines) - Limit ELSE 0

\* _apply_retention_locked: the surplus oldest lines go, and the directories of
\* their runs, save those that rmtree, which ignores errors, leaves.
Retain(lines) ==
    /\ index' = SubSeq(lines, Surplus(lines) + 1, Len(lines))
    /\ \E gone \in SUBSET {lines[i] : i \in 1..Surplus(lines)} : bundles' = bundles \ gone

\* Mutant: the newest record first.
PrependHistory(r) ==
    /\ Goto(r, "persisted", "recorded")
    /\ r \notin CliRuns
    /\ recorded' = Append(recorded, r)
    /\ Retain(<<r>> \o index)
    /\ UNCHANGED <<runVars, viewVars, gauge, shared, failures>>

\* Mutant: run_type and run_id swapped.
RecordScope(r) ==
    /\ Goto(r, "persisted", "recorded")
    /\ r \notin CliRuns
    /\ recorded' = Append(recorded, scope[r])
    /\ Retain(Append(index, scope[r]))
    /\ UNCHANGED <<runVars, viewVars, gauge, shared, failures>>

\* Only the API keeps a history; the CLI prints the report and exits.
RecordHistory(r) ==
    /\ Goto(r, "persisted", "recorded")
    /\ r \notin CliRuns
    /\ recorded' = Append(recorded, r)
    /\ Retain(Append(index, r))
    /\ UNCHANGED <<runVars, viewVars, gauge, shared, failures>>

\* Mutant: a gauge that exists is not set again.
PublishOnce(r) ==
    /\ Goto(r, "recorded", "published")
    /\ gauge' = IF gauge[scope[r]] = NoRun THEN [gauge EXCEPT ![scope[r]] = r] ELSE gauge
    /\ UNCHANGED <<runVars, bundles, viewVars, histVars, shared, failures>>

\* record_scenario_report, or record_benchmark_report.
PublishGauge(r) ==
    /\ Goto(r, "recorded", "published")
    /\ gauge' = [gauge EXCEPT ![scope[r]] = r]
    /\ UNCHANGED <<runVars, bundles, viewVars, histVars, shared, failures>>

\* Mutant: the CLI waits for a history record.
AnswerPublished(r) ==
    /\ Goto(r, "published", "answered")
    /\ UNCHANGED <<runVars, bundles, viewVars, histVars, gauge, shared, failures>>

Answer(r) ==
    /\ \/ pc[r] = "published"
       \/ pc[r] = "persisted" /\ r \in CliRuns
    /\ pc' = [pc EXCEPT ![r] = "answered"]
    /\ UNCHANGED <<runVars, bundles, viewVars, histVars, gauge, shared, failures>>

\* The run raises, anywhere: the handler answers 500 and undoes nothing.
Raise(r) ==
    /\ r \in InFlight
    /\ failures < MaxFailures
    /\ failures' = failures + 1
    /\ pc' = [pc EXCEPT ![r] = "failed"]
    /\ UNCHANGED <<runVars, bundles, viewVars, histVars, gauge, shared>>

\* The gauges live in the server's memory.
RestartServer ==
    /\ failures < MaxFailures
    /\ failures' = failures + 1
    /\ pc' = [r \in Runs |->
                 IF r \in InFlight /\ r \notin CliRuns THEN "failed" ELSE pc[r]]
    /\ gauge' = [s \in Scopes |-> NoRun]
    /\ UNCHANGED <<runVars, bundles, viewVars, histVars, shared>>

-----------------------------------------------------------------------------

Persist(r) ==
    \/ WriteBundle(r)
    \/ WriteLatestReport(r)
    \/ WriteLatestLogs(r)
    \/ RewriteLatestReport(r)
    \/ WriteReportPath(r)
    \/ RecordHistory(r)
    \/ PublishGauge(r)
    \/ Answer(r)

Next ==
    \/ \E r \in Runs : Execute(r) \/ Persist(r) \/ Raise(r)
    \/ RestartServer

Spec == Init /\ [][Next]_vars

\* A handler that began goes on to its response, or fails.
FairSpec == Spec /\ \A r \in Runs : WF_vars(Persist(r))

-----------------------------------------------------------------------------
(***************************************************************************)
(* Properties.                                                             *)
(***************************************************************************)

\* Retention has counted a run out: Limit newer ones are recorded.
CountedOut(r) ==
    Limit > 0 /\ \E i \in 1..Len(recorded) : recorded[i] = r /\ i + Limit <= Len(recorded)

\* Whatever a latest view shows can also be found in its run's own bundle: the
\* bundle is complete before any view names the run, whoever fails afterwards
\* (_persist_suite_artifacts and its siblings), and it goes only when retention
\* has counted the run out.  The views are not part of retention, so that one of a
\* family that runs seldom outlives its run's bundle; a run of the command line is
\* never counted out.
ViewsAreBacked ==
    \A f \in Families : \A r \in {report[f].run, logs[f]} \ {NoRun} :
        r \in bundles \/ CountedOut(r)

\* A latest report that does not name its artifacts is of a run that is still
\* persisting or has failed: no order of the double writes of two runs leaves
\* the early copy of a finished one.
EarlyReportIsOfUnfinishedRun ==
    \A f \in Families : LET r == report[f].run IN
        r # NoRun /\ ~report[f].final => pc[r] \in {"reported", "logged", "failed"}

\* The latest report and the latest logs are of different runs only while the
\* former is persisting, after it failed, or after two runs overlapped.
MixedViewsComeFromOverlap ==
    \A f \in Families : LET r == report[f].run IN
        r # logs[f] => \/ pc[r] \in {"reported", "failed"}
                       \/ {r, logs[f]} \subseteq shared

\* Once a run that overlapped no other is answered, and until the next begins,
\* it is the latest everywhere: in both views of its family, at the end of the
\* history, and in its gauge unless the server restarted; and its own retention
\* has left it its bundle.
SoloRunIsLatest ==
    InFlight = {} /\ last # NoRun /\ last \notin shared /\ pc[last] = "answered" =>
        /\ report[Family(last)] = [run |-> last, final |-> TRUE]
        /\ logs[Family(last)] = last
        /\ last \in bundles
        /\ last \notin CliRuns => /\ index # <<>> /\ index[Len(index)] = last
                                   /\ gauge[scope[last]] \in {last, NoRun}

\* A gauge shows a run of its scope that was recorded (retention may have dropped
\* its line since), and one recorded later has not reached its gauge only if it is
\* about to, has failed, or overlapped.
GaugeIsLatestRecorded ==
    \A s \in Scopes : gauge[s] # NoRun =>
        \E i \in 1..Len(recorded) :
            /\ recorded[i] = gauge[s] /\ scope[gauge[s]] = s
            /\ \A j \in (i + 1)..Len(recorded) :
                  scope[recorded[j]] = s =>
                      \/ pc[recorded[j]] \in {"recorded", "failed"}
                      \/ {recorded[i], recorded[j]} \subseteq shared

\* Every run that begins is answered or fails.
EveryRunEnds == \A r \in Runs : pc[r] = "executed" ~> pc[r] \in {"answered", "failed"}

\* max(origami_run_quality_gate{run_type=t}) == 0
GateAlert(t) ==
    LET shown == {s \in Scopes : TypeOf[s] = t /\ gauge[s] # NoRun}
    IN  shown # {} /\ \A s \in shown : gauge[s] \notin PassingRuns

\* configs/observability/rules/origami-alerts.yml:45, of OrigamiScenarioGateFailed:
\* "The latest scenario run reported a failed quality gate."  Stated where it is
\* easiest to meet: no run overlapped another, none failed, nothing restarted.
FailedLatestRunRaisesAlert ==
    LET scenarios == SelectSeq(recorded, LAMBDA r : TypeOf[scope[r]] = "scenario")
    IN  InFlight = {} /\ shared = {} /\ failures = 0 /\ scenarios # <<>> =>
            (scenarios[Len(scenarios)] \notin PassingRuns => GateAlert("scenario"))

=============================================================================
