------------------------ MODULE RunLifecycle_proofs ------------------------
(***************************************************************************)
(* Theorems about RunLifecycle, for every number of runs, scopes, families *)
(* and failures.  Most of them say that what two runs may leave behind is  *)
(* explained by their having been in flight together, so the inductive     *)
(* invariant follows the order of one run's writes (which of them still    *)
(* stand) and notes, for each write that no longer stands, the run that    *)
(* overlapped.  A bundle stays until retention counts its run out: the     *)
(* index is the end of all that was recorded, so a line with Limit lines   *)
(* after it has that many younger runs.                                    *)
(***************************************************************************)
EXTENDS RunLifecycle, SequenceTheorems, TLAPS

\* Two runs in flight at once are both known to have overlapped.
Overlap ==
    \A a, b \in Runs : pc[a] \notin Done /\ pc[b] \notin Done /\ a # b =>
        a \in shared /\ b \in shared

\* The index holds the youngest of the runs recorded.
IndexIsSuffix ==
    /\ Len(index) <= Len(recorded)
    /\ \A i \in 1..Len(index) : index[i] = recorded[(Len(recorded) - Len(index)) + i]

\* Retention has not removed the bundle, or was to.
Backed(r) == r \in bundles \/ CountedOut(r)

\* A run past its bundle has one, until retention counts it out.
BundleIsFirst ==
    \A r \in Runs : pc[r] \notin {"new", "executed", "failed"} => Backed(r)

\* What a latest report says of its run.
ReportIsKnown ==
    \A f \in Families :
        /\ report[f].run = NoRun => logs[f] = NoRun
        /\ report[f].run # NoRun =>
              /\ Backed(report[f].run)
              /\ Family(report[f].run) = f
              /\ pc[report[f].run] \notin {"new", "executed", "bundled"}
              /\ ~report[f].final => pc[report[f].run] \in {"reported", "logged", "failed"}

LogsAreKnown == \A f \in Families : logs[f] # NoRun => Backed(logs[f])

\* A run whose report, or whose logs, another run replaced before it went on
\* has overlapped that run.
ReplacedByOverlap ==
    \A r \in Runs :
        /\ pc[r] = "reported" /\ report[Family(r)].run # r =>
               {r, report[Family(r)].run} \subseteq shared
        /\ pc[r] \in {"logged", "finalized"} /\ logs[Family(r)] # r =>
               {r, logs[Family(r)]} \subseteq shared

\* The last run, when it overlapped no other, finds its writes as it left them.
SoloKeepsItsWrites ==
    last # NoRun /\ last \notin shared =>
        /\ \A r \in Runs : pc[r] \notin Done => r = last
        /\ pc[last] # "new"
        /\ pc[last] \notin {"executed", "bundled", "failed"} =>
              report[Family(last)].run = last
        /\ pc[last] \notin {"executed", "bundled", "reported", "failed"} =>
              logs[Family(last)] = last
        /\ pc[last] \in {"finalized", "persisted", "recorded", "published", "answered"} =>
              report[Family(last)].final
        /\ pc[last] \notin {"executed", "failed"} => last \in bundles
        /\ pc[last] \in {"recorded", "published", "answered"} /\ last \notin CliRuns =>
              index # <<>> /\ index[Len(index)] = last
        /\ pc[last] \in {"published", "answered"} /\ last \notin CliRuns =>
              gauge[scope[last]] \in {last, NoRun}

\* The history holds runs of the API, each once and after its record, and a run
\* that has not set its gauge overlapped every run recorded after it.
HistoryIsOrdered ==
    /\ \A i \in 1..Len(recorded) :
          pc[recorded[i]] \in {"recorded", "published", "answered", "failed"}
    /\ \A i, j \in 1..Len(recorded) :
          i < j /\ pc[recorded[i]] = "recorded" =>
              recorded[i] \in shared /\ recorded[j] \in shared
    /\ \A r \in Runs : pc[r] = "recorded" => \E i \in 1..Len(recorded) : recorded[i] = r

IInv ==
    /\ TypeOK /\ Overlap /\ IndexIsSuffix
    /\ BundleIsFirst /\ ReportIsKnown /\ LogsAreKnown
    /\ ReplacedByOverlap /\ MixedViewsComeFromOverlap
    /\ HistoryIsOrdered /\ GaugeIsLatestRecorded
    /\ SoloKeepsItsWrites

-----------------------------------------------------------------------------

\* The initial state satisfies the invariant.
LEMMA InitIsSafe == Init => IInv
  <1> SUFFICES ASSUME Init PROVE IInv OBVIOUS
  <1>1. scope \in [Runs -> Scopes]
    BY ScopesAssumption DEF Init
  <1>2. TypeOK
    BY <1>1 DEF Init, TypeOK, Steps
  <1>3. Overlap /\ BundleIsFirst /\ ReportIsKnown /\ LogsAreKnown
    BY DEF Init, Overlap, Done, BundleIsFirst, ReportIsKnown, LogsAreKnown
  <1>4. ReplacedByOverlap /\ MixedViewsComeFromOverlap
    BY DEF Init, ReplacedByOverlap, MixedViewsComeFromOverlap
  <1>5. HistoryIsOrdered /\ GaugeIsLatestRecorded /\ SoloKeepsItsWrites /\ IndexIsSuffix
    BY DEF Init, HistoryIsOrdered, GaugeIsLatestRecorded, SoloKeepsItsWrites, IndexIsSuffix
  <1> QED
    BY <1>2, <1>3, <1>4, <1>5 DEF IInv

\* A step is one run's move along its handler, or a restart of the server.
Moves(r) ==
    \/ Execute(r) \/ WriteBundle(r) \/ WriteLatestReport(r) \/ WriteLatestLogs(r)
    \/ RewriteLatestReport(r) \/ WriteReportPath(r) \/ RecordHistory(r)
    \/ PublishGauge(r) \/ Answer(r) \/ Raise(r)

\* A step is a restart of the server or a step of one run.
LEMMA StepIsAMove == Next => RestartServer \/ \E r \in Runs : Moves(r)
  BY DEF Next, Persist, Moves

\* What the lines of a record, and the slice that retention keeps of them, are.
LEMMA RetainedLines ==
    ASSUME TypeOK, NEW r \in Runs, RecordHistory(r)
    PROVE  LET lines == Append(index, r)
               n     == Surplus(lines) IN
           /\ lines \in Seq(Runs) /\ Len(lines) = Len(index) + 1 /\ Len(index) \in Nat
           /\ lines[Len(index) + 1] = r /\ \A i \in 1..Len(index) : lines[i] = index[i]
           /\ n \in 0..Len(index) /\ (n > 0 => Limit > 0 /\ n = Len(lines) - Limit)
           /\ index' \in Seq(Runs) /\ Len(index') = Len(lines) - n
           /\ \A i \in 1..(Len(lines) - n) : index'[i] = lines[n + i]
           /\ bundles' \subseteq bundles
           /\ \A x \in bundles \ bundles' : \E i \in 1..n : lines[i] = x
  <1> DEFINE lines == Append(index, r)
             n     == Surplus(lines)
  <1>1. /\ lines \in Seq(Runs) /\ Len(lines) = Len(index) + 1 /\ Len(index) \in Nat
        /\ lines[Len(index) + 1] = r /\ \A i \in 1..Len(index) : lines[i] = index[i]
    BY AppendProperties, LenProperties DEF TypeOK
  <1>2. n \in 0..Len(index) /\ (n > 0 => Limit > 0 /\ n = Len(lines) - Limit)
    BY <1>1, LimitAssumption DEF Surplus
  <1>3. index' = SubSeq(lines, n + 1, Len(lines))
    BY DEF RecordHistory, Retain
  <1>4. PICK gone \in SUBSET {lines[i] : i \in 1..n} : bundles' = bundles \ gone
    BY DEF RecordHistory, Retain
  <1>5. \A i \in (n + 1)..Len(lines) : lines[i] \in Runs
    <2>1. \A i \in (n + 1)..Len(lines) : i \in 1..Len(lines)
      BY <1>1, <1>2
    <2> QED
      BY <1>1, <2>1, ElementOfSeq
  <1>6. n + 1 \in Int /\ Len(lines) \in Int /\ n + 1 <= Len(lines)
    BY <1>1, <1>2
  <1> HIDE DEF lines, n
  <1>7. /\ index' \in Seq(Runs)
        /\ Len(index') = Len(lines) - (n + 1) + 1
        /\ \A i \in 1..(Len(lines) - (n + 1) + 1) : index'[i] = lines[(n + 1) + i - 1]
    BY <1>3, <1>5, <1>6, SubSeqProperties
  <1>8. /\ Len(index') = Len(lines) - n
        /\ \A i \in 1..(Len(lines) - n) : index'[i] = lines[n + i]
    BY <1>1, <1>2, <1>6, <1>7
  <1>9. bundles' \subseteq bundles /\ \A x \in bundles \ bundles' : \E i \in 1..n : lines[i] = x
    BY <1>4
  <1> QED
    BY <1>1, <1>2, <1>7, <1>8, <1>9 DEF lines, n

\* Only a record changes the index and what was recorded, and removes bundles.
LEMMA HistoryFrame ==
    ASSUME TypeOK, [Next]_vars, \A r \in Runs : ~RecordHistory(r)
    PROVE  UNCHANGED <<index, recorded>> /\ bundles \subseteq bundles'
  <1>1. CASE UNCHANGED vars
    BY <1>1 DEF vars, histVars
  <1>2. CASE RestartServer
    BY <1>2 DEF RestartServer, histVars
  <1>3. CASE \E r \in Runs : Moves(r)
    BY <1>3 DEF Moves, Execute, WriteBundle, WriteLatestReport, WriteLatestLogs, Raise, Answer,
           RewriteLatestReport, WriteReportPath, PublishGauge, histVars
  <1> QED
    BY <1>1, <1>2, <1>3, StepIsAMove

\* Every step keeps the variables in their types.
LEMMA TypeStep == TypeOK /\ [Next]_vars => TypeOK'
  <1> SUFFICES ASSUME TypeOK, [Next]_vars PROVE TypeOK' OBVIOUS
  <1> USE DEF TypeOK, Steps, histVars
  <1>1. CASE UNCHANGED vars
    BY <1>1 DEF vars, runVars, viewVars
  <1>2. CASE RestartServer
    BY <1>2 DEF RestartServer, runVars, viewVars
  <1>3. CASE \E r \in Runs : Moves(r)
    <2> PICK r \in Runs : Moves(r) BY <1>3
    <2>1. Family(r) \in Families
      BY FamilyAssumption DEF Family
    <2>2. CASE Execute(r)
      BY <2>2 DEF Execute, Goto, viewVars, InFlight
    <2>3. CASE WriteBundle(r)
      BY <2>3 DEF WriteBundle, Goto, runVars, viewVars
    <2>4. CASE WriteLatestReport(r)
      BY <2>1, <2>4 DEF WriteLatestReport, Goto, runVars
    <2>5. CASE WriteLatestLogs(r)
      BY <2>1, <2>5 DEF WriteLatestLogs, Goto, runVars
    <2>6. CASE RewriteLatestReport(r)
      BY <2>1, <2>6 DEF RewriteLatestReport, Goto, runVars
    <2>7. CASE WriteReportPath(r)
      BY <2>1, <2>7 DEF WriteReportPath, Goto, runVars
    <2>8. CASE RecordHistory(r)
      <3>1. index' \in Seq(Runs) /\ bundles' \subseteq bundles
        BY <2>8, RetainedLines
      <3>2. recorded' \in Seq(Runs)
        BY <2>8, AppendProperties DEF RecordHistory
      <3> QED
        BY <2>8, <3>1, <3>2 DEF RecordHistory, Goto, runVars, viewVars
    <2>9. CASE PublishGauge(r)
      BY <2>9 DEF PublishGauge, Goto, runVars, viewVars
    <2>10. CASE Answer(r)
      BY <2>10 DEF Answer, runVars, viewVars
    <2>11. CASE Raise(r)
      BY <2>11 DEF Raise, runVars, viewVars
    <2> QED
      BY <2>2, <2>3, <2>4, <2>5, <2>6, <2>7, <2>8, <2>9, <2>10, <2>11 DEF Moves
  <1> QED
    BY <1>1, <1>2, <1>3, StepIsAMove

-----------------------------------------------------------------------------

\* Runs in flight stay known to have overlapped: only Execute puts one in flight,
\* and it notes all the others.
LEMMA OverlapStep == TypeOK /\ Overlap /\ [Next]_vars => Overlap'
  <1> SUFFICES ASSUME TypeOK, Overlap, [Next]_vars PROVE Overlap' OBVIOUS
  <1> USE DEF TypeOK, Overlap, Done
  <1>1. CASE UNCHANGED vars
    BY <1>1 DEF vars
  <1>2. CASE RestartServer
    BY <1>2 DEF RestartServer, InFlight
  <1>3. CASE \E r \in Runs : Moves(r)
    <2> PICK r \in Runs : Moves(r) BY <1>3
    <2>1. CASE Execute(r)
      BY <2>1 DEF Execute, Goto, InFlight
    <2>2. CASE ~Execute(r)
      <3>1. shared' = shared
        BY <2>2 DEF Moves, WriteBundle, WriteLatestReport, WriteLatestLogs, Raise, Answer,
               RewriteLatestReport, WriteReportPath, RecordHistory, PublishGauge
      <3>2. pc[r] \notin Done
        BY <2>2 DEF Moves, WriteBundle, WriteLatestReport, WriteLatestLogs, Raise, Answer,
               RewriteLatestReport, WriteReportPath, RecordHistory, PublishGauge, Goto, InFlight
      <3>3. \A x \in Runs \ {r} : pc'[x] = pc[x]
        BY <2>2 DEF Moves, WriteBundle, WriteLatestReport, WriteLatestLogs, Raise, Answer,
               RewriteLatestReport, WriteReportPath, RecordHistory, PublishGauge, Goto
      <3> QED
        BY <3>1, <3>2, <3>3
    <2> QED
      BY <2>1, <2>2
  <1> QED
    BY <1>1, <1>2, <1>3, StepIsAMove

\* A record adds the same run to the index and to what was recorded.
LEMMA SuffixStep == TypeOK /\ IndexIsSuffix /\ [Next]_vars => IndexIsSuffix'
  <1> SUFFICES ASSUME TypeOK, IndexIsSuffix, [Next]_vars PROVE IndexIsSuffix' OBVIOUS
  <1>1. CASE \A r \in Runs : ~RecordHistory(r)
    BY <1>1, HistoryFrame DEF IndexIsSuffix
  <1>2. CASE \E r \in Runs : RecordHistory(r)
    <2> PICK r \in Runs : RecordHistory(r) BY <1>2
    <2> DEFINE lines == Append(index, r)
               n     == Surplus(lines)
               gap   == Len(recorded) - Len(index)
    <2>1. /\ Len(lines) = Len(index) + 1 /\ Len(index) \in Nat
          /\ lines[Len(index) + 1] = r /\ \A i \in 1..Len(index) : lines[i] = index[i]
          /\ n \in 0..Len(index)
          /\ Len(index') = Len(lines) - n
          /\ \A i \in 1..(Len(lines) - n) : index'[i] = lines[n + i]
      BY RetainedLines
    <2>2. /\ Len(recorded') = Len(recorded) + 1 /\ Len(recorded) \in Nat
          /\ recorded'[Len(recorded) + 1] = r
          /\ \A i \in 1..Len(recorded) : recorded'[i] = recorded[i]
      BY AppendProperties, LenProperties DEF RecordHistory, TypeOK
    <2>3. /\ gap \in Nat /\ gap + Len(index) = Len(recorded)
          /\ \A i \in 1..Len(index) : index[i] = recorded[gap + i]
      BY <2>1, <2>2 DEF IndexIsSuffix
    <2> HIDE DEF lines, n, gap
    <2>4. ASSUME NEW k \in 1..(Len(index) + 1) PROVE lines[k] = recorded'[gap + k]
      <3>1. k \in 1..Len(index) \/ k = Len(index) + 1
        BY <2>1
      <3>2. CASE k \in 1..Len(index)
        <4>1. gap + k \in 1..Len(recorded)
          BY <2>1, <2>3, <3>2
        <4> QED
          BY <2>1, <2>2, <2>3, <3>2, <4>1
      <3>3. CASE k = Len(index) + 1
        <4>1. gap + k = Len(recorded) + 1
          BY <2>1, <2>2, <2>3, <3>3
        <4> QED
          BY <2>1, <2>2, <3>3, <4>1
      <3> QED
        BY <3>1, <3>2, <3>3
    <2>5. Len(index') <= Len(recorded') /\ Len(recorded') - Len(index') = gap + n
      <3>1. ASSUME NEW a \in Nat, NEW b \in Nat, NEW c \in Nat, NEW d \in 0..a, c + a = b
            PROVE  (a + 1) - d <= b + 1 /\ (b + 1) - ((a + 1) - d) = c + d
        BY <3>1
      <3>2. Len(index') = (Len(index) + 1) - n /\ Len(recorded') = Len(recorded) + 1
        BY <2>1, <2>2
      <3>3. Len(index) \in Nat /\ Len(recorded) \in Nat /\ n \in 0..Len(index)
        BY <2>1, <2>2
      <3>4. gap \in Nat /\ gap + Len(index) = Len(recorded)
        BY <2>3
      <3> QED
        BY <3>1, <3>2, <3>3, <3>4
    <2>6. ASSUME NEW i \in 1..Len(index')
          PROVE  index'[i] = recorded'[(Len(recorded') - Len(index')) + i]
      <3>1. n + i \in 1..(Len(index) + 1) /\ i \in 1..(Len(lines) - n)
        BY <2>1
      <3>2. gap + (n + i) = (Len(recorded') - Len(index')) + i
        <4>1. gap \in Nat /\ n \in Nat /\ i \in Nat
          BY <2>1, <2>3
        <4> QED
          BY <4>1, <2>5
      <3>3. index'[i] = lines[n + i] /\ lines[n + i] = recorded'[gap + (n + i)]
        BY <2>1, <2>4, <3>1
      <3> QED
        BY <3>2, <3>3
    <2> QED
      BY <2>5, <2>6 DEF IndexIsSuffix
  <1> QED
    BY <1>1, <1>2

\* Retention removes the bundles of runs it counts out.
LEMMA BackedStep ==
    ASSUME TypeOK, IndexIsSuffix, [Next]_vars, NEW x, Backed(x)
    PROVE  Backed(x)'
  <1>1. CASE \A r \in Runs : ~RecordHistory(r)
    BY <1>1, HistoryFrame DEF Backed, CountedOut
  <1>2. CASE \E r \in Runs : RecordHistory(r)
    <2> PICK r \in Runs : RecordHistory(r) BY <1>2
    <2> DEFINE lines == Append(index, r)
               n     == Surplus(lines)
               gap   == Len(recorded) - Len(index)
    <2>1. /\ Len(lines) = Len(index) + 1 /\ Len(index) \in Nat
          /\ \A i \in 1..Len(index) : lines[i] = index[i]
          /\ n \in 0..Len(index) /\ (n > 0 => Limit > 0 /\ n = Len(lines) - Limit)
          /\ \A y \in bundles \ bundles' : \E i \in 1..n : lines[i] = y
      BY RetainedLines
    <2>2. /\ Len(recorded') = Len(recorded) + 1 /\ Len(recorded) \in Nat
          /\ \A i \in 1..Len(recorded) : recorded'[i] = recorded[i]
      BY AppendProperties, LenProperties DEF RecordHistory, TypeOK
    <2>3. CASE CountedOut(x)
      <3>1. PICK i \in 1..Len(recorded) : recorded[i] = x /\ i + Limit <= Len(recorded)
        BY <2>3 DEF CountedOut
      <3>2. i \in 1..Len(recorded') /\ recorded'[i] = x /\ i + Limit <= Len(recorded')
        BY <2>2, <3>1, LimitAssumption
      <3> QED
        BY <2>3, <3>2 DEF Backed, CountedOut
    <2>4. CASE x \in bundles \ bundles'
      <3> HIDE DEF lines, n
      <3>1. PICK i \in 1..n : lines[i] = x
        BY <2>1, <2>4
      <3>2. /\ i \in 1..Len(index) /\ index[i] = x /\ Limit > 0
            /\ i <= (Len(index) + 1) - Limit
        BY <2>1, <3>1, LimitAssumption
      <3>3. /\ gap \in Nat /\ gap + Len(index) = Len(recorded) /\ index[i] = recorded[gap + i]
        BY <2>1, <2>2, <3>2 DEF IndexIsSuffix
      <3> HIDE DEF gap
      <3>4. gap + i \in 1..Len(recorded) /\ (gap + i) + Limit <= Len(recorded) + 1
        BY <2>1, <2>2, <3>2, <3>3, LimitAssumption
      <3>5. gap + i \in 1..Len(recorded') /\ recorded'[gap + i] = x
            /\ (gap + i) + Limit <= Len(recorded')
        BY <2>2, <3>2, <3>3, <3>4
      <3> QED
        BY <3>2, <3>5 DEF Backed, CountedOut
    <2> QED
      BY <2>3, <2>4 DEF Backed
  <1> QED
    BY <1>1, <1>2

\* A run is bundled before it is anything later.
LEMMA BundleStep ==
    TypeOK /\ IndexIsSuffix /\ BundleIsFirst /\ [Next]_vars => BundleIsFirst'
  <1> SUFFICES ASSUME TypeOK, IndexIsSuffix, BundleIsFirst, [Next]_vars
               PROVE BundleIsFirst'
    OBVIOUS
  <1>1. SUFFICES ASSUME NEW x \in Runs, pc'[x] \notin {"new", "executed", "failed"}
                 PROVE  Backed(x)'
    BY DEF BundleIsFirst
  <1>2. pc[x] \notin {"new", "executed", "failed"} \/ x \in bundles'
    <2>1. CASE UNCHANGED vars
      BY <1>1, <2>1 DEF vars
    <2>2. CASE RestartServer
      BY <1>1, <2>2 DEF RestartServer, TypeOK
    <2>3. CASE \E r \in Runs : Moves(r)
      BY <1>1, <2>3 DEF TypeOK, Moves, Execute, WriteBundle, WriteLatestReport, WriteLatestLogs,
             Raise, Answer, RewriteLatestReport, WriteReportPath, RecordHistory, PublishGauge,
             Goto
    <2> QED
      BY <2>1, <2>2, <2>3, StepIsAMove
  <1> QED
    BY <1>2, BackedStep DEF BundleIsFirst, Backed

\* The latest reports stay of bundled runs of their family, and an early one of a
\* run that has not got to its second write.
LEMMA ReportStep ==
    TypeOK /\ IndexIsSuffix /\ BundleIsFirst /\ ReportIsKnown /\ ReplacedByOverlap /\ [Next]_vars
        => ReportIsKnown'
  <1> SUFFICES ASSUME TypeOK, IndexIsSuffix, BundleIsFirst, ReportIsKnown, ReplacedByOverlap,
                      [Next]_vars
               PROVE ReportIsKnown'
    OBVIOUS
  <1>0. \A x : Backed(x) => Backed(x)'
    BY BackedStep
  <1> USE <1>0 DEF TypeOK, ReportIsKnown, BundleIsFirst, Family
  <1>1. CASE UNCHANGED vars
    BY <1>1 DEF vars, viewVars, runVars
  <1>2. CASE RestartServer
    BY <1>2 DEF RestartServer, viewVars, runVars
  <1>3. CASE \E r \in Runs : Moves(r)
    <2> PICK r \in Runs : Moves(r) BY <1>3
    <2>1. Family(r) \in Families /\ r # NoRun
      BY FamilyAssumption, NoneAssumption
    <2>2. CASE Execute(r)
      BY <2>2 DEF Execute, Goto, viewVars
    <2>3. CASE WriteBundle(r)
      BY <2>3 DEF WriteBundle, Goto, runVars, viewVars
    <2>4. CASE WriteLatestReport(r)
      BY <2>1, <2>4 DEF WriteLatestReport, Goto, runVars
    <2>5. CASE WriteLatestLogs(r)
      <3>1. report[Family(r)].run # NoRun
        BY <2>1, <2>5, NoneAssumption DEF WriteLatestLogs, Goto, ReplacedByOverlap
      <3> QED
        BY <3>1, <2>1, <2>5 DEF WriteLatestLogs, Goto, runVars
    <2>6. CASE RewriteLatestReport(r)
      <3>1. pc' = [pc EXCEPT ![r] = "finalized"] /\ pc[r] = "logged" /\ UNCHANGED <<scope, logs>>
        BY <2>6 DEF RewriteLatestReport, Goto, runVars
      <3>2. /\ report'[Family(r)].run = r /\ report'[Family(r)].final
            /\ \A f \in Families \ {Family(r)} : report'[f] = report[f]
        BY <2>1, <2>6 DEF RewriteLatestReport
      <3>3. \A f \in Families \ {Family(r)} : report[f].run # r
        BY <2>1
      <3> QED
        BY <3>1, <3>2, <3>3, <2>1
    <2>7. CASE WriteReportPath(r)
      BY <2>1, <2>7 DEF WriteReportPath, Goto, runVars
    <2>8. CASE RecordHistory(r) \/ PublishGauge(r) \/ Answer(r) \/ Raise(r)
      BY <2>8 DEF RecordHistory, PublishGauge, Answer, Raise, Goto, runVars, viewVars
    <2> QED
      BY <2>2, <2>3, <2>4, <2>5, <2>6, <2>7, <2>8 DEF Moves
  <1> QED
    BY <1>1, <1>2, <1>3, StepIsAMove

\* The latest logs stay of bundled runs.
LEMMA LogsStep ==
    TypeOK /\ IndexIsSuffix /\ BundleIsFirst /\ LogsAreKnown /\ [Next]_vars => LogsAreKnown'
  <1> SUFFICES ASSUME TypeOK, IndexIsSuffix, BundleIsFirst, LogsAreKnown, [Next]_vars
               PROVE LogsAreKnown'
    OBVIOUS
  <1>0. \A x : Backed(x) => Backed(x)'
    BY BackedStep
  <1> USE <1>0 DEF TypeOK, LogsAreKnown, BundleIsFirst
  <1>1. CASE UNCHANGED vars
    BY <1>1 DEF vars, viewVars
  <1>2. CASE RestartServer
    BY <1>2 DEF RestartServer, viewVars
  <1>3. CASE \E r \in Runs : Moves(r)
    <2> PICK r \in Runs : Moves(r) BY <1>3
    <2>1. CASE WriteLatestLogs(r)
      BY <2>1 DEF WriteLatestLogs, Goto
    <2>2. CASE ~WriteLatestLogs(r)
      BY <2>2 DEF Moves, Execute, WriteBundle, WriteLatestReport, Raise, Answer, viewVars,
             RewriteLatestReport, WriteReportPath, RecordHistory, PublishGauge
    <2> QED
      BY <2>1, <2>2
  <1> QED
    BY <1>1, <1>2, <1>3, StepIsAMove

\* A run in flight when another writes their view has overlapped it.
LEMMA ReplacedStep ==
    TypeOK /\ Overlap /\ ReplacedByOverlap /\ [Next]_vars => ReplacedByOverlap'
  <1> SUFFICES ASSUME TypeOK, Overlap, ReplacedByOverlap, [Next]_vars
               PROVE ReplacedByOverlap'
    OBVIOUS
  <1> USE DEF TypeOK, ReplacedByOverlap, Family
  <1>1. CASE UNCHANGED vars
    BY <1>1 DEF vars, viewVars, runVars
  <1>2. CASE RestartServer
    BY <1>2 DEF RestartServer, viewVars, runVars
  <1>3. CASE \E r \in Runs : Moves(r)
    <2> PICK r \in Runs : Moves(r) BY <1>3
    <2>1. \A x \in Runs : Family(x) \in Families
      BY FamilyAssumption
    <2>2. CASE Execute(r)
      BY <2>2 DEF Execute, Goto, viewVars
    <2>3. CASE WriteLatestReport(r)
      <3>1. \A x \in Runs \ {r} : pc[x] \in {"reported", "logged", "finalized"} =>
               {x, r} \subseteq shared
        BY <2>3 DEF WriteLatestReport, Goto, Overlap, Done
      <3> QED
        BY <3>1, <2>1, <2>3 DEF WriteLatestReport, Goto, runVars
    <2>4. CASE WriteLatestLogs(r)
      <3>1. \A x \in Runs \ {r} : pc[x] \in {"reported", "logged", "finalized"} =>
               {x, r} \subseteq shared
        BY <2>4 DEF WriteLatestLogs, Goto, Overlap, Done
      <3> QED
        BY <3>1, <2>1, <2>4 DEF WriteLatestLogs, Goto, runVars
    <2>5. CASE RewriteLatestReport(r) \/ WriteReportPath(r)
      <3>1. \A x \in Runs \ {r} : pc[x] \in {"reported", "logged", "finalized"} =>
               {x, r} \subseteq shared
        BY <2>5 DEF RewriteLatestReport, WriteReportPath, Goto, Overlap, Done
      <3>2. \A x \in Runs : report'[Family(x)].run \in {r, report[Family(x)].run}
        BY <2>1, <2>5 DEF RewriteLatestReport, WriteReportPath
      <3> QED
        BY <3>1, <3>2, <2>1, <2>5 DEF RewriteLatestReport, WriteReportPath, Goto, runVars
    <2>6. CASE WriteBundle(r) \/ RecordHistory(r) \/ PublishGauge(r) \/ Answer(r) \/ Raise(r)
      BY <2>6 DEF WriteBundle, RecordHistory, PublishGauge, Answer, Raise, Goto, runVars, viewVars
    <2> QED
      BY <2>2, <2>3, <2>4, <2>5, <2>6 DEF Moves
  <1> QED
    BY <1>1, <1>2, <1>3, StepIsAMove

\* The two latest views of a family part only as MixedViewsComeFromOverlap says.
LEMMA MixedStep ==
    TypeOK /\ ReportIsKnown /\ ReplacedByOverlap /\ MixedViewsComeFromOverlap /\ [Next]_vars
        => MixedViewsComeFromOverlap'
  <1> SUFFICES ASSUME TypeOK, ReportIsKnown, ReplacedByOverlap, MixedViewsComeFromOverlap,
                      [Next]_vars
               PROVE MixedViewsComeFromOverlap'
    OBVIOUS
  <1> USE DEF TypeOK, MixedViewsComeFromOverlap
  <1>1. CASE UNCHANGED vars
    BY <1>1 DEF vars, viewVars
  <1>2. CASE RestartServer
    BY <1>2, NoneAssumption DEF RestartServer, viewVars, InFlight, Done, ReportIsKnown
  <1>3. CASE \E r \in Runs : Moves(r)
    <2> PICK r \in Runs : Moves(r) BY <1>3
    <2>1. Family(r) \in Families /\ NoRun \notin Runs
      BY FamilyAssumption, NoneAssumption DEF Family
    <2>2. CASE Execute(r)
      BY <2>1, <2>2 DEF Execute, Goto, viewVars, ReportIsKnown
    <2>3. CASE WriteLatestReport(r)
      BY <2>1, <2>3 DEF WriteLatestReport, Goto, runVars, ReportIsKnown
    <2>4. CASE WriteLatestLogs(r)
      <3>1. report[Family(r)].run # r => {r, report[Family(r)].run} \subseteq shared
        BY <2>4 DEF WriteLatestLogs, Goto, ReplacedByOverlap
      <3>2. \A f \in Families \ {Family(r)} : report[f].run # r
        BY <2>1 DEF ReportIsKnown
      <3> QED
        BY <3>1, <3>2, <2>1, <2>4 DEF WriteLatestLogs, Goto, runVars, ReportIsKnown
    <2>5. CASE RewriteLatestReport(r) \/ WriteReportPath(r)
      <3>1. logs[Family(r)] # r => {r, logs[Family(r)]} \subseteq shared
        BY <2>5 DEF RewriteLatestReport, WriteReportPath, Goto, ReplacedByOverlap
      <3>2. \A f \in Families \ {Family(r)} : report'[f] = report[f]
        BY <2>1, <2>5 DEF RewriteLatestReport, WriteReportPath
      <3>3. report'[Family(r)].run = r \/ report'[Family(r)] = report[Family(r)]
        BY <2>1, <2>5 DEF RewriteLatestReport, WriteReportPath
      <3> QED
        BY <3>1, <3>2, <3>3, <2>1, <2>5
           DEF RewriteLatestReport, WriteReportPath, Goto, runVars, ReportIsKnown
    <2>6. CASE WriteBundle(r) \/ RecordHistory(r) \/ PublishGauge(r) \/ Answer(r) \/ Raise(r)
      BY <2>1, <2>6 DEF WriteBundle, RecordHistory, PublishGauge, Answer, Raise, Goto,
             runVars, viewVars, ReportIsKnown, InFlight, Done
    <2> QED
      BY <2>2, <2>3, <2>4, <2>5, <2>6 DEF Moves
  <1> QED
    BY <1>1, <1>2, <1>3, StepIsAMove

-----------------------------------------------------------------------------

\* The history changes by RecordHistory alone, and its runs are past their record.
LEMMA HistoryStep == TypeOK /\ Overlap /\ HistoryIsOrdered /\ [Next]_vars => HistoryIsOrdered'
  <1> SUFFICES ASSUME TypeOK, Overlap, HistoryIsOrdered, [Next]_vars PROVE HistoryIsOrdered'
    OBVIOUS
  <1> USE DEF TypeOK, HistoryIsOrdered, histVars
  <1>0. \A i \in 1..Len(recorded) : recorded[i] \in Runs
    OBVIOUS
  <1>1. CASE UNCHANGED vars
    BY <1>1 DEF vars
  <1>2. CASE RestartServer
    BY <1>0, <1>2 DEF RestartServer, InFlight, Done
  <1>3. CASE \E r \in Runs : Moves(r)
    <2> PICK r \in Runs : Moves(r) BY <1>3
    <2>1. CASE RecordHistory(r)
      <3>1. /\ Len(recorded') = Len(recorded) + 1 /\ recorded'[Len(recorded) + 1] = r
            /\ \A i \in 1..Len(recorded) : recorded'[i] = recorded[i]
        BY <2>1 DEF RecordHistory
      <3>2. pc'[r] = "recorded" /\ shared' = shared /\ \A x \in Runs \ {r} : pc'[x] = pc[x]
        BY <2>1 DEF RecordHistory, Goto
      <3>3. \A i \in 1..Len(recorded) : recorded[i] # r
        BY <2>1 DEF RecordHistory, Goto
      <3>4. \A i \in 1..Len(recorded) : pc[recorded[i]] = "recorded" =>
               recorded[i] \in shared /\ r \in shared
        BY <2>1, <1>0, <3>3 DEF RecordHistory, Goto, Overlap, Done
      <3>5. Len(recorded) \in Nat
        OBVIOUS
      <3>6. \A i \in 1..Len(recorded') : i = Len(recorded) + 1 \/ i \in 1..Len(recorded)
        BY <3>1, <3>5
      <3>7. \A i \in 1..Len(recorded') :
               pc'[recorded'[i]] \in {"recorded", "published", "answered", "failed"}
        BY <3>1, <3>2, <3>3, <3>6, <1>0
      <3>8. \A i, j \in 1..Len(recorded') : i < j /\ pc'[recorded'[i]] = "recorded" =>
               recorded'[i] \in shared' /\ recorded'[j] \in shared'
        <4> SUFFICES ASSUME NEW i \in 1..Len(recorded'), NEW j \in 1..Len(recorded'),
                            i < j, pc'[recorded'[i]] = "recorded"
                     PROVE  recorded'[i] \in shared' /\ recorded'[j] \in shared'
          OBVIOUS
        <4>1. i \in 1..Len(recorded) /\ pc[recorded[i]] = "recorded"
          BY <3>1, <3>2, <3>3, <3>5, <1>0
        <4>2. CASE j = Len(recorded) + 1
          BY <4>1, <4>2, <3>1, <3>2, <3>4
        <4>3. CASE j \in 1..Len(recorded)
          BY <4>1, <4>3, <3>1, <3>2
        <4> QED
          BY <4>2, <4>3, <3>6
      <3>9. \A x \in Runs : pc'[x] = "recorded" =>
               \E i \in 1..Len(recorded') : recorded'[i] = x
        <4> SUFFICES ASSUME NEW x \in Runs, pc'[x] = "recorded"
                     PROVE  \E i \in 1..Len(recorded') : recorded'[i] = x
          OBVIOUS
        <4>1. CASE x = r
          BY <4>1, <3>1, <3>5
        <4>2. CASE x # r
          <5>1. PICK i \in 1..Len(recorded) : recorded[i] = x
            BY <4>2, <3>2
          <5> QED
            BY <5>1, <3>1, <3>5
        <4> QED
          BY <4>1, <4>2
      <3> QED
        BY <3>7, <3>8, <3>9
    <2>2. CASE ~RecordHistory(r)
      <3>1. recorded' = recorded
        BY <2>2 DEF Moves, Execute, WriteBundle, WriteLatestReport, WriteLatestLogs, Raise,
               Answer, RewriteLatestReport, WriteReportPath, PublishGauge
      <3>2. shared \subseteq shared'
        BY <2>2 DEF Moves, Execute, WriteBundle, WriteLatestReport, WriteLatestLogs, Raise,
               Answer, RewriteLatestReport, WriteReportPath, PublishGauge
      <3>3. \A x \in Runs : pc'[x] = "recorded" => pc[x] = "recorded"
        BY <2>2 DEF Moves, Execute, WriteBundle, WriteLatestReport, WriteLatestLogs, Raise,
               Answer, RewriteLatestReport, WriteReportPath, PublishGauge, Goto
      <3>4. \A x \in Runs : pc[x] \in {"recorded", "published", "answered", "failed"} =>
               pc'[x] \in {"recorded", "published", "answered", "failed"}
        BY <2>2 DEF Moves, Execute, WriteBundle, WriteLatestReport, WriteLatestLogs, Raise,
               Answer, RewriteLatestReport, WriteReportPath, PublishGauge, Goto
      <3> QED
        BY <3>1, <3>2, <3>3, <3>4, <1>0
    <2> QED
      BY <2>1, <2>2
  <1> QED
    BY <1>1, <1>2, <1>3, StepIsAMove

\* The run j places after one whose gauge shows is about to set the gauge, has
\* failed, or overlapped: one scope's instance of GaugeIsLatestRecorded.
GaugeIsLatest(s, i) ==
    /\ recorded[i] = gauge[s] /\ scope[gauge[s]] = s
    /\ \A j \in (i + 1)..Len(recorded) :
          scope[recorded[j]] = s =>
              \/ pc[recorded[j]] \in {"recorded", "failed"}
              \/ {recorded[i], recorded[j]} \subseteq shared

\* A gauge stays of the scope's latest recorded run, up to overlaps.
LEMMA GaugeStep ==
    TypeOK /\ Overlap /\ HistoryIsOrdered /\ GaugeIsLatestRecorded /\ [Next]_vars
        => GaugeIsLatestRecorded'
  <1> SUFFICES ASSUME TypeOK, Overlap, HistoryIsOrdered, GaugeIsLatestRecorded, [Next]_vars,
                      NEW s \in Scopes, gauge'[s] # NoRun
               PROVE  \E i \in 1..Len(recorded') : GaugeIsLatest(s, i)'
    BY DEF GaugeIsLatestRecorded, GaugeIsLatest
  <1> USE DEF TypeOK, histVars
  <1>0. /\ Len(recorded) \in Nat
        /\ \A i \in 1..Len(recorded) : recorded[i] \in Runs
    OBVIOUS
  <1>a. gauge[s] # NoRun => \E i \in 1..Len(recorded) : GaugeIsLatest(s, i)
    BY DEF GaugeIsLatestRecorded, GaugeIsLatest
  <1>1. CASE UNCHANGED vars
    BY <1>1, <1>a DEF vars, runVars, GaugeIsLatest
  <1>2. CASE RestartServer
    BY <1>2 DEF RestartServer
  <1>3. CASE \E r \in Runs : Moves(r)
    <2> PICK r \in Runs : Moves(r) BY <1>3
    <2>1. CASE PublishGauge(r) /\ scope[r] = s
      <3>1. PICK i \in 1..Len(recorded) : recorded[i] = r
        BY <2>1 DEF PublishGauge, Goto, HistoryIsOrdered
      <3>2. \A j \in (i + 1)..Len(recorded) : {recorded[i], recorded[j]} \subseteq shared
        BY <2>1, <3>1, <1>0 DEF PublishGauge, Goto, HistoryIsOrdered
      <3>3. gauge'[s] = r /\ UNCHANGED <<scope, recorded, shared>>
        BY <2>1 DEF PublishGauge, runVars
      <3> QED
        BY <2>1, <3>1, <3>2, <3>3 DEF GaugeIsLatest
    <2>2. CASE ~(PublishGauge(r) /\ scope[r] = s)
      <3>1. gauge'[s] = gauge[s]
        BY <2>2 DEF Moves, Execute, WriteBundle, WriteLatestReport, WriteLatestLogs, Raise,
               Answer, RewriteLatestReport, WriteReportPath, PublishGauge, RecordHistory
      <3>2. PICK i \in 1..Len(recorded) : GaugeIsLatest(s, i)
        BY <3>1, <1>a
      <3>3. shared \subseteq shared'
        BY <2>2 DEF Moves, Execute, WriteBundle, WriteLatestReport, WriteLatestLogs, Raise,
               Answer, RewriteLatestReport, WriteReportPath, PublishGauge, RecordHistory
      <3>4. CASE RecordHistory(r)
        <4>1. /\ Len(recorded') = Len(recorded) + 1 /\ recorded'[Len(recorded) + 1] = r
              /\ \A j \in 1..Len(recorded) : recorded'[j] = recorded[j]
          BY <3>4 DEF RecordHistory
        <4>2. pc'[r] = "recorded" /\ scope' = scope
          BY <3>4 DEF RecordHistory, Goto, runVars
        <4>3. \A x \in Runs : pc[x] \in {"recorded", "failed"} =>
                 pc'[x] \in {"recorded", "failed"}
          BY <3>4 DEF RecordHistory, Goto
        <4>4. \A j \in (i + 1)..Len(recorded') :
                 j = Len(recorded) + 1 \/ j \in (i + 1)..Len(recorded)
          <5>1. ASSUME NEW m \in Nat, NEW k \in 1..m, NEW j \in (k + 1)..(m + 1)
                PROVE  j = m + 1 \/ j \in (k + 1)..m
            OBVIOUS
          <5>2. Len(recorded) \in Nat /\ i \in 1..Len(recorded)
            BY <1>0, <3>2
          <5> QED
            BY <4>1, <5>1, <5>2
        <4>5. \A j \in (i + 1)..Len(recorded') : scope'[recorded'[j]] = s =>
                 \/ pc'[recorded'[j]] \in {"recorded", "failed"}
                 \/ {recorded'[i], recorded'[j]} \subseteq shared'
          <5> SUFFICES ASSUME NEW j \in (i + 1)..Len(recorded'), scope'[recorded'[j]] = s
                       PROVE  \/ pc'[recorded'[j]] \in {"recorded", "failed"}
                              \/ {recorded'[i], recorded'[j]} \subseteq shared'
            OBVIOUS
          <5>1. CASE j = Len(recorded) + 1
            BY <5>1, <4>1, <4>2
          <5>2. CASE j \in (i + 1)..Len(recorded)
            <6>1. recorded'[j] = recorded[j] /\ recorded'[i] = recorded[i]
              BY <5>2, <4>1, <1>0
            <6>2. recorded[j] \in Runs
              BY <5>2, <1>0
            <6> QED
              BY <5>2, <6>1, <6>2, <4>2, <4>3, <3>2, <3>3 DEF GaugeIsLatest
          <5> QED
            BY <5>1, <5>2, <4>4
        <4>6. GaugeIsLatest(s, i)'
          BY <4>1, <4>2, <4>5, <3>1, <3>2 DEF GaugeIsLatest
        <4> QED
          BY <4>1, <4>6, <3>2, <1>0
      <3>5. CASE ~RecordHistory(r)
        <4>1. recorded' = recorded
          BY <3>5 DEF Moves, Execute, WriteBundle, WriteLatestReport, WriteLatestLogs, Raise,
                 Answer, RewriteLatestReport, WriteReportPath, PublishGauge
        <4>2. \A j \in 1..Len(recorded) : scope'[recorded[j]] = scope[recorded[j]]
          BY <1>0, <3>5 DEF Moves, Execute, WriteBundle, WriteLatestReport, WriteLatestLogs,
                 Raise, Answer, RewriteLatestReport, WriteReportPath, PublishGauge, runVars,
                 Goto, HistoryIsOrdered
        <4>3. \A j \in 1..Len(recorded) :
                 /\ scope[recorded[j]] = s
                 /\ pc[recorded[j]] \in {"recorded", "failed"}
                 => pc'[recorded[j]] \in {"recorded", "failed"}
          BY <1>0, <2>2, <3>5 DEF Moves, Execute, WriteBundle, WriteLatestReport,
                 WriteLatestLogs, Raise, Answer, RewriteLatestReport, WriteReportPath,
                 PublishGauge, Goto, InFlight, Done
        <4> QED
          BY <4>1, <4>2, <4>3, <3>1, <3>2, <3>3, <1>0 DEF GaugeIsLatest
      <3> QED
        BY <3>4, <3>5
    <2> QED
      BY <2>1, <2>2
  <1> QED
    BY <1>1, <1>2, <1>3, StepIsAMove

\* The retention of a run's own record leaves its line, the last, and its bundle.
LEMMA RecordKeepsItsOwn ==
    ASSUME TypeOK, IndexIsSuffix, HistoryIsOrdered, NEW r \in Runs, RecordHistory(r),
           r \in bundles
    PROVE  index' # <<>> /\ index'[Len(index')] = r /\ r \in bundles'
  <1> DEFINE lines == Append(index, r)
             n     == Surplus(lines)
  <1>1. /\ Len(lines) = Len(index) + 1 /\ Len(index) \in Nat
        /\ lines[Len(index) + 1] = r /\ \A i \in 1..Len(index) : lines[i] = index[i]
        /\ n \in 0..Len(index)
        /\ index' \in Seq(Runs) /\ Len(index') = Len(lines) - n
        /\ \A i \in 1..(Len(lines) - n) : index'[i] = lines[n + i]
        /\ \A x \in bundles \ bundles' : \E i \in 1..n : lines[i] = x
    BY RetainedLines
  <1> HIDE DEF lines, n
  <1>2. Len(index') # 0 /\ Len(index') \in 1..(Len(lines) - n) /\ n + Len(index') = Len(index) + 1
    BY <1>1
  <1>3. index' # <<>> /\ index'[Len(index')] = r
    BY <1>1, <1>2, EmptySeq
  <1>4. ASSUME NEW i \in 1..Len(index) PROVE index[i] # r
    <2>1. Len(recorded) \in Nat /\ Len(index) <= Len(recorded)
      BY LenProperties DEF IndexIsSuffix, TypeOK
    <2>2. (Len(recorded) - Len(index)) + i \in 1..Len(recorded)
      BY <1>1, <2>1
    <2>3. pc[index[i]] \in {"recorded", "published", "answered", "failed"}
      BY <2>2 DEF IndexIsSuffix, HistoryIsOrdered
    <2> QED
      BY <2>3 DEF RecordHistory, Goto
  <1>5. \A i \in 1..n : lines[i] # r
    BY <1>1, <1>4
  <1> QED
    BY <1>1, <1>3, <1>5

\* A run that overlapped no other is the only one to write since it began.
LEMMA SoloStep ==
    TypeOK /\ Overlap /\ IndexIsSuffix /\ HistoryIsOrdered /\ SoloKeepsItsWrites /\ [Next]_vars
        => SoloKeepsItsWrites'
  <1> SUFFICES ASSUME TypeOK, Overlap, IndexIsSuffix, HistoryIsOrdered, SoloKeepsItsWrites,
                      [Next]_vars, last' # NoRun, last' \notin shared'
               PROVE SoloKeepsItsWrites'
    BY DEF SoloKeepsItsWrites
  <1> USE DEF TypeOK, SoloKeepsItsWrites, Done
  <1>1. CASE UNCHANGED vars
    BY <1>1 DEF vars, viewVars, runVars, histVars, Family
  <1>2. CASE RestartServer
    BY <1>2 DEF RestartServer, viewVars, runVars, histVars, InFlight, Family
  <1>3. CASE \E r \in Runs : Moves(r)
    <2> PICK r \in Runs : Moves(r) BY <1>3
    <2>0. \A x \in Runs : Family(x) \in Families
      BY FamilyAssumption DEF Family
    <2>1. CASE Execute(r)
      <3>1. InFlight = {} /\ last' = r /\ pc' = [pc EXCEPT ![r] = "executed"]
        BY <2>1 DEF Execute, Goto
      <3>2. \A x \in Runs : pc'[x] \notin Done => x = r
        BY <3>1 DEF InFlight
      <3>3. pc'[last'] = "executed"
        BY <3>1
      <3> QED
        BY <3>1, <3>2, <3>3
    <2>2. CASE ~Execute(r)
      <3>1. UNCHANGED <<last, scope, shared>> /\ pc[r] \notin Done
        BY <2>2 DEF Moves, WriteBundle, WriteLatestReport, WriteLatestLogs, Raise, runVars,
               Answer, RewriteLatestReport, WriteReportPath, PublishGauge, RecordHistory,
               Goto, InFlight
      <3>2. r = last
        BY <3>1
      <3>3. UNCHANGED Family(last)
        BY <3>1 DEF Family
      <3>4. CASE WriteBundle(r) \/ Answer(r) \/ Raise(r)
        BY <3>1, <3>2, <3>3, <3>4 DEF WriteBundle, Answer, Raise, Goto, viewVars, histVars
      <3>5. CASE WriteLatestReport(r) \/ WriteLatestLogs(r)
        BY <3>1, <3>2, <3>3, <3>5, <2>0 DEF WriteLatestReport, WriteLatestLogs, Goto, histVars
      <3>6. CASE RewriteLatestReport(r) \/ WriteReportPath(r)
        BY <3>1, <3>2, <3>3, <3>6, <2>0 DEF RewriteLatestReport, WriteReportPath, Goto, histVars
      <3>7. CASE RecordHistory(r)
        <4>1. index' # <<>> /\ index'[Len(index')] = r /\ r \in bundles'
          BY <3>1, <3>2, <3>7, RecordKeepsItsOwn DEF RecordHistory, Goto
        <4> QED
          BY <3>1, <3>2, <3>3, <3>7, <4>1 DEF RecordHistory, Goto, viewVars
      <3>8. CASE PublishGauge(r)
        BY <3>1, <3>2, <3>3, <3>8 DEF PublishGauge, Goto, viewVars, histVars
      <3> QED
        BY <2>2, <3>4, <3>5, <3>6, <3>7, <3>8 DEF Moves
    <2> QED
      BY <2>1, <2>2
  <1> QED
    BY <1>1, <1>2, <1>3, StepIsAMove

-----------------------------------------------------------------------------

\* Each step preserves the invariant.
LEMMA IInvIsInductive == IInv /\ [Next]_vars => IInv'
  BY TypeStep, OverlapStep, SuffixStep, BundleStep, ReportStep, LogsStep, ReplacedStep, MixedStep,
     HistoryStep, GaugeStep, SoloStep DEF IInv

\* What each run has written in each of its steps, and of which runs the latest
\* views, the history and the gauges are, in every reachable state.
THEOREM IInvHolds == Spec => []IInv
  BY InitIsSafe, IInvIsInductive, PTL DEF Spec

\* The variables keep their types: runs, views, history and gauges.
THEOREM TypeCorrectness == Spec => []TypeOK
  BY IInvHolds, PTL DEF IInv

\* _persist_suite_artifacts and its siblings: what a latest view shows is in its
\* run's bundle, whoever fails or overwrites afterwards, until Limit newer runs are
\* recorded.
THEOREM LatestViewsAreBacked == Spec => []ViewsAreBacked
  <1>1. IInv => ViewsAreBacked
    BY DEF IInv, ReportIsKnown, LogsAreKnown, ViewsAreBacked, Backed
  <1> QED
    BY <1>1, IInvHolds, PTL

\* No order of two runs' double writes leaves the early copy of a finished one.
THEOREM NoFinishedRunLeavesItsEarlyReport == Spec => []EarlyReportIsOfUnfinishedRun
  <1>1. IInv => EarlyReportIsOfUnfinishedRun
    BY DEF IInv, ReportIsKnown, EarlyReportIsOfUnfinishedRun
  <1> QED
    BY <1>1, IInvHolds, PTL

\* Latest views of two different runs are explained by an overlap or a failure.
THEOREM MixedViewsAreExplained == Spec => []MixedViewsComeFromOverlap
  BY IInvHolds, PTL DEF IInv

\* A gauge that is not of the latest recorded run is explained likewise.
THEOREM StaleGaugesAreExplained == Spec => []GaugeIsLatestRecorded
  BY IInvHolds, PTL DEF IInv

\* A run that overlapped no other is, once answered, the latest everywhere.
THEOREM SoloRunsWin == Spec => []SoloRunIsLatest
  <1>1. IInv => SoloRunIsLatest
    <2> SUFFICES ASSUME IInv, last # NoRun, last \notin shared, pc[last] = "answered"
                 PROVE  /\ report[Family(last)] = [run |-> last, final |-> TRUE]
                        /\ logs[Family(last)] = last
                        /\ last \in bundles
                        /\ last \notin CliRuns =>
                              /\ index # <<>> /\ index[Len(index)] = last
                              /\ gauge[scope[last]] \in {last, NoRun}
      BY DEF SoloRunIsLatest
    <2>1. report[Family(last)] \in [run : Runs \cup {NoRun}, final : BOOLEAN]
      BY FamilyAssumption DEF IInv, TypeOK, Family
    <2>2. report[Family(last)].run = last /\ report[Family(last)].final
      BY DEF IInv, SoloKeepsItsWrites
    <2> QED
      BY <2>1, <2>2 DEF IInv, SoloKeepsItsWrites
  <1> QED
    BY <1>1, IInvHolds, PTL

=============================================================================
