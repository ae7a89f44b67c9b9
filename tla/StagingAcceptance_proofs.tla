----------------------- MODULE StagingAcceptance_proofs -----------------------
(***************************************************************************)
(* Theorems about ArtifactBackup and StagingAcceptance, for any runs,      *)
(* limits, aborts, operators, archives and failures.                       *)
(*                                                                         *)
(* The backups use the inductive invariant of RunHistory: until a restore  *)
(* begins the root is what its API makes of it.  The acceptance takes only *)
(* steps that operators take, so that what holds of the backups holds of   *)
(* it; and an archive holds also what the archives before it were to hold, *)
(* so that it does not matter which of the later ones the rehearsal        *)
(* restores.                                                               *)
(***************************************************************************)
EXTENDS StagingAcceptance, RunHistory_proofs, WellFoundedInduction

-----------------------------------------------------------------------------
(***************************************************************************)
(* Backup and restore.                                                     *)
(***************************************************************************)

bvars == <<historyVars, backupVars>>

\* A snapshot lies in a directory of its run.
BundleInv ==
    /\ snapshots \subseteq bundles
    /\ \A w \in Workers : pc[w] = "ran" => run[w] \in bundles

HistoryOK == IndInv /\ BundleInv

\* One script at a time, each with its archive, and none beside an API once a
\* restore has begun.
ScriptInv ==
    /\ \A p, q \in Operators : script[p] \notin Exits /\ script[q] \notin Exits => p = q
    /\ \A p \in Operators : script[p] \notin Exits => archive[p] \in DOMAIN archives
    /\ \A p \in Operators : script[p] \in {"tarring", "tarred"} => Mine(p).state # "verified"
    /\ \A p \in Operators : script[p] \in {"checked", "moved"} => before # {}
    /\ before # {} => ~online
    /\ before = {} => present /\ HistoryOK

\* What tar has collected so far, of a root that the API goes on changing.
Collected(a) ==
    /\ a.since <= appended
    /\ \A id \in a.known : order[id] > 0 /\ order[id] <= a.since
    /\ \A id \in RunIds : order[id] > 0 /\ order[id] <= a.since => id \in a.known \/ Expired(id)
    /\ \A i \in 1..Len(a.image.index) : order[a.image.index[i]] > 0
    /\ "history" \in a.read =>
          \A id \in a.known : Expired(id) \/ InLine(a.image.index, id)
    /\ "listing" \in a.read =>
          \A id \in a.known : Expired(id) \/ id \in a.unread \cup a.image.snapshots
    /\ "runs" \in a.read => "listing" \in a.read /\ a.unread = {}

WalkInv ==
    \A p \in Operators : script[p] = "tarring" /\ ~Mine(p).excused =>
        before = {} /\ Collected(Mine(p))

Faithful(a) == HoldsKnownRuns(a) /\ DanglingIsExplained(a)

DoneInv ==
    /\ \A n \in DOMAIN archives : archives[n].state = "verified" => Faithful(archives[n])
    /\ \A p \in Operators : script[p] = "tarred" => Faithful(Mine(p))

\* What a restore has moved is aside, and what it is to extract is not in the root.
RestoreInv ==
    /\ \A c \in before : c \in aside \/ (present /\ c = Content)
    /\ \A p \in Operators : script[p] = "moved" => before \subseteq aside /\ AtHand(p)
    /\ \A p \in Operators : script[p] = "checked" =>
          source[p] = "temp" \/ (source[p] # "root" /\ source[p] = Mine(p).place)

BInv == BackupTypeOK /\ ScriptInv /\ WalkInv /\ DoneInv /\ RestoreInv

-----------------------------------------------------------------------------
(***************************************************************************)
(* The run history, as the backups see it.                                 *)
(***************************************************************************)

\* What a step of the history does to its directories.
LEMMA DirectoriesStep ==
    ASSUME IndInv, [Next]_vars
    PROVE  \/ UNCHANGED <<bundles, snapshots>>
           \/ \E w \in Workers : PersistRun(w) \/ WriteSnapshot(w) \/ PruneOldest(w)
           \/ PersistCliRun
BY DEF Next, vars, diskVars, Record, Get, Abort, LookUp, CheckSnapshot, ReadSnapshot,
       AcquireIndexLock, AppendRecord, SkipRetention, BeginPrune, TruncateIndex, RewriteLine,
       ReleaseIndexLock

\* Only PersistRun brings a worker to "ran", and nothing else changes the run of a
\* worker that is there.
LEMMA RanStep ==
    ASSUME IndInv, [Next]_vars, NEW w \in Workers, pc'[w] = "ran"
    PROVE  PersistRun(w) \/ (pc[w] = "ran" /\ run'[w] = run[w])
<1>1. pc \in [Workers -> Steps] /\ run \in [Workers -> RunIds \cup {NoRun}]
  BY DEF IndInv, TypeOK
<1>2. CASE UNCHANGED workVars
  BY <1>2 DEF workVars
<1>3. ASSUME NEW v \in Workers, PersistRun(v)
      PROVE  v = w \/ (pc[w] = "ran" /\ run'[w] = run[w])
  BY <1>1, <1>3 DEF PersistRun, Goto
<1>4. ASSUME NEW v \in Workers, NEW to, to # "ran", pc' = [pc EXCEPT ![v] = to],
             run' = run \/ run' = [run EXCEPT ![v] = NoRun]
      PROVE  pc[w] = "ran" /\ run'[w] = run[w]
  BY <1>1, <1>4
<1>5. ASSUME NEW v \in Workers, Record(v) \/ Abort(v)
      PROVE  \/ UNCHANGED workVars
             \/ pc[w] = "ran" /\ run'[w] = run[w]
  <2>1. CASE \/ WriteSnapshot(v) \/ AcquireIndexLock(v) \/ AppendRecord(v) \/ SkipRetention(v)
             \/ BeginPrune(v) \/ TruncateIndex(v)
    BY <1>4, <2>1 DEF WriteSnapshot, AcquireIndexLock, AppendRecord, SkipRetention, BeginPrune,
                      TruncateIndex, Goto
  <2>2. CASE PruneOldest(v) \/ RewriteLine(v)
    BY <2>2 DEF PruneOldest, RewriteLine, workVars
  <2>3. CASE ReleaseIndexLock(v) \/ Abort(v)
    BY <1>4, <2>3 DEF ReleaseIndexLock, Abort
  <2> QED
    BY <1>5, <2>1, <2>2, <2>3 DEF Record
<1>6. ASSUME NEW r \in Readers, Get(r) PROVE UNCHANGED workVars
  BY <1>6 DEF Get, LookUp, CheckSnapshot, ReadSnapshot
<1>7. PersistCliRun => UNCHANGED workVars
  BY DEF PersistCliRun
<1> QED
  BY <1>2, <1>3, <1>5, <1>6, <1>7 DEF Next, vars

\* The oldest doomed record is one of the index.
LEMMA DoomedIsRecorded ==
    ASSUME IndInv, NEW w \in Workers, PruneOldest(w)
    PROVE  Head(doomed[w]) \in RunIds /\ order[Head(doomed[w])] > 0
<1>1. /\ doomed[w] \in Seq(RunIds) /\ doomed[w] # <<>> /\ index \in Seq(RunIds)
      /\ pc[w] = "pruning"
  BY DEF PruneOldest, IndInv, TypeOK
<1>2. Head(doomed[w]) = doomed[w][1] /\ Len(doomed[w]) \in Nat /\ Len(doomed[w]) > 0
  BY <1>1
<1>3. PruneInv(w)
  BY DEF IndInv, RetentionInv
<1>4. Head(doomed[w]) = index[Removed(w) + 1]
  BY <1>1, <1>2, <1>3 DEF PruneInv
<1>5. Removed(w) + 1 \in 1..Len(index)
  BY <1>1, <1>2, <1>3, LimitAssumption DEF PruneInv, Removed, Surplus, OverLimit
<1> QED
  BY <1>1, <1>4, <1>5 DEF IndInv, IndexInv, InOrder

\* A run's directory is there before its snapshot and goes with it.
LEMMA BundleStep == HistoryOK /\ [Next]_vars => BundleInv'
<1> SUFFICES ASSUME HistoryOK, [Next]_vars PROVE BundleInv'
  OBVIOUS
<1>1. CASE UNCHANGED <<bundles, snapshots>>
  <2>1. \A w \in Workers : PersistRun(w) => run'[w] \in bundles'
    BY DEF PersistRun, HistoryOK, IndInv, TypeOK
  <2> QED
    BY <1>1, <2>1, RanStep DEF BundleInv, HistoryOK
<1>2. ASSUME NEW w \in Workers, PersistRun(w) PROVE BundleInv'
  <2>1. bundles \subseteq bundles' /\ snapshots' = snapshots /\ run'[w] \in bundles'
    BY <1>2 DEF PersistRun, diskVars, HistoryOK, IndInv, TypeOK
  <2>2. \A v \in Workers \ {w} : run'[v] = run[v] /\ pc'[v] = pc[v]
    BY <1>2 DEF PersistRun, Goto
  <2> QED
    BY <2>1, <2>2 DEF BundleInv, HistoryOK
<1>3. ASSUME NEW w \in Workers, WriteSnapshot(w) PROVE BundleInv'
  BY <1>3 DEF WriteSnapshot, Goto, BundleInv, HistoryOK, IndInv, TypeOK
<1>4. ASSUME NEW w \in Workers, PruneOldest(w) PROVE BundleInv'
  <2>1. order[Head(doomed[w])] > 0
    BY <1>4, DoomedIsRecorded DEF HistoryOK
  <2>2. \A v \in Workers : pc[v] = "ran" => run[v] # Head(doomed[w])
    BY <2>1 DEF HistoryOK, IndInv, RunInv
  <2>3. \/ bundles' = bundles /\ snapshots' \subseteq snapshots
        \/ \E id \in {Head(doomed[w])} :
              bundles' = bundles \ {id} /\ snapshots' = snapshots \ {id}
    BY <1>4 DEF PruneOldest, RemoveRun, LeaveRun
  <2>4. UNCHANGED <<pc, run>>
    BY <1>4 DEF PruneOldest
  <2> QED
    BY <2>2, <2>3, <2>4 DEF BundleInv, HistoryOK
<1>5. ASSUME PersistCliRun PROVE BundleInv'
  <2>1. bundles \subseteq bundles' /\ UNCHANGED <<snapshots, pc, run>>
    BY <1>5 DEF PersistCliRun, workVars
  <2> QED
    BY <2>1 DEF BundleInv, HistoryOK
<1> QED
  BY <1>1, <1>2, <1>3, <1>4, <1>5, DirectoriesStep DEF HistoryOK

\* The API's own steps preserve the invariant of its root.
LEMMA HistoryStep == HistoryOK /\ [Next]_vars => HistoryOK'
BY NextIndInv, BundleStep DEF HistoryOK

\* A run recorded keeps its place, and a new one comes after all others.
LEMMA OrderStep ==
    ASSUME IndInv, [Next]_vars
    PROVE  /\ appended \in Nat /\ appended' \in Nat /\ appended <= appended'
           /\ \A id \in RunIds : /\ order[id] \in Nat /\ order'[id] \in Nat
                                 /\ order[id] > 0 => order'[id] = order[id]
                                 /\ order[id] = 0 => order'[id] = 0 \/ order'[id] > appended
<1>1. appended \in Nat /\ order \in [RunIds -> Nat]
  BY DEF IndInv, TypeOK
<1>2. CASE UNCHANGED <<order, appended>>
  BY <1>1, <1>2
<1>3. ASSUME NEW w \in Workers, AppendRecord(w)
      PROVE  appended' = appended + 1 /\ order[run[w]] = 0
             /\ order' = [order EXCEPT ![run[w]] = appended + 1]
  BY <1>3 DEF AppendRecord, Goto, IndInv, RunInv
<1>4. UNCHANGED <<order, appended>> \/ \E w \in Workers : AppendRecord(w)
  BY DEF Next, vars, recordVars, PersistCliRun, Record, Get, Abort, LookUp, CheckSnapshot, ReadSnapshot,
         AcquireIndexLock, SkipRetention, BeginPrune, TruncateIndex, RewriteLine,
         ReleaseIndexLock, PersistRun, WriteSnapshot, PruneOldest
<1> QED
  BY <1>1, <1>2, <1>3, <1>4

-----------------------------------------------------------------------------
(***************************************************************************)
(* Types.                                                                  *)
(***************************************************************************)

\* A step of a script that leaves the root alone leaves these alone.
LEMMA HistoryTypeFrame == TypeOK /\ UNCHANGED historyVars => TypeOK'
BY DEF TypeOK, historyVars, vars, diskVars, indexVars, workVars, readVars, recordVars

\* So do steps that leave the root alone.
LEMMA HistoryFrame ==
    ASSUME UNCHANGED historyVars
    PROVE  Content' = Content /\ (HistoryOK => HistoryOK')
<1>1. Content' = Content
  BY DEF Content, historyVars, vars, diskVars, indexVars
<1>2. HistoryOK => HistoryOK'
  BY HistoryStep DEF historyVars
<1> QED
  BY <1>1, <1>2

\* One archive is replaced by another.
ArchiveBecomes(k, a) == k \in DOMAIN archives /\ archives' = [archives EXCEPT ![k] = a]

\* An archive that grows leaves the others as they are.
LEMMA ArchiveUpdate ==
    ASSUME archives \in Seq(Archives), NEW k \in DOMAIN archives, NEW a \in Archives,
           ArchiveBecomes(k, a)
    PROVE  /\ archives' \in Seq(Archives)
           /\ DOMAIN archives' = DOMAIN archives /\ archives'[k] = a
           /\ \A n \in DOMAIN archives : n # k => archives'[n] = archives[n]
BY DEF ArchiveBecomes

\* A step of tar adds to the archive it writes, and to nothing else.
Walks(p) ==
    /\ archives' \in Seq(Archives) /\ DOMAIN archives' = DOMAIN archives
    /\ \A n \in DOMAIN archives : n # archive[p] => archives'[n] = archives[n]
    /\ archives'[archive[p]].state = archives[archive[p]].state
    /\ archives'[archive[p]].place = archives[archive[p]].place
    /\ archives'[archive[p]].known = archives[archive[p]].known
    /\ ~archives'[archive[p]].excused => ~archives[archive[p]].excused
    /\ archives'[archive[p]].excused \/ Collected(archives'[archive[p]])

\* A recorded run is retained or counted out.
LEMMA RetainedOrExpired ==
    ASSUME TypeOK, NEW id \in RunIds, order[id] > 0
    PROVE  Retained(id) \/ Expired(id)
BY DEF Retained, Recorded

\* Each step of tar keeps what it has collected faithful: reading the index,
LEMMA ArchiveIndexStep ==
    ASSUME BInv, NEW p \in Operators, ArchiveIndex(p) PROVE Walks(p)
<1> DEFINE k == archive[p]
           a == [archives[k] EXCEPT
                    !.image = [index |-> index, garbled |-> garbled, torn |-> torn,
                               bundles |-> @.bundles, snapshots |-> @.snapshots],
                    !.read = @ \cup {"history"},
                    !.excused = @ \/ damaged \/ \E w \in Workers : pc[w] = "rewriting"]
<1>1. k \in DOMAIN archives /\ archives[k] \in Archives /\ archives \in Seq(Archives)
  BY DEF ArchiveIndex, ScriptInv, Exits, BInv, BackupTypeOK
<1>2. ArchiveBecomes(k, a)
  BY <1>1 DEF ArchiveIndex, ArchiveBecomes, Mine
<1>3. /\ a \in Archives /\ a.state = archives[k].state /\ a.place = archives[k].place
      /\ a.known = archives[k].known /\ a.since = archives[k].since
      /\ a.read = archives[k].read \cup {"history"} /\ a.unread = archives[k].unread
      /\ a.image.index = index /\ a.image.snapshots = archives[k].image.snapshots
      /\ a.excused = (archives[k].excused \/ damaged \/ \E w \in Workers : pc[w] = "rewriting")
  BY <1>1 DEF Archives, Contents, BInv, BackupTypeOK, TypeOK
<1> HIDE DEF a
<1>4. ASSUME ~a.excused PROVE Collected(a)
  <2>1. before = {} /\ Collected(archives[k]) /\ HistoryOK
    BY <1>3, <1>4 DEF ArchiveIndex, BInv, WalkInv, ScriptInv, Mine
  <2>2. \A id \in RunIds : Retained(id) => InLine(index, id)
    BY <1>3, <1>4, <2>1 DEF HistoryOK, IndInv, ListedInv, Indexed
  <2>3. \A i \in 1..Len(index) : order[index[i]] > 0
    BY <2>1 DEF HistoryOK, IndInv, IndexInv, InOrder
  <2>4. \A id \in archives[k].known : id \in RunIds /\ order[id] > 0
    BY <1>1, <2>1 DEF Collected, Archives
  <2>5. \A id \in archives[k].known : Expired(id) \/ InLine(index, id)
    BY <2>2, <2>4, RetainedOrExpired DEF BInv, BackupTypeOK
  <2> QED
    BY <1>3, <2>1, <2>3, <2>5 DEF Collected
<1> QED
  BY <1>1, <1>2, <1>3, <1>4, ArchiveUpdate DEF Walks

\* listing the run directories,
LEMMA ListRunsStep ==
    ASSUME BInv, NEW p \in Operators, ListRuns(p) PROVE Walks(p)
<1> DEFINE k == archive[p]
           a == [archives[k] EXCEPT
                    !.listed = bundles, !.unread = bundles, !.read = @ \cup {"listing"}]
<1>1. k \in DOMAIN archives /\ archives[k] \in Archives /\ archives \in Seq(Archives)
  BY DEF ListRuns, ScriptInv, Exits, BInv, BackupTypeOK
<1>2. ArchiveBecomes(k, a)
  BY <1>1 DEF ListRuns, ArchiveBecomes, Mine
<1>3. /\ a \in Archives /\ a.state = archives[k].state /\ a.place = archives[k].place
      /\ a.known = archives[k].known /\ a.since = archives[k].since
      /\ a.read = archives[k].read \cup {"listing"} /\ a.unread = bundles
      /\ a.image = archives[k].image /\ a.excused = archives[k].excused
  BY <1>1 DEF Archives, BInv, BackupTypeOK, TypeOK
<1> HIDE DEF a
<1>4. ASSUME ~a.excused PROVE Collected(a)
  <2>1. before = {} /\ Collected(archives[k]) /\ HistoryOK /\ "listing" \notin archives[k].read
    BY <1>3, <1>4 DEF ListRuns, BInv, WalkInv, ScriptInv, Mine
  <2>2. \A id \in archives[k].known : id \in RunIds /\ order[id] > 0
    BY <1>1, <2>1 DEF Collected, Archives
  <2>3. \A id \in RunIds : Retained(id) => id \in bundles
    BY <2>1 DEF HistoryOK, IndInv, RetainedRunsKeepSnapshots, BundleInv
  <2>4. \A id \in archives[k].known : Expired(id) \/ id \in bundles
    BY <2>2, <2>3, RetainedOrExpired DEF BInv, BackupTypeOK
  <2> QED
    BY <1>3, <2>1, <2>4 DEF Collected
<1> QED
  BY <1>1, <1>2, <1>3, <1>4, ArchiveUpdate DEF Walks

\* reading one of them,
LEMMA ArchiveRunStep ==
    ASSUME BInv, NEW p \in Operators, ArchiveRun(p) PROVE Walks(p)
<1>1. PICK id \in Mine(p).unread :
         archives' = [archives EXCEPT ![archive[p]] = [Mine(p) EXCEPT
             !.unread = @ \ {id},
             !.image.bundles = @ \cup ({id} \cap bundles),
             !.image.snapshots = @ \cup ({id} \cap snapshots)]]
  BY DEF ArchiveRun
<1> DEFINE k == archive[p]
           a == [archives[k] EXCEPT
                    !.unread = @ \ {id},
                    !.image.bundles = @ \cup ({id} \cap bundles),
                    !.image.snapshots = @ \cup ({id} \cap snapshots)]
<1>2. k \in DOMAIN archives /\ archives[k] \in Archives /\ archives \in Seq(Archives)
  BY DEF ArchiveRun, ScriptInv, Exits, BInv, BackupTypeOK
<1>3. ArchiveBecomes(k, a)
  BY <1>1, <1>2 DEF ArchiveBecomes, Mine
<1>4. id \in RunIds /\ id \in archives[k].unread /\ bundles \subseteq RunIds /\ snapshots \subseteq RunIds
  BY <1>1, <1>2 DEF Mine, Archives, BInv, BackupTypeOK, TypeOK
<1>5. /\ a \in Archives /\ a.state = archives[k].state /\ a.place = archives[k].place
      /\ a.known = archives[k].known /\ a.since = archives[k].since
      /\ a.read = archives[k].read /\ a.unread = archives[k].unread \ {id}
      /\ a.image.index = archives[k].image.index /\ a.excused = archives[k].excused
      /\ a.image.snapshots = archives[k].image.snapshots \cup ({id} \cap snapshots)
  BY <1>2, <1>4 DEF Archives, Contents
<1> HIDE DEF a
<1>6. ASSUME ~a.excused PROVE Collected(a)
  <2>1. before = {} /\ Collected(archives[k]) /\ HistoryOK
    BY <1>5, <1>6 DEF ArchiveRun, BInv, WalkInv, ScriptInv, Mine
  <2>2. \A x \in archives[k].known : x \in RunIds /\ order[x] > 0
    BY <1>2, <2>1 DEF Collected, Archives
  <2>3. \A x \in RunIds : Retained(x) => x \in snapshots
    BY <2>1 DEF HistoryOK, IndInv, RetainedRunsKeepSnapshots
  <2>4. \A x \in archives[k].known : Expired(x) \/ x \in snapshots
    BY <2>2, <2>3, RetainedOrExpired DEF BInv, BackupTypeOK
  <2>5. "listing" \in a.read =>
           \A x \in a.known : Expired(x) \/ x \in a.unread \cup a.image.snapshots
    BY <1>5, <2>1, <2>4 DEF Collected
  <2> QED
    BY <1>4, <1>5, <2>1, <2>5 DEF Collected
<1> QED
  BY <1>2, <1>3, <1>5, <1>6, ArchiveUpdate DEF Walks

\* and looking at runs/ again.
LEMMA LeaveRunsStep ==
    ASSUME BInv, NEW p \in Operators, LeaveRuns(p) PROVE Walks(p)
<1> DEFINE k == archive[p]
           a == [archives[k] EXCEPT
                    !.read = @ \cup {"runs"}, !.changed = (bundles # Mine(p).listed)]
<1>1. k \in DOMAIN archives /\ archives[k] \in Archives /\ archives \in Seq(Archives)
  BY DEF LeaveRuns, ScriptInv, Exits, BInv, BackupTypeOK
<1>2. ArchiveBecomes(k, a)
  BY <1>1 DEF LeaveRuns, ArchiveBecomes, Mine
<1>3. /\ a \in Archives /\ a.state = archives[k].state /\ a.place = archives[k].place
      /\ a.known = archives[k].known /\ a.since = archives[k].since
      /\ a.read = archives[k].read \cup {"runs"} /\ a.unread = archives[k].unread
      /\ a.image = archives[k].image /\ a.excused = archives[k].excused
  BY <1>1 DEF Archives
<1> HIDE DEF a
<1>4. ASSUME ~a.excused PROVE Collected(a)
  <2>1. Collected(archives[k]) /\ "listing" \in archives[k].read /\ archives[k].unread = {}
    BY <1>3, <1>4 DEF LeaveRuns, BInv, WalkInv, Mine
  <2> QED
    BY <1>3, <2>1 DEF Collected
<1> QED
  BY <1>1, <1>2, <1>3, <1>4, ArchiveUpdate DEF Walks

\* tar adds to one archive.
TarWalks(p) == ArchiveIndex(p) \/ ListRuns(p) \/ ArchiveRun(p) \/ LeaveRuns(p)

\* So tar at work preserves the invariant.
LEMMA WalkStep ==
    ASSUME BInv, NEW p \in Operators, TarWalks(p) PROVE BInv'
<1>1. /\ Walks(p) /\ script[p] = "tarring"
      /\ UNCHANGED <<historyVars, online, scriptVars, restoreVars, failures>>
  <2>1. Walks(p)
    BY ArchiveIndexStep, ListRunsStep, ArchiveRunStep, LeaveRunsStep DEF TarWalks
  <2> QED
    BY <2>1 DEF TarWalks, ArchiveIndex, ListRuns, ArchiveRun, LeaveRuns
<1>2. BackupTypeOK'
  BY <1>1, HistoryTypeFrame DEF Walks, BInv, BackupTypeOK, scriptVars, restoreVars, Contents
<1>3. archive[p] \in DOMAIN archives /\ archives[archive[p]].state # "verified"
      /\ archive' = archive /\ script' = script /\ source' = source
  BY <1>1 DEF BInv, ScriptInv, Exits, Mine, scriptVars
<1>4. \A n \in DOMAIN archives : archives'[n].state = archives[n].state
                                /\ archives'[n].place = archives[n].place
  BY <1>1 DEF Walks
<1>5. ScriptInv'
  <2>1. DOMAIN archives' = DOMAIN archives /\ before' = before /\ online' = online
        /\ present' = present
    BY <1>1 DEF Walks, restoreVars
  <2>2. \A q \in Operators : script[q] \notin Exits => q = p
    BY <1>1 DEF BInv, ScriptInv, Exits
  <2>3. \A q \in Operators : script[q] \in {"tarring", "tarred"} => Mine(q)'.state # "verified"
    BY <1>3, <1>4, <2>2 DEF Exits, Mine
  <2>4. HistoryOK => HistoryOK'
    BY <1>1, HistoryFrame
  <2> QED
    BY <1>3, <2>1, <2>3, <2>4 DEF BInv, ScriptInv
<1>6. WalkInv'
  <2>1. \A q \in Operators : script[q] = "tarring" => q = p
    BY <1>1 DEF BInv, ScriptInv, Exits
  <2>2. Collected(archives'[archive[p]]) => Collected(Mine(p))'
    BY <1>1, <1>3 DEF Collected, Mine, Expired, InLine, historyVars, vars, recordVars
  <2>3. ~archives'[archive[p]].excused => before = {}
    BY <1>1, <1>3 DEF Walks, BInv, WalkInv, Mine
  <2> QED
    BY <1>1, <1>3, <2>1, <2>2, <2>3 DEF Walks, WalkInv, Mine, restoreVars
<1>7. DoneInv'
  <2>1. ASSUME NEW n \in DOMAIN archives, n # archive[p], Faithful(archives[n])
        PROVE  Faithful(archives[n])'
    BY <1>1, <2>1 DEF Walks, Faithful, HoldsKnownRuns, DanglingIsExplained, InLine, historyVars, vars, recordVars
  <2>2. ASSUME NEW n \in DOMAIN archives', archives'[n].state = "verified"
        PROVE  Faithful(archives[n])'
    BY <1>1, <1>3, <1>4, <2>1, <2>2 DEF Walks, BInv, DoneInv
  <2>3. \A q \in Operators : script[q] # "tarred"
    BY <1>1 DEF BInv, ScriptInv, Exits
  <2> QED
    BY <1>3, <2>2, <2>3 DEF DoneInv
<1>8. RestoreInv'
  BY <1>1, <1>3, <1>4, HistoryFrame DEF BInv, RestoreInv, ScriptInv, Exits, AtHand, Mine, restoreVars
<1> QED
  BY <1>2, <1>5, <1>6, <1>7, <1>8 DEF BInv

-----------------------------------------------------------------------------
(***************************************************************************)
(* The API, and the beginning of a backup.                                 *)
(***************************************************************************)

\* Initially there is no archive and no script at work.
LEMMA InitBInv == BackupInit => BInv
<1> SUFFICES ASSUME BackupInit PROVE BInv
  OBVIOUS
<1>1. IndInv /\ TypeOK /\ BundleInv
  BY InitIndInv DEF BackupInit, Init, BundleInv, IndInv
<1>2. archives \in Seq(Archives) /\ DOMAIN archives = {}
  BY EmptySeq DEF BackupInit
<1>3. BackupTypeOK
  BY <1>1, <1>2 DEF BackupInit, BackupTypeOK, Stages, Exits, Places
<1>4. \A p \in Operators : script[p] = "idle"
  BY DEF BackupInit
<1>5. ScriptInv
  BY <1>1, <1>4 DEF BackupInit, ScriptInv, HistoryOK, Exits
<1> QED
  BY <1>2, <1>3, <1>4, <1>5 DEF BackupInit, BInv, WalkInv, DoneInv, RestoreInv

\* A run that retention has counted out stays so.
LEMMA ExpiredStays ==
    ASSUME IndInv, [Next]_vars, NEW id \in RunIds, order[id] > 0, Expired(id)
    PROVE  order'[id] = order[id] /\ Expired(id)'
<1>1. /\ order'[id] = order[id] /\ order[id] \in Nat
      /\ appended \in Nat /\ appended' \in Nat /\ appended <= appended'
  BY OrderStep
<1> QED
  BY <1>1, LimitAssumption DEF Expired

\* What tar has collected stays so while the API goes on.
LEMMA CollectedStays ==
    ASSUME IndInv, [Next]_vars, NEW a \in Archives, Collected(a) PROVE Collected(a)'
<1>1. /\ a.since \in Nat /\ a.known \subseteq RunIds
      /\ \A i \in 1..Len(a.image.index) : a.image.index[i] \in RunIds
  BY DEF Archives, Contents
<1>2. \A id \in RunIds : order[id] > 0 /\ Expired(id) => Expired(id)'
  BY ExpiredStays
<1>3. a.since <= appended'
  BY <1>1, OrderStep DEF Collected
<1>4. \A id \in a.known : order'[id] > 0 /\ order'[id] <= a.since
  BY <1>1, OrderStep DEF Collected
<1>5. ASSUME NEW id \in RunIds, order'[id] > 0, order'[id] <= a.since
      PROVE  id \in a.known \/ Expired(id)'
  <2>1. order[id] > 0 /\ order'[id] = order[id]
    BY <1>1, <1>5, OrderStep DEF Collected
  <2> QED
    BY <1>2, <1>5, <2>1 DEF Collected
<1>6. \A i \in 1..Len(a.image.index) : order'[a.image.index[i]] > 0
  BY <1>1, OrderStep DEF Collected
<1>7. \A id \in a.known : Expired(id) => Expired(id)'
  BY <1>1, <1>2 DEF Collected
<1> QED
  BY <1>3, <1>4, <1>5, <1>6, <1>7 DEF Collected

\* A finished archive stays as good as it was.
LEMMA FaithfulStays ==
    ASSUME IndInv, [Next]_vars, NEW a \in Archives, Faithful(a) PROVE Faithful(a)'
<1>1. a.since \in Nat /\ \A i \in 1..Len(a.image.index) : a.image.index[i] \in RunIds
  BY DEF Archives, Contents
<1>2. \A id \in RunIds : order[id] > a.since => order'[id] > a.since
  BY <1>1, OrderStep
<1> QED
  BY <1>1, <1>2 DEF Faithful, HoldsKnownRuns, DanglingIsExplained, InLine

\* What the API records and prunes preserves the invariant, tar at work or not.
LEMMA ServeStep ==
    ASSUME BInv, ServeRequests PROVE BInv'
<1>1. /\ before = {} /\ HistoryOK /\ IndInv /\ [Next]_vars /\ HistoryOK'
  BY HistoryStep DEF ServeRequests, BInv, ScriptInv, HistoryOK
<1>2. /\ UNCHANGED <<online, script, archive, source, archives, present, aside, before, failures>>
  BY DEF ServeRequests, backupVars, scriptVars, restoreVars
<1>3. BackupTypeOK'
  <2>1. TypeOK'
    BY <1>1 DEF HistoryOK, IndInv
  <2> QED
    BY <1>2, <2>1 DEF BInv, BackupTypeOK, Contents
<1>4. ScriptInv'
  BY <1>1, <1>2 DEF BInv, ScriptInv, Mine
<1>5. \A n \in DOMAIN archives : archives[n] \in Archives
  BY DEF BInv, BackupTypeOK
<1>6. WalkInv'
  <2> SUFFICES ASSUME NEW p \in Operators, script[p] = "tarring", ~archives[archive[p]].excused
               PROVE  Collected(archives[archive[p]])'
    BY <1>1, <1>2 DEF WalkInv, Mine
  <2>1. archives[archive[p]] \in Archives /\ Collected(archives[archive[p]])
    BY <1>5 DEF BInv, WalkInv, ScriptInv, Exits, Mine
  <2> DEFINE a == archives[archive[p]]
  <2>2. \A x \in Archives : Collected(x) => Collected(x)'
    BY <1>1, CollectedStays
  <2> QED
    BY <1>2, <2>1, <2>2 DEF Collected, InLine, Expired
<1>7. DoneInv'
  <2>1. \A x \in Archives : Faithful(x) => Faithful(x)'
    BY <1>1, FaithfulStays
  <2>2. ASSUME NEW n \in DOMAIN archives, Faithful(archives[n]) PROVE Faithful(archives[n])'
    BY <1>2, <1>5, <2>1, <2>2 DEF Faithful, HoldsKnownRuns, DanglingIsExplained, InLine
  <2>3. ASSUME NEW p \in Operators, script[p] = "tarred" PROVE Faithful(Mine(p))'
    BY <1>2, <2>2, <2>3 DEF BInv, DoneInv, ScriptInv, Exits, Mine
  <2> QED
    BY <1>2, <2>2, <2>3 DEF BInv, DoneInv
<1>8. RestoreInv'
  BY <1>1, <1>2 DEF BInv, RestoreInv, ScriptInv
<1> QED
  BY <1>3, <1>4, <1>6, <1>7, <1>8 DEF BInv

\* What tar has collected, and a finished archive, depend on the records alone.
LEMMA RecordsFrame ==
    ASSUME UNCHANGED recordVars, UNCHANGED archives, NEW n \in DOMAIN archives
    PROVE  /\ Collected(archives[n]) => Collected(archives[n])'
           /\ Faithful(archives[n]) => Faithful(archives[n])'
BY DEF recordVars, Collected, Expired, Faithful, HoldsKnownRuns, DanglingIsExplained, InLine

\* So does stopping the API,
LEMMA StopStep ==
    ASSUME BInv, StopApi PROVE BInv'
<1>1. /\ UNCHANGED <<script, archive, source, archives, present, aside, before, failures>>
      /\ UNCHANGED historyVars /\ UNCHANGED recordVars /\ online' = FALSE
  BY DEF StopApi, scriptVars, restoreVars, historyVars, vars
<1>2. BackupTypeOK'
  BY <1>1, HistoryTypeFrame DEF BInv, BackupTypeOK, Contents
<1>3. ScriptInv'
  BY <1>1, HistoryFrame DEF BInv, ScriptInv, Mine
<1>4. WalkInv'
  BY <1>1, RecordsFrame DEF BInv, WalkInv, ScriptInv, Exits, Mine
<1>5. DoneInv'
  BY <1>1, RecordsFrame DEF BInv, DoneInv, ScriptInv, Exits, Mine
<1>6. RestoreInv'
  BY <1>1, HistoryFrame DEF BInv, RestoreInv, AtHand, Mine
<1> QED
  BY <1>2, <1>3, <1>4, <1>5, <1>6 DEF BInv

\* the start of a backup,
LEMMA StartStep ==
    ASSUME BInv, NEW p \in Operators, NEW place \in BackupPlaces, StartBackup(p, place)
    PROVE  BInv'
<1> DEFINE a == [New(place) EXCEPT !.known = {id \in RunIds : Retained(id)}, !.since = appended]
           k == Len(archives) + 1
<1>1. /\ UNCHANGED <<online, source, present, aside, before, failures>>
      /\ UNCHANGED historyVars /\ UNCHANGED recordVars
      /\ \A q \in Operators : script[q] \in Exits
      /\ script' = [script EXCEPT ![p] = "tarring"]
      /\ archive' = [archive EXCEPT ![p] = k]
      /\ archives' = Append(archives, a)
  BY DEF StartBackup, restoreVars, historyVars, vars
<1>2. Empty \in Contents /\ Len(Empty.index) = 0
  BY EmptySeq DEF Contents, Empty
<1>3. /\ a \in Archives /\ a.state = "partial" /\ a.read = {} /\ a.excused = (before # {})
      /\ a.known = {id \in RunIds : Retained(id)} /\ a.since = appended
      /\ a.image.index = Empty.index
  BY <1>2, PlacesAssumption DEF New, Archives, Places, BInv, BackupTypeOK, TypeOK
<1> HIDE DEF a
<1>4. /\ archives \in Seq(Archives) /\ script \in [Operators -> Stages]
      /\ archive \in [Operators -> Nat]
  BY DEF BInv, BackupTypeOK
<1>5. /\ archives' \in Seq(Archives) /\ DOMAIN archives' = DOMAIN archives \cup {k}
      /\ k \in DOMAIN archives' /\ archives'[k] = a
      /\ \A n \in DOMAIN archives : archives'[n] = archives[n]
      /\ k \in Nat
  BY <1>1, <1>3, <1>4
<1>6. /\ archive' \in [Operators -> Nat] /\ archive'[p] = k
      /\ script' \in [Operators -> Stages] /\ script'[p] = "tarring"
      /\ \A q \in Operators : q # p => script'[q] \in Exits
  BY <1>1, <1>4, <1>5 DEF Stages
<1>7. BackupTypeOK'
  BY <1>1, <1>5, <1>6, HistoryTypeFrame DEF BInv, BackupTypeOK, Contents
<1>8. ScriptInv'
  <2>1. Mine(p)'.state # "verified"
    BY <1>3, <1>5, <1>6 DEF Mine
  <2>2. HistoryOK => HistoryOK'
    BY <1>1, HistoryFrame
  <2> QED
    BY <1>1, <1>5, <1>6, <2>1, <2>2 DEF BInv, ScriptInv, Exits
<1>9. WalkInv'
  <2> SUFFICES ASSUME ~a.excused PROVE before' = {} /\ Collected(archives'[k])
    <3>1. Collected(archives'[k]) => Collected(Mine(p))'
      BY <1>1, <1>6 DEF Collected, Mine, Expired, InLine, recordVars
    <3> QED
      BY <1>3, <1>5, <1>6, <3>1 DEF WalkInv, Mine, Exits
  <2>1. before = {} /\ HistoryOK
    BY <1>3 DEF BInv, ScriptInv
  <2>2. appended \in Nat /\ order \in [RunIds -> Nat] /\ \A id \in RunIds : order[id] <= appended
    BY <2>1 DEF HistoryOK, IndInv, TypeOK, OrderInv
  <2>3. Collected(a)
    BY <1>2, <1>3, <2>2 DEF Collected, Retained, Recorded
  <2> QED
    BY <1>1, <1>5, <2>1, <2>3
<1>10. DoneInv'
  <2>1. ASSUME NEW n \in DOMAIN archives, Faithful(archives[n]) PROVE Faithful(archives[n])'
    BY <1>1, <1>5, <2>1 DEF Faithful, HoldsKnownRuns, DanglingIsExplained, InLine, recordVars
  <2> QED
    BY <1>3, <1>5, <1>6, <2>1 DEF BInv, DoneInv, Exits
<1>11. RestoreInv'
  BY <1>1, <1>6, HistoryFrame DEF BInv, RestoreInv, Exits
<1> QED
  BY <1>7, <1>8, <1>9, <1>10, <1>11 DEF BInv

-----------------------------------------------------------------------------
(***************************************************************************)
(* The end of a backup.                                                    *)
(***************************************************************************)

\* A script leaves its archive as the properties want it.
Ends(p, to) ==
    /\ script[p] \in {"tarring", "tarred"} /\ to \in {"tarred", "succeeded", "failed"}
    /\ script' = [script EXCEPT ![p] = to]
    /\ UNCHANGED <<historyVars, online, archive, source, restoreVars>> /\ failures' \in Nat
    /\ archives' \in Seq(Archives) /\ DOMAIN archives' = DOMAIN archives
    /\ \A n \in DOMAIN archives : n # archive[p] => archives'[n] = archives[n]
    /\ to = "tarred" => archives'[archive[p]].state # "verified"
    /\ to = "tarred" \/ archives'[archive[p]].state = "verified" => Faithful(archives'[archive[p]])

\* and a script that ends, however it does.
LEMMA EndStep ==
    ASSUME BInv, NEW p \in Operators, NEW to, Ends(p, to) PROVE BInv'
<1>1. /\ UNCHANGED <<online, archive, source, present, aside, before>>
      /\ UNCHANGED historyVars /\ UNCHANGED recordVars
      /\ script' = [script EXCEPT ![p] = to] /\ script \in [Operators -> Stages]
  BY DEF Ends, restoreVars, historyVars, vars, BInv, BackupTypeOK
<1>2. /\ \A q \in Operators : q # p => script[q] \in Exits
      /\ archive[p] \in DOMAIN archives
  BY DEF Ends, Exits, BInv, ScriptInv
<1>3. /\ script' \in [Operators -> Stages] /\ script'[p] = to
      /\ to \in {"tarred", "succeeded", "failed"}
      /\ \A q \in Operators : q # p => script'[q] \in Exits
  BY <1>1, <1>2 DEF Ends, Stages, Exits
<1>4. BackupTypeOK'
  BY <1>1, <1>3, HistoryTypeFrame DEF Ends, BInv, BackupTypeOK, Contents
<1>5. ScriptInv'
  <2>1. to = "tarred" => Mine(p)'.state # "verified"
    BY <1>1 DEF Ends, Mine
  <2>2. HistoryOK => HistoryOK'
    BY <1>1, HistoryFrame
  <2> QED
    BY <1>1, <1>2, <1>3, <2>1, <2>2 DEF Ends, BInv, ScriptInv, Exits
<1>6. WalkInv'
  BY <1>3 DEF WalkInv, Exits
<1>7. DoneInv'
  <2>1. ASSUME NEW n \in DOMAIN archives, n # archive[p], Faithful(archives[n])
        PROVE  Faithful(archives[n])'
    BY <1>1, <2>1 DEF Ends, Faithful, HoldsKnownRuns, DanglingIsExplained, InLine, recordVars
  <2>2. Faithful(archives'[archive[p]]) => Faithful(archives[archive[p]])'
    BY <1>1 DEF Faithful, HoldsKnownRuns, DanglingIsExplained, InLine, recordVars
  <2>3. \A n \in DOMAIN archives' : archives'[n].state = "verified" => Faithful(archives[n])'
    BY <2>1, <2>2 DEF Ends, BInv, DoneInv
  <2>4. to = "tarred" => Faithful(Mine(p))'
    BY <1>1, <2>2 DEF Ends, Mine
  <2> QED
    BY <1>3, <2>3, <2>4 DEF DoneInv, Exits
<1>8. RestoreInv'
  BY <1>1, <1>3, HistoryFrame DEF BInv, RestoreInv, Exits
<1> QED
  BY <1>4, <1>5, <1>6, <1>7, <1>8 DEF BInv

\* The walk has seen the index and every directory: what it has collected is
\* what the properties want of an archive.
LEMMA EndTarStep ==
    ASSUME BInv, NEW p \in Operators, EndTar(p) PROVE Ends(p, "tarred")
<1> DEFINE k == archive[p]
           a == [Closed(archives[k], "whole") EXCEPT !.expired = {id \in RunIds : Expired(id)}]
<1>1. k \in DOMAIN archives /\ archives[k] \in Archives /\ archives \in Seq(Archives)
  BY DEF EndTar, Enter, ScriptInv, Exits, BInv, BackupTypeOK
<1>2. ArchiveBecomes(k, a)
  BY <1>1 DEF EndTar, ArchiveBecomes
<1>3. /\ a \in Archives /\ a.state = "whole" /\ a.image = archives[k].image
      /\ a.known = archives[k].known /\ a.since = archives[k].since
      /\ a.expired = {id \in RunIds : Expired(id)} /\ a.excused = archives[k].excused
  BY <1>1 DEF Closed, Archives
<1> HIDE DEF a
<1>4. Faithful(a)
  <2> SUFFICES ASSUME ~a.excused
               PROVE  HoldsKnownRuns(a) /\ DanglingIsExplained(a)
    BY DEF Faithful, HoldsKnownRuns, DanglingIsExplained
  <2>1. Collected(archives[k]) /\ HistoryOK
    BY <1>3 DEF EndTar, Enter, BInv, WalkInv, ScriptInv, Mine
  <2>2. {"history", "listing", "runs"} \subseteq archives[k].read /\ archives[k].unread = {}
    BY <2>1 DEF EndTar, TarIsThrough, Collected, Mine
  <2>3. /\ archives[k].known \subseteq RunIds /\ archives[k].since \in Nat
        /\ order \in [RunIds -> Nat]
        /\ \A i \in 1..Len(a.image.index) : a.image.index[i] \in RunIds
    BY <1>1, <1>3 DEF Archives, Contents, BInv, BackupTypeOK, TypeOK
  <2>4. HoldsKnownRuns(a)
    BY <1>3, <2>1, <2>2, <2>3 DEF Collected, HoldsKnownRuns
  <2>5. \A i \in 1..Len(a.image.index) :
           \/ order[a.image.index[i]] > a.since
           \/ a.image.index[i] \in a.known \/ a.image.index[i] \in a.expired
    BY <1>3, <2>1, <2>3 DEF Collected
  <2>6. \A id \in a.known : id \in a.expired \/ id \in a.image.snapshots
    BY <1>3, <2>1, <2>2, <2>3 DEF Collected
  <2>7. DanglingIsExplained(a)
    BY <2>5, <2>6 DEF DanglingIsExplained
  <2> QED
    BY <2>4, <2>7
<1> QED
  BY <1>1, <1>2, <1>3, <1>4, ArchiveUpdate DEF EndTar, Enter, Ends, BInv, BackupTypeOK

\* A tar that saw its directory change, or that was killed, leaves no archive
\* with a manifest.
LEMMA AbandonStep ==
    ASSUME BInv, NEW p \in Operators, EndChangedTar(p) \/ FailTar(p) PROVE Ends(p, "failed")
<1> DEFINE k == archive[p]
           whole  == [New(archives[k].place) EXCEPT !.state = "whole", !.image = archives[k].image,
                                                    !.excused = archives[k].excused]
           partial == New(archives[k].place)
<1>1. k \in DOMAIN archives /\ archives[k] \in Archives /\ archives \in Seq(Archives)
  BY DEF EndChangedTar, FailTar, Enter, ScriptInv, Exits, BInv, BackupTypeOK
<1>2. ArchiveBecomes(k, whole) \/ ArchiveBecomes(k, partial)
  BY <1>1 DEF EndChangedTar, FailTar, ArchiveBecomes, Mine
<1>3. Empty \in Contents
  BY EmptySeq DEF Contents, Empty
<1>4. /\ whole \in Archives /\ whole.state # "verified"
      /\ partial \in Archives /\ partial.state # "verified"
  BY <1>1, <1>3 DEF New, Archives
<1> HIDE DEF whole, partial
<1>5. failures' \in Nat
  BY DEF EndChangedTar, FailTar, BInv, BackupTypeOK
<1>6. PICK a \in Archives : ArchiveBecomes(k, a) /\ a.state # "verified"
  BY <1>2, <1>4
<1> QED
  BY <1>1, <1>5, <1>6, ArchiveUpdate DEF EndChangedTar, FailTar, Enter, Ends

\* The manifest is written for an archive of which tar had nothing to say.
LEMMA ManifestStep ==
    ASSUME BInv, NEW p \in Operators, WriteManifest(p) PROVE Ends(p, "succeeded")
<1> DEFINE k == archive[p]
           a == [archives[k] EXCEPT !.state = "verified"]
<1>1. k \in DOMAIN archives /\ archives[k] \in Archives /\ archives \in Seq(Archives)
  BY DEF WriteManifest, Enter, ScriptInv, Exits, BInv, BackupTypeOK
<1>2. ArchiveBecomes(k, a)
  BY <1>1 DEF WriteManifest, ArchiveBecomes, Mine
<1>3. /\ a \in Archives /\ a.image = archives[k].image
      /\ a.known = archives[k].known /\ a.since = archives[k].since
      /\ a.expired = archives[k].expired /\ a.excused = archives[k].excused
  BY <1>1 DEF Archives
<1> HIDE DEF a
<1>4. Faithful(archives[k])
  BY DEF WriteManifest, Enter, BInv, DoneInv, Mine
<1>5. Faithful(a)
  BY <1>3, <1>4 DEF Faithful, HoldsKnownRuns, DanglingIsExplained
<1> QED
  BY <1>1, <1>2, <1>3, <1>5, ArchiveUpdate
  DEF WriteManifest, Enter, Ends, BInv, BackupTypeOK

\* A script killed before it wrote the manifest.
LEMMA NoManifestStep ==
    ASSUME BInv, NEW p \in Operators, FailScript(p), script[p] = "tarred"
    PROVE  Ends(p, "failed")
<1>1. archive[p] \in DOMAIN archives /\ archives[archive[p]].state # "verified"
  BY DEF BInv, ScriptInv, Exits, Mine
<1> QED
  BY <1>1 DEF FailScript, Ends, BInv, BackupTypeOK

-----------------------------------------------------------------------------
(***************************************************************************)
(* Restores.                                                               *)
(***************************************************************************)

\* A restore is the only script at work, without an API, and rewrites no archive.
Restores(p, to) ==
    /\ \A q \in Operators : q # p => script[q] \in Exits
    /\ to \in {"checked", "moved", "succeeded", "failed"}
    /\ script' = [script EXCEPT ![p] = to]
    /\ archive'[p] \in DOMAIN archives
    /\ before' # {} /\ ~online' /\ UNCHANGED recordVars
    /\ DOMAIN archives' = DOMAIN archives
    /\ \A n \in DOMAIN archives :
          archives'[n] = archives[n] \/ archives'[n] = [archives[n] EXCEPT !.place = "aside"]

\* What every step of a restore leaves as it is.
LEMMA RestoreFrame ==
    ASSUME BInv, NEW p \in Operators, NEW to, Restores(p, to)
    PROVE  script' \in [Operators -> Stages] /\ ScriptInv' /\ WalkInv' /\ DoneInv'
<1>1. /\ script' \in [Operators -> Stages] /\ script'[p] = to
      /\ to \notin {"tarring", "tarred"}
      /\ \A q \in Operators : q # p => script'[q] \in Exits
  BY DEF Restores, Stages, Exits, BInv, BackupTypeOK
<1>2. \A n \in DOMAIN archives :
        /\ archives'[n].state = archives[n].state /\ archives'[n].image = archives[n].image
        /\ archives'[n].known = archives[n].known /\ archives'[n].since = archives[n].since
        /\ archives'[n].expired = archives[n].expired /\ archives'[n].excused = archives[n].excused
  <2>1. \A n \in DOMAIN archives : archives[n] \in Archives
    BY DEF BInv, BackupTypeOK
  <2>2. \A a \in Archives : LET b == [a EXCEPT !.place = "aside"] IN
           /\ b.state = a.state /\ b.image = a.image /\ b.known = a.known /\ b.since = a.since
           /\ b.expired = a.expired /\ b.excused = a.excused
    BY DEF Archives
  <2> QED
    BY <2>1, <2>2 DEF Restores
<1>3. ScriptInv'
  BY <1>1 DEF Restores, ScriptInv, Exits
<1>4. WalkInv'
  BY <1>1 DEF WalkInv, Exits
<1>5. ASSUME NEW n \in DOMAIN archives, Faithful(archives[n]) PROVE Faithful(archives[n])'
  BY <1>2, <1>5 DEF Restores, Faithful, HoldsKnownRuns, DanglingIsExplained, InLine, recordVars
<1>6. DoneInv'
  BY <1>1, <1>2, <1>5 DEF Restores, BInv, DoneInv, Exits
<1> QED
  BY <1>1, <1>3, <1>4, <1>6

\* A root that is replaced keeps its types,
LEMMA RootTyped ==
    ASSUME TypeOK, NEW c \in Contents, RootBecomes(c) PROVE TypeOK'
BY DEF TypeOK, RootBecomes, Contents, workVars, readVars, recordVars

\* and what it holds, an archive can hold.
LEMMA ContentTyped == TypeOK => Content \in Contents
BY DEF TypeOK, Content, Contents

\* The fields of an archive are typed,
LEMMA ArchiveFields ==
    ASSUME NEW a \in Archives
    PROVE  /\ a.place \in Places /\ a.image \in Contents
           /\ [a EXCEPT !.place = "aside"] \in Archives
BY DEF Archives, Places

\* and every archive is one.
LEMMA ArchiveTyped ==
    ASSUME BackupTypeOK, NEW n \in DOMAIN archives PROVE archives[n] \in Archives
BY DEF BackupTypeOK

\* A restore begins with its archive out of the root.
LEMMA BeginRestoreStep ==
    ASSUME BInv, NEW p \in Operators, NEW n \in DOMAIN archives, BeginRestore(p, n) PROVE BInv'
<1>1. /\ UNCHANGED <<online, archives, present, aside, failures>> /\ UNCHANGED historyVars
      /\ \A q \in Operators : script[q] \in Exits
      /\ script' = [script EXCEPT ![p] = "checked"] /\ archive' = [archive EXCEPT ![p] = n]
      /\ before' = IF present THEN before \cup {Content} ELSE before
  BY DEF BeginRestore
<1>2. /\ archives[n] \in Archives /\ archives[n].place \in Places /\ n \in Nat
      /\ script \in [Operators -> Stages] /\ archive \in [Operators -> Nat]
      /\ source \in [Operators -> Places \cup {"temp"}]
  <2>1. BackupTypeOK
    BY DEF BInv
  <2>2. n \in Nat
    BY <2>1 DEF BackupTypeOK
  <2> QED
    BY <2>1, <2>2, ArchiveTyped, ArchiveFields DEF BackupTypeOK
<1>3. Restores(p, "checked")
  <2>1. before' # {}
    BY <1>1 DEF BInv, ScriptInv
  <2> QED
    BY <1>1, <1>2, <2>1 DEF BeginRestore, Restores, historyVars, vars
<1>4. /\ source' \in [Operators -> Places \cup {"temp"}] /\ archive' \in [Operators -> Nat]
      /\ archive'[p] = n
      /\ source'[p] = IF archives[n].place = "root" THEN "temp" ELSE archives[n].place
  BY <1>1, <1>2 DEF BeginRestore
<1>5. BackupTypeOK'
  <2>1. TypeOK' /\ before' \in SUBSET Contents
    BY <1>1, HistoryTypeFrame, ContentTyped DEF BInv, BackupTypeOK
  <2> QED
    BY <1>1, <1>3, <1>4, <2>1, RestoreFrame DEF BInv, BackupTypeOK, Contents
<1>6. RestoreInv'
  <2>1. Content' = Content
    BY <1>1, HistoryFrame
  <2>2. \A c \in before' : c \in aside' \/ (present' /\ c = Content')
    BY <1>1, <2>1 DEF BInv, RestoreInv
  <2>3. /\ script'[p] = "checked"
        /\ \A q \in Operators : q # p => script'[q] \in Exits
    BY <1>1, <1>2
  <2>4. source'[p] = "temp" \/ (source'[p] # "root" /\ source'[p] = Mine(p)'.place)
    BY <1>1, <1>4 DEF Mine
  <2> QED
    BY <2>2, <2>3, <2>4 DEF RestoreInv, Exits
<1> QED
  BY <1>3, <1>5, <1>6, RestoreFrame DEF BInv

\* What is moved aside is what was there before.
LEMMA MoveAsideStep ==
    ASSUME BInv, NEW p \in Operators, MoveAside(p) PROVE BInv'
<1>1. /\ UNCHANGED <<online, archive, source, before, failures>>
      /\ script[p] = "checked" /\ script' = [script EXCEPT ![p] = "moved"]
      /\ RootBecomes(Empty) /\ present' = FALSE
      /\ aside' = IF present THEN aside \cup {Content} ELSE aside
      /\ archives' = [n \in DOMAIN archives |->
                         IF archives[n].place = "root"
                         THEN [archives[n] EXCEPT !.place = "aside"] ELSE archives[n]]
  BY DEF MoveAside, Enter
<1>2. /\ archive[p] \in DOMAIN archives /\ archives \in Seq(Archives)
      /\ script \in [Operators -> Stages]
      /\ \A q \in Operators : q # p => script[q] \in Exits
  BY <1>1 DEF BInv, BackupTypeOK, ScriptInv, Exits
<1>3. Restores(p, "moved")
  <2>1. before # {} /\ ~online
    BY <1>1 DEF BInv, BackupTypeOK, ScriptInv
  <2> QED
    BY <1>1, <1>2, <2>1 DEF Restores, RootBecomes
<1>4. archives' \in Seq(Archives)
  <2>1. \A n \in DOMAIN archives : archives'[n] \in Archives
    BY <1>1, ArchiveTyped, ArchiveFields DEF BInv
  <2>2. DOMAIN archives = 1..Len(archives) /\ Len(archives) \in Nat
    BY <1>2
  <2> QED
    BY <1>1, <2>1, <2>2, SeqDef
<1>5. BackupTypeOK'
  <2>1. Empty \in Contents
    BY EmptySeq DEF Contents, Empty
  <2>2. TypeOK'
    BY <1>1, <2>1, RootTyped DEF BInv, BackupTypeOK
  <2>3. aside' \in SUBSET Contents
    BY <1>1, ContentTyped DEF BInv, BackupTypeOK
  <2> QED
    BY <1>1, <1>3, <1>4, <2>2, <2>3, RestoreFrame DEF BInv, BackupTypeOK, Contents
<1>6. RestoreInv'
  <2>1. before' \subseteq aside'
    BY <1>1 DEF BInv, RestoreInv
  <2>2. \A n \in DOMAIN archives : archives[n].place # "root" => archives'[n] = archives[n]
    BY <1>1
  <2>3. source[p] = "temp" \/ (source[p] # "root" /\ source[p] = archives[archive[p]].place)
    BY <1>1 DEF BInv, RestoreInv, Mine
  <2>4. AtHand(p)'
    BY <1>1, <1>2, <2>2, <2>3 DEF AtHand, Mine
  <2>5. script'[p] = "moved" /\ \A q \in Operators : q # p => script'[q] \in Exits
    BY <1>1, <1>2
  <2> QED
    BY <2>1, <2>4, <2>5 DEF RestoreInv, Exits
<1> QED
  BY <1>3, <1>5, <1>6, RestoreFrame DEF BInv

\* What is extracted, all of it or some, goes into a root that was moved aside.
LEMMA ExtractStep ==
    ASSUME BInv, NEW p \in Operators, Extract(p) \/ FailExtract(p) PROVE BInv'
<1>1. PICK to \in {"succeeded", "failed"} :
         /\ UNCHANGED <<online, archive, source, archives, aside, before>>
         /\ UNCHANGED recordVars
         /\ script[p] = "moved" /\ script' = [script EXCEPT ![p] = to]
  BY DEF Extract, FailExtract, Enter, RootBecomes
<1>2. /\ archive[p] \in DOMAIN archives /\ archives \in Seq(Archives)
      /\ script \in [Operators -> Stages]
      /\ \A q \in Operators : q # p => script[q] \in Exits
  BY <1>1 DEF BInv, BackupTypeOK, ScriptInv, Exits
<1>3. Restores(p, to)
  <2>1. before # {} /\ ~online
    BY <1>1 DEF BInv, BackupTypeOK, ScriptInv
  <2> QED
    BY <1>1, <1>2, <2>1 DEF Restores
<1>4. BackupTypeOK'
  <2>1. Mine(p).image \in Contents
    BY <1>2, ArchiveTyped, ArchiveFields DEF BInv, Mine
  <2>2. PICK c \in Contents : RootBecomes(c)
    <3>1. CASE Extract(p)
      BY <2>1, <3>1 DEF Extract
    <3>2. CASE FailExtract(p)
      <4>1. PICK withIndex \in BOOLEAN, runs \in SUBSET Mine(p).image.bundles :
               RootBecomes([Mine(p).image EXCEPT
                 !.index = IF withIndex THEN @ ELSE <<>>,
                 !.garbled = @ /\ withIndex, !.torn = @ /\ withIndex,
                 !.bundles = runs, !.snapshots = @ \cap runs])
        BY <3>2 DEF FailExtract
      <4>2. <<>> \in Seq(RunIds)
        BY EmptySeq
      <4> QED
        BY <2>1, <4>1, <4>2 DEF Contents
    <3> QED
      BY <3>1, <3>2
  <2>3. TypeOK'
    BY <2>2, RootTyped DEF BInv, BackupTypeOK
  <2>4. failures' \in Nat
    <3>1. failures \in Nat
      BY DEF BInv, BackupTypeOK
    <3>2. CASE Extract(p)
      BY <3>1, <3>2 DEF Extract
    <3>3. CASE FailExtract(p)
      <4>1. failures' = failures + 1
        BY <3>3, Zenon DEF FailExtract
      <4> QED
        BY <3>1, <4>1
    <3> QED
      BY <3>2, <3>3
  <2>5. present' \in BOOLEAN
    <3>1. CASE Extract(p)
      BY <3>1 DEF Extract
    <3>2. CASE FailExtract(p)
      <4>1. PICK withIndex \in BOOLEAN, runs \in SUBSET Mine(p).image.bundles :
               present' = (withIndex \/ runs # {})
        BY <3>2 DEF FailExtract
      <4> QED
        BY <4>1
    <3> QED
      BY <3>1, <3>2
  <2> QED
    BY <1>1, <1>3, <2>3, <2>4, <2>5, RestoreFrame DEF BInv, BackupTypeOK, Contents
<1>5. RestoreInv'
  <2>1. before \subseteq aside
    BY <1>1 DEF BInv, RestoreInv
  <2>2. script'[p] = to /\ \A q \in Operators : q # p => script'[q] \in Exits
    BY <1>1, <1>2
  <2> QED
    BY <1>1, <2>1, <2>2 DEF RestoreInv, Exits
<1> QED
  BY <1>3, <1>4, <1>5, RestoreFrame DEF BInv

\* A restore killed before it moved anything has changed nothing.
LEMMA NoRestoreStep ==
    ASSUME BInv, NEW p \in Operators, FailScript(p), script[p] = "checked" PROVE BInv'
<1>1. /\ UNCHANGED <<online, archive, source, archives, present, aside, before>>
      /\ UNCHANGED historyVars /\ UNCHANGED recordVars
      /\ script' = [script EXCEPT ![p] = "failed"] /\ failures' = failures + 1
  BY DEF FailScript, restoreVars, historyVars, vars
<1>2. /\ archive[p] \in DOMAIN archives /\ script \in [Operators -> Stages]
      /\ \A q \in Operators : q # p => script[q] \in Exits
      /\ before # {} /\ ~online
  BY DEF BInv, BackupTypeOK, ScriptInv, Exits
<1>3. Restores(p, "failed")
  BY <1>1, <1>2 DEF Restores
<1>4. BackupTypeOK'
  BY <1>1, <1>3, HistoryTypeFrame, RestoreFrame DEF BInv, BackupTypeOK, Contents
<1>5. RestoreInv'
  <2>1. \A q \in Operators : script'[q] \in Exits
    BY <1>1, <1>2 DEF Exits
  <2> QED
    BY <1>1, <2>1, HistoryFrame DEF BInv, RestoreInv, Exits
<1> QED
  BY <1>3, <1>4, <1>5, RestoreFrame DEF BInv

-----------------------------------------------------------------------------
(***************************************************************************)
(* The theorems.                                                           *)
(***************************************************************************)

\* Each step preserves the invariant of backups and restores.
LEMMA NextBInv == BInv /\ [BackupNext]_bvars => BInv'
<1> SUFFICES ASSUME BInv, [BackupNext]_bvars PROVE BInv'
  OBVIOUS
<1>1. CASE UNCHANGED bvars
  <2>1. /\ UNCHANGED <<online, script, archive, source, archives, present, aside, before, failures>>
        /\ UNCHANGED historyVars /\ UNCHANGED recordVars
    BY <1>1 DEF bvars, backupVars, scriptVars, restoreVars, historyVars, vars
  <2>2. BackupTypeOK' /\ ScriptInv'
    BY <2>1, HistoryTypeFrame, HistoryFrame DEF BInv, BackupTypeOK, ScriptInv, Mine, Contents
  <2>3. WalkInv' /\ DoneInv'
    BY <2>1, RecordsFrame DEF BInv, WalkInv, DoneInv, ScriptInv, Exits, Mine
  <2>4. RestoreInv'
    BY <2>1, HistoryFrame DEF BInv, RestoreInv, AtHand, Mine
  <2> QED
    BY <2>2, <2>3, <2>4 DEF BInv
<1>2. CASE ServeRequests \/ StopApi
  BY <1>2, ServeStep, StopStep
<1>3. ASSUME NEW p \in Operators, NEW place \in BackupPlaces, StartBackup(p, place) PROVE BInv'
  BY <1>3, StartStep
<1>4. ASSUME NEW p \in Operators, NEW n \in DOMAIN archives, BeginRestore(p, n) PROVE BInv'
  BY <1>4, BeginRestoreStep
<1>5. ASSUME NEW p \in Operators, ScriptStep(p) PROVE BInv'
  <2>1. CASE TarWalks(p)
    BY <2>1, WalkStep
  <2>2. CASE EndTar(p)
    BY <2>2, EndTarStep, EndStep
  <2>3. CASE EndChangedTar(p) \/ FailTar(p)
    BY <2>3, AbandonStep, EndStep
  <2>4. CASE WriteManifest(p)
    BY <2>4, ManifestStep, EndStep
  <2>5. CASE FailScript(p)
    BY <2>5, NoManifestStep, EndStep, NoRestoreStep DEF FailScript
  <2>6. CASE MoveAside(p)
    BY <2>6, MoveAsideStep
  <2>7. CASE Extract(p) \/ FailExtract(p)
    BY <2>7, ExtractStep
  <2> QED
    BY <1>5, <2>1, <2>2, <2>3, <2>4, <2>5, <2>6, <2>7 DEF ScriptStep, TarWalks
<1> QED
  BY <1>1, <1>2, <1>3, <1>4, <1>5 DEF BackupNext

\* The inductive invariant of the backups holds of their specification.
THEOREM BackupInvariance == BackupSpec => []BInv
<1>1. BInv /\ [BackupNext]_<<historyVars, backupVars>> => BInv'
  BY NextBInv DEF bvars
<1> QED
  BY InitBInv, <1>1, PTL DEF BackupSpec

\* Every variable keeps its type, whatever the API, the backups and the restores do.
THEOREM BackupTypeCorrect == BackupSpec => []BackupTypeOK
<1>1. BInv => BackupTypeOK
  BY DEF BInv
<1> QED
  BY <1>1, BackupInvariance, PTL

\* An archive with a manifest, of a root in use, holds every run that was retained
\* from the beginning of the backup to its end (artifact_backup.sh).
THEOREM ArchivesFaithful == BackupSpec => []VerifiedArchivesAreFaithful
<1>1. BInv => VerifiedArchivesAreFaithful
  BY DEF BInv, DoneInv, Faithful, VerifiedArchivesAreFaithful
<1> QED
  BY <1>1, BackupInvariance, PTL

\* A restore, killed or not, loses nothing of the roots it replaces and finds its
\* archive after the move (artifact_restore.sh).
THEOREM RestoreIsSafe == BackupSpec => []RestoreLosesNothing
<1>1. BInv => RestoreLosesNothing
  BY DEF BInv, RestoreInv, RestoreLosesNothing
<1> QED
  BY <1>1, BackupInvariance, PTL

-----------------------------------------------------------------------------
(***************************************************************************)
(* The acceptance.                                                         *)
(***************************************************************************)

avars == <<historyVars, backupVars, acceptanceVars>>

Holds(a, id) == InLine(a.image.index, id) /\ id \in a.image.snapshots

\* The runs that archives were to hold were recorded.
KnownInv == \A n \in DOMAIN archives : \A id \in archives[n].known : order[id] > 0

\* A complete archive holds what it and the archives before it were to hold.
Earned(a, n) ==
    a.state = "partial" \/ a.excused
    \/ \A k \in DOMAIN archives : k <= n =>
          \A id \in archives[k].known : Expired(id) \/ Holds(a, id)

HeldInv == \A n \in DOMAIN archives : Earned(archives[n], n)

\* A tar at work knows what the archives before were to hold.
TarInv ==
    \A p \in Operators :
        /\ script[p] = "tarring" => Mine(p).state = "partial"
        /\ script[p] = "tarred" => Mine(p).state = "whole"
        /\ script[p] = "tarring" /\ ~Mine(p).excused =>
              \A k \in DOMAIN archives : k <= archive[p] =>
                 \A id \in archives[k].known : Expired(id) \/ id \in Mine(p).known

Inherits == KnownInv /\ HeldInv /\ TarInv

\* What the acceptance has noted.
AcceptInv ==
    /\ verdict \in {"pending", "pass", "fail", "blocked"}
    /\ restored \in Nat /\ promised \in SUBSET RunIds
    /\ phase \in {"idle", "rehearsing", "collected"}
    /\ phase = "idle" => verdict = "pending"
    /\ phase = "rehearsing" => archive[Tester] \in DOMAIN archives /\ verdict = "pending"
    /\ phase = "collected" /\ verdict = "pass" =>
          archives[restored].excused \/ \A id \in promised : Holds(archives[restored], id)

AInv == BInv /\ Inherits /\ AcceptInv

-----------------------------------------------------------------------------
(***************************************************************************)
(* The acceptance is a user of the backups.                                *)
(***************************************************************************)

\* A step of the acceptance is one of the scripts or of the API, or none of theirs.
LEMMA AcceptanceStep == AcceptanceNext => [BackupNext]_bvars
<1>1. SkipRehearsal \/ BackupFailed \/ RehearseRestore => UNCHANGED bvars
  BY DEF SkipRehearsal, BackupFailed, RehearseRestore, bvars
<1>2. RehearseBackup => BackupNext
  BY TesterAssumption DEF RehearseBackup, BackupNext
<1>3. Backups => BackupNext
  BY DEF Backups, BackupNext
<1> QED
  BY <1>1, <1>2, <1>3 DEF AcceptanceNext, Acceptance

\* The acceptance does nothing to a root or an archive that the scripts do not do.
THEOREM AcceptanceImplementsBackup == AcceptanceSpec => BackupSpec
<1>1. AcceptanceInit => BackupInit
  BY DEF AcceptanceInit
<1>2. [AcceptanceNext]_<<historyVars, backupVars, acceptanceVars>>
         => [BackupNext]_<<historyVars, backupVars>>
  BY AcceptanceStep DEF bvars
<1> QED
  BY <1>1, <1>2, PTL DEF AcceptanceSpec, BackupSpec

-----------------------------------------------------------------------------
(***************************************************************************)
(* Archives inherit.                                                       *)
(***************************************************************************)

\* What changes no record and no archive for the worse.
LEMMA HeldFrame ==
    ASSUME KnownInv, HeldInv, UNCHANGED recordVars, DOMAIN archives' = DOMAIN archives,
           \A n \in DOMAIN archives :
              /\ archives'[n].known \subseteq archives[n].known
              /\ \/ Earned(archives'[n], n)
                 \/ /\ archives'[n].state = archives[n].state
                    /\ archives'[n].excused = archives[n].excused
                    /\ archives'[n].image = archives[n].image
    PROVE  KnownInv' /\ HeldInv'
<1>1. KnownInv'
  BY DEF KnownInv, recordVars
<1>2. ASSUME NEW n \in DOMAIN archives PROVE Earned(archives'[n], n)
  BY <1>2 DEF HeldInv, Earned, Holds
<1>3. HeldInv'
  BY <1>2 DEF HeldInv, Earned, Holds, Expired, InLine, recordVars
<1> QED
  BY <1>1, <1>3

\* Initially there is nothing to inherit.
LEMMA InheritsInit == BackupInit => Inherits
<1> SUFFICES ASSUME BackupInit PROVE Inherits
  OBVIOUS
<1>1. DOMAIN archives = {} /\ \A p \in Operators : script[p] = "idle"
  BY EmptySeq DEF BackupInit
<1> QED
  BY <1>1 DEF Inherits, KnownInv, HeldInv, TarInv

\* What the API does keeps archives as good as their predecessors:
LEMMA InheritsServe ==
    ASSUME BInv, Inherits, ServeRequests PROVE Inherits'
<1>1. IndInv /\ [Next]_vars
  BY DEF ServeRequests, BInv, ScriptInv, HistoryOK
<1>2. UNCHANGED <<script, archive, archives>>
  BY DEF ServeRequests, backupVars, scriptVars
<1>3. \A n \in DOMAIN archives : archives[n].known \subseteq RunIds
  <2>1. \A a \in Archives : a.known \subseteq RunIds
    BY DEF Archives
  <2> QED
    BY <2>1, ArchiveTyped DEF BInv
<1>4. \A n \in DOMAIN archives : \A id \in archives[n].known :
         order'[id] > 0 /\ (Expired(id) => Expired(id)')
  <2>1. \A id \in RunIds : order[id] > 0 => order'[id] > 0
    BY <1>1, OrderStep
  <2>2. \A id \in RunIds : order[id] > 0 /\ Expired(id) => Expired(id)'
    BY <1>1, ExpiredStays
  <2> QED
    BY <1>3, <2>1, <2>2 DEF Inherits, KnownInv
<1>5. KnownInv'
  BY <1>2, <1>4 DEF KnownInv
<1>6. HeldInv'
  BY <1>2, <1>4 DEF Inherits, HeldInv, Earned, Holds, InLine
<1>7. TarInv'
  BY <1>2, <1>4 DEF Inherits, BInv, ScriptInv, TarInv, Exits, Mine
<1> QED
  BY <1>5, <1>6, <1>7 DEF Inherits

\* A step that changes no archive, and brings no script to tar.
LEMMA InheritsFrame ==
    ASSUME Inherits, UNCHANGED recordVars, UNCHANGED archives,
           \A q \in Operators : script'[q] \in {"tarring", "tarred"} =>
              script'[q] = script[q] /\ archive'[q] = archive[q]
    PROVE  Inherits'
<1>1. KnownInv' /\ HeldInv'
  BY HeldFrame DEF Inherits
<1>2. TarInv'
  BY DEF Inherits, TarInv, Mine, Expired, recordVars
<1> QED
  BY <1>1, <1>2 DEF Inherits

\* What was to be held and is still retained is in the root when tar begins.
LEMMA InheritsStart ==
    ASSUME BInv, Inherits, NEW p \in Operators, NEW place \in BackupPlaces, StartBackup(p, place)
    PROVE  Inherits' /\ archive'[p] \in DOMAIN archives' /\ DOMAIN archives \subseteq DOMAIN archives'
<1> DEFINE a == [New(place) EXCEPT !.known = {id \in RunIds : Retained(id)}, !.since = appended]
           m == Len(archives) + 1
<1>1. /\ UNCHANGED recordVars
      /\ \A q \in Operators : script[q] \in Exits
      /\ script' = [script EXCEPT ![p] = "tarring"]
      /\ archive' = [archive EXCEPT ![p] = m]
      /\ archives' = Append(archives, a)
  BY DEF StartBackup, historyVars, vars
<1>2. a.state = "partial" /\ a.known = {id \in RunIds : Retained(id)}
  BY DEF New
<1> HIDE DEF a
<1>3. /\ archives \in Seq(Archives) /\ script \in [Operators -> Stages]
      /\ archive \in [Operators -> Nat] /\ TypeOK
  BY DEF BInv, BackupTypeOK
<1>4. /\ DOMAIN archives' = DOMAIN archives \cup {m} /\ archives'[m] = a
      /\ \A n \in DOMAIN archives : archives'[n] = archives[n] /\ n <= m
      /\ archive'[p] = m /\ script'[p] = "tarring"
      /\ m \notin DOMAIN archives
      /\ \A n \in DOMAIN archives : ~ (m <= n)
  BY <1>1, <1>3
<1>5. \A n \in DOMAIN archives : archives[n].known \subseteq RunIds
  <2>1. \A x \in Archives : x.known \subseteq RunIds
    BY DEF Archives
  <2> QED
    BY <2>1, ArchiveTyped DEF BInv
<1>6. KnownInv'
  BY <1>1, <1>2, <1>4 DEF Inherits, KnownInv, Retained, Recorded, recordVars
<1>7. HeldInv'
  <2>1. ASSUME NEW n \in DOMAIN archives PROVE Earned(archives[n], n)'
    BY <1>1, <1>4, <2>1 DEF Inherits, HeldInv, Earned, Holds, Expired, InLine, recordVars
  <2>2. ASSUME NEW n, n = m PROVE Earned(archives[n], n)'
    BY <1>2, <1>4, <2>2 DEF Earned
  <2>3. ASSUME NEW n \in DOMAIN archives' PROVE Earned(archives[n], n)'
    BY <1>4, <2>1, <2>2, <2>3
  <2> QED
    BY <2>3 DEF HeldInv
<1>8. TarInv'
  <2>1. \A q \in Operators : q # p => script'[q] \in Exits
    BY <1>1, <1>3
  <2>2. ASSUME NEW n \in DOMAIN archives, NEW id \in archives[n].known
        PROVE  Expired(id) \/ id \in a.known
    BY <1>2, <1>3, <1>5, <2>2, RetainedOrExpired DEF Inherits, KnownInv
  <2>3. \A n \in DOMAIN archives' : \A id \in archives'[n].known : Expired(id) \/ id \in a.known
    BY <1>4, <2>2
  <2> QED
    BY <1>1, <1>2, <1>4, <2>1, <2>3 DEF TarInv, Mine, Exits, Expired, recordVars
<1> QED
  BY <1>4, <1>6, <1>7, <1>8 DEF Inherits

\* so does tar at work,
LEMMA InheritsWalk ==
    ASSUME BInv, Inherits, NEW p \in Operators, TarWalks(p)
    PROVE  Inherits' /\ UNCHANGED archive /\ DOMAIN archives' = DOMAIN archives
<1>1. Walks(p)
  BY ArchiveIndexStep, ListRunsStep, ArchiveRunStep, LeaveRunsStep DEF TarWalks
<1>2. script[p] = "tarring" /\ UNCHANGED <<historyVars, online, scriptVars, restoreVars, failures>>
  BY DEF TarWalks, ArchiveIndex, ListRuns, ArchiveRun, LeaveRuns
<1>3. /\ UNCHANGED <<script, archive>> /\ UNCHANGED recordVars
      /\ archive[p] \in DOMAIN archives /\ Mine(p).state = "partial"
      /\ \A q \in Operators : script[q] \notin Exits => q = p
  BY <1>2 DEF scriptVars, historyVars, vars, BInv, ScriptInv, Exits, Inherits, TarInv
<1>4. KnownInv' /\ HeldInv'
  <2>1. \A n \in DOMAIN archives : archives'[n].known = archives[n].known
    BY <1>1 DEF Walks
  <2>2. Earned(archives'[archive[p]], archive[p])
    BY <1>1, <1>3 DEF Walks, Earned, Mine
  <2> QED
    BY <1>1, <1>3, <2>1, <2>2, HeldFrame DEF Walks, Inherits
<1>5. TarInv'
  <2>1. Mine(p)'.state = "partial"
    BY <1>1, <1>3 DEF Walks, Mine
  <2>2. ASSUME ~Mine(p)'.excused, NEW k \in DOMAIN archives, k <= archive[p],
               NEW id \in archives[k].known
        PROVE  Expired(id) \/ id \in Mine(p).known
    BY <1>1, <1>2, <1>3, <2>2 DEF Walks, Inherits, TarInv, Mine
  <2>3. \A n \in DOMAIN archives : archives'[n].known = archives[n].known
    BY <1>1 DEF Walks
  <2>4. ASSUME ~Mine(p)'.excused, NEW k \in DOMAIN archives', k <= archive[p],
               NEW id \in archives'[k].known
        PROVE  Expired(id)' \/ id \in Mine(p)'.known
    BY <1>1, <1>3, <2>2, <2>3, <2>4 DEF Walks, Mine, Expired, recordVars
  <2> QED
    BY <1>2, <1>3, <2>1, <2>4 DEF TarInv, Exits
<1> QED
  BY <1>1, <1>3, <1>4, <1>5 DEF Inherits, Walks

\* A tar that is through has found what it knew.
LEMMA ThroughIsEarned ==
    ASSUME BInv, Inherits, NEW p \in Operators, script[p] = "tarring", TarIsThrough(p),
           ~Mine(p).excused, NEW k \in DOMAIN archives, k <= archive[p], NEW id \in archives[k].known
    PROVE  Expired(id) \/ Holds(Mine(p), id)
<1>1. Collected(Mine(p))
  BY DEF BInv, WalkInv
<1>2. {"history", "listing", "runs"} \subseteq Mine(p).read /\ Mine(p).unread = {}
  BY <1>1 DEF TarIsThrough, Collected
<1>3. Expired(id) \/ id \in Mine(p).known
  BY DEF Inherits, TarInv
<1> QED
  BY <1>1, <1>2, <1>3 DEF Collected, Holds

\* The script of p leaves its archive as a.
LEMMA InheritsArchive ==
    ASSUME BInv, Inherits, NEW p \in Operators, script[p] \in {"tarring", "tarred"},
           NEW a \in Archives, NEW to \in {"tarred", "succeeded", "failed"},
           archives' = [archives EXCEPT ![archive[p]] = a],
           script' = [script EXCEPT ![p] = to], UNCHANGED archive, UNCHANGED recordVars,
           a.known \subseteq Mine(p).known, Earned(a, archive[p]), to = "tarred" => a.state = "whole"
    PROVE  Inherits' /\ UNCHANGED archive /\ DOMAIN archives' = DOMAIN archives
<1>1. /\ archive[p] \in DOMAIN archives /\ archives \in Seq(Archives)
      /\ script \in [Operators -> Stages]
      /\ \A q \in Operators : q # p => script[q] \in Exits
  BY DEF BInv, BackupTypeOK, ScriptInv, Exits
<1>2. /\ DOMAIN archives' = DOMAIN archives /\ archives'[archive[p]] = a
      /\ \A n \in DOMAIN archives : n # archive[p] => archives'[n] = archives[n]
  BY <1>1
<1>3. KnownInv' /\ HeldInv'
  BY <1>2, HeldFrame DEF Inherits, Mine
<1>4. TarInv'
  BY <1>1, <1>2 DEF TarInv, Exits, Mine
<1> QED
  BY <1>2, <1>3, <1>4 DEF Inherits

\* a tar that ends,
LEMMA InheritsEnd ==
    ASSUME BInv, Inherits, NEW p \in Operators,
           EndChangedTar(p) \/ EndTar(p) \/ FailTar(p) \/ WriteManifest(p)
    PROVE  Inherits' /\ UNCHANGED archive /\ DOMAIN archives' = DOMAIN archives
<1> DEFINE m == archive[p]
           done     == [Closed(archives[m], "whole") EXCEPT !.expired = {id \in RunIds : Expired(id)}]
           whole    == [New(archives[m].place) EXCEPT !.state = "whole", !.image = archives[m].image,
                                                      !.excused = archives[m].excused]
           partial  == New(archives[m].place)
           verified == [archives[m] EXCEPT !.state = "verified"]
<1>1. script[p] \in {"tarring", "tarred"} /\ UNCHANGED archive /\ UNCHANGED recordVars
  BY DEF EndChangedTar, EndTar, FailTar, WriteManifest, Enter, historyVars, vars
<1>2. m \in DOMAIN archives /\ archives[m] \in Archives /\ archives \in Seq(Archives)
  BY <1>1, ArchiveTyped DEF BInv, BackupTypeOK, ScriptInv, Exits
<1>3. Empty \in Contents
  BY EmptySeq DEF Contents, Empty
<1>4. /\ done \in Archives /\ done.state = "whole" /\ done.image = archives[m].image
      /\ done.known = archives[m].known /\ done.excused = archives[m].excused
  BY <1>2 DEF Closed, Archives
<1>5. /\ whole \in Archives /\ whole.state = "whole" /\ whole.image = archives[m].image
      /\ whole.known = {} /\ whole.excused = archives[m].excused
      /\ partial \in Archives /\ partial.state = "partial" /\ partial.known = {}
  BY <1>2, <1>3 DEF New, Archives
<1>6. /\ verified \in Archives /\ verified.state = "verified" /\ verified.image = archives[m].image
      /\ verified.known = archives[m].known /\ verified.excused = archives[m].excused
  BY <1>2 DEF Archives
<1> HIDE DEF done, whole, partial, verified
<1>7. script[p] = "tarring" /\ TarIsThrough(p) => Earned(done, m) /\ Earned(whole, m)
  BY <1>4, <1>5, ThroughIsEarned DEF Earned, Holds, Mine
<1>8. Earned(partial, m)
  BY <1>5 DEF Earned
<1>9. script[p] = "tarred" => Earned(verified, m)
  BY <1>2, <1>6 DEF Inherits, TarInv, HeldInv, Earned, Holds, Mine
<1>10. CASE EndTar(p)
  <2>1. archives' = [archives EXCEPT ![m] = done]
    BY <1>2, <1>10 DEF EndTar, done
  <2> QED
    BY <1>1, <1>4, <1>7, <1>10, <2>1, InheritsArchive DEF EndTar, Enter, Mine
<1>11. CASE EndChangedTar(p)
  <2>1. archives' = [archives EXCEPT ![m] = whole]
    BY <1>2, <1>11 DEF EndChangedTar, Mine, whole
  <2> QED
    BY <1>1, <1>5, <1>7, <1>11, <2>1, InheritsArchive DEF EndChangedTar, Enter
<1>12. CASE FailTar(p)
  <2>1. archives' = [archives EXCEPT ![m] = partial]
    BY <1>2, <1>12 DEF FailTar, partial
  <2> QED
    BY <1>1, <1>5, <1>8, <1>12, <2>1, InheritsArchive DEF FailTar, Enter
<1>13. CASE WriteManifest(p)
  <2>1. archives' = [archives EXCEPT ![m] = verified]
    BY <1>2, <1>13 DEF WriteManifest, Mine, verified
  <2> QED
    BY <1>1, <1>6, <1>9, <1>13, <2>1, InheritsArchive DEF WriteManifest, Enter, Mine
<1> QED
  BY <1>10, <1>11, <1>12, <1>13

\* A restore at most moves archives.
LEMMA InheritsRestore ==
    ASSUME BInv, Inherits, NEW p \in Operators,
           MoveAside(p) \/ Extract(p) \/ FailExtract(p) \/ FailScript(p)
    PROVE  Inherits' /\ UNCHANGED archive /\ DOMAIN archives' = DOMAIN archives
<1>1. script \in [Operators -> Stages]
  BY DEF BInv, BackupTypeOK
<1>2. CASE FailScript(p)
  BY <1>1, <1>2, InheritsFrame DEF FailScript, historyVars, vars
<1>3. CASE Extract(p)
  BY <1>1, <1>3, InheritsFrame DEF Extract, Enter, RootBecomes
<1>4. CASE FailExtract(p)
  <2>1. /\ UNCHANGED recordVars /\ UNCHANGED <<archive, archives>>
        /\ script' = [script EXCEPT ![p] = "failed"]
    BY <1>4, Zenon DEF FailExtract, Enter, RootBecomes
  <2> QED
    BY <1>1, <2>1, InheritsFrame
<1>5. CASE MoveAside(p)
  <2>1. /\ UNCHANGED recordVars /\ UNCHANGED archive
        /\ script[p] = "checked" /\ script' = [script EXCEPT ![p] = "moved"]
        /\ archives' = [n \in DOMAIN archives |->
                           IF archives[n].place = "root"
                           THEN [archives[n] EXCEPT !.place = "aside"] ELSE archives[n]]
    BY <1>5 DEF MoveAside, Enter, RootBecomes
  <2>2. \A q \in Operators : script'[q] \in Exits \cup {"moved"}
    BY <1>1, <2>1 DEF BInv, ScriptInv, Exits
  <2>3. TarInv'
    BY <2>2 DEF TarInv, Exits
  <2>4. \A a \in Archives : LET b == [a EXCEPT !.place = "aside"] IN
           b.state = a.state /\ b.image = a.image /\ b.known = a.known /\ b.excused = a.excused
    BY DEF Archives
  <2>5. DOMAIN archives' = DOMAIN archives
    BY <2>1
  <2>6. \A n \in DOMAIN archives :
           /\ archives'[n].state = archives[n].state /\ archives'[n].image = archives[n].image
           /\ archives'[n].known = archives[n].known
           /\ archives'[n].excused = archives[n].excused
    BY <2>1, <2>4, ArchiveTyped DEF BInv
  <2> QED
    BY <2>1, <2>3, <2>5, <2>6, HeldFrame DEF Inherits
<1> QED
  BY <1>2, <1>3, <1>4, <1>5

\* each step of a script,
LEMMA InheritsScript ==
    ASSUME BInv, Inherits, NEW p \in Operators, ScriptStep(p)
    PROVE  Inherits' /\ UNCHANGED archive /\ DOMAIN archives' = DOMAIN archives
BY InheritsWalk, InheritsEnd, InheritsRestore DEF ScriptStep, TarWalks

\* and the begin of a restore.
LEMMA InheritsBegin ==
    ASSUME BInv, Inherits, NEW p \in Operators, NEW n \in DOMAIN archives, BeginRestore(p, n)
    PROVE  Inherits' /\ UNCHANGED archives
<1>1. script \in [Operators -> Stages]
  BY DEF BInv, BackupTypeOK
<1> QED
  BY <1>1, InheritsFrame DEF BeginRestore, Exits, historyVars, vars

-----------------------------------------------------------------------------
(***************************************************************************)
(* The acceptance.                                                         *)
(***************************************************************************)

\* archives[-1] is one of the directory, and none of it is later.
LEMMA LatestIsLast ==
    ASSUME archives \in Seq(Archives), InBackupDir # {}
    PROVE  LatestArchive \in InBackupDir /\ \A n \in InBackupDir : n <= LatestArchive
<1> DEFINE len == Len(archives)
           Distance == {len - n : n \in InBackupDir}
<1>1. InBackupDir \subseteq 1..len /\ len \in Nat
  BY DEF InBackupDir
<1> HIDE DEF len
<1>2. Distance \subseteq Nat /\ Distance # {}
  <2>1. ASSUME NEW n \in InBackupDir PROVE len - n \in Nat
    BY <1>1, <2>1
  <2>2. Distance \subseteq Nat
    BY <2>1
  <2>3. PICK n : n \in InBackupDir
    OBVIOUS
  <2>4. len - n \in Distance
    BY <2>3
  <2> QED
    BY <2>2, <2>4
<1>3. PICK d \in Distance : \A e \in Distance : ~ (<<e, d>> \in OpToRel(<, Nat))
  BY <1>2, NatLessThanWellFounded, WFMin
<1>4. \A e \in Distance : ~ (e < d)
  BY <1>2, <1>3 DEF OpToRel
<1>5. PICK m \in InBackupDir : d = len - m
  BY <1>3
<1>6. ASSUME NEW n \in InBackupDir PROVE n <= m
  <2>1. n \in Nat /\ m \in Nat
    BY <1>1, <1>5
  <2>2. ~ (len - n < len - m)
    BY <1>4, <1>5
  <2> QED
    BY <1>1, <2>1, <2>2
<1> QED
  BY <1>5, <1>6 DEF LatestArchive

\* The rehearsal restores an archive that inherits what its own was to hold.
LEMMA RehearseRestoreStep ==
    ASSUME BInv, Inherits, AcceptInv, RehearseRestore PROVE AcceptInv'
<1>1. /\ phase = "rehearsing" /\ phase' = "collected"
      /\ UNCHANGED <<archives, archive>> /\ UNCHANGED recordVars
      /\ promised' = {id \in Mine(Tester).known : ~Expired(id)}
      /\ archive[Tester] \in DOMAIN archives /\ archives \in Seq(Archives)
  BY DEF RehearseRestore, Proceed, backupVars, scriptVars, historyVars, vars, AcceptInv,
         BInv, BackupTypeOK
<1>2. promised' \in SUBSET RunIds
  <2>1. \A a \in Archives : a.known \subseteq RunIds
    BY DEF Archives
  <2>2. archives[archive[Tester]] \in Archives
    BY <1>1, ArchiveTyped DEF BInv
  <2> QED
    BY <1>1, <2>1, <2>2 DEF Mine
<1>3. CASE verdict' = "fail" /\ UNCHANGED restored
  BY <1>1, <1>2, <1>3 DEF AcceptInv
<1>4. CASE /\ InBackupDir # {} /\ archives[LatestArchive].state # "partial"
           /\ verdict' = "pass" /\ restored' = LatestArchive
  <2>1. /\ LatestArchive \in DOMAIN archives /\ LatestArchive \in Nat
        /\ archive[Tester] <= LatestArchive
    BY <1>1, <1>4, LatestIsLast DEF InBackupDir, Mine
  <2>2. Earned(archives[LatestArchive], LatestArchive)
    BY <2>1 DEF Inherits, HeldInv
  <2>3. archives[restored'].excused \/ \A id \in promised' : Holds(archives[restored'], id)
    BY <1>1, <1>4, <2>1, <2>2 DEF Earned, Mine
  <2> QED
    BY <1>1, <1>2, <1>4, <2>1, <2>3 DEF AcceptInv, Holds, InLine
<1> QED
  BY <1>3, <1>4 DEF RehearseRestore

\* Each step preserves the invariant of the acceptance.
LEMMA NextAInv == AInv /\ [AcceptanceNext]_avars => AInv'
<1> SUFFICES ASSUME AInv, [AcceptanceNext]_avars PROVE AInv'
  OBVIOUS
<1>1. BInv /\ Inherits /\ AcceptInv
  BY DEF AInv
<1>2. BInv'
  <2>1. UNCHANGED avars => UNCHANGED bvars
    BY DEF avars, bvars
  <2> QED
    BY <1>1, <2>1, AcceptanceStep, NextBInv
<1>3. ASSUME UNCHANGED <<historyVars, backupVars>> PROVE Inherits' /\ UNCHANGED <<archives, archive>>
  BY <1>1, <1>3, InheritsFrame DEF backupVars, scriptVars, historyVars, vars
<1>4. ASSUME SkipRehearsal \/ BackupFailed \/ RehearseRestore PROVE Inherits' /\ AcceptInv'
  <2>1. Inherits' /\ UNCHANGED <<archives, archive>>
    BY <1>3, <1>4 DEF SkipRehearsal, BackupFailed, RehearseRestore
  <2>2. SkipRehearsal \/ BackupFailed => AcceptInv'
    BY <1>1, <2>1 DEF SkipRehearsal, BackupFailed, Proceed, AcceptInv
  <2> QED
    BY <1>1, <1>4, <2>1, <2>2, RehearseRestoreStep
<1>5. ASSUME RehearseBackup PROVE Inherits' /\ AcceptInv'
  <2>1. PICK place \in BackupPlaces : StartBackup(Tester, place)
    BY <1>5 DEF RehearseBackup
  <2>2. Inherits' /\ archive'[Tester] \in DOMAIN archives'
    BY <1>1, <2>1, TesterAssumption, InheritsStart
  <2> QED
    BY <1>1, <1>5, <2>2 DEF RehearseBackup, Proceed, AcceptInv
<1>6. ASSUME phase # "collected", Backups, UNCHANGED acceptanceVars PROVE Inherits' /\ AcceptInv'
  <2>1. archive \in [Operators -> Nat]
    BY <1>1 DEF BInv, BackupTypeOK
  <2>2. Inherits' /\ archive'[Tester] = archive[Tester] /\ DOMAIN archives \subseteq DOMAIN archives'
    <3>1. CASE ServeRequests
      BY <1>1, <3>1, InheritsServe DEF ServeRequests, backupVars, scriptVars
    <3>2. CASE StopApi
      BY <1>1, <3>2, InheritsFrame DEF StopApi, scriptVars, historyVars, vars
    <3>3. ASSUME NEW p \in Operators \ {Tester}, NEW place \in BackupPlaces, StartBackup(p, place)
          PROVE  Inherits' /\ archive'[Tester] = archive[Tester]
                 /\ DOMAIN archives \subseteq DOMAIN archives'
      <4>1. archive'[Tester] = archive[Tester]
        BY <2>1, <3>3, TesterAssumption DEF StartBackup
      <4> QED
        BY <1>1, <3>3, <4>1, InheritsStart
    <3>4. ASSUME NEW p \in Operators \ {Tester}, NEW n \in DOMAIN archives, BeginRestore(p, n)
          PROVE  Inherits' /\ archive'[Tester] = archive[Tester] /\ UNCHANGED archives
      <4>1. archive'[Tester] = archive[Tester]
        BY <2>1, <3>4, TesterAssumption DEF BeginRestore
      <4> QED
        BY <1>1, <3>4, <4>1, InheritsBegin
    <3>5. ASSUME NEW p \in Operators, ScriptStep(p)
          PROVE  Inherits' /\ UNCHANGED archive /\ DOMAIN archives' = DOMAIN archives
      BY <1>1, <3>5, InheritsScript
    <3> QED
      BY <1>6, <3>1, <3>2, <3>3, <3>4, <3>5 DEF Backups
  <2> QED
    BY <1>1, <1>6, <2>2 DEF AcceptInv, acceptanceVars
<1>7. ASSUME UNCHANGED avars PROVE Inherits' /\ AcceptInv'
  <2>1. Inherits' /\ UNCHANGED <<archives, archive>>
    BY <1>3, <1>7 DEF avars
  <2> QED
    BY <1>1, <1>7, <2>1 DEF avars, acceptanceVars, AcceptInv, Holds, InLine
<1> QED
  BY <1>2, <1>4, <1>5, <1>6, <1>7 DEF AInv, AcceptanceNext, Acceptance

\* The inductive invariant of the acceptance holds of its specification.
THEOREM AcceptanceInvariance == AcceptanceSpec => []AInv
<1>1. AcceptanceInit => AInv
  BY InitBInv, InheritsInit DEF AcceptanceInit, AInv, AcceptInv
<1>2. AInv /\ [AcceptanceNext]_<<historyVars, backupVars, acceptanceVars>> => AInv'
  BY NextAInv DEF avars
<1> QED
  BY <1>1, <1>2, PTL DEF AcceptanceSpec

\* Every variable of the acceptance keeps its type.
THEOREM AcceptanceTypeCorrect == AcceptanceSpec => []AcceptanceTypeOK
<1>1. AInv => AcceptanceTypeOK
  BY DEF AInv, BInv, AcceptInv, AcceptanceTypeOK, Statuses
<1> QED
  BY <1>1, AcceptanceInvariance, PTL

\* A strict acceptance succeeds only with everything passed or not applicable, and
\* with a restored root that holds every run known before the rehearsal and retained
\* to its end (run_staging_acceptance.py).
THEOREM EarnedAcceptance == AcceptanceSpec => []AcceptanceIsEarned
<1>1. ASSUME AInv PROVE AcceptanceIsEarned
  <2> SUFFICES ASSUME phase = "collected",
                      NEW sso \in SsoStatuses, NEW logs \in LogStatuses, NEW o \in Overrides,
                      FailOnPending, ExitCode(StatusesOf(sso, logs, o)) = 0
               PROVE  /\ StatusesOf(sso, logs, o) \subseteq {"pass", "not_applicable"}
                      /\ "backup_restore" \notin DOMAIN o /\ ~archives[restored].excused =>
                            \A id \in promised : Holds(archives[restored], id)
    BY DEF AcceptanceIsEarned, Holds
  <2> DEFINE statuses == StatusesOf(sso, logs, o)
  <2>1. AcceptInv
    BY <1>1 DEF AInv
  <2>2. statuses \subseteq Statuses
    BY <2>1, OverridesAssumption DEF StatusesOf, Statuses, SsoStatuses, LogStatuses, AcceptInv
  <2>3. "fail" \notin statuses /\ "blocked" \notin statuses /\ "pending" \notin statuses
    BY DEF ExitCode, OverallStatus
  <2>4. statuses \subseteq {"pass", "not_applicable"}
    BY <2>2, <2>3 DEF Statuses
  <2>5. "backup_restore" \notin DOMAIN o => verdict \in statuses
    BY DEF StatusesOf, Items
  <2>6. "backup_restore" \notin DOMAIN o => verdict = "pass"
    BY <2>1, <2>4, <2>5 DEF AcceptInv
  <2> QED
    BY <2>1, <2>4, <2>6 DEF AcceptInv
<1> QED
  BY <1>1, AcceptanceInvariance, PTL

=============================================================================
