-------------------------- MODULE RunHistory_proofs --------------------------
(***************************************************************************)
(* Proofs about RunHistory, for every set of workers, readers and run ids, *)
(* every retention limit and every number of aborts.                       *)
(*                                                                         *)
(* The properties of a retained run are not inductive: retention counts    *)
(* lines of the index, and the index may have lost lines to a write cut    *)
(* short.  The inductive invariant IndInv therefore says that the lines    *)
(* are in the order of recording and that two lines i apart were recorded  *)
(* at least i apart (Spaced), so a line with Limit lines after it has at   *)
(* least Limit younger runs, however many lines are gone.                  *)
(***************************************************************************)
EXTENDS RunHistory, SequenceTheorems, FiniteSetTheorems, TLAPS

-----------------------------------------------------------------------------
(***************************************************************************)
(* The inductive invariant.                                                *)
(***************************************************************************)

\* The worker holding the index lock is the one inside the critical section.
LockInv == \A w \in Workers : pc[w] \in Critical <=> indexLock = w

\* Runs in flight are distinct, unrecorded until appended, and have a snapshot
\* once it is written.
RunInv ==
    /\ \A w \in Workers :
          /\ pc[w] # "idle" => run[w] \in started
          /\ pc[w] \in {"ran", "snapshotted", "locked"} => order[run[w]] = 0
          /\ pc[w] \in {"snapshotted", "locked"} => run[w] \in snapshots
    /\ \A v, w \in Workers :
          pc[v] # "idle" /\ pc[w] # "idle" /\ run[v] = run[w] => v = w
    /\ \A id \in RunIds \ started : order[id] = 0

\* No two runs have the same place in the order of recording.
OrderInv ==
    /\ \A id \in RunIds : order[id] <= appended
    /\ \A x, y \in RunIds : order[x] = order[y] /\ order[x] > 0 => x = y

Spaced(s) == \A i, j \in 1..Len(s) : i <= j => order[s[i]] + (j - i) <= order[s[j]]

InOrder(s) == (\A i \in 1..Len(s) : order[s[i]] > 0) /\ Spaced(s)

DanglingFirst(s) ==
    \A i, j \in 1..Len(s) : i < j /\ s[i] \in snapshots \ strays => s[j] \in snapshots

IndexInv == InOrder(index) /\ DanglingFirst(index)

Removed(w) == Surplus - Len(doomed[w])

\* While a worker prunes, the index is the removed records, then the doomed
\* ones, then those to keep.
PruneInv(w) ==
    pc[w] = "pruning" =>
        /\ OverLimit
        /\ Len(doomed[w]) <= Surplus
        /\ \A i \in 1..Len(doomed[w]) : doomed[w][i] = index[Removed(w) + i]
        /\ \A i \in 1..Removed(w) : index[i] \notin snapshots \ strays
        /\ Len(keep[w]) = Limit
        /\ \A i \in 1..Limit : keep[w][i] = index[Surplus + i]

\* While a worker rewrites the index, it is a prefix of what the worker keeps.
RewriteInv(w) ==
    pc[w] = "rewriting" =>
        /\ Limit > 0
        /\ Len(keep[w]) = Limit
        /\ InOrder(keep[w])
        /\ DanglingFirst(keep[w])
        /\ Len(index) <= Limit
        /\ \A i \in 1..Len(index) : index[i] = keep[w][i]

ReleaseInv(w) == pc[w] = "release" => ~OverLimit

RetentionInv == \A w \in Workers : PruneInv(w) /\ RewriteInv(w) /\ ReleaseInv(w)

\* A retained run is in the index, or in the lines about to be written back.
ListedInv ==
    ~damaged =>
        /\ ~torn
        /\ \A id \in RunIds : Retained(id) =>
              \/ Indexed(id)
              \/ \E w \in Workers : pc[w] = "rewriting" /\ InLine(keep[w], id)

Missing(r) == answer[r] \in {"snapshot_not_found", "raised"}

\* Whoever found a record reads a recorded run, and goes on from a clear answer.
ReadInv ==
    \A r \in Readers :
        /\ reading[r] # "idle" \/ Missing(r) =>
              wanted[r] \in RunIds /\ Recorded(wanted[r])
        /\ reading[r] # "idle" => answer[r] = "none"
        /\ Missing(r) => Expired(wanted[r])

IndInv ==
    /\ TypeOK
    /\ LockInv
    /\ RunInv
    /\ OrderInv
    /\ IndexInv
    /\ RetentionInv
    /\ RetainedRunsKeepSnapshots
    /\ ListedInv
    /\ ReadInv

-----------------------------------------------------------------------------
(***************************************************************************)
(* Type correctness.                                                       *)
(***************************************************************************)

\* An empty artifact root is well typed.
LEMMA InitTypeOK == Init => TypeOK
<1> SUFFICES ASSUME Init PROVE TypeOK
  OBVIOUS
<1>1. <<>> \in Seq(RunIds)
  BY EmptySeq
<1>2. garbled \in BOOLEAN /\ torn \in BOOLEAN /\ damaged \in BOOLEAN
  BY DEF Init
<1>3. /\ index \in Seq(RunIds)
      /\ doomed \in [Workers -> Seq(RunIds)]
      /\ keep \in [Workers -> Seq(RunIds)]
  BY <1>1 DEF Init
<1>4. /\ pc \in [Workers -> Steps]
      /\ run \in [Workers -> RunIds \cup {NoRun}]
      /\ reading \in [Readers -> {"idle", "found", "exists"}]
      /\ wanted \in [Readers -> RunIds \cup {NoRun}]
      /\ answer \in [Readers -> Answers]
      /\ order \in [RunIds -> Nat]
  BY DEF Init, Steps, Answers
<1> QED
  BY <1>2, <1>3, <1>4 DEF Init, TypeOK

\* What the slices of _apply_retention_locked return.
LEMMA SliceProperties ==
    ASSUME NEW s \in Seq(RunIds), NEW m \in 1..(Len(s) + 1), NEW n \in 0..Len(s),
           m <= n + 1
    PROVE  /\ SubSeq(s, m, n) \in Seq(RunIds)
           /\ Len(SubSeq(s, m, n)) = n - m + 1
           /\ \A i \in 1..(n - m + 1) : SubSeq(s, m, n)[i] = s[m + i - 1]
<1>1. Len(s) \in Nat
  BY LenProperties
<1>2. \A i \in m..n : s[i] \in RunIds
  BY <1>1, ElementOfSeq
<1>3. m \in Int /\ n \in Int
  BY <1>1
<1>4. /\ SubSeq(s, m, n) \in Seq(RunIds)
      /\ Len(SubSeq(s, m, n)) = IF m <= n THEN n - m + 1 ELSE 0
      /\ \A i \in 1..(n - m + 1) : SubSeq(s, m, n)[i] = s[m + i - 1]
  BY <1>2, <1>3, SubSeqProperties
<1>5. m <= n \/ n - m + 1 = 0
  BY <1>1, <1>3
<1> QED
  BY <1>3, <1>4, <1>5

\* The doomed slice is the surplus oldest lines, the kept one the Limit newest.
LEMMA OverLimitSlices ==
    ASSUME TypeOK, OverLimit
    PROVE  /\ Surplus \in 1..Len(index) /\ Surplus \in Nat /\ Len(index) \in Nat
           /\ Len(index) = Surplus + Limit
           /\ SubSeq(index, 1, Surplus) \in Seq(RunIds)
           /\ Len(SubSeq(index, 1, Surplus)) = Surplus
           /\ \A i \in 1..Surplus : SubSeq(index, 1, Surplus)[i] = index[i]
           /\ SubSeq(index, Surplus + 1, Len(index)) \in Seq(RunIds)
           /\ Len(SubSeq(index, Surplus + 1, Len(index))) = Limit
           /\ \A i \in 1..Limit :
                 SubSeq(index, Surplus + 1, Len(index))[i] = index[Surplus + i]
<1>1. index \in Seq(RunIds) /\ Len(index) \in Nat
  BY LenProperties DEF TypeOK
<1>2. Surplus \in 1..Len(index) /\ Len(index) = Surplus + Limit
  BY <1>1, LimitAssumption DEF OverLimit, Surplus
<1>3. /\ SubSeq(index, 1, Surplus) \in Seq(RunIds)
      /\ Len(SubSeq(index, 1, Surplus)) = Surplus - 1 + 1
      /\ \A i \in 1..(Surplus - 1 + 1) :
            SubSeq(index, 1, Surplus)[i] = index[1 + i - 1]
  <2>1. 1 \in 1..(Len(index) + 1) /\ Surplus \in 0..Len(index) /\ 1 <= Surplus + 1
    BY <1>1, <1>2
  <2> QED
    BY <1>1, <2>1, SliceProperties
<1>4. /\ SubSeq(index, Surplus + 1, Len(index)) \in Seq(RunIds)
      /\ Len(SubSeq(index, Surplus + 1, Len(index))) = Len(index) - (Surplus + 1) + 1
      /\ \A i \in 1..(Len(index) - (Surplus + 1) + 1) :
            SubSeq(index, Surplus + 1, Len(index))[i] = index[(Surplus + 1) + i - 1]
  <2>1. /\ (Surplus + 1) \in 1..(Len(index) + 1)
        /\ Len(index) \in 0..Len(index)
        /\ (Surplus + 1) <= Len(index) + 1
    BY <1>1, <1>2
  <2> QED
    BY <1>1, <2>1, SliceProperties
<1> QED
  BY <1>1, <1>2, <1>3, <1>4, LimitAssumption

\* Steps keep the types, given that workers handle run ids.
LEMMA NextTypeOK ==
    ASSUME TypeOK, [Next]_vars,
           \A w \in Workers : pc[w] # "idle" => run[w] \in RunIds,
           \A w \in Workers : Unwritten(w) => keep[w][Len(index) + 1] \in RunIds
    PROVE  TypeOK'
<1> USE DEF TypeOK, Goto, Steps, Critical, Answers
<1>1. ASSUME NEW w \in Workers, PersistRun(w) PROVE TypeOK'
  BY <1>1 DEF PersistRun, indexVars, readVars, recordVars
<1>2. ASSUME NEW w \in Workers, WriteSnapshot(w) PROVE TypeOK'
  BY <1>2 DEF WriteSnapshot, indexVars, readVars, recordVars
<1>3. ASSUME NEW w \in Workers, AcquireIndexLock(w) PROVE TypeOK'
  BY <1>3 DEF AcquireIndexLock, diskVars, indexVars, readVars, recordVars
<1>4. ASSUME NEW w \in Workers, AppendRecord(w) PROVE TypeOK'
  <2>1. run[w] \in RunIds
    BY <1>4 DEF AppendRecord
  <2>2. Append(index, run[w]) \in Seq(RunIds)
    BY <2>1, AppendProperties
  <2>3. garbled' \in BOOLEAN /\ torn' \in BOOLEAN
    BY <1>4 DEF AppendRecord
  <2>4. index' \in Seq(RunIds)
    BY <1>4, <2>2 DEF AppendRecord
  <2> QED
    BY <1>4, <2>1, <2>3, <2>4 DEF AppendRecord, diskVars, readVars
<1>5. ASSUME NEW w \in Workers, SkipRetention(w) PROVE TypeOK'
  BY <1>5 DEF SkipRetention, diskVars, indexVars, readVars, recordVars
<1>6. ASSUME NEW w \in Workers, BeginPrune(w) PROVE TypeOK'
  <2>1. /\ SubSeq(index, 1, Surplus) \in Seq(RunIds)
        /\ SubSeq(index, Surplus + 1, Len(index)) \in Seq(RunIds)
    BY <1>6, OverLimitSlices DEF BeginPrune
  <2> QED
    BY <1>6, <2>1 DEF BeginPrune, diskVars, indexVars, readVars, recordVars
<1>7. ASSUME NEW w \in Workers, PruneOldest(w) PROVE TypeOK'
  <2>1. Tail(doomed[w]) \in Seq(RunIds)
    BY <1>7, HeadTailProperties DEF PruneOldest
  <2>2. snapshots' \in SUBSET RunIds /\ bundles' \in SUBSET RunIds
    BY <1>7 DEF PruneOldest, RemoveRun, LeaveRun
  <2>3. strays' \in SUBSET RunIds
    BY <1>7 DEF PruneOldest, RemoveRun, LeaveRun
  <2> QED
    BY <1>7, <2>1, <2>2, <2>3 DEF PruneOldest, indexVars, readVars
<1>8. ASSUME NEW w \in Workers, TruncateIndex(w) PROVE TypeOK'
  BY <1>8, EmptySeq DEF TruncateIndex, diskVars, readVars, recordVars
<1>9. ASSUME NEW w \in Workers, RewriteLine(w) PROVE TypeOK'
  <2>1. Append(index, keep[w][Len(index) + 1]) \in Seq(RunIds)
    BY <1>9, AppendProperties DEF RewriteLine
  <2> QED
    BY <1>9, <2>1 DEF RewriteLine, diskVars, workVars, readVars, recordVars
<1>10. ASSUME NEW w \in Workers, ReleaseIndexLock(w) PROVE TypeOK'
  BY <1>10 DEF ReleaseIndexLock, diskVars, indexVars, readVars, recordVars
<1>11. ASSUME NEW w \in Workers, Abort(w) PROVE TypeOK'
  <2>1. torn' \in BOOLEAN /\ damaged' \in BOOLEAN
    BY <1>11 DEF Abort
  <2> QED
    BY <1>11, <2>1 DEF Abort, diskVars, readVars, recordVars
<1>12. ASSUME NEW r \in Readers, LookUp(r) PROVE TypeOK'
  BY <1>12 DEF LookUp, diskVars, indexVars, workVars, recordVars
<1>13. ASSUME NEW r \in Readers, CheckSnapshot(r) PROVE TypeOK'
  BY <1>13 DEF CheckSnapshot, diskVars, indexVars, workVars, recordVars
<1>14. ASSUME NEW r \in Readers, ReadSnapshot(r) PROVE TypeOK'
  BY <1>14 DEF ReadSnapshot, diskVars, indexVars, workVars, recordVars
<1>15. ASSUME PersistCliRun PROVE TypeOK'
  BY <1>15 DEF PersistCliRun, indexVars, workVars, readVars
<1>16. CASE UNCHANGED vars
  BY <1>16 DEF vars, diskVars, indexVars, workVars, readVars, recordVars
<1> QED
  BY <1>1, <1>2, <1>3, <1>4, <1>5, <1>6, <1>7, <1>8, <1>9, <1>10, <1>11, <1>12,
     <1>13, <1>14, <1>15, <1>16 DEF Next, Record, Get

-----------------------------------------------------------------------------
(***************************************************************************)
(* Consequences of the order of recording.                                 *)
(***************************************************************************)

\* Lines at different places name different runs.
LEMMA LinesAreDistinct ==
    ASSUME TypeOK, NEW s \in Seq(RunIds), InOrder(s),
           NEW i \in 1..Len(s), NEW j \in 1..Len(s), i # j
    PROVE  s[i] # s[j]
<1>1. Len(s) \in Nat /\ s[i] \in RunIds /\ s[j] \in RunIds
  BY LenProperties, ElementOfSeq
<1>2. order[s[i]] \in Nat /\ order[s[j]] \in Nat
  BY <1>1 DEF TypeOK
<1>3. CASE i < j
  <2>1. order[s[i]] + (j - i) <= order[s[j]]
    BY <1>1, <1>3 DEF InOrder, Spaced
  <2> QED
    BY <1>1, <1>2, <1>3, <2>1
<1>4. CASE j < i
  <2>1. order[s[j]] + (i - j) <= order[s[i]]
    BY <1>1, <1>4 DEF InOrder, Spaced
  <2> QED
    BY <1>1, <1>2, <1>4, <2>1
<1> QED
  BY <1>1, <1>3, <1>4

\* A line beyond the limit names a run that retention counts out.
LEMMA SurplusIsExpired ==
    ASSUME TypeOK, OrderInv, InOrder(index), OverLimit, NEW i \in 1..Surplus
    PROVE  Recorded(index[i]) /\ Expired(index[i])
<1>1. /\ Surplus \in 1..Len(index)
      /\ Len(index) = Surplus + Limit
      /\ Len(index) \in Nat
      /\ index \in Seq(RunIds)
  BY OverLimitSlices, LenProperties DEF TypeOK
<1>2. i \in 1..Len(index) /\ Len(index) \in 1..Len(index)
  BY <1>1
<1>3. index[i] \in RunIds /\ index[Len(index)] \in RunIds
  BY <1>1, <1>2, ElementOfSeq
<1>4. /\ order[index[i]] \in Nat
      /\ order[index[Len(index)]] \in Nat
      /\ order[index[Len(index)]] <= appended
      /\ appended \in Nat
  BY <1>3 DEF TypeOK, OrderInv
<1>5. order[index[i]] + (Len(index) - i) <= order[index[Len(index)]]
  BY <1>1, <1>2 DEF InOrder, Spaced
<1>6. order[index[i]] + Limit <= appended
  BY <1>1, <1>2, <1>4, <1>5, LimitAssumption
<1> QED
  BY <1>2, <1>6 DEF InOrder, Recorded, Expired, OverLimit

-----------------------------------------------------------------------------
(***************************************************************************)
(* The invariant holds initially, and each step preserves it.              *)
(***************************************************************************)

\* The invariant holds of an empty artifact root with idle handlers.
LEMMA InitIndInv == Init => IndInv
<1> SUFFICES ASSUME Init PROVE IndInv
  OBVIOUS
<1>1. TypeOK
  BY InitTypeOK
<1>2. Len(index) = 0
  BY EmptySeq DEF Init
<1>3. LockInv /\ RunInv /\ OrderInv /\ RetentionInv
  BY NoneAssumption DEF Init, LockInv, RunInv, OrderInv, RetentionInv, PruneInv,
     RewriteInv, ReleaseInv, Critical
<1>4. IndexInv
  BY <1>2 DEF IndexInv, InOrder, Spaced, DanglingFirst
<1>5. \A id \in RunIds : ~Recorded(id)
  BY DEF Init, Recorded
<1>6. RetainedRunsKeepSnapshots /\ ListedInv
  BY <1>5 DEF RetainedRunsKeepSnapshots, ListedInv, Retained, Init
<1>7. ReadInv
  BY DEF Init, ReadInv, Missing
<1> QED
  BY <1>1, <1>3, <1>4, <1>6, <1>7 DEF IndInv

\* Steps that leave the order of recording and the index alone.
LEMMA ListedFrame ==
    ASSUME ListedInv, UNCHANGED <<index, torn, damaged, order, appended, keep>>,
           \A v \in Workers : pc[v] = "rewriting" => pc'[v] = "rewriting"
    PROVE  ListedInv'
<1> SUFFICES ASSUME ~damaged'
             PROVE  /\ ~torn'
                    /\ \A id \in RunIds : Retained(id)' =>
                          \/ Indexed(id)'
                          \/ \E v \in Workers : pc'[v] = "rewriting" /\ InLine(keep[v], id)'
  BY DEF ListedInv, InLine
<1>1. ~damaged
  OBVIOUS
<1>2. ~torn'
  BY <1>1 DEF ListedInv
<1>3. ASSUME NEW id \in RunIds, Retained(id)'
      PROVE  \/ Indexed(id)'
             \/ \E v \in Workers : pc'[v] = "rewriting" /\ InLine(keep[v], id)'
  <2>1. Retained(id)
    BY <1>3 DEF Retained, Recorded, Expired
  <2>2. Indexed(id) \/ \E v \in Workers : pc[v] = "rewriting" /\ InLine(keep[v], id)
    BY <1>1, <2>1 DEF ListedInv
  <2> QED
    BY <2>2 DEF Indexed, InLine
<1> QED
  BY <1>2, <1>3

\* What a worker's slices say stays true while the disk and the index stay.
LEMMA SliceFrame ==
    ASSUME NEW v \in Workers, PruneInv(v), RewriteInv(v), ReleaseInv(v),
           UNCHANGED <<index, order, snapshots>>, strays \subseteq strays',
           pc[v] = pc'[v], doomed[v] = doomed'[v], keep[v] = keep'[v]
    PROVE  PruneInv(v)' /\ RewriteInv(v)' /\ ReleaseInv(v)'
<1>1. PruneInv(v)'
  BY DEF PruneInv, OverLimit, Surplus, Removed
<1>2. RewriteInv(v)'
  BY DEF RewriteInv, InOrder, Spaced, DanglingFirst
<1>3. ReleaseInv(v)'
  BY DEF ReleaseInv, OverLimit
<1> QED
  BY <1>1, <1>2, <1>3

\* Steps that touch no slice keep every worker's retention state.
LEMMA RetentionFrame ==
    ASSUME RetentionInv, UNCHANGED <<index, order, snapshots>>, strays \subseteq strays',
           \A v \in Workers :
              pc'[v] \in {"pruning", "rewriting", "release"} =>
                 pc[v] = pc'[v] /\ doomed[v] = doomed'[v] /\ keep[v] = keep'[v]
    PROVE  RetentionInv'
<1> SUFFICES ASSUME NEW v \in Workers
             PROVE  PruneInv(v)' /\ RewriteInv(v)' /\ ReleaseInv(v)'
  BY DEF RetentionInv
<1>1. CASE pc'[v] \in {"pruning", "rewriting", "release"}
  BY <1>1, SliceFrame DEF RetentionInv
<1>2. CASE pc'[v] \notin {"pruning", "rewriting", "release"}
  BY <1>2 DEF PruneInv, RewriteInv, ReleaseInv
<1> QED
  BY <1>1, <1>2

\* Adding snapshots loses none.
LEMMA RetainedFrame ==
    ASSUME RetainedRunsKeepSnapshots, UNCHANGED <<order, appended>>,
           snapshots \subseteq snapshots'
    PROVE  RetainedRunsKeepSnapshots'
BY DEF RetainedRunsKeepSnapshots, Retained, Recorded, Expired

\* Steps that record nothing leave what readers have learnt true.
LEMMA ReadFrame ==
    ASSUME ReadInv, UNCHANGED readVars, UNCHANGED <<order, appended>>
    PROVE  ReadInv'
BY DEF ReadInv, readVars, Missing, Recorded, Expired

\* Steps that touch neither index nor snapshots keep the order of the lines.
LEMMA IndexFrame ==
    ASSUME IndexInv, OrderInv, UNCHANGED <<index, order, appended, snapshots>>,
           strays \subseteq strays'
    PROVE  IndexInv' /\ OrderInv'
BY DEF IndexInv, OrderInv, InOrder, Spaced, DanglingFirst

\* A fresh run is unrecorded and belongs to one worker.
LEMMA PersistRunStep ==
    ASSUME IndInv, NEW w \in Workers, PersistRun(w), TypeOK'
    PROVE  IndInv'
<1> USE DEF PersistRun, Goto, indexVars, readVars, recordVars, IndInv
<1>1. \A v \in Workers : pc'[v] = IF v = w THEN "ran" ELSE pc[v]
  BY DEF TypeOK
<1>2. LockInv'
  BY <1>1 DEF LockInv, Critical
<1>3. RunInv'
  BY DEF RunInv, TypeOK
<1>4. IndexInv' /\ OrderInv'
  BY IndexFrame
<1>5. RetentionInv'
  BY <1>1, RetentionFrame
<1>6. RetainedRunsKeepSnapshots'
  BY RetainedFrame
<1>7. ListedInv'
  BY <1>1, ListedFrame
<1>8. ReadInv'
  BY ReadFrame
<1> QED
  BY <1>2, <1>3, <1>4, <1>5, <1>6, <1>7, <1>8

\* A run of the command line is nobody's and is never recorded.
LEMMA PersistCliRunStep ==
    ASSUME IndInv, PersistCliRun, TypeOK'
    PROVE  IndInv'
<1> USE DEF PersistCliRun, indexVars, workVars, readVars, IndInv
<1>1. LockInv'
  BY DEF LockInv
<1>2. RunInv'
  BY DEF RunInv
<1>3. IndexInv' /\ OrderInv'
  BY IndexFrame
<1>4. RetentionInv'
  BY RetentionFrame
<1>5. RetainedRunsKeepSnapshots'
  BY RetainedFrame
<1>6. ListedInv'
  BY ListedFrame
<1>7. ReadInv'
  BY ReadFrame
<1> QED
  BY <1>1, <1>2, <1>3, <1>4, <1>5, <1>6, <1>7

\* The snapshot written is of a run no line names yet.
LEMMA WriteSnapshotStep ==
    ASSUME IndInv, NEW w \in Workers, WriteSnapshot(w), TypeOK'
    PROVE  IndInv'
<1> USE DEF WriteSnapshot, Goto, indexVars, readVars, recordVars, IndInv
<1>1. LockInv'
  BY DEF LockInv, TypeOK, Critical
<1>2. RunInv'
  BY DEF RunInv, TypeOK
<1>3. OrderInv'
  BY DEF OrderInv
<1>4. run[w] \in RunIds /\ order[run[w]] = 0
  BY DEF RunInv, TypeOK
<1>5. ASSUME NEW s \in Seq(RunIds), InOrder(s), DanglingFirst(s)
      PROVE  InOrder(s)' /\ DanglingFirst(s)'
  <2>1. \A i \in 1..Len(s) : s[i] # run[w]
    BY <1>4, <1>5 DEF InOrder
  <2> QED
    BY <1>5, <2>1 DEF InOrder, Spaced, DanglingFirst
<1>6. IndexInv'
  BY <1>5 DEF IndexInv, TypeOK, InOrder, Spaced, DanglingFirst
<1>7. RetentionInv'
  <2>1. \A i \in 1..Len(index) : index[i] # run[w]
    BY <1>4 DEF IndexInv, InOrder
  <2> SUFFICES ASSUME NEW v \in Workers
               PROVE  PruneInv(v)' /\ RewriteInv(v)' /\ ReleaseInv(v)'
    BY DEF RetentionInv
  <2>2. PruneInv(v)'
    <3>1. CASE pc[v] = "pruning"
      <4>1. /\ Surplus \in Nat /\ Surplus <= Len(index) /\ Len(index) \in Nat
            /\ Len(doomed[v]) \in Nat
        <5>1. OverLimit
          BY <3>1 DEF RetentionInv, PruneInv
        <5>2. index \in Seq(RunIds) /\ doomed[v] \in Seq(RunIds)
          BY DEF TypeOK
        <5> QED
          BY <5>1, <5>2, OverLimitSlices, LenProperties
      <4> QED
        <5>1. \A i \in 1..Removed(v) : index[i] \notin (snapshots \ strays)'
          <6>1. \A i \in 1..Removed(v) : i \in 1..Len(index)
            BY <4>1 DEF Removed
          <6>2. \A i \in 1..Removed(v) : index[i] \notin snapshots \ strays
            BY <3>1 DEF RetentionInv, PruneInv
          <6> QED
            BY <2>1, <6>1, <6>2
        <5>2. UNCHANGED <<OverLimit, Surplus, Removed(v)>>
          BY DEF OverLimit, Surplus, Removed
        <5> QED
          BY <3>1, <5>1, <5>2 DEF RetentionInv, PruneInv
    <3> QED
      BY <3>1 DEF PruneInv, TypeOK
  <2>3. RewriteInv(v)'
    <3>1. CASE pc[v] = "rewriting"
      <4>1. keep[v] \in Seq(RunIds) /\ InOrder(keep[v]) /\ DanglingFirst(keep[v])
        BY <3>1 DEF TypeOK, RetentionInv, RewriteInv
      <4>2. InOrder(keep[v])' /\ DanglingFirst(keep[v])'
        BY <1>5, <4>1 DEF InOrder, Spaced, DanglingFirst
      <4> QED
        BY <3>1, <4>2 DEF RetentionInv, RewriteInv, TypeOK
    <3> QED
      BY <3>1 DEF RewriteInv, TypeOK
  <2>4. ReleaseInv(v)'
    BY DEF RetentionInv, ReleaseInv, OverLimit, TypeOK
  <2> QED
    BY <2>2, <2>3, <2>4
<1>8. RetainedRunsKeepSnapshots'
  BY DEF RetainedRunsKeepSnapshots, Retained, Recorded, Expired
<1>9. ListedInv'
  BY ListedFrame DEF TypeOK
<1>10. ReadInv'
  BY ReadFrame
<1> QED
  BY <1>1, <1>2, <1>3, <1>6, <1>7, <1>8, <1>9, <1>10

\* At most one worker enters the critical section.
LEMMA AcquireIndexLockStep ==
    ASSUME IndInv, NEW w \in Workers, AcquireIndexLock(w), TypeOK'
    PROVE  IndInv'
<1> USE DEF AcquireIndexLock, Goto, diskVars, indexVars, readVars, recordVars, IndInv
<1>1. \A v \in Workers : pc'[v] = IF v = w THEN "locked" ELSE pc[v]
  BY DEF TypeOK
<1>2. LockInv'
  BY <1>1, NoneAssumption DEF LockInv, Critical
<1>3. RunInv'
  BY <1>1 DEF RunInv
<1>4. IndexInv' /\ OrderInv'
  BY IndexFrame
<1>5. RetentionInv'
  BY <1>1, RetentionFrame
<1>6. RetainedRunsKeepSnapshots'
  BY RetainedFrame
<1>7. ListedInv'
  BY <1>1, ListedFrame
<1>8. ReadInv'
  BY ReadFrame
<1> QED
  BY <1>2, <1>3, <1>4, <1>5, <1>6, <1>7, <1>8

\* Retention is skipped within the limit only.
LEMMA SkipRetentionStep ==
    ASSUME IndInv, NEW w \in Workers, SkipRetention(w), TypeOK'
    PROVE  IndInv'
<1> USE DEF SkipRetention, Goto, diskVars, indexVars, readVars, recordVars, IndInv
<1>1. \A v \in Workers : pc'[v] = IF v = w THEN "release" ELSE pc[v]
  BY DEF TypeOK
<1>2. LockInv'
  BY <1>1 DEF LockInv, Critical
<1>3. RunInv'
  BY <1>1 DEF RunInv
<1>4. IndexInv' /\ OrderInv'
  BY IndexFrame
<1>5. RetentionInv'
  <2> SUFFICES ASSUME NEW v \in Workers
               PROVE  PruneInv(v)' /\ RewriteInv(v)' /\ ReleaseInv(v)'
    BY DEF RetentionInv
  <2>1. CASE v = w
    BY <1>1, <2>1 DEF PruneInv, RewriteInv, ReleaseInv, OverLimit
  <2>2. CASE v # w
    BY <1>1, <2>2, SliceFrame DEF RetentionInv
  <2> QED
    BY <2>1, <2>2
<1>6. RetainedRunsKeepSnapshots'
  BY RetainedFrame
<1>7. ListedInv'
  BY <1>1, ListedFrame
<1>8. ReadInv'
  BY ReadFrame
<1> QED
  BY <1>2, <1>3, <1>4, <1>5, <1>6, <1>7, <1>8

\* The run appended is the youngest, so the lines stay in order.
LEMMA AppendInOrder ==
    ASSUME TypeOK, TypeOK', OrderInv, IndexInv, NEW id \in RunIds,
           order[id] = 0, id \in snapshots, UNCHANGED <<snapshots, strays>>,
           order' = [order EXCEPT ![id] = appended + 1],
           index' = index \/ index' = Append(index, id)
    PROVE  IndexInv'
<1>1. /\ index \in Seq(RunIds) /\ Len(index) \in Nat /\ appended \in Nat
      /\ \A i \in 1..Len(index) : index[i] \in RunIds /\ order[index[i]] \in Nat
  BY LenProperties, ElementOfSeq DEF TypeOK
<1>2. \A i \in 1..Len(index) : index[i] # id
  BY DEF IndexInv, InOrder
<1>3. \A i \in 1..Len(index) :
         /\ order'[index[i]] = order[index[i]]
         /\ order[index[i]] > 0
         /\ order[index[i]] + (Len(index) - i) <= appended
  <2> SUFFICES ASSUME NEW i \in 1..Len(index)
               PROVE  /\ order'[index[i]] = order[index[i]]
                      /\ order[index[i]] > 0
                      /\ order[index[i]] + (Len(index) - i) <= appended
    OBVIOUS
  <2>1. order'[index[i]] = order[index[i]] /\ order[index[i]] > 0
    BY <1>1, <1>2 DEF TypeOK, IndexInv, InOrder
  <2>2. order[index[i]] + (Len(index) - i) <= order[index[Len(index)]]
    BY <1>1 DEF IndexInv, InOrder, Spaced
  <2>3. order[index[Len(index)]] <= appended
    BY <1>1 DEF OrderInv
  <2> QED
    BY <1>1, <2>1, <2>2, <2>3
<1>4. \A i, j \in 1..Len(index) : i <= j => order[index[i]] + (j - i) <= order[index[j]]
  BY DEF IndexInv, InOrder, Spaced
<1>5. CASE index' = index
  <2>1. InOrder(index)'
    BY <1>3, <1>4, <1>5 DEF InOrder, Spaced
  <2> QED
    BY <1>5, <2>1 DEF IndexInv, DanglingFirst
<1>6. CASE index' = Append(index, id)
  <2>1. /\ Len(index') = Len(index) + 1
        /\ \A i \in 1..Len(index) : index'[i] = index[i]
        /\ index'[Len(index) + 1] = id
    BY <1>1, <1>6, AppendProperties
  <2>2. order'[id] = appended + 1
    BY DEF TypeOK
  <2>3. ASSUME NEW i \in 1..Len(index') PROVE order'[index'[i]] > 0
    <3>1. i \in 1..Len(index) \/ i = Len(index) + 1
      BY <1>1, <2>1
    <3>2. CASE i \in 1..Len(index)
      BY <1>3, <2>1, <3>2
    <3>3. CASE i = Len(index) + 1
      BY <1>1, <2>1, <2>2, <3>3
    <3> QED
      BY <3>1, <3>2, <3>3
  <2>4. ASSUME NEW i \in 1..Len(index'), NEW j \in 1..Len(index'), i <= j
        PROVE  order'[index'[i]] + (j - i) <= order'[index'[j]]
    <3>1. CASE j \in 1..Len(index)
      <4>1. i \in 1..Len(index)
        BY <1>1, <2>1, <2>4, <3>1
      <4>2. order[index[i]] + (j - i) <= order[index[j]]
        BY <1>4, <2>4, <3>1, <4>1
      <4> QED
        BY <1>3, <2>1, <3>1, <4>1, <4>2
    <3>2. CASE j = Len(index) + 1 /\ i \in 1..Len(index)
      BY <1>1, <1>3, <2>1, <2>2, <3>2
    <3>3. CASE j = Len(index) + 1 /\ i = Len(index) + 1
      BY <1>1, <2>1, <2>2, <3>3
    <3> QED
      BY <1>1, <2>1, <2>4, <3>1, <3>2, <3>3
  <2>5. DanglingFirst(index)'
    <3> SUFFICES ASSUME NEW i \in 1..Len(index'), NEW j \in 1..Len(index'), i < j,
                        index'[i] \in snapshots \ strays
                 PROVE  index'[j] \in snapshots
      BY DEF DanglingFirst
    <3>1. i \in 1..Len(index)
      BY <1>1, <2>1
    <3>2. CASE j = Len(index) + 1
      BY <2>1, <3>2
    <3>3. CASE j \in 1..Len(index)
      BY <2>1, <3>1, <3>3 DEF IndexInv, DanglingFirst
    <3> QED
      BY <1>1, <2>1, <3>2, <3>3
  <2> QED
    BY <2>3, <2>4, <2>5 DEF IndexInv, InOrder, Spaced
<1> QED
  BY <1>5, <1>6

\* Appending the youngest run keeps the order and counts at most one run out.
LEMMA AppendRecordStep ==
    ASSUME IndInv, NEW w \in Workers, AppendRecord(w), TypeOK'
    PROVE  IndInv'
<1> USE DEF AppendRecord, Goto, diskVars, readVars, IndInv
<1>1. \A v \in Workers : pc'[v] = IF v = w THEN "appended" ELSE pc[v]
  BY DEF TypeOK
<1>2. /\ run[w] \in RunIds /\ run[w] \in started
      /\ order[run[w]] = 0 /\ run[w] \in snapshots
      /\ appended \in Nat /\ appended' = appended + 1
      /\ \A id \in RunIds : order[id] \in Nat /\ order[id] <= appended
      /\ \A id \in RunIds : order'[id] = IF id = run[w] THEN appended + 1 ELSE order[id]
  BY DEF RunInv, TypeOK, OrderInv
<1>3. \A v \in Workers : v # w => pc[v] \notin Critical
  BY DEF LockInv, Critical
<1>4. LockInv'
  BY <1>1 DEF LockInv, Critical
<1>5. RunInv'
  <2>1. \A v \in Workers : pc'[v] \in {"ran", "snapshotted", "locked"} =>
           v # w /\ run[v] # run[w] /\ run[v] \in RunIds
    BY <1>1 DEF RunInv, TypeOK
  <2>2. \A v \in Workers :
           /\ pc'[v] # "idle" => run'[v] \in started'
           /\ pc'[v] \in {"ran", "snapshotted", "locked"} => order'[run'[v]] = 0
           /\ pc'[v] \in {"snapshotted", "locked"} => run'[v] \in snapshots'
    BY <1>1, <1>2, <2>1 DEF RunInv
  <2>3. \A u, v \in Workers :
           pc'[u] # "idle" /\ pc'[v] # "idle" /\ run'[u] = run'[v] => u = v
    BY <1>1 DEF RunInv
  <2>4. \A id \in RunIds \ started' : order'[id] = 0
    BY <1>2 DEF RunInv
  <2> QED
    BY <2>2, <2>3, <2>4 DEF RunInv
<1>6. OrderInv'
  BY <1>2 DEF OrderInv
<1>7. index' = index \/ index' = Append(index, run[w])
  OBVIOUS
<1>8. IndexInv'
  BY <1>2, <1>7, AppendInOrder
<1>9. RetentionInv'
  BY <1>1, <1>3 DEF RetentionInv, PruneInv, RewriteInv, ReleaseInv, Critical
<1>10. \A id \in RunIds : Retained(id)' => id = run[w] \/ Retained(id)
  BY <1>2, LimitAssumption DEF Retained, Recorded, Expired
<1>11. RetainedRunsKeepSnapshots'
  BY <1>2, <1>10 DEF RetainedRunsKeepSnapshots
<1>12. ListedInv'
  <2> SUFFICES ASSUME ~damaged
               PROVE  ~torn' /\ \A id \in RunIds : Retained(id)' => Indexed(id)'
    BY DEF ListedInv
  <2>1. ~torn /\ ~torn'
    BY DEF ListedInv
  <2>2. index' = Append(index, run[w])
    BY <2>1
  <2>3. /\ Len(index) \in Nat
        /\ Len(index') = Len(index) + 1
        /\ \A i \in 1..Len(index) : index'[i] = index[i]
        /\ index'[Len(index) + 1] = run[w]
    BY <1>2, <2>2, AppendProperties, LenProperties DEF TypeOK
  <2>4. Indexed(run[w])'
    BY <2>3 DEF Indexed, InLine
  <2>5. ASSUME NEW id \in RunIds, Retained(id) PROVE Indexed(id)'
    <3>1. Indexed(id)
      BY <1>3, <2>5 DEF ListedInv, Critical
    <3> QED
      BY <2>3, <3>1 DEF Indexed, InLine
  <2> QED
    BY <1>10, <2>1, <2>4, <2>5
<1>13. ReadInv'
  <2> SUFFICES ASSUME NEW r \in Readers, wanted[r] \in RunIds, Recorded(wanted[r])
               PROVE  /\ Recorded(wanted[r])'
                      /\ Expired(wanted[r]) => Expired(wanted[r])'
    BY DEF ReadInv, Missing
  <2>1. wanted[r] # run[w]
    BY <1>2 DEF Recorded
  <2> QED
    BY <1>2, <2>1, LimitAssumption DEF Recorded, Expired
<1> QED
  BY <1>4, <1>5, <1>6, <1>8, <1>9, <1>11, <1>12, <1>13

\* The slices taken describe the index they were taken from.
LEMMA BeginPruneStep ==
    ASSUME IndInv, NEW w \in Workers, BeginPrune(w), TypeOK'
    PROVE  IndInv'
<1> USE DEF BeginPrune, Goto, diskVars, indexVars, readVars, recordVars, IndInv
<1>1. \A v \in Workers : pc'[v] = IF v = w THEN "pruning" ELSE pc[v]
  BY DEF TypeOK
<1>2. \A v \in Workers : v # w => doomed'[v] = doomed[v] /\ keep'[v] = keep[v]
  BY DEF TypeOK
<1>3. /\ doomed'[w] = SubSeq(index, 1, Surplus)
      /\ keep'[w] = SubSeq(index, Surplus + 1, Len(index))
  BY DEF TypeOK
<1>4. \A v \in Workers : v # w => pc[v] \notin Critical
  BY DEF LockInv, Critical
<1>5. LockInv'
  BY <1>1 DEF LockInv, Critical
<1>6. RunInv'
  BY <1>1 DEF RunInv
<1>7. IndexInv' /\ OrderInv'
  BY IndexFrame
<1>8. RetentionInv'
  <2> SUFFICES ASSUME NEW v \in Workers
               PROVE  PruneInv(v)' /\ RewriteInv(v)' /\ ReleaseInv(v)'
    BY DEF RetentionInv
  <2>1. CASE v # w
    BY <1>1, <1>4, <2>1 DEF PruneInv, RewriteInv, ReleaseInv, Critical
  <2>2. CASE v = w
    <3>1. RewriteInv(v)' /\ ReleaseInv(v)'
      BY <1>1, <2>2 DEF RewriteInv, ReleaseInv
    <3>2. /\ Surplus \in Nat
          /\ Len(doomed'[w]) = Surplus
          /\ \A i \in 1..Surplus : doomed'[w][i] = index[i]
          /\ Len(keep'[w]) = Limit
          /\ \A i \in 1..Limit : keep'[w][i] = index[Surplus + i]
      BY <1>3, OverLimitSlices
    <3>3. Surplus' = Surplus /\ OverLimit' /\ Removed(w)' = 0
      BY <3>2 DEF Surplus, OverLimit, Removed
    <3>4. PruneInv(w)'
      BY <3>2, <3>3 DEF PruneInv
    <3> QED
      BY <2>2, <3>1, <3>4
  <2> QED
    BY <2>1, <2>2
<1>9. RetainedRunsKeepSnapshots'
  BY RetainedFrame
<1>10. ListedInv'
  <2>1. ASSUME ~damaged, NEW id \in RunIds, Retained(id)' PROVE Indexed(id)'
    <3>1. Retained(id)
      BY <2>1 DEF Retained, Recorded, Expired
    <3>2. Indexed(id)
      BY <1>4, <2>1, <3>1 DEF ListedInv, Critical
    <3> QED
      BY <3>2 DEF Indexed, InLine
  <2>2. ~damaged' => ~torn'
    BY DEF ListedInv
  <2> QED
    BY <2>1, <2>2 DEF ListedInv
<1>11. ReadInv'
  BY ReadFrame
<1> QED
  BY <1>5, <1>6, <1>7, <1>8, <1>9, <1>10, <1>11

\* The record dealt with is the oldest of those not yet dealt with, whether its
\* directory goes or stays.
LEMMA PruneOldestStep ==
    ASSUME IndInv, NEW w \in Workers, PruneOldest(w), TypeOK'
    PROVE  IndInv'
<1> USE DEF PruneOldest, indexVars, readVars, IndInv
<1> DEFINE k == Removed(w) + 1
           victim == index[k]
<1>1. /\ OverLimit
      /\ Surplus \in 1..Len(index) /\ Len(index) \in Nat
      /\ Len(index) = Surplus + Limit
      /\ Len(doomed[w]) \in 1..Surplus
  <2>1. doomed[w] \in Seq(RunIds) /\ doomed[w] # <<>>
    BY DEF TypeOK
  <2>2. OverLimit /\ Len(doomed[w]) <= Surplus
    BY DEF RetentionInv, PruneInv
  <2>3. Len(doomed[w]) \in Nat \ {0}
    BY <2>1, EmptySeq
  <2> QED
    BY <2>2, <2>3, OverLimitSlices
<1>2. /\ k \in 1..Surplus /\ k \in 1..Len(index)
      /\ k \in Nat /\ Surplus \in Nat /\ Removed(w) = k - 1
  <2>1. /\ Surplus \in Nat /\ Surplus <= Len(index)
        /\ Len(doomed[w]) \in Nat /\ 1 <= Len(doomed[w]) /\ Len(doomed[w]) <= Surplus
    BY <1>1
  <2>2. Removed(w) = Surplus - Len(doomed[w])
    BY DEF Removed
  <2>3. Removed(w) \in Nat /\ Removed(w) < Surplus
    BY <2>1, <2>2
  <2> QED
    BY <1>1, <2>1, <2>3
<1>3. Head(doomed[w]) = victim
  <2>1. doomed[w][1] = index[Removed(w) + 1]
    BY <1>1 DEF RetentionInv, PruneInv
  <2> QED
    BY <2>1 DEF TypeOK
<1>4. /\ snapshots' \in {snapshots, snapshots \ {victim}}
      /\ (snapshots \ strays)' = (snapshots \ strays) \ {victim}
  BY <1>3 DEF RemoveRun, LeaveRun
<1>5. victim \in RunIds /\ Recorded(victim) /\ Expired(victim)
  <2>1. index \in Seq(RunIds)
    BY DEF TypeOK
  <2>2. victim \in RunIds
    BY <1>2, <2>1, ElementOfSeq
  <2> QED
    BY <1>1, <1>2, <2>2, SurplusIsExpired DEF IndexInv
<1>6. \A i \in 1..Len(index) : i # k => index[i] # victim
  <2>1. index \in Seq(RunIds) /\ InOrder(index)
    BY DEF TypeOK, IndexInv
  <2> QED
    BY <1>2, <2>1, LinesAreDistinct
<1>7. \A v \in Workers : v # w => pc[v] \notin Critical
  BY DEF LockInv, Critical
<1>8. \A i \in 1..Removed(w) : index[i] \notin snapshots \ strays
  BY DEF RetentionInv, PruneInv
<1>9. LockInv'
  BY DEF LockInv
<1>10. RunInv'
  BY <1>4, <1>5 DEF RunInv, Recorded
<1>11. OrderInv' /\ InOrder(index)'
  BY DEF OrderInv, IndexInv, InOrder, Spaced
<1>12. DanglingFirst(index)'
  <2> SUFFICES ASSUME NEW i \in 1..Len(index), NEW j \in 1..Len(index), i < j,
                      index[i] \in (snapshots \ strays)'
               PROVE  index[j] \in snapshots'
    BY DEF DanglingFirst
  <2>1. index[i] \in snapshots \ strays /\ index[i] # victim
    BY <1>4
  <2>2. index[j] \in snapshots
    BY <2>1 DEF IndexInv, DanglingFirst
  <2>3. i > k
    <3>1. i # k
      BY <2>1
    <3>2. ~(i \in 1..(k - 1))
      BY <1>2, <1>8, <2>1
    <3>3. i \in Nat /\ i >= 1
      BY <1>1
    <3> QED
      BY <1>2, <3>1, <3>2, <3>3
  <2>4. index[j] # victim
    BY <1>1, <1>2, <1>6, <2>3
  <2> QED
    BY <1>4, <2>2, <2>4
<1>13. RetentionInv'
  <2> SUFFICES ASSUME NEW v \in Workers
               PROVE  PruneInv(v)' /\ RewriteInv(v)' /\ ReleaseInv(v)'
    BY DEF RetentionInv
  <2>1. CASE v # w
    BY <1>7, <2>1 DEF PruneInv, RewriteInv, ReleaseInv, Critical
  <2>2. CASE v = w
    <3>1. doomed'[w] = Tail(doomed[w])
      BY DEF TypeOK
    <3>2. /\ Len(doomed'[w]) = Len(doomed[w]) - 1
          /\ \A i \in 1..Len(doomed'[w]) : doomed'[w][i] = doomed[w][i + 1]
      BY <3>1, HeadTailProperties DEF TypeOK
    <3>3. Surplus' = Surplus /\ OverLimit' /\ Removed(w)' = k
      BY <1>1, <3>2 DEF Surplus, OverLimit, Removed
    <3>4. \A i \in 1..Len(doomed'[w]) : doomed'[w][i] = index[k + i]
      <4> SUFFICES ASSUME NEW i \in 1..Len(doomed'[w])
                   PROVE  doomed'[w][i] = index[k + i]
        OBVIOUS
      <4>1. i + 1 \in 1..Len(doomed[w])
        BY <1>1, <3>2
      <4>2. doomed[w][i + 1] = index[Removed(w) + (i + 1)]
        BY <4>1 DEF RetentionInv, PruneInv
      <4>3. Removed(w) + (i + 1) = k + i
        BY <1>1 DEF Removed
      <4> QED
        BY <3>2, <4>2, <4>3
    <3>5. \A i \in 1..k : index[i] \notin (snapshots \ strays)'
      <4>1. \A i \in 1..k : i = k \/ i \in 1..Removed(w)
        BY <1>1 DEF Removed
      <4> QED
        BY <1>4, <1>8, <4>1
    <3>6. PruneInv(w)'
      BY <1>1, <3>2, <3>3, <3>4, <3>5 DEF RetentionInv, PruneInv
    <3>7. RewriteInv(w)' /\ ReleaseInv(w)'
      BY DEF RewriteInv, ReleaseInv
    <3> QED
      BY <2>2, <3>6, <3>7
  <2> QED
    BY <2>1, <2>2
<1>14. RetainedRunsKeepSnapshots'
  BY <1>4, <1>5 DEF RetainedRunsKeepSnapshots, Retained, Recorded, Expired
<1>15. ListedInv'
  BY ListedFrame
<1>16. ReadInv'
  BY ReadFrame
<1> QED
  BY <1>9, <1>10, <1>11, <1>12, <1>13, <1>14, <1>15, <1>16 DEF IndexInv

\* Every retained run is among the lines kept when the index is emptied.
LEMMA TruncateIndexStep ==
    ASSUME IndInv, NEW w \in Workers, TruncateIndex(w), TypeOK'
    PROVE  IndInv'
<1> USE DEF TruncateIndex, Goto, diskVars, readVars, recordVars, IndInv
<1>1. \A v \in Workers : pc'[v] = IF v = w THEN "rewriting" ELSE pc[v]
  BY DEF TypeOK
<1>2. /\ OverLimit
      /\ Len(keep[w]) = Limit
      /\ \A i \in 1..Limit : keep[w][i] = index[Surplus + i]
  BY DEF RetentionInv, PruneInv
<1>3. /\ Surplus \in Nat /\ Len(index) \in Nat /\ Limit \in Nat
      /\ Len(index) = Surplus + Limit
  BY <1>2, OverLimitSlices, LimitAssumption
<1>4. Len(index') = 0
  BY EmptySeq
<1>5. \A v \in Workers : v # w => pc[v] \notin Critical
  BY DEF LockInv, Critical
<1>6. LockInv'
  BY <1>1 DEF LockInv, Critical
<1>7. RunInv'
  BY <1>1 DEF RunInv
<1>8. OrderInv' /\ IndexInv'
  BY <1>4 DEF OrderInv, IndexInv, InOrder, Spaced, DanglingFirst
<1>9. InOrder(keep[w]) /\ DanglingFirst(keep[w])
  <2>1. \A i \in 1..Limit : order[keep[w][i]] > 0
    <3>1. \A i \in 1..Limit : Surplus + i \in 1..Len(index)
      BY <1>3
    <3> QED
      BY <1>2, <3>1 DEF IndexInv, InOrder
  <2>2. ASSUME NEW i \in 1..Limit, NEW j \in 1..Limit, i <= j
        PROVE  order[keep[w][i]] + (j - i) <= order[keep[w][j]]
    <3>1. /\ Surplus + i \in 1..Len(index) /\ Surplus + j \in 1..Len(index)
          /\ Surplus + i <= Surplus + j
          /\ (Surplus + j) - (Surplus + i) = j - i
      BY <1>3, <2>2
    <3>2. order[index[Surplus + i]] + ((Surplus + j) - (Surplus + i))
             <= order[index[Surplus + j]]
      BY <3>1 DEF IndexInv, InOrder, Spaced
    <3> QED
      BY <1>2, <3>1, <3>2
  <2>3. ASSUME NEW i \in 1..Limit, NEW j \in 1..Limit, i < j,
               keep[w][i] \in snapshots \ strays
        PROVE  keep[w][j] \in snapshots
    <3>1. /\ Surplus + i \in 1..Len(index) /\ Surplus + j \in 1..Len(index)
          /\ Surplus + i < Surplus + j
      BY <1>3, <2>3
    <3>2. keep[w][i] = index[Surplus + i] /\ keep[w][j] = index[Surplus + j]
      BY <1>2
    <3> QED
      BY <2>3, <3>1, <3>2 DEF IndexInv, DanglingFirst
  <2> QED
    BY <1>2, <2>1, <2>2, <2>3 DEF InOrder, Spaced, DanglingFirst
<1>10. RetentionInv'
  <2> SUFFICES ASSUME NEW v \in Workers
               PROVE  PruneInv(v)' /\ RewriteInv(v)' /\ ReleaseInv(v)'
    BY DEF RetentionInv
  <2>1. CASE v # w
    BY <1>1, <1>5, <2>1 DEF PruneInv, RewriteInv, ReleaseInv, Critical
  <2>2. CASE v = w
    <3>1. PruneInv(w)' /\ ReleaseInv(w)'
      BY <1>1 DEF PruneInv, ReleaseInv
    <3>2. InOrder(keep[w])' /\ DanglingFirst(keep[w])'
      BY <1>9 DEF InOrder, Spaced, DanglingFirst
    <3>3. RewriteInv(w)'
      BY <1>2, <1>3, <1>4, <3>2 DEF RewriteInv, OverLimit
    <3> QED
      BY <2>2, <3>1, <3>3
  <2> QED
    BY <2>1, <2>2
<1>11. RetainedRunsKeepSnapshots'
  BY RetainedFrame
<1>12. ListedInv'
  <2>1. ASSUME ~damaged, NEW id \in RunIds, Retained(id)' PROVE InLine(keep[w], id)'
    <3>1. Retained(id)
      BY <2>1 DEF Retained, Recorded, Expired
    <3>2. Indexed(id)
      BY <1>5, <2>1, <3>1 DEF ListedInv, Critical
    <3>3. PICK p \in 1..Len(index) : index[p] = id
      BY <3>2 DEF Indexed, InLine
    <3>4. ~(p \in 1..Surplus)
      BY <1>2, <3>1, <3>3, SurplusIsExpired DEF Retained, IndexInv
    <3>5. p - Surplus \in 1..Limit /\ Surplus + (p - Surplus) = p
      BY <1>3, <3>4
    <3>6. keep[w][p - Surplus] = id
      BY <1>2, <3>3, <3>5
    <3> QED
      BY <1>2, <3>5, <3>6 DEF InLine
  <2> QED
    BY <1>1, <2>1 DEF ListedInv
<1>13. ReadInv'
  BY ReadFrame
<1> QED
  BY <1>6, <1>7, <1>8, <1>10, <1>11, <1>12, <1>13

\* Each line written back continues a prefix of the kept lines.
LEMMA RewriteLineStep ==
    ASSUME IndInv, NEW w \in Workers, RewriteLine(w), TypeOK'
    PROVE  IndInv'
<1> USE DEF RewriteLine, Unwritten, diskVars, workVars, readVars, recordVars, IndInv
<1> DEFINE n == Len(index) + 1
<1>1. /\ Limit > 0 /\ Limit \in Nat /\ Len(keep[w]) = Limit
      /\ InOrder(keep[w]) /\ DanglingFirst(keep[w])
      /\ Len(index) \in Nat /\ Len(index) <= Limit
      /\ \A i \in 1..Len(index) : index[i] = keep[w][i]
  BY LimitAssumption, LenProperties DEF RetentionInv, RewriteInv, TypeOK
<1>2. n \in 1..Limit /\ keep[w][n] \in RunIds
  <2>1. n \in 1..Limit
    BY <1>1
  <2>2. keep[w] \in Seq(RunIds)
    BY DEF TypeOK
  <2> QED
    BY <1>1, <2>1, <2>2, ElementOfSeq
<1>3. /\ Len(index') = n
      /\ \A i \in 1..n : index'[i] = keep[w][i]
  <2>1. index \in Seq(RunIds)
    BY DEF TypeOK
  <2>2. /\ Len(index') = n
        /\ \A i \in 1..Len(index) : index'[i] = index[i]
        /\ index'[n] = keep[w][n]
    BY <1>2, <2>1, AppendProperties
  <2>3. \A i \in 1..n : i \in 1..Len(index) \/ i = n
    BY <1>1
  <2> QED
    BY <1>1, <2>2, <2>3
<1>4. \A v \in Workers : v # w => pc[v] \notin Critical
  BY DEF LockInv, Critical
<1>5. LockInv' /\ RunInv' /\ OrderInv'
  BY DEF LockInv, RunInv, OrderInv
<1>6. IndexInv'
  <2>1. \A i \in 1..n : i \in 1..Limit
    BY <1>1, <1>2
  <2>2. InOrder(index)'
    <3>1. \A i \in 1..n : order[keep[w][i]] > 0
      BY <1>1, <2>1 DEF InOrder
    <3>2. \A i, j \in 1..n :
             i <= j => order[keep[w][i]] + (j - i) <= order[keep[w][j]]
      BY <1>1, <2>1 DEF InOrder, Spaced
    <3>3. order' = order
      OBVIOUS
    <3>4. \A i \in 1..Len(index') : order'[index'[i]] > 0
      BY <1>3, <3>1, <3>3
    <3>5. Spaced(index)'
      <4> SUFFICES ASSUME NEW i \in 1..Len(index'), NEW j \in 1..Len(index'), i <= j
                   PROVE  order'[index'[i]] + (j - i) <= order'[index'[j]]
        BY DEF Spaced
      <4>1. i \in 1..n /\ j \in 1..n
        BY <1>3
      <4>2. index'[i] = keep[w][i] /\ index'[j] = keep[w][j]
        BY <1>3, <4>1
      <4> QED
        BY <3>2, <3>3, <4>1, <4>2
    <3> QED
      BY <3>4, <3>5 DEF InOrder
  <2>3. DanglingFirst(index)'
    BY <1>1, <1>3, <2>1 DEF DanglingFirst
  <2> QED
    BY <2>2, <2>3 DEF IndexInv
<1>7. RetentionInv'
  <2> SUFFICES ASSUME NEW v \in Workers
               PROVE  PruneInv(v)' /\ RewriteInv(v)' /\ ReleaseInv(v)'
    BY DEF RetentionInv
  <2>1. CASE v # w
    BY <1>4, <2>1 DEF PruneInv, RewriteInv, ReleaseInv, Critical
  <2>2. CASE v = w
    <3>1. InOrder(keep[w])' /\ DanglingFirst(keep[w])'
      BY <1>1 DEF InOrder, Spaced, DanglingFirst
    <3>2. RewriteInv(w)'
      BY <1>1, <1>2, <1>3, <3>1 DEF RewriteInv
    <3> QED
      BY <2>2, <3>2 DEF PruneInv, ReleaseInv
  <2> QED
    BY <2>1, <2>2
<1>8. RetainedRunsKeepSnapshots'
  BY RetainedFrame
<1>9. ListedInv'
  <2>1. ASSUME ~damaged, NEW id \in RunIds, Retained(id)' PROVE InLine(keep[w], id)'
    <3>1. Retained(id)
      BY <2>1 DEF Retained, Recorded, Expired
    <3>2. Indexed(id) \/ InLine(keep[w], id)
      BY <1>4, <2>1, <3>1 DEF ListedInv, Critical
    <3>3. \A i \in 1..Len(index) : i \in 1..Len(keep[w])
      BY <1>1
    <3> QED
      BY <1>1, <3>2, <3>3 DEF Indexed, InLine
  <2> QED
    BY <2>1 DEF ListedInv
<1>10. ReadInv'
  BY ReadFrame
<1> QED
  BY <1>5, <1>6, <1>7, <1>8, <1>9, <1>10

\* A worker leaves the critical section with the index whole or as it found it.
LEMMA LeaveListed ==
    ASSUME IndInv, NEW w \in Workers, pc' = [pc EXCEPT ![w] = "idle"],
           UNCHANGED <<index, keep, order, appended>>,
           ~damaged' => ~damaged /\ ~Unwritten(w) /\ (torn' => torn)
    PROVE  ListedInv'
<1> USE DEF IndInv
<1> SUFFICES ASSUME ~damaged'
             PROVE  /\ ~torn'
                    /\ \A id \in RunIds : Retained(id)' =>
                          \/ Indexed(id)'
                          \/ \E v \in Workers : pc'[v] = "rewriting" /\ InLine(keep[v], id)'
  BY DEF ListedInv, InLine
<1>1. ~damaged /\ ~Unwritten(w) /\ ~torn /\ ~torn'
  BY DEF ListedInv
<1>2. ASSUME NEW id \in RunIds, Retained(id)'
      PROVE  \/ Indexed(id)'
             \/ \E v \in Workers : pc'[v] = "rewriting" /\ InLine(keep[v], id)'
  <2>1. Retained(id)
    BY <1>2 DEF Retained, Recorded, Expired
  <2>2. CASE Indexed(id)
    BY <2>2 DEF Indexed, InLine
  <2>3. CASE ~Indexed(id)
    <3>1. PICK v \in Workers : pc[v] = "rewriting" /\ InLine(keep[v], id)
      BY <1>1, <2>1, <2>3 DEF ListedInv
    <3>2. CASE v = w
      <4>1. /\ Len(keep[w]) = Limit
            /\ Len(index) <= Limit
            /\ \A i \in 1..Len(index) : index[i] = keep[w][i]
        BY <3>1, <3>2 DEF RetentionInv, RewriteInv
      <4>2. ~(Len(index) < Len(keep[w]))
        BY <1>1, <3>1, <3>2 DEF Unwritten
      <4>3. Len(index) = Len(keep[w])
        BY <4>1, <4>2, LimitAssumption, LenProperties DEF TypeOK
      <4> QED
        BY <2>3, <3>1, <3>2, <4>1, <4>3 DEF Indexed, InLine
    <3>3. CASE v # w
      <4>1. pc'[v] = "rewriting"
        BY <3>1, <3>3 DEF TypeOK
      <4> QED
        BY <3>1, <4>1 DEF InLine
    <3> QED
      BY <3>2, <3>3
  <2> QED
    BY <2>2, <2>3
<1> QED
  BY <1>1, <1>2

\* A completed record leaves a whole index.
LEMMA ReleaseIndexLockStep ==
    ASSUME IndInv, NEW w \in Workers, ReleaseIndexLock(w), TypeOK'
    PROVE  IndInv'
<1> USE DEF ReleaseIndexLock, diskVars, indexVars, readVars, recordVars, IndInv
<1>1. \A v \in Workers : /\ pc'[v] = IF v = w THEN "idle" ELSE pc[v]
                         /\ v # w => run'[v] = run[v]
  BY DEF TypeOK
<1>2. pc[w] \in Critical
  BY DEF Critical
<1>3. LockInv'
  BY <1>1, <1>2, NoneAssumption DEF LockInv, Critical
<1>4. RunInv'
  BY <1>1 DEF RunInv
<1>5. IndexInv' /\ OrderInv'
  BY IndexFrame
<1>6. RetentionInv'
  BY <1>1, RetentionFrame
<1>7. RetainedRunsKeepSnapshots'
  BY RetainedFrame
<1>8. ListedInv'
  BY LeaveListed
<1>9. ReadInv'
  BY ReadFrame
<1> QED
  BY <1>3, <1>4, <1>5, <1>6, <1>7, <1>8, <1>9

\* An abort anywhere leaves the index in order, and is marked when it loses lines.
LEMMA AbortStep ==
    ASSUME IndInv, NEW w \in Workers, Abort(w), TypeOK'
    PROVE  IndInv'
<1> USE DEF IndInv
<1>0. /\ pc' = [pc EXCEPT ![w] = "idle"]
      /\ run' = [run EXCEPT ![w] = NoRun]
      /\ indexLock' = IF indexLock = w THEN NoWorker ELSE indexLock
      /\ UNCHANGED <<bundles, snapshots, index, garbled, doomed, keep, reading,
                     wanted, answer, order, appended, strays, started>>
  BY DEF Abort, diskVars, readVars, recordVars
<1>1. \A v \in Workers : /\ pc'[v] = IF v = w THEN "idle" ELSE pc[v]
                         /\ v # w => run'[v] = run[v]
  BY <1>0 DEF TypeOK
<1>2. LockInv'
  BY <1>0, <1>1, NoneAssumption DEF LockInv, Critical
<1>3. RunInv'
  BY <1>0, <1>1 DEF RunInv
<1>4. IndexInv' /\ OrderInv'
  BY <1>0, IndexFrame
<1>5. RetentionInv'
  BY <1>0, <1>1, RetentionFrame
<1>6. RetainedRunsKeepSnapshots'
  BY <1>0, RetainedFrame
<1>7. ~damaged' => ~damaged /\ ~Unwritten(w) /\ (torn' => torn)
  <2>1. PICK cut \in BOOLEAN :
           /\ torn' = (torn \/ cut)
           /\ damaged' = (damaged \/ cut \/ Unwritten(w))
    BY DEF Abort
  <2> QED
    BY <2>1
<1>8. ListedInv'
  BY <1>0, <1>7, LeaveListed
<1>9. ReadInv'
  BY <1>0, ReadFrame DEF readVars
<1> QED
  BY <1>2, <1>3, <1>4, <1>5, <1>6, <1>8, <1>9

\* get() goes on only with the id of a recorded run.
LEMMA LookUpStep ==
    ASSUME IndInv, NEW r \in Readers, LookUp(r), TypeOK'
    PROVE  IndInv'
<1> USE DEF LookUp, diskVars, indexVars, workVars, recordVars, IndInv
<1>1. LockInv' /\ RunInv'
  BY DEF LockInv, RunInv
<1>2. IndexInv' /\ OrderInv'
  BY IndexFrame
<1>3. RetentionInv'
  BY RetentionFrame
<1>4. RetainedRunsKeepSnapshots'
  BY RetainedFrame
<1>5. ListedInv'
  BY ListedFrame
<1>6. \A id \in RunIds : Indexed(id) => Recorded(id)
  BY DEF IndexInv, InOrder, Indexed, InLine, Recorded
<1>7. PICK id \in started :
         /\ wanted' = [wanted EXCEPT ![r] = id]
         /\ IF Indexed(id)
            THEN /\ reading' = [reading EXCEPT ![r] = "found"]
                 /\ answer' = [answer EXCEPT ![r] = "none"]
            ELSE /\ answer' = [answer EXCEPT ![r] = "record_not_found"]
                 /\ UNCHANGED reading
  OBVIOUS
<1>8. /\ reading[r] = "idle" /\ id \in RunIds
      /\ wanted'[r] = id
      /\ \A q \in Readers : q # r =>
            wanted'[q] = wanted[q] /\ reading'[q] = reading[q] /\ answer'[q] = answer[q]
  BY <1>7 DEF TypeOK
<1>9. \/ Indexed(id) /\ answer'[r] = "none"
      \/ answer'[r] = "record_not_found" /\ reading'[r] = "idle"
  BY <1>7, <1>8 DEF TypeOK
<1>10. ReadInv'
  <2> SUFFICES ASSUME NEW q \in Readers
               PROVE  /\ reading'[q] # "idle" \/ Missing(q)' =>
                            wanted'[q] \in RunIds /\ Recorded(wanted[q])'
                      /\ reading'[q] # "idle" => answer'[q] = "none"
                      /\ Missing(q)' => Expired(wanted[q])'
    BY DEF ReadInv
  <2>1. CASE q = r
    BY <1>6, <1>8, <1>9, <2>1 DEF Missing, Recorded
  <2>2. CASE q # r
    BY <1>8, <2>2 DEF ReadInv, Missing, Recorded, Expired
  <2> QED
    BY <2>1, <2>2
<1> QED
  BY <1>1, <1>2, <1>3, <1>4, <1>5, <1>10

\* A run found in the index and without a snapshot is one that was pruned.
LEMMA FoundWithoutSnapshot ==
    ASSUME IndInv, NEW r \in Readers, reading[r] # "idle", wanted[r] \notin snapshots
    PROVE  wanted[r] \in RunIds /\ Recorded(wanted[r]) /\ Expired(wanted[r])
BY DEF IndInv, ReadInv, RetainedRunsKeepSnapshots, Retained

\* A missing directory was pruned, since the record was found.
LEMMA CheckSnapshotStep ==
    ASSUME IndInv, NEW r \in Readers, CheckSnapshot(r), TypeOK'
    PROVE  IndInv'
<1> USE DEF CheckSnapshot, diskVars, indexVars, workVars, recordVars, IndInv
<1>1. LockInv' /\ RunInv'
  BY DEF LockInv, RunInv
<1>2. IndexInv' /\ OrderInv'
  BY IndexFrame
<1>3. RetentionInv'
  BY RetentionFrame
<1>4. RetainedRunsKeepSnapshots'
  BY RetainedFrame
<1>5. ListedInv'
  BY ListedFrame
<1>6. \A q \in Readers : q # r => reading'[q] = reading[q] /\ answer'[q] = answer[q]
  BY DEF TypeOK
<1>7. \/ reading'[r] = "exists" /\ answer'[r] = answer[r]
      \/ reading'[r] = "idle" /\ wanted[r] \notin snapshots
  BY DEF TypeOK
<1>8. ReadInv'
  <2> SUFFICES ASSUME NEW q \in Readers
               PROVE  /\ reading'[q] # "idle" \/ Missing(q)' =>
                            wanted'[q] \in RunIds /\ Recorded(wanted[q])'
                      /\ reading'[q] # "idle" => answer'[q] = "none"
                      /\ Missing(q)' => Expired(wanted[q])'
    BY DEF ReadInv
  <2>1. CASE q = r
    BY <1>7, <2>1, FoundWithoutSnapshot DEF ReadInv, Missing, Recorded, Expired
  <2>2. CASE q # r
    BY <1>6, <2>2 DEF ReadInv, Missing, Recorded, Expired
  <2> QED
    BY <2>1, <2>2
<1> QED
  BY <1>1, <1>2, <1>3, <1>4, <1>5, <1>8

\* A file that vanished after the test for it was pruned.
LEMMA ReadSnapshotStep ==
    ASSUME IndInv, NEW r \in Readers, ReadSnapshot(r), TypeOK'
    PROVE  IndInv'
<1> USE DEF ReadSnapshot, diskVars, indexVars, workVars, recordVars, IndInv
<1>1. LockInv' /\ RunInv'
  BY DEF LockInv, RunInv
<1>2. IndexInv' /\ OrderInv'
  BY IndexFrame
<1>3. RetentionInv'
  BY RetentionFrame
<1>4. RetainedRunsKeepSnapshots'
  BY RetainedFrame
<1>5. ListedInv'
  BY ListedFrame
<1>6. \A q \in Readers : q # r => reading'[q] = reading[q] /\ answer'[q] = answer[q]
  BY DEF TypeOK
<1>7. /\ reading'[r] = "idle"
      /\ answer'[r] = IF wanted[r] \in snapshots THEN "snapshot" ELSE "raised"
  BY DEF TypeOK
<1>8. ReadInv'
  <2> SUFFICES ASSUME NEW q \in Readers
               PROVE  /\ reading'[q] # "idle" \/ Missing(q)' =>
                            wanted'[q] \in RunIds /\ Recorded(wanted[q])'
                      /\ reading'[q] # "idle" => answer'[q] = "none"
                      /\ Missing(q)' => Expired(wanted[q])'
    BY DEF ReadInv
  <2>1. CASE q = r
    BY <1>7, <2>1, FoundWithoutSnapshot DEF Missing, Recorded, Expired
  <2>2. CASE q # r
    BY <1>6, <2>2 DEF ReadInv, Missing, Recorded, Expired
  <2> QED
    BY <2>1, <2>2
<1> QED
  BY <1>1, <1>2, <1>3, <1>4, <1>5, <1>8

\* Stuttering changes nothing.
LEMMA StutterStep ==
    ASSUME IndInv, UNCHANGED vars, TypeOK'
    PROVE  IndInv'
<1> USE DEF vars, diskVars, indexVars, workVars, readVars, recordVars, IndInv
<1>1. LockInv' /\ RunInv'
  BY DEF LockInv, RunInv
<1>2. IndexInv' /\ OrderInv'
  BY IndexFrame
<1>3. RetentionInv'
  BY RetentionFrame
<1>4. RetainedRunsKeepSnapshots'
  BY RetainedFrame
<1>5. ListedInv'
  BY ListedFrame
<1>6. ReadInv'
  BY ReadFrame
<1> QED
  BY <1>1, <1>2, <1>3, <1>4, <1>5, <1>6

\* The steps keep the types: what is appended to the index is a run id.
LEMMA IndInvKeepsTypes == IndInv /\ [Next]_vars => TypeOK'
<1> SUFFICES ASSUME IndInv, [Next]_vars PROVE TypeOK'
  OBVIOUS
<1>1. ASSUME NEW w \in Workers, pc[w] # "idle" PROVE run[w] \in RunIds
  BY <1>1 DEF IndInv, RunInv, TypeOK
<1>2. ASSUME NEW w \in Workers, Unwritten(w) PROVE keep[w][Len(index) + 1] \in RunIds
  <2>1. keep[w] \in Seq(RunIds) /\ index \in Seq(RunIds)
    BY DEF IndInv, TypeOK
  <2>2. Len(index) + 1 \in 1..Len(keep[w])
    BY <1>2, <2>1, LenProperties DEF Unwritten
  <2> QED
    BY <2>1, <2>2, ElementOfSeq
<1> QED
  BY <1>1, <1>2, NextTypeOK DEF IndInv

\* Every step preserves the inductive invariant.
LEMMA NextIndInv == IndInv /\ [Next]_vars => IndInv'
<1> SUFFICES ASSUME IndInv, [Next]_vars PROVE IndInv'
  OBVIOUS
<1>1. TypeOK'
  BY IndInvKeepsTypes
<1>2. ASSUME NEW w \in Workers, PersistRun(w) PROVE IndInv'
  BY <1>1, <1>2, PersistRunStep
<1>3. ASSUME NEW w \in Workers, Record(w) PROVE IndInv'
  BY <1>1, <1>3, WriteSnapshotStep, AcquireIndexLockStep, AppendRecordStep,
     SkipRetentionStep, BeginPruneStep, PruneOldestStep, TruncateIndexStep,
     RewriteLineStep, ReleaseIndexLockStep DEF Record
<1>4. ASSUME NEW w \in Workers, Abort(w) PROVE IndInv'
  BY <1>1, <1>4, AbortStep
<1>5. ASSUME NEW r \in Readers, Get(r) PROVE IndInv'
  BY <1>1, <1>5, LookUpStep, CheckSnapshotStep, ReadSnapshotStep DEF Get
<1>6. ASSUME PersistCliRun PROVE IndInv'
  BY <1>1, <1>6, PersistCliRunStep
<1>7. CASE UNCHANGED vars
  BY <1>1, <1>7, StutterStep
<1> QED
  BY <1>2, <1>3, <1>4, <1>5, <1>6, <1>7 DEF Next

-----------------------------------------------------------------------------
(***************************************************************************)
(* The theorems.                                                           *)
(***************************************************************************)

\* IndInv holds in every reachable state.
THEOREM Invariance == Spec => []IndInv
BY InitIndInv, NextIndInv, PTL DEF Spec

\* The variables of the run history keep their types: in particular every line
\* of the index that parses names a run that was executed.
THEOREM TypeCorrect == Spec => []TypeOK
<1>1. IndInv => TypeOK
  BY DEF IndInv
<1> QED
  BY <1>1, Invariance, PTL

\* Retention never removes the snapshot of one of the Limit newest runs, with
\* any number of concurrent requests, processes, and aborted writes.
THEOREM RetainedSnapshotsSafe == Spec => []RetainedRunsKeepSnapshots
<1>1. IndInv => RetainedRunsKeepSnapshots
  BY DEF IndInv
<1> QED
  BY <1>1, Invariance, PTL

\* get() misses a snapshot, or fails on it, only if retention has counted its
\* run out.
THEOREM MissingSnapshotExplained == Spec => []MissingSnapshotIsExpired
<1>1. IndInv => MissingSnapshotIsExpired
  BY DEF IndInv, ReadInv, Missing, MissingSnapshotIsExpired
<1> QED
  BY <1>1, Invariance, PTL

\* Outside a rewrite of the index, and unless a write was cut short, list()
\* finds every retained run.
THEOREM RetainedListed == Spec => []RetainedRunsAreListed
<1>1. IndInv => RetainedRunsAreListed
  BY DEF IndInv, ListedInv, RetainedRunsAreListed
<1> QED
  BY <1>1, Invariance, PTL

\* The records whose snapshot is gone are the oldest of the index, but for those
\* retention failed to remove.
THEOREM DanglingOldest == Spec => []DanglingRecordsAreOldest
<1>1. IndInv => DanglingRecordsAreOldest
  BY DEF IndInv, IndexInv, DanglingFirst, DanglingRecordsAreOldest
<1> QED
  BY <1>1, Invariance, PTL

\* A completed record() leaves at most Limit lines in the index, whatever the
\* aborted ones before it had left.
THEOREM LimitRestored == Spec => CompletedRecordMeetsLimit
<1>1. ASSUME IndInv, NEW w \in Workers, ReleaseIndexLock(w)
      PROVE  Limit = 0 \/ Len(index') <= Limit
  <2>1. index' = index /\ Len(index) \in Nat /\ Limit \in Nat
    BY <1>1, LimitAssumption, LenProperties
    DEF ReleaseIndexLock, indexVars, IndInv, TypeOK
  <2>2. CASE pc[w] = "release"
    <3>1. ~OverLimit
      BY <1>1, <2>2 DEF IndInv, RetentionInv, ReleaseInv
    <3> QED
      BY <2>1, <3>1 DEF OverLimit
  <2>3. CASE pc[w] = "rewriting"
    BY <1>1, <2>1, <2>3 DEF IndInv, RetentionInv, RewriteInv
  <2> QED
    BY <1>1, <2>2, <2>3 DEF ReleaseIndexLock
<1>2. IndInv /\ [Next]_vars =>
         [\A w \in Workers : ReleaseIndexLock(w) => Limit = 0 \/ Len(index') <= Limit]_vars
  BY <1>1
<1> QED
  BY <1>2, Invariance, PTL DEF Spec, CompletedRecordMeetsLimit

-----------------------------------------------------------------------------
\* Directories that no record names.
\* A run is in the index, or in the lines about to be written back.
Visible(id) ==
    \/ Indexed(id)
    \/ \E w \in Workers : pc[w] = "rewriting" /\ InLine(keep[w], id)

Owned(id) == \E w \in Workers : run[w] = id

\* The directories that retention is to remove in its time.
Attached == bundles \ strays

Orphans == {id \in Attached : ~Visible(id) /\ ~Owned(id)}

\* What retention is done with is not attached, an idle worker has no run, and the
\* run of a worker past the append is the youngest, so retention does not reach it;
\* each abort leaves one directory at most.
OrphanInv ==
    /\ IsFiniteSet(Attached)
    /\ \A w \in Workers : pc[w] = "idle" => run[w] = NoRun
    /\ \A w \in Workers : pc[w] \in {"appended", "pruning", "rewriting", "release"} =>
          appended > 0 /\ order[run[w]] = appended
    /\ \A w \in Workers : pc[w] = "pruning" =>
          \A i \in 1..Removed(w) : index[i] \notin Attached
    /\ ~damaged => Cardinality(Orphans) <= aborts

\* Without a new orphan their number stays within the number of aborts.
LEMMA OrphansFewer ==
    ASSUME TypeOK, OrphanInv, damaged => damaged', aborts' = aborts,
           ~damaged' => Orphans' \subseteq Orphans
    PROVE  ~damaged' => Cardinality(Orphans') <= aborts'
<1> SUFFICES ASSUME ~damaged' PROVE Cardinality(Orphans') <= aborts
  OBVIOUS
<1>1. IsFiniteSet(Orphans) /\ Orphans \in SUBSET Attached
  BY FS_Subset DEF OrphanInv, Orphans
<1>2. /\ IsFiniteSet(Orphans') /\ Cardinality(Orphans') <= Cardinality(Orphans)
  BY <1>1, FS_Subset
<1>3. Cardinality(Orphans) \in Nat /\ Cardinality(Orphans') \in Nat
  BY <1>1, <1>2, FS_CardinalityType
<1>4. Cardinality(Orphans) <= aborts /\ aborts \in Nat
  BY DEF OrphanInv, TypeOK
<1> QED
  BY <1>2, <1>3, <1>4

\* Steps that leave the index, the slices and the runs of workers alone.
LEMMA OrphansFrame ==
    ASSUME UNCHANGED <<index, keep, run>>, Attached' \subseteq Attached,
           \A v \in Workers : pc[v] = "rewriting" => pc'[v] = "rewriting"
    PROVE  Orphans' \subseteq Orphans
<1> SUFFICES ASSUME NEW id \in Orphans' PROVE id \in Orphans
  OBVIOUS
<1>1. id \in Attached /\ ~Visible(id)' /\ ~Owned(id)'
  BY DEF Orphans
<1>2. ~Owned(id)
  BY <1>1 DEF Owned
<1>3. ~Visible(id)
  BY <1>1 DEF Visible, Indexed, InLine
<1> QED
  BY <1>1, <1>2, <1>3 DEF Orphans

\* The run of a worker that is about to release the lock is listed.
LEMMA OwnRunListed ==
    ASSUME IndInv, OrphanInv, ~damaged, NEW w \in Workers,
           pc[w] \in {"appended", "pruning", "rewriting", "release"}
    PROVE  Visible(run[w])
<1>1. run[w] \in RunIds
  BY DEF IndInv, RunInv, TypeOK
<1>2. order[run[w]] = appended /\ appended > 0 /\ appended \in Nat
  BY DEF OrphanInv, IndInv, TypeOK
<1>3. Retained(run[w])
  BY <1>2, LimitAssumption DEF Retained, Recorded, Expired
<1> QED
  BY <1>1, <1>3 DEF IndInv, ListedInv, Visible

\* What a worker that has rewritten the whole index keeps is in the index.
LEMMA KeptIsIndexed ==
    ASSUME IndInv, NEW w \in Workers, pc[w] = "rewriting", ~Unwritten(w),
           NEW id, InLine(keep[w], id)
    PROVE  Indexed(id)
<1>1. /\ Len(index) \in Nat /\ Len(keep[w]) \in Nat
      /\ Len(keep[w]) = Limit /\ Len(index) <= Limit
      /\ \A i \in 1..Len(index) : index[i] = keep[w][i]
  BY LenProperties, LimitAssumption DEF IndInv, TypeOK, RetentionInv, RewriteInv
<1>2. Len(index) = Len(keep[w])
  BY <1>1 DEF Unwritten
<1> QED
  BY <1>1, <1>2 DEF Indexed, InLine

\* An abort leaves the run of its worker, no other.
LEMMA AbortOrphans ==
    ASSUME IndInv, OrphanInv, NEW w \in Workers, Abort(w)
    PROVE  ~damaged' => Cardinality(Orphans') <= aborts'
<1> SUFFICES ASSUME ~damaged' PROVE Cardinality(Orphans') <= aborts'
  OBVIOUS
<1>1. /\ pc' = [pc EXCEPT ![w] = "idle"] /\ run' = [run EXCEPT ![w] = NoRun]
      /\ UNCHANGED <<Attached, index, keep>> /\ aborts' = aborts + 1
      /\ ~damaged /\ ~Unwritten(w)
  BY DEF Abort, diskVars, recordVars, Attached
<1>2. aborts \in Nat /\ pc \in [Workers -> Steps] /\ run \in [Workers -> RunIds \cup {NoRun}]
  BY DEF IndInv, TypeOK
<1>3. Orphans' \subseteq Orphans \cup {run[w]}
  <2> SUFFICES ASSUME NEW id \in Orphans', id # run[w] PROVE id \in Orphans
    OBVIOUS
  <2>1. id \in Attached /\ ~Visible(id)' /\ ~Owned(id)'
    BY <1>1 DEF Orphans
  <2>2. ~Owned(id)
    BY <1>1, <1>2, <2>1 DEF Owned
  <2>3. ~Indexed(id)
    BY <1>1, <2>1 DEF Visible, Indexed, InLine
  <2>4. ASSUME NEW v \in Workers, pc[v] = "rewriting", InLine(keep[v], id) PROVE FALSE
    <3>1. CASE v = w
      BY <1>1, <2>3, <2>4, <3>1, KeptIsIndexed
    <3>2. CASE v # w
      BY <1>1, <1>2, <2>1, <2>4, <3>2 DEF Visible, InLine
    <3> QED
      BY <3>1, <3>2
  <2> QED
    BY <2>1, <2>2, <2>3, <2>4 DEF Orphans, Visible
<1>4. IsFiniteSet(Orphans)
  BY FS_Subset DEF OrphanInv, Orphans
<1>5. /\ IsFiniteSet(Orphans \cup {run[w]}) /\ Cardinality(Orphans) \in Nat
      /\ Cardinality(Orphans \cup {run[w]})
            = IF run[w] \in Orphans THEN Cardinality(Orphans) ELSE Cardinality(Orphans) + 1
  BY <1>4, FS_AddElement, FS_CardinalityType
<1>6. /\ Cardinality(Orphans') <= Cardinality(Orphans \cup {run[w]})
      /\ IsFiniteSet(Orphans')
  BY <1>3, <1>5, FS_Subset
<1>7. Cardinality(Orphans') \in Nat
  BY <1>6, FS_CardinalityType
<1>8. Cardinality(Orphans) <= aborts
  BY <1>1 DEF OrphanInv
<1> QED
  BY <1>1, <1>2, <1>5, <1>6, <1>7, <1>8

\* Truncating the index hides no directory: what is not kept is removed.
LEMMA TruncateOrphans ==
    ASSUME IndInv, OrphanInv, NEW w \in Workers, TruncateIndex(w)
    PROVE  Orphans' \subseteq Orphans
<1>1. /\ pc[w] = "pruning" /\ pc' = [pc EXCEPT ![w] = "rewriting"] /\ doomed[w] = <<>>
      /\ UNCHANGED <<Attached, run, keep>>
  BY DEF TruncateIndex, Goto, diskVars, recordVars, Attached
<1>2. /\ pc \in [Workers -> Steps] /\ index \in Seq(RunIds) /\ Len(index) \in Nat
  BY LenProperties DEF IndInv, TypeOK
<1>3. /\ OverLimit /\ Len(keep[w]) = Limit
      /\ \A i \in 1..Limit : keep[w][i] = index[Surplus + i]
      /\ \A i \in 1..Removed(w) : index[i] \notin Attached
  BY <1>1 DEF IndInv, RetentionInv, PruneInv, OrphanInv
<1>4. Surplus \in Nat /\ Len(index) = Surplus + Limit /\ Removed(w) = Surplus
  <2>1. Len(doomed[w]) = 0
    BY <1>1, EmptySeq
  <2> QED
    BY <1>3, <2>1, OverLimitSlices DEF IndInv, Removed
<1> SUFFICES ASSUME NEW id \in Orphans' PROVE id \in Orphans
  OBVIOUS
<1>5. id \in Attached /\ ~Visible(id)' /\ ~Owned(id)'
  BY <1>1 DEF Orphans
<1>6. ~Owned(id)
  BY <1>1, <1>5 DEF Owned
<1>7. ASSUME NEW v \in Workers, pc'[v] = "rewriting", InLine(keep[v], id) PROVE FALSE
  BY <1>1, <1>5, <1>7 DEF Visible, InLine
<1>8. ASSUME Indexed(id) PROVE FALSE
  <2>1. PICK i \in 1..Len(index) : index[i] = id
    BY <1>8 DEF Indexed, InLine
  <2>2. i > Surplus
    BY <1>2, <1>3, <1>4, <1>5, <2>1
  <2>3. i - Surplus \in 1..Limit /\ Surplus + (i - Surplus) = i
    BY <1>2, <1>4, <2>1, <2>2, LimitAssumption
  <2>4. keep[w][i - Surplus] = id
    BY <1>3, <2>1, <2>3
  <2>5. InLine(keep[w], id)
    BY <1>3, <2>3, <2>4 DEF InLine
  <2> QED
    BY <1>1, <1>2, <1>7, <2>5
<1> QED
  BY <1>1, <1>2, <1>5, <1>6, <1>7, <1>8 DEF Orphans, Visible

\* Each step keeps the invariant of the directories.
LEMMA OrphanStep == IndInv /\ OrphanInv /\ [Next]_vars => OrphanInv'
<1> SUFFICES ASSUME IndInv, OrphanInv, [Next]_vars PROVE OrphanInv'
  OBVIOUS
<1> USE DEF Goto
<1>1. TypeOK /\ pc \in [Workers -> Steps] /\ run \in [Workers -> RunIds \cup {NoRun}]
      /\ Len(index) \in Nat /\ index \in Seq(RunIds) /\ appended \in Nat
      /\ doomed \in [Workers -> Seq(RunIds)] /\ order \in [RunIds -> Nat]
  BY LenProperties DEF IndInv, TypeOK
<1>2. /\ \A v \in Workers : pc[v] = "idle" => run[v] = NoRun
      /\ \A v \in Workers : pc[v] \in {"appended", "pruning", "rewriting", "release"} =>
            appended > 0 /\ order[run[v]] = appended
      /\ \A v \in Workers : pc[v] = "pruning" => \A i \in 1..Removed(v) : index[i] \notin Attached
      /\ IsFiniteSet(Attached)
  BY DEF OrphanInv
<1>3. ASSUME UNCHANGED <<index, keep, run, doomed, order, appended, aborts, damaged>>,
             UNCHANGED Attached,
             \A v \in Workers : pc[v] = "rewriting" => pc'[v] = "rewriting",
             \A v \in Workers : pc'[v] = "idle" => pc[v] = "idle",
             \A v \in Workers : pc'[v] \in {"appended", "pruning", "rewriting", "release"} =>
                pc[v] \in {"appended", "pruning", "rewriting", "release"},
             \A v \in Workers : pc'[v] = "pruning" => pc[v] = "pruning"
      PROVE  OrphanInv'
  <2>1. ~damaged' => Cardinality(Orphans') <= aborts'
    BY <1>1, <1>3, OrphansFrame, OrphansFewer
  <2>2. \A v \in Workers : Removed(v)' = Removed(v)
    BY <1>3 DEF Removed, Surplus
  <2> QED
    BY <1>2, <1>3, <2>1, <2>2 DEF OrphanInv
<1>4. ASSUME NEW w \in Workers, PersistRun(w) PROVE OrphanInv'
  <2>1. PICK id \in RunIds \ started :
           run' = [run EXCEPT ![w] = id] /\ Attached' \in {Attached, Attached \cup {id}}
    BY <1>4 DEF PersistRun, recordVars, Attached
  <2>2. /\ pc[w] = "idle" /\ pc' = [pc EXCEPT ![w] = "ran"]
        /\ UNCHANGED <<index, keep, doomed, order, appended, aborts, damaged>>
    BY <1>4 DEF PersistRun, indexVars, recordVars
  <2>3. IsFiniteSet(Attached')
    BY <1>2, <2>1, FS_AddElement
  <2>4. Orphans' \subseteq Orphans
    <3> SUFFICES ASSUME NEW x \in Orphans' PROVE x \in Orphans
      OBVIOUS
    <3>1. x \in Attached' /\ ~Visible(x)' /\ ~Owned(x)'
      BY DEF Orphans
    <3>2. run'[w] = id
      BY <1>1, <2>1
    <3>3. x \in Attached
      BY <2>1, <3>1, <3>2 DEF Owned
    <3>4. ~Visible(x)
      BY <1>1, <2>2, <3>1 DEF Visible, Indexed, InLine
    <3>5. x # NoRun \/ ~Owned(x)
      <4>1. Attached \in SUBSET RunIds
        BY <1>1 DEF TypeOK, Attached
      <4> QED
        BY <3>3, <4>1, NoneAssumption
    <3>6. ~Owned(x)
      BY <1>1, <1>2, <2>1, <2>2, <3>1, <3>5 DEF Owned
    <3> QED
      BY <3>3, <3>4, <3>6 DEF Orphans
  <2>5. ~damaged' => Cardinality(Orphans') <= aborts'
    BY <1>1, <2>2, <2>4, OrphansFewer
  <2>6. \A v \in Workers : Removed(v)' = Removed(v)
    BY <2>2 DEF Removed, Surplus
  <2>7. \A i \in 1..Len(index) : index[i] # id
    BY <2>1 DEF IndInv, IndexInv, InOrder, RunInv
  <2>8. ASSUME NEW v \in Workers, pc'[v] = "pruning", NEW i \in 1..Removed(v)'
        PROVE  index'[i] \notin Attached'
    <3>1. pc[v] = "pruning" /\ i \in 1..Removed(v)
      BY <1>1, <2>2, <2>6, <2>8
    <3>2. /\ OverLimit /\ Len(doomed[v]) \in Nat
      BY <1>1, <3>1, LenProperties DEF IndInv, RetentionInv, PruneInv
    <3>3. Surplus \in 1..Len(index)
      BY <1>1, <3>2, OverLimitSlices
    <3>4. i \in 1..Len(index)
      BY <1>1, <3>1, <3>2, <3>3 DEF Removed
    <3> QED
      BY <1>2, <2>1, <2>2, <2>7, <3>1, <3>4
  <2>9. \A v \in Workers : pc'[v] \in {"appended", "pruning", "rewriting", "release"} =>
           appended' > 0 /\ order'[run'[v]] = appended'
    BY <1>1, <1>2, <2>1, <2>2
  <2>10. \A v \in Workers : pc'[v] = "idle" => run'[v] = NoRun
    BY <1>1, <1>2, <2>1, <2>2
  <2> QED
    BY <2>3, <2>5, <2>8, <2>9, <2>10 DEF OrphanInv
<1>5. ASSUME NEW w \in Workers, WriteSnapshot(w) \/ AcquireIndexLock(w) \/ SkipRetention(w)
      PROVE  OrphanInv'
  <2>1. UNCHANGED <<index, keep, run, doomed, order, appended, aborts, damaged, Attached>>
    BY <1>5 DEF WriteSnapshot, AcquireIndexLock, SkipRetention, diskVars, indexVars,
       recordVars, Attached
  <2>2. \/ pc[w] = "ran" /\ pc' = [pc EXCEPT ![w] = "snapshotted"]
        \/ pc[w] = "snapshotted" /\ pc' = [pc EXCEPT ![w] = "locked"]
        \/ pc[w] = "appended" /\ pc' = [pc EXCEPT ![w] = "release"]
    BY <1>5 DEF WriteSnapshot, AcquireIndexLock, SkipRetention
  <2> QED
    BY <1>1, <1>3, <2>1, <2>2
<1>6. ASSUME NEW w \in Workers, AppendRecord(w) PROVE OrphanInv'
  <2>1. /\ pc[w] = "locked" /\ pc' = [pc EXCEPT ![w] = "appended"]
        /\ index' = IF torn THEN index ELSE Append(index, run[w])
        /\ order' = [order EXCEPT ![run[w]] = appended + 1] /\ appended' = appended + 1
        /\ UNCHANGED <<Attached, run, keep, doomed, aborts, damaged>>
    BY <1>6 DEF AppendRecord, diskVars, Attached
  <2>2. run[w] \in RunIds
    BY <1>1, <2>1 DEF IndInv, RunInv, TypeOK
  <2>3. \A v \in Workers : v # w => pc[v] \notin {"appended", "pruning", "rewriting", "release"}
    BY <2>1 DEF IndInv, LockInv, Critical
  <2>4. \A x : Indexed(x) => Indexed(x)'
    <3>1. CASE torn
      BY <2>1, <3>1 DEF Indexed, InLine
    <3>2. CASE ~torn
      <4>1. /\ Len(index') = Len(index) + 1
            /\ \A i \in 1..Len(index) : index'[i] = index[i]
        BY <1>1, <2>1, <2>2, <3>2, AppendProperties
      <4> QED
        BY <1>1, <4>1 DEF Indexed, InLine
    <3> QED
      BY <3>1, <3>2
  <2>5. Orphans' \subseteq Orphans
    BY <1>1, <2>1, <2>4 DEF Orphans, Visible, Owned, InLine
  <2>6. ~damaged' => Cardinality(Orphans') <= aborts'
    BY <1>1, <2>1, <2>5, OrphansFewer
  <2>7. \A v \in Workers : pc'[v] \in {"appended", "pruning", "rewriting", "release"} =>
           v = w /\ appended' > 0 /\ order'[run'[v]] = appended'
    BY <1>1, <2>1, <2>2, <2>3
  <2>8. \A v \in Workers : pc'[v] # "pruning" /\ (pc'[v] = "idle" => run'[v] = NoRun)
    BY <1>1, <1>2, <2>1, <2>3
  <2> QED
    BY <1>2, <2>1, <2>6, <2>7, <2>8 DEF OrphanInv
<1>7. ASSUME NEW w \in Workers, BeginPrune(w) PROVE OrphanInv'
  <2>1. /\ pc[w] = "appended" /\ pc' = [pc EXCEPT ![w] = "pruning"] /\ OverLimit
        /\ doomed' = [doomed EXCEPT ![w] = SubSeq(index, 1, Surplus)]
        /\ \A v \in Workers : v # w => keep'[v] = keep[v]
        /\ UNCHANGED <<index, Attached, run, order, appended, aborts, damaged>>
    BY <1>1, <1>7 DEF BeginPrune, diskVars, indexVars, recordVars, TypeOK, Attached
  <2>2. \A v \in Workers : v # w => pc[v] \notin {"pruning", "rewriting"}
    BY <2>1 DEF IndInv, LockInv, Critical
  <2>3. Removed(w)' = 0
    BY <1>1, <2>1, OverLimitSlices DEF Removed, Surplus
  <2>4. Orphans' \subseteq Orphans
    BY <1>1, <2>1, <2>2 DEF Orphans, Visible, Owned, Indexed, InLine
  <2>5. ~damaged' => Cardinality(Orphans') <= aborts'
    BY <1>1, <2>1, <2>4, OrphansFewer
  <2>6. \A v \in Workers : pc'[v] = "pruning" => \A i \in 1..Removed(v)' : FALSE
    BY <1>1, <2>1, <2>2, <2>3
  <2>7. \A v \in Workers : /\ pc'[v] \in {"appended", "pruning", "rewriting", "release"} =>
                                appended' > 0 /\ order'[run'[v]] = appended'
                           /\ pc'[v] = "idle" => run'[v] = NoRun
    BY <1>1, <1>2, <2>1
  <2> QED
    BY <1>2, <2>1, <2>5, <2>6, <2>7 DEF OrphanInv
<1>8. ASSUME NEW w \in Workers, PruneOldest(w) PROVE OrphanInv'
  <2>1. /\ pc[w] = "pruning" /\ doomed[w] # <<>>
        /\ Attached' = Attached \ {Head(doomed[w])}
        /\ doomed' = [doomed EXCEPT ![w] = Tail(doomed[w])]
        /\ UNCHANGED <<index, pc, run, keep, order, appended, aborts, damaged>>
    BY <1>8 DEF PruneOldest, RemoveRun, LeaveRun, indexVars, Attached
  <2>2. /\ Len(doomed[w]) \in Nat /\ Len(doomed[w]) > 0
        /\ Head(doomed[w]) = doomed[w][1] /\ Len(Tail(doomed[w])) = Len(doomed[w]) - 1
    BY <1>1, <2>1, HeadTailProperties, EmptySeq, LenProperties
  <2>3. /\ OverLimit
        /\ \A i \in 1..Len(doomed[w]) : doomed[w][i] = index[Removed(w) + i]
    BY <2>1 DEF IndInv, RetentionInv, PruneInv
  <2>4. Surplus \in Nat
    BY <1>1, <2>3, OverLimitSlices
  <2>5. Removed(w)' = Removed(w) + 1 /\ Head(doomed[w]) = index[Removed(w) + 1]
        /\ Removed(w) \in Int
    BY <1>1, <2>1, <2>2, <2>3, <2>4 DEF Removed, Surplus
  <2>6. IsFiniteSet(Attached')
    BY <1>2, <2>1, FS_RemoveElement
  <2>7. ~damaged' => Cardinality(Orphans') <= aborts'
    <3>1. Orphans' \subseteq Orphans
      BY <2>1, OrphansFrame
    <3> QED
      BY <1>1, <2>1, <3>1, OrphansFewer
  <2>8. \A v \in Workers : v # w => pc'[v] # "pruning"
    BY <2>1 DEF IndInv, LockInv, Critical
  <2>9. \A i \in 1..Removed(w)' : index'[i] \notin Attached'
    BY <1>2, <2>1, <2>5
  <2> QED
    BY <1>2, <2>1, <2>6, <2>7, <2>8, <2>9 DEF OrphanInv
<1>9. ASSUME NEW w \in Workers, TruncateIndex(w) PROVE OrphanInv'
  <2>1. /\ pc[w] = "pruning" /\ pc' = [pc EXCEPT ![w] = "rewriting"]
        /\ UNCHANGED <<Attached, run, keep, order, appended, aborts, damaged>>
    BY <1>9 DEF TruncateIndex, diskVars, recordVars, Attached
  <2>2. ~damaged' => Cardinality(Orphans') <= aborts'
    BY <1>1, <1>9, <2>1, TruncateOrphans, OrphansFewer
  <2>3. \A v \in Workers : pc'[v] # "pruning"
    BY <1>1, <2>1 DEF IndInv, LockInv, Critical
  <2> QED
    BY <1>1, <1>2, <2>1, <2>2, <2>3 DEF OrphanInv
<1>10. ASSUME NEW w \in Workers, RewriteLine(w) PROVE OrphanInv'
  <2>1. /\ pc[w] = "rewriting" /\ index' = Append(index, keep[w][Len(index) + 1])
        /\ UNCHANGED <<Attached, pc, run, keep, doomed, order, appended, aborts, damaged>>
    BY <1>10 DEF RewriteLine, Unwritten, diskVars, workVars, recordVars, Attached
  <2>2. \A v \in Workers : pc'[v] # "pruning"
    BY <1>1, <2>1 DEF IndInv, LockInv, Critical
  <2>3. \A x : Indexed(x) => Indexed(x)'
    <3>1. keep[w][Len(index) + 1] \in RunIds
      <4>1. keep[w] \in Seq(RunIds) /\ Len(index) + 1 \in 1..Len(keep[w])
        BY <1>1, <1>10, LenProperties DEF RewriteLine, Unwritten, TypeOK
      <4> QED
        BY <4>1, ElementOfSeq
    <3>2. /\ Len(index') = Len(index) + 1
          /\ \A i \in 1..Len(index) : index'[i] = index[i]
      BY <1>1, <2>1, <3>1, AppendProperties
    <3> QED
      BY <1>1, <3>2 DEF Indexed, InLine
  <2>4. Orphans' \subseteq Orphans
    BY <2>1, <2>3 DEF Orphans, Visible, Owned, InLine
  <2>5. ~damaged' => Cardinality(Orphans') <= aborts'
    BY <1>1, <2>1, <2>4, OrphansFewer
  <2> QED
    BY <1>2, <2>1, <2>2, <2>5 DEF OrphanInv
<1>11. ASSUME NEW w \in Workers, ReleaseIndexLock(w) PROVE OrphanInv'
  <2>1. /\ pc[w] \in {"release", "rewriting"} /\ ~Unwritten(w)
        /\ pc' = [pc EXCEPT ![w] = "idle"] /\ run' = [run EXCEPT ![w] = NoRun]
        /\ UNCHANGED <<Attached, index, keep, doomed, order, appended, aborts, damaged>>
    BY <1>11 DEF ReleaseIndexLock, diskVars, indexVars, recordVars, Attached
  <2>2. \A v \in Workers : v # w => pc[v] \notin {"pruning", "rewriting"}
    BY <2>1 DEF IndInv, LockInv, Critical
  <2>3. \A x : Visible(x) => Indexed(x)
    BY <2>1, <2>2, KeptIsIndexed DEF Visible
  <2>4. ASSUME ~damaged' PROVE Orphans' \subseteq Orphans
    <3>1. Indexed(run[w])
      BY <2>1, <2>3, <2>4, OwnRunListed
    <3>2. ASSUME NEW x \in Orphans' PROVE x \in Orphans
      <4>1. x \in Attached /\ ~Indexed(x) /\ ~Owned(x)'
        BY <2>1, <3>2 DEF Orphans, Visible, Indexed, InLine
      <4>2. x # run[w]
        BY <3>1, <4>1
      <4>3. ~Owned(x)
        BY <1>1, <2>1, <4>1, <4>2 DEF Owned
      <4> QED
        BY <2>3, <4>1, <4>3 DEF Orphans
    <3> QED
      BY <3>2
  <2>5. ~damaged' => Cardinality(Orphans') <= aborts'
    BY <1>1, <2>1, <2>4, OrphansFewer
  <2>6. \A v \in Workers : pc'[v] # "pruning"
    BY <1>1, <2>1, <2>2
  <2> QED
    BY <1>1, <1>2, <2>1, <2>5, <2>6 DEF OrphanInv
<1>12. ASSUME NEW w \in Workers, Abort(w) PROVE OrphanInv'
  <2>1. /\ pc[w] # "idle" /\ pc' = [pc EXCEPT ![w] = "idle"] /\ run' = [run EXCEPT ![w] = NoRun]
        /\ UNCHANGED <<Attached, index, keep, doomed, order, appended>>
    BY <1>12 DEF Abort, diskVars, recordVars, Attached
  <2>2. \A v \in Workers : Removed(v)' = Removed(v)
    BY <2>1 DEF Removed, Surplus
  <2>3. ~damaged' => Cardinality(Orphans') <= aborts'
    BY <1>12, AbortOrphans
  <2> QED
    BY <1>1, <1>2, <2>1, <2>2, <2>3 DEF OrphanInv
<1>13. ASSUME UNCHANGED <<diskVars, indexVars, workVars, recordVars, damaged, aborts>>
       PROVE  OrphanInv'
  BY <1>3, <1>13 DEF diskVars, indexVars, workVars, recordVars, Attached
<1>14. ASSUME NEW r \in Readers, Get(r) PROVE OrphanInv'
  BY <1>13, <1>14 DEF Get, LookUp, CheckSnapshot, ReadSnapshot
<1>15. ASSUME PersistCliRun PROVE OrphanInv'
  <2>1. UNCHANGED <<indexVars, workVars, order, appended, damaged, aborts>>
    BY <1>15 DEF PersistCliRun
  <2>2. Attached' \subseteq Attached
    BY <1>15 DEF PersistCliRun, Attached
  <2>3. IsFiniteSet(Attached')
    BY <1>2, <2>2, FS_Subset
  <2>4. Orphans' \subseteq Orphans
    BY <2>1, <2>2, OrphansFrame DEF indexVars, workVars
  <2>5. ~damaged' => Cardinality(Orphans') <= aborts'
    BY <1>1, <2>1, <2>4, OrphansFewer
  <2>6. \A v \in Workers : Removed(v)' = Removed(v)
    BY <2>1 DEF Removed, Surplus, indexVars, workVars
  <2> QED
    BY <1>2, <2>1, <2>2, <2>3, <2>5, <2>6 DEF OrphanInv, indexVars, workVars
<1>16. CASE UNCHANGED vars
  BY <1>13, <1>16 DEF vars
<1> QED
  BY <1>4, <1>5, <1>6, <1>7, <1>8, <1>9, <1>10, <1>11, <1>12, <1>14, <1>15, <1>16
  DEF Next, Record

\* A directory under runs/ that no line names is a run of the command line, one that
\* retention failed to remove, or what an abort has left, one for each: nothing else
\* escapes retention.
THEOREM OrphansBounded == Spec => []OrphansAreExplained
<1>1. Init => OrphanInv
  <2> SUFFICES ASSUME Init PROVE OrphanInv
    OBVIOUS
  <2>1. Attached = {} /\ Orphans = {} /\ aborts = 0
    BY DEF Init, Orphans, Attached
  <2> QED
    BY <2>1, FS_EmptySet DEF Init, OrphanInv
<1>2. OrphanInv => OrphansAreExplained
  <2> DEFINE nobodys == {id \in bundles : ~Indexed(id) /\ \A w \in Workers : run[w] # id}
  <2> SUFFICES ASSUME OrphanInv, ~damaged, \A w \in Workers : pc[w] # "rewriting"
               PROVE  Cardinality(nobodys \ strays) <= aborts
    BY DEF OrphansAreExplained
  <2>1. nobodys \ strays = Orphans
    BY DEF Orphans, Visible, Owned, Attached
  <2> QED
    BY <2>1 DEF OrphanInv
<1> QED
  BY <1>1, <1>2, Invariance, OrphanStep, PTL DEF Spec

-----------------------------------------------------------------------------
(***************************************************************************)
(* When a record lacks its snapshot (README.md:118).                       *)
(***************************************************************************)

\* README.md:118 holds of every record except while a worker is between rmtree and
\* the rewrite of the index, or once one was aborted there.
SnapshotsLackOnlyInPruning ==
    \/ aborts > 0
    \/ \E w \in Workers : pc[w] = "pruning"
    \/ EveryRecordHasSnapshot

\* Without an abort, the lines that lack their snapshot are those the worker that
\* prunes has dealt with, and a line to be written back has its snapshot.
DanglingInv ==
    aborts = 0 =>
        /\ \A i \in 1..Len(index) :
              index[i] \in snapshots \/ \E w \in Workers : pc[w] = "pruning" /\ i <= Removed(w)
        /\ \A w \in Workers : pc[w] = "rewriting" =>
              \A i \in 1..Len(keep[w]) : keep[w][i] \in snapshots

\* Steps that remove no snapshot and change no line.
LEMMA DanglingFrame ==
    ASSUME DanglingInv, UNCHANGED <<index, keep, doomed, aborts>>,
           snapshots \subseteq snapshots',
           \A v \in Workers : pc'[v] = "rewriting" => pc[v] = "rewriting",
           \A v \in Workers : pc[v] = "pruning" => pc'[v] = "pruning"
    PROVE  DanglingInv'
<1>1. \A v \in Workers : Removed(v)' = Removed(v)
  BY DEF Removed, Surplus
<1> QED
  BY <1>1 DEF DanglingInv

\* Each step keeps the invariant of the snapshots.
LEMMA DanglingStep == IndInv /\ DanglingInv /\ [Next]_vars => DanglingInv'
<1> SUFFICES ASSUME IndInv, DanglingInv, [Next]_vars PROVE DanglingInv'
  OBVIOUS
<1> USE DEF Goto
<1>1. TypeOK /\ pc \in [Workers -> Steps] /\ run \in [Workers -> RunIds \cup {NoRun}]
      /\ Len(index) \in Nat /\ index \in Seq(RunIds) /\ aborts \in Nat
      /\ doomed \in [Workers -> Seq(RunIds)] /\ keep \in [Workers -> Seq(RunIds)]
  BY LenProperties DEF IndInv, TypeOK
<1>2. \A v, w \in Workers : pc[v] \in Critical /\ pc[w] \in Critical => v = w
  BY DEF IndInv, LockInv
<1>3. ASSUME NEW w \in Workers, PersistRun(w) \/ WriteSnapshot(w) \/ AcquireIndexLock(w)
                                 \/ SkipRetention(w)
      PROVE  DanglingInv'
  <2>1. UNCHANGED <<index, keep, doomed, aborts>> /\ snapshots \subseteq snapshots'
    BY <1>3 DEF PersistRun, WriteSnapshot, AcquireIndexLock, SkipRetention, diskVars, indexVars
  <2>2. pc[w] \notin {"pruning", "rewriting"}
        /\ \E step \in {"ran", "snapshotted", "locked", "release"} :
              pc' = [pc EXCEPT ![w] = step]
    BY <1>3 DEF PersistRun, WriteSnapshot, AcquireIndexLock, SkipRetention
  <2> QED
    BY <1>1, <2>1, <2>2, DanglingFrame
<1>4. ASSUME NEW w \in Workers, AppendRecord(w) PROVE DanglingInv'
  <2>1. /\ pc[w] = "locked" /\ pc' = [pc EXCEPT ![w] = "appended"]
        /\ index' = IF torn THEN index ELSE Append(index, run[w])
        /\ UNCHANGED <<snapshots, aborts>>
    BY <1>4 DEF AppendRecord, diskVars
  <2>2. run[w] \in RunIds /\ run[w] \in snapshots
    BY <1>1, <2>1 DEF IndInv, RunInv, TypeOK
  <2>3. \A v \in Workers : pc[v] \notin {"pruning", "rewriting"}
                            /\ pc'[v] \notin {"pruning", "rewriting"}
    BY <1>1, <1>2, <2>1 DEF Critical
  <2>4. ASSUME aborts = 0 PROVE \A i \in 1..Len(index') : index'[i] \in snapshots
    <3>1. \A i \in 1..Len(index) : index[i] \in snapshots
      BY <2>3, <2>4 DEF DanglingInv
    <3>2. CASE torn
      BY <2>1, <3>1, <3>2
    <3>3. CASE ~torn
      <4>1. /\ Len(index') = Len(index) + 1
            /\ \A i \in 1..Len(index) : index'[i] = index[i]
            /\ index'[Len(index) + 1] = run[w]
        BY <1>1, <2>1, <2>2, <3>3, AppendProperties
      <4>2. \A i \in 1..(Len(index) + 1) : i \in 1..Len(index) \/ i = Len(index) + 1
        BY <1>1
      <4> QED
        BY <2>2, <3>1, <4>1, <4>2
    <3> QED
      BY <3>2, <3>3
  <2> QED
    BY <2>1, <2>3, <2>4 DEF DanglingInv
<1>5. ASSUME NEW w \in Workers, BeginPrune(w) PROVE DanglingInv'
  <2>1. /\ pc[w] = "appended" /\ pc' = [pc EXCEPT ![w] = "pruning"]
        /\ UNCHANGED <<index, snapshots, aborts>>
    BY <1>5 DEF BeginPrune, diskVars, indexVars
  <2>2. \A v \in Workers : pc[v] # "pruning" /\ pc'[v] # "rewriting"
    BY <1>1, <1>2, <2>1 DEF Critical
  <2> QED
    BY <2>1, <2>2 DEF DanglingInv
<1>6. ASSUME NEW w \in Workers, PruneOldest(w) PROVE DanglingInv'
  <2>1. /\ pc[w] = "pruning" /\ doomed[w] # <<>>
        /\ snapshots' \in {snapshots, snapshots \ {Head(doomed[w])}}
        /\ doomed' = [doomed EXCEPT ![w] = Tail(doomed[w])]
        /\ UNCHANGED <<index, pc, keep, aborts>>
    BY <1>6 DEF PruneOldest, RemoveRun, LeaveRun, indexVars
  <2>2. /\ Len(doomed[w]) \in Nat /\ Len(doomed[w]) > 0
        /\ Head(doomed[w]) = doomed[w][1] /\ Len(Tail(doomed[w])) = Len(doomed[w]) - 1
    BY <1>1, <2>1, HeadTailProperties, EmptySeq, LenProperties
  <2>3. /\ OverLimit /\ Len(doomed[w]) <= Surplus
        /\ \A i \in 1..Len(doomed[w]) : doomed[w][i] = index[Removed(w) + i]
    BY <2>1 DEF IndInv, RetentionInv, PruneInv
  <2>4. Surplus \in 1..Len(index)
    BY <1>1, <2>3, OverLimitSlices
  <2>5. /\ Removed(w)' = Removed(w) + 1 /\ Head(doomed[w]) = index[Removed(w) + 1]
        /\ Removed(w) \in Nat /\ Removed(w) + 1 \in 1..Len(index)
    BY <1>1, <2>1, <2>2, <2>3, <2>4 DEF Removed, Surplus
  <2>6. \A v \in Workers : pc[v] \in {"pruning", "rewriting"} => v = w /\ pc[v] = "pruning"
    BY <1>2, <2>1 DEF Critical
  <2>7. ASSUME aborts = 0, NEW i \in 1..Len(index), index[i] \notin snapshots'
        PROVE  i <= Removed(w)'
    <3>1. CASE index[i] \in snapshots
      <4>1. index[i] = index[Removed(w) + 1]
        BY <2>1, <2>5, <2>7, <3>1
      <4>2. i = Removed(w) + 1
        BY <1>1, <2>5, <4>1, LinesAreDistinct DEF IndInv, IndexInv
      <4> QED
        BY <2>5, <4>2
    <3>2. CASE index[i] \notin snapshots
      <4>1. i <= Removed(w)
        BY <2>6, <2>7, <3>2 DEF DanglingInv
      <4> QED
        BY <1>1, <2>5, <4>1
    <3> QED
      BY <3>1, <3>2
  <2> QED
    BY <2>1, <2>6, <2>7 DEF DanglingInv
<1>7. ASSUME NEW w \in Workers, TruncateIndex(w) PROVE DanglingInv'
  <2>1. /\ pc[w] = "pruning" /\ pc' = [pc EXCEPT ![w] = "rewriting"] /\ doomed[w] = <<>>
        /\ index' = <<>> /\ UNCHANGED <<snapshots, keep, aborts>>
    BY <1>7 DEF TruncateIndex, diskVars
  <2>2. \A v \in Workers : pc[v] \in {"pruning", "rewriting"} => v = w /\ pc[v] = "pruning"
    BY <1>2, <2>1 DEF Critical
  <2>3. /\ OverLimit /\ Len(keep[w]) = Limit
        /\ \A i \in 1..Limit : keep[w][i] = index[Surplus + i]
    BY <2>1 DEF IndInv, RetentionInv, PruneInv
  <2>4. /\ Surplus \in Nat /\ Len(index) = Surplus + Limit /\ Removed(w) = Surplus
    BY <1>1, <2>1, <2>3, OverLimitSlices, EmptySeq DEF Removed
  <2>5. ASSUME aborts = 0, NEW i \in 1..Limit PROVE keep[w][i] \in snapshots
    <3>1. Surplus + i \in 1..Len(index) /\ ~(Surplus + i <= Removed(w))
      BY <1>1, <2>4, LimitAssumption
    <3>2. index[Surplus + i] \in snapshots
      BY <2>2, <2>5, <3>1 DEF DanglingInv
    <3> QED
      BY <2>3, <3>2
  <2>6. Len(index') = 0
    BY <2>1, EmptySeq
  <2> QED
    BY <1>1, <2>1, <2>2, <2>3, <2>5, <2>6 DEF DanglingInv
<1>8. ASSUME NEW w \in Workers, RewriteLine(w) PROVE DanglingInv'
  <2>1. /\ pc[w] = "rewriting" /\ index' = Append(index, keep[w][Len(index) + 1])
        /\ UNCHANGED <<snapshots, pc, keep, aborts>>
    BY <1>8 DEF RewriteLine, Unwritten, diskVars, workVars
  <2>2. \A v \in Workers : pc[v] # "pruning"
    BY <1>2, <2>1 DEF Critical
  <2>3. keep[w] \in Seq(RunIds) /\ Len(index) + 1 \in 1..Len(keep[w])
    BY <1>1, <1>8, LenProperties DEF RewriteLine, Unwritten
  <2>4. keep[w][Len(index) + 1] \in RunIds
    BY <2>3, ElementOfSeq
  <2>5. /\ Len(index') = Len(index) + 1
        /\ \A i \in 1..Len(index) : index'[i] = index[i]
        /\ index'[Len(index) + 1] = keep[w][Len(index) + 1]
    BY <1>1, <2>1, <2>4, AppendProperties
  <2>6. ASSUME aborts = 0, NEW i \in 1..Len(index') PROVE index'[i] \in snapshots
    <3>1. i \in 1..Len(index) \/ i = Len(index) + 1
      BY <1>1, <2>5
    <3>2. \A j \in 1..Len(index) : index[j] \in snapshots
      BY <2>2, <2>6 DEF DanglingInv
    <3>3. keep[w][Len(index) + 1] \in snapshots
      BY <2>1, <2>3, <2>6 DEF DanglingInv
    <3> QED
      BY <2>5, <3>1, <3>2, <3>3
  <2> QED
    BY <2>1, <2>6 DEF DanglingInv
<1>9. ASSUME NEW w \in Workers, ReleaseIndexLock(w) PROVE DanglingInv'
  <2>1. /\ pc[w] \in {"release", "rewriting"} /\ pc' = [pc EXCEPT ![w] = "idle"]
        /\ UNCHANGED <<snapshots, index, keep, doomed, aborts>>
    BY <1>9 DEF ReleaseIndexLock, diskVars, indexVars
  <2> QED
    BY <1>1, <2>1, DanglingFrame
<1>10. ASSUME NEW w \in Workers, Abort(w) PROVE DanglingInv'
  BY <1>1, <1>10 DEF Abort, DanglingInv
<1>11. ASSUME UNCHANGED <<diskVars, indexVars, workVars, aborts>> PROVE DanglingInv'
  BY <1>11, DanglingFrame DEF diskVars, indexVars, workVars
<1>12. ASSUME NEW r \in Readers, Get(r) PROVE DanglingInv'
  BY <1>11, <1>12 DEF Get, LookUp, CheckSnapshot, ReadSnapshot
<1>13. ASSUME PersistCliRun PROVE DanglingInv'
  BY <1>13, DanglingFrame DEF PersistCliRun, indexVars, workVars
<1>14. CASE UNCHANGED vars
  BY <1>11, <1>14 DEF vars
<1> QED
  BY <1>3, <1>4, <1>5, <1>6, <1>7, <1>8, <1>9, <1>10, <1>12, <1>13, <1>14
  DEF Next, Record

\* A record points to a snapshot that is there, unless a worker prunes at this
\* moment or some worker was aborted.
THEOREM SnapshotsLackOnlyMeanwhile == Spec => []SnapshotsLackOnlyInPruning
<1>1. Init => DanglingInv
  BY EmptySeq DEF Init, DanglingInv
<1>2. DanglingInv /\ TypeOK => SnapshotsLackOnlyInPruning
  BY DEF DanglingInv, SnapshotsLackOnlyInPruning, EveryRecordHasSnapshot, TypeOK
<1> QED
  BY <1>1, <1>2, Invariance, TypeCorrect, DanglingStep, PTL DEF Spec

=============================================================================
