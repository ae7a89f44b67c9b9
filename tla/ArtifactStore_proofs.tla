------------------------ MODULE ArtifactStore_proofs ------------------------
(***************************************************************************)
(* Proofs about ArtifactStore, for every set of processes, threads, lock   *)
(* roots and writes: the types, the exclusion lock() gives, and that the   *)
(* writes of a file implement AtomicFile.                                  *)
(*                                                                         *)
(* The refinement rests on TempInv: when a thread renames its process's    *)
(* temporary file, the file holds that thread's own version.  It does      *)
(* because only the holder of the process's thread lock touches the file   *)
(* (ThreadLockInv), whatever root the flock was taken under.               *)
(***************************************************************************)
EXTENDS ArtifactStore, TLAPS

HoldsThreadLock == Locked \cup {"thread-locked", "unlocked"}

ThreadLockInv == \A t \in Threads :
    pc[t] \in HoldsThreadLock => threadLock[ProcOf[t]] = t

FileLockInv == \A t \in Threads :
    pc[t] \in Locked => fileLock[root[t]] = t

\* What a call in progress has set; no two calls write the same version.
CallInv ==
    /\ \A t \in Threads :
          /\ pc[t] = "idle" => version[t] = NoVersion
          /\ pc[t] # "idle" => root[t] \in Roots /\ version[t] \in Versions
          /\ pc[t] \notin {"idle", "unlocked"} => outcome[version[t]] = "pending"
          /\ pc[t] = "unlocked" => outcome[version[t]] \in {"returned", "failed"}
    /\ \A t, u \in Threads :
          pc[t] # "idle" /\ pc[u] # "idle" /\ version[t] = version[u] => t = u

TempInv == \A t \in Threads :
    pc[t] = "written" => temp[ProcOf[t]] = version[t]

IndInv == TypeOK /\ ThreadLockInv /\ FileLockInv /\ CallInv /\ TempInv

\* The inductive invariant holds before the first call.
LEMMA InitIndInv == Init => IndInv
BY NoneAssumption, ProcOfAssumption
DEF Init, IndInv, TypeOK, ThreadLockInv, FileLockInv, CallInv, TempInv,
    HoldsThreadLock, Locked, Steps, Contents

\* The steps keep the types.
LEMMA NextTypeOK == IndInv /\ [Next]_vars => TypeOK'
<1> SUFFICES ASSUME IndInv, [Next]_vars PROVE TypeOK'
  OBVIOUS
<1> USE ProcOfAssumption, FailuresAssumption
    DEF IndInv, TypeOK, Goto, Steps, Locked, Contents, lockVars, callVars, CallInv, TempOf
<1>1. ASSUME NEW t \in Threads, CallWrite(t) PROVE TypeOK'
  BY <1>1 DEF CallWrite
<1>2. ASSUME NEW t \in Threads, AcquireThreadLock(t) PROVE TypeOK'
  BY <1>2 DEF AcquireThreadLock
<1>3. ASSUME NEW t \in Threads, AcquireFileLock(t) PROVE TypeOK'
  BY <1>3 DEF AcquireFileLock
<1>4. ASSUME NEW t \in Threads, OpenTemp(t) PROVE TypeOK'
  BY <1>4 DEF OpenTemp
<1>5. ASSUME NEW t \in Threads, WriteTemp(t) PROVE TypeOK'
  BY <1>5 DEF WriteTemp
<1>6. ASSUME NEW t \in Threads, Replace(t) PROVE TypeOK'
  BY <1>6 DEF Replace
<1>7. ASSUME NEW t \in Threads, ReleaseFileLock(t) PROVE TypeOK'
  BY <1>7 DEF ReleaseFileLock
<1>8. ASSUME NEW t \in Threads, ReleaseThreadLock(t) PROVE TypeOK'
  BY <1>8 DEF ReleaseThreadLock
<1>9. ASSUME NEW t \in Threads, FailFileLock(t) PROVE TypeOK'
  BY <1>9 DEF FailFileLock
<1>10. ASSUME NEW t \in Threads, FailWrite(t) PROVE TypeOK'
  BY <1>10 DEF FailWrite
<1>11. ASSUME NEW p \in Processes, Kill(p) PROVE TypeOK'
  BY <1>11 DEF Kill
<1>12. CASE UNCHANGED vars
  BY <1>12 DEF vars
<1> QED
  BY <1>1, <1>2, <1>3, <1>4, <1>5, <1>6, <1>7, <1>8, <1>9, <1>10, <1>11, <1>12
  DEF Next, Write

\* Only the holder of its process's thread lock is past acquiring it.
LEMMA NextThreadLockInv == IndInv /\ [Next]_vars => ThreadLockInv'
<1> SUFFICES ASSUME IndInv, [Next]_vars PROVE ThreadLockInv'
  OBVIOUS
<1> USE ProcOfAssumption, NoneAssumption
    DEF IndInv, TypeOK, Goto, ThreadLockInv, HoldsThreadLock, Locked, lockVars
<1>1. ASSUME NEW t \in Threads, CallWrite(t) PROVE ThreadLockInv'
  BY <1>1 DEF CallWrite
<1>2. ASSUME NEW t \in Threads, AcquireThreadLock(t) PROVE ThreadLockInv'
  BY <1>2 DEF AcquireThreadLock
<1>3. ASSUME NEW t \in Threads, AcquireFileLock(t) PROVE ThreadLockInv'
  BY <1>3 DEF AcquireFileLock
<1>4. ASSUME NEW t \in Threads, OpenTemp(t) PROVE ThreadLockInv'
  BY <1>4 DEF OpenTemp
<1>5. ASSUME NEW t \in Threads, WriteTemp(t) PROVE ThreadLockInv'
  BY <1>5 DEF WriteTemp
<1>6. ASSUME NEW t \in Threads, Replace(t) PROVE ThreadLockInv'
  BY <1>6 DEF Replace
<1>7. ASSUME NEW t \in Threads, ReleaseFileLock(t) PROVE ThreadLockInv'
  BY <1>7 DEF ReleaseFileLock
<1>8. ASSUME NEW t \in Threads, ReleaseThreadLock(t) PROVE ThreadLockInv'
  BY <1>8 DEF ReleaseThreadLock
<1>9. ASSUME NEW t \in Threads, FailFileLock(t) PROVE ThreadLockInv'
  BY <1>9 DEF FailFileLock
<1>10. ASSUME NEW t \in Threads, FailWrite(t) PROVE ThreadLockInv'
  BY <1>10 DEF FailWrite
<1>11. ASSUME NEW p \in Processes, Kill(p) PROVE ThreadLockInv'
  BY <1>11 DEF Kill
<1>12. CASE UNCHANGED vars
  BY <1>12 DEF vars
<1> QED
  BY <1>1, <1>2, <1>3, <1>4, <1>5, <1>6, <1>7, <1>8, <1>9, <1>10, <1>11, <1>12
  DEF Next, Write

\* Only the holder of the flock under its root is past acquiring it.
LEMMA NextFileLockInv == IndInv /\ [Next]_vars => FileLockInv'
<1> SUFFICES ASSUME IndInv, [Next]_vars PROVE FileLockInv'
  OBVIOUS
<1> USE ProcOfAssumption, NoneAssumption
    DEF IndInv, TypeOK, Goto, FileLockInv, CallInv, Locked, lockVars, callVars
<1>1. ASSUME NEW t \in Threads, CallWrite(t) PROVE FileLockInv'
  BY <1>1 DEF CallWrite
<1>2. ASSUME NEW t \in Threads, AcquireThreadLock(t) PROVE FileLockInv'
  BY <1>2 DEF AcquireThreadLock
<1>3. ASSUME NEW t \in Threads, AcquireFileLock(t) PROVE FileLockInv'
  BY <1>3 DEF AcquireFileLock
<1>4. ASSUME NEW t \in Threads, OpenTemp(t) PROVE FileLockInv'
  BY <1>4 DEF OpenTemp
<1>5. ASSUME NEW t \in Threads, WriteTemp(t) PROVE FileLockInv'
  BY <1>5 DEF WriteTemp
<1>6. ASSUME NEW t \in Threads, Replace(t) PROVE FileLockInv'
  BY <1>6 DEF Replace
<1>7. ASSUME NEW t \in Threads, ReleaseFileLock(t) PROVE FileLockInv'
  BY <1>7 DEF ReleaseFileLock
<1>8. ASSUME NEW t \in Threads, ReleaseThreadLock(t) PROVE FileLockInv'
  BY <1>8 DEF ReleaseThreadLock
<1>9. ASSUME NEW t \in Threads, FailFileLock(t) PROVE FileLockInv'
  BY <1>9 DEF FailFileLock
<1>10. ASSUME NEW t \in Threads, FailWrite(t) PROVE FileLockInv'
  BY <1>10 DEF FailWrite
<1>11. ASSUME NEW p \in Processes, Kill(p) PROVE FileLockInv'
  BY <1>11 DEF Kill
<1>12. CASE UNCHANGED vars
  BY <1>12 DEF vars
<1> QED
  BY <1>1, <1>2, <1>3, <1>4, <1>5, <1>6, <1>7, <1>8, <1>9, <1>10, <1>11, <1>12
  DEF Next, Write

\* A version is written by one call, and is pending until its locks are released.
LEMMA NextCallInv == IndInv /\ [Next]_vars => CallInv'
<1> SUFFICES ASSUME IndInv, [Next]_vars PROVE CallInv'
  OBVIOUS
<1> USE NoneAssumption DEF IndInv, TypeOK, Goto, CallInv, callVars, Steps, Locked
<1>1. ASSUME NEW t \in Threads, CallWrite(t) PROVE CallInv'
  BY <1>1 DEF CallWrite
<1>2. ASSUME NEW t \in Threads, AcquireThreadLock(t) PROVE CallInv'
  BY <1>2 DEF AcquireThreadLock
<1>3. ASSUME NEW t \in Threads, AcquireFileLock(t) PROVE CallInv'
  BY <1>3 DEF AcquireFileLock
<1>4. ASSUME NEW t \in Threads, OpenTemp(t) PROVE CallInv'
  BY <1>4 DEF OpenTemp
<1>5. ASSUME NEW t \in Threads, WriteTemp(t) PROVE CallInv'
  BY <1>5 DEF WriteTemp
<1>6. ASSUME NEW t \in Threads, Replace(t) PROVE CallInv'
  BY <1>6 DEF Replace
<1>7. ASSUME NEW t \in Threads, ReleaseFileLock(t) PROVE CallInv'
  BY <1>7 DEF ReleaseFileLock
<1>8. ASSUME NEW t \in Threads, ReleaseThreadLock(t) PROVE CallInv'
  BY <1>8 DEF ReleaseThreadLock
<1>9. ASSUME NEW t \in Threads, FailFileLock(t) PROVE CallInv'
  BY <1>9 DEF FailFileLock
<1>10. ASSUME NEW t \in Threads, FailWrite(t) PROVE CallInv'
  BY <1>10 DEF FailWrite
<1>11. ASSUME NEW p \in Processes, Kill(p) PROVE CallInv'
  BY <1>11 DEF Kill
<1>12. CASE UNCHANGED vars
  BY <1>12 DEF vars
<1> QED
  BY <1>1, <1>2, <1>3, <1>4, <1>5, <1>6, <1>7, <1>8, <1>9, <1>10, <1>11, <1>12
  DEF Next, Write

\* Two threads of one process are never both past the thread lock.
LEMMA OneThreadOfAProcess ==
    ASSUME ThreadLockInv, NEW t \in Threads, NEW u \in Threads,
           pc[t] \in HoldsThreadLock, pc[u] \in HoldsThreadLock, ProcOf[t] = ProcOf[u]
    PROVE  t = u
BY DEF ThreadLockInv

\* No other thread touches a temporary file that is written and not renamed.
LEMMA NextTempInv == IndInv /\ [Next]_vars => TempInv'
<1> SUFFICES ASSUME IndInv, [Next]_vars PROVE TempInv'
  OBVIOUS
<1> USE ProcOfAssumption DEF IndInv, TypeOK, Goto, TempInv, callVars, TempOf
<1>1. ASSUME NEW t \in Threads, CallWrite(t) PROVE TempInv'
  BY <1>1 DEF CallWrite
<1>2. ASSUME NEW t \in Threads, AcquireThreadLock(t) PROVE TempInv'
  BY <1>2 DEF AcquireThreadLock
<1>3. ASSUME NEW t \in Threads, AcquireFileLock(t) PROVE TempInv'
  BY <1>3 DEF AcquireFileLock
<1>4. ASSUME NEW t \in Threads, OpenTemp(t) PROVE TempInv'
  BY <1>4, OneThreadOfAProcess DEF OpenTemp, HoldsThreadLock, Locked
<1>5. ASSUME NEW t \in Threads, WriteTemp(t) PROVE TempInv'
  BY <1>5, OneThreadOfAProcess DEF WriteTemp, HoldsThreadLock, Locked
<1>6. ASSUME NEW t \in Threads, Replace(t) PROVE TempInv'
  BY <1>6, OneThreadOfAProcess DEF Replace, HoldsThreadLock, Locked
<1>7. ASSUME NEW t \in Threads, ReleaseFileLock(t) PROVE TempInv'
  BY <1>7 DEF ReleaseFileLock
<1>8. ASSUME NEW t \in Threads, ReleaseThreadLock(t) PROVE TempInv'
  BY <1>8 DEF ReleaseThreadLock
<1>9. ASSUME NEW t \in Threads, FailFileLock(t) PROVE TempInv'
  BY <1>9 DEF FailFileLock
<1>10. ASSUME NEW t \in Threads, FailWrite(t) PROVE TempInv'
  BY <1>10 DEF FailWrite
<1>11. ASSUME NEW p \in Processes, Kill(p) PROVE TempInv'
  BY <1>11 DEF Kill
<1>12. CASE UNCHANGED vars
  BY <1>12 DEF vars
<1> QED
  BY <1>1, <1>2, <1>3, <1>4, <1>5, <1>6, <1>7, <1>8, <1>9, <1>10, <1>11, <1>12
  DEF Next, Write

\* IndInv holds in every reachable state.
THEOREM Invariance == Spec => []IndInv
<1>1. IndInv /\ [Next]_vars => IndInv'
  BY NextTypeOK, NextThreadLockInv, NextFileLockInv, NextCallInv, NextTempInv DEF IndInv
<1> QED
  BY <1>1, InitIndInv, PTL DEF Spec

\* The state of the store keeps its types.
THEOREM TypeCorrect == Spec => []TypeOK
<1>1. IndInv => TypeOK
  BY DEF IndInv
<1> QED
  BY <1>1, Invariance, PTL

\* Whoever holds lock() for a file shares neither process nor lock root with
\* another holder.
THEOREM LockExcludes == Spec => []LockHoldersAreApart
<1>1. IndInv => LockHoldersAreApart
  BY OneThreadOfAProcess
  DEF IndInv, FileLockInv, LockHoldersAreApart, HoldsThreadLock
<1> QED
  BY <1>1, Invariance, PTL

-----------------------------------------------------------------------------
(***************************************************************************)
(* The refinement.                                                         *)
(***************************************************************************)

Replaced(v) == \E t \in Threads : version[t] = v /\ pc[t] = "replaced"

\* The status a version is mapped to, without the quantifier over threads.
LEMMA StatusValue ==
    \A v \in Versions : StatusOf(v) =
        IF outcome[v] # "pending" THEN outcome[v]
        ELSE IF Replaced(v) THEN "effective" ELSE "called"
BY DEF StatusOf, Replaced

\* Steps that neither move a version nor replace the file are stutters.
LEMMA StatusFrame ==
    ASSUME TypeOK, UNCHANGED <<file, outcome>>,
           \A v \in Versions : outcome[v] = "pending" => (Replaced(v) <=> Replaced(v)')
    PROVE  UNCHANGED Abstract!vars
<1>1. \A v \in Versions : StatusOf(v)' = StatusOf(v)
  BY DEF StatusOf, Replaced
<1> QED
  BY <1>1 DEF Abstract!vars

\* Before the first call nothing has taken effect.
LEMMA InitRefines == Init => Abstract!Init
BY DEF Init, Abstract!Init, StatusOf

\* A call of write_json is a call of the atomic file.
LEMMA CallRefines ==
    ASSUME IndInv, NEW t \in Threads, CallWrite(t)
    PROVE  Abstract!Next
<1> USE DEF IndInv
<1>1. PICK v \in Versions : /\ outcome[v] = "new"
                            /\ version' = [version EXCEPT ![t] = v]
                            /\ outcome' = [outcome EXCEPT ![v] = "pending"]
  BY DEF CallWrite
<1>2. /\ \A u \in Threads : u # t => version'[u] = version[u] /\ pc'[u] = pc[u]
      /\ version'[t] = v /\ pc'[t] = "called" /\ version[t] = NoVersion
      /\ \A w \in Versions : outcome'[w] = IF w = v THEN "pending" ELSE outcome[w]
  BY <1>1 DEF CallWrite, Goto, TypeOK, CallInv
<1>3. ~Replaced(v)'
  BY <1>1, <1>2 DEF Replaced, CallInv
<1>4. \A w \in Versions : w # v => (Replaced(w) <=> Replaced(w)')
  BY <1>2, NoneAssumption DEF Replaced
<1>5. StatusOf(v) = "new" /\ StatusOf(v)' = "called"
  BY <1>1, <1>2, <1>3 DEF StatusOf, Replaced
<1>6. \A w \in Versions : w # v => StatusOf(w)' = StatusOf(w)
  BY <1>2, <1>4 DEF StatusOf, Replaced
<1>7. file' = file
  BY DEF CallWrite
<1>8. Abstract!Call(v)
  BY <1>5, <1>6, <1>7 DEF Abstract!Call
<1> QED
  BY <1>8 DEF Abstract!Next

\* The write takes effect when the temporary file is renamed, and not before.
LEMMA ReplaceRefines ==
    ASSUME IndInv, NEW t \in Threads, Replace(t)
    PROVE  Abstract!Next
<1> USE DEF IndInv
<1> DEFINE v == version[t]
<1>1. v \in Versions /\ outcome[v] = "pending" /\ temp[TempOf(t)] = v
  BY DEF Replace, CallInv, TempInv, TempOf
<1>2. /\ file' = v
      /\ pc' = [pc EXCEPT ![t] = "replaced"]
      /\ UNCHANGED <<version, outcome>>
  BY <1>1, NoneAssumption DEF Replace, callVars
<1>3. ~Replaced(v) /\ Replaced(v)'
  BY <1>2 DEF Replace, Replaced, CallInv, TypeOK
<1>4. \A w \in Versions : w # v => (Replaced(w) <=> Replaced(w)')
  BY <1>2 DEF Replaced, TypeOK
<1>5. StatusOf(v) = "called" /\ StatusOf(v)' = "effective"
  BY <1>1, <1>2, <1>3 DEF StatusOf, Replaced
<1>6. \A w \in Versions : w # v => StatusOf(w)' = StatusOf(w)
  BY <1>2, <1>4 DEF StatusOf, Replaced
<1>7. Abstract!TakeEffect(v)
  BY <1>1, <1>2, <1>5, <1>6 DEF Abstract!TakeEffect
<1> QED
  BY <1>1, <1>7 DEF Abstract!Next

\* A write whose rename happened returns, one that raised fails.
LEMMA ReleaseRefines ==
    ASSUME IndInv, NEW t \in Threads, ReleaseFileLock(t)
    PROVE  Abstract!Next
<1> USE DEF IndInv
<1> DEFINE v == version[t]
<1>1. v \in Versions /\ outcome[v] = "pending"
  BY DEF ReleaseFileLock, CallInv
<1>2. /\ pc' = [pc EXCEPT ![t] = "unlocked"]
      /\ UNCHANGED <<file, version>>
      /\ \A w \in Versions : outcome'[w] =
            IF w = v THEN (IF pc[t] = "replaced" THEN "returned" ELSE "failed")
            ELSE outcome[w]
  BY DEF ReleaseFileLock, callVars, TypeOK
<1>3. \A w \in Versions : w # v => (Replaced(w) <=> Replaced(w)')
  BY <1>2 DEF Replaced, TypeOK
<1>4. \A w \in Versions : w # v => StatusOf(w)' = StatusOf(w)
  BY <1>2, <1>3 DEF StatusOf, Replaced
<1>5. CASE pc[t] = "replaced"
  <2>1. StatusOf(v) = "effective" /\ StatusOf(v)' = "returned"
    BY <1>1, <1>2, <1>5 DEF StatusOf
  <2>2. Abstract!Return(v)
    BY <1>1, <1>2, <1>4, <2>1 DEF Abstract!Return
  <2> QED
    BY <1>1, <2>2 DEF Abstract!Next
<1>6. CASE pc[t] # "replaced"
  <2>1. StatusOf(v) \in {"called", "effective"} /\ StatusOf(v)' = "failed"
    BY <1>1, <1>2, <1>6 DEF StatusOf
  <2>2. Abstract!Fail({v})
    BY <1>1, <1>2, <1>4, <2>1 DEF Abstract!Fail
  <2> QED
    BY <1>1, <2>2 DEF Abstract!Next
<1> QED
  BY <1>5, <1>6

\* A write that cannot open the lock file fails.
LEMMA FailFileLockRefines ==
    ASSUME IndInv, NEW t \in Threads, FailFileLock(t)
    PROVE  Abstract!Next
<1> USE DEF IndInv
<1> DEFINE v == version[t]
<1>1. v \in Versions /\ outcome[v] = "pending"
  BY DEF FailFileLock, Goto, CallInv
<1>2. /\ pc' = [pc EXCEPT ![t] = "unlocked"]
      /\ UNCHANGED <<file, version>>
      /\ \A w \in Versions : outcome'[w] = IF w = v THEN "failed" ELSE outcome[w]
  BY DEF FailFileLock, Goto, callVars, TypeOK
<1>3. \A w \in Versions : w # v => (Replaced(w) <=> Replaced(w)')
  BY <1>2 DEF Replaced, TypeOK
<1>4. \A w \in Versions : w # v => StatusOf(w)' = StatusOf(w)
  BY <1>2, <1>3 DEF StatusOf, Replaced
<1>5. StatusOf(v) \in {"called", "effective"} /\ StatusOf(v)' = "failed"
  BY <1>1, <1>2 DEF StatusOf
<1>6. Abstract!Fail({v})
  BY <1>1, <1>2, <1>4, <1>5 DEF Abstract!Fail
<1> QED
  BY <1>1, <1>6 DEF Abstract!Next

\* A killed process fails the writes its threads had in progress.
LEMMA KillRefines ==
    ASSUME IndInv, NEW p \in Processes, Kill(p)
    PROVE  Abstract!Next
<1> USE DEF IndInv
<1> DEFINE mine == {t \in Threads : ProcOf[t] = p}
           lost == {version[t] : t \in mine}
           S == {v \in Versions : v \in lost /\ outcome[v] = "pending"}
<1>1. /\ file' = file
      /\ \A t \in Threads :
            /\ pc'[t] = IF t \in mine THEN "idle" ELSE pc[t]
            /\ version'[t] = IF t \in mine THEN NoVersion ELSE version[t]
      /\ \A v \in Versions : outcome'[v] = IF v \in S THEN "failed" ELSE outcome[v]
  BY DEF Kill
<1>2. \A v \in Versions : v \notin lost => (Replaced(v) <=> Replaced(v)')
  BY <1>1, NoneAssumption DEF Replaced
<1>3. \A v \in S : StatusOf(v) \in {"called", "effective"} /\ StatusOf(v)' = "failed"
  BY <1>1 DEF StatusOf
<1>4. \A v \in Versions : v \notin S => StatusOf(v)' = StatusOf(v)
  BY <1>1, <1>2 DEF StatusOf, Replaced
<1>5. [v \in Versions |-> StatusOf(v)'] =
      [v \in Versions |-> IF v \in S THEN "failed" ELSE StatusOf(v)]
  BY <1>3, <1>4
<1>6. Abstract!Fail(S)
  BY <1>1, <1>3, <1>5 DEF Abstract!Fail
<1> QED
  BY <1>6 DEF Abstract!Next

\* Every step of the store is a step of the atomic file or a stutter.
LEMMA NextRefines == IndInv /\ [Next]_vars => [Abstract!Next]_(Abstract!vars)
<1> SUFFICES ASSUME IndInv, [Next]_vars
             PROVE  Abstract!Next \/ UNCHANGED Abstract!vars
  OBVIOUS
<1> USE DEF IndInv
<1>1. ASSUME NEW t \in Threads,
             AcquireThreadLock(t) \/ AcquireFileLock(t) \/ OpenTemp(t) \/ WriteTemp(t)
             \/ FailWrite(t)
      PROVE  UNCHANGED Abstract!vars
  <2>1. /\ UNCHANGED <<file, outcome, version>>
        /\ pc[t] # "replaced"
        /\ \E to \in Steps \ {"replaced"} : pc' = [pc EXCEPT ![t] = to]
    BY <1>1 DEF AcquireThreadLock, AcquireFileLock, OpenTemp, WriteTemp, FailWrite,
       Goto, callVars, Steps, Locked
  <2> QED
    BY <2>1, StatusFrame DEF Replaced, TypeOK
<1>2. ASSUME NEW t \in Threads, ReleaseThreadLock(t) PROVE UNCHANGED Abstract!vars
  <2>1. /\ UNCHANGED <<file, outcome>>
        /\ pc[t] = "unlocked" /\ outcome[version[t]] \in {"returned", "failed"}
        /\ pc' = [pc EXCEPT ![t] = "idle"]
        /\ version' = [version EXCEPT ![t] = NoVersion]
    BY <1>2 DEF ReleaseThreadLock, Goto, CallInv
  <2> QED
    BY <2>1, StatusFrame DEF Replaced, TypeOK
<1>3. CASE UNCHANGED vars
  BY <1>3, StatusFrame DEF vars, callVars, Replaced
<1> QED
  BY <1>1, <1>2, <1>3, CallRefines, ReplaceRefines, ReleaseRefines,
     FailFileLockRefines, KillRefines DEF Next, Write

\* The writes of an artifact file are atomic: readers find whole versions, and a
\* write that returned was at the path at some instant of its call.
THEOREM WritesRefineAtomicFile == Spec => WritesAreAtomic
<1>1. Spec => Abstract!Init /\ [][Abstract!Next]_(Abstract!vars)
  BY InitRefines, NextRefines, Invariance, PTL DEF Spec
<1> QED
  BY <1>1 DEF WritesAreAtomic, Abstract!Spec

=============================================================================
