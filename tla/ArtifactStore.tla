--------------------------- MODULE ArtifactStore ---------------------------
(***************************************************************************)
(* Writing one artifact file with ArtifactStore of                         *)
(* persistence/artifact_store.py: write_json, write_text and write_jsonl,  *)
(* which differ in how they serialise, and the two-level lock they take.   *)
(*                                                                         *)
(* A write is known by its version of the file.  The first level of the    *)
(* lock is a threading.Lock of the process for the path; the second is an  *)
(* flock on <lock root>/.locks/<hash of the path>.lock.  The lock root is  *)
(* the store's root, so that a run handler that writes the same report     *)
(* through ArtifactStore(artifact_root) and then through                   *)
(* ArtifactStore(".") takes the same thread lock and two different flocks. *)
(* The temporary file is named after the process id, so the threads of a   *)
(* process share it; a process that is killed and restarted is taken to    *)
(* have its old id, as process 1 of a container does.                      *)
(***************************************************************************)
EXTENDS Naturals

CONSTANTS
    Processes,   \* the API server, and the CLI or other servers on the volume
    Threads,     \* the threads of all processes
    ProcOf,      \* the process of each thread
    Roots,       \* the roots of the stores that name the file
    Versions,    \* the writes of the file
    MaxFailures, \* bound on killed processes and failed system calls
    NoFile, NoThread, NoRoot, NoVersion

ASSUME ProcOfAssumption == ProcOf \in [Threads -> Processes]
ASSUME FailuresAssumption == MaxFailures \in Nat
ASSUME NoneAssumption ==
    /\ NoFile \notin Versions /\ NoVersion \notin Versions
    /\ NoThread \notin Threads /\ NoRoot \notin Roots

VARIABLES
    file,        \* what is at the path: a version, "torn", or NoFile
    temp,        \* what is in the temporary file of each process
    threadLock,  \* the thread holding each process's thread lock for the path
    fileLock,    \* the thread holding the flock under each root
    pc,          \* where each thread is in write_json
    root,        \* the root of the store each thread writes through
    version,     \* the version each thread writes
    outcome,     \* history: "new", "pending", "returned" or "failed"
    failures     \* the number of failures so far, bounded by MaxFailures

lockVars == <<threadLock, fileLock>>
callVars == <<root, version>>
vars == <<file, temp, lockVars, pc, callVars, outcome, failures>>

Contents == Versions \cup {"torn", NoFile}
Locked == {"locked", "opened", "written", "replaced", "raised"}
Steps == Locked \cup {"idle", "called", "thread-locked", "unlocked"}

TypeOK ==
    /\ file \in Contents
    /\ temp \in [Processes -> Contents]
    /\ threadLock \in [Processes -> Threads \cup {NoThread}]
    /\ fileLock \in [Roots -> Threads \cup {NoThread}]
    /\ pc \in [Threads -> Steps]
    /\ root \in [Threads -> Roots \cup {NoRoot}]
    /\ version \in [Threads -> Versions \cup {NoVersion}]
    /\ outcome \in [Versions -> {"new", "pending", "returned", "failed"}]
    /\ failures \in Nat

Init ==
    /\ file = NoFile
    /\ temp = [p \in Processes |-> NoFile]
    /\ threadLock = [p \in Processes |-> NoThread]
    /\ fileLock = [r \in Roots |-> NoThread]
    /\ pc = [t \in Threads |-> "idle"]
    /\ root = [t \in Threads |-> NoRoot]
    /\ version = [t \in Threads |-> NoVersion]
    /\ outcome = [v \in Versions |-> "new"]
    /\ failures = 0

Goto(t, from, to) == pc[t] = from /\ pc' = [pc EXCEPT ![t] = to]

-----------------------------------------------------------------------------

\* Mutant: the call loses its payload.
CallWriteNothing(t) ==
    /\ Goto(t, "idle", "called")
    /\ \E r \in Roots : root' = [root EXCEPT ![t] = r]
    /\ \E v \in Versions :
          /\ outcome[v] = "new"
          /\ outcome' = [outcome EXCEPT ![v] = "pending"]
    /\ UNCHANGED <<file, temp, lockVars, version, failures>>

CallWrite(t) ==
    /\ Goto(t, "idle", "called")
    /\ \E r \in Roots : root' = [root EXCEPT ![t] = r]
    /\ \E v \in Versions :
          /\ outcome[v] = "new"
          /\ version' = [version EXCEPT ![t] = v]
          /\ outcome' = [outcome EXCEPT ![v] = "pending"]
    /\ UNCHANGED <<file, temp, lockVars, failures>>

\* Mutant: no thread lock, the flock alone.
SkipThreadLock(t) ==
    /\ Goto(t, "called", "thread-locked")
    /\ threadLock' = [threadLock EXCEPT ![ProcOf[t]] = t]
    /\ UNCHANGED <<file, temp, fileLock, callVars, outcome, failures>>

\* _thread_lock finds the lock by the hash of the path, whatever the root.
AcquireThreadLock(t) ==
    /\ Goto(t, "called", "thread-locked")
    /\ threadLock[ProcOf[t]] = NoThread
    /\ threadLock' = [threadLock EXCEPT ![ProcOf[t]] = t]
    /\ UNCHANGED <<file, temp, fileLock, callVars, outcome, failures>>

AcquireFileLock(t) ==
    /\ Goto(t, "thread-locked", "locked")
    /\ fileLock[root[t]] = NoThread
    /\ fileLock' = [fileLock EXCEPT ![root[t]] = t]
    /\ UNCHANGED <<file, temp, threadLock, callVars, outcome, failures>>

\* Mutant: a temporary file name without the process id.
CommonTemp(t) == CHOOSE p \in Processes : TRUE

TempOf(t) == ProcOf[t]

\* temp_path.write_text empties the temporary file ...
OpenTemp(t) ==
    /\ Goto(t, "locked", "opened")
    /\ temp' = [temp EXCEPT ![TempOf(t)] = "torn"]
    /\ UNCHANGED <<file, lockVars, callVars, outcome, failures>>

\* ... and fills it.
WriteTemp(t) ==
    /\ Goto(t, "opened", "written")
    /\ temp' = [temp EXCEPT ![TempOf(t)] = version[t]]
    /\ UNCHANGED <<file, lockVars, callVars, outcome, failures>>

\* os.replace raises when there is no temporary file to rename.
Replace(t) ==
    /\ pc[t] = "written"
    /\ IF temp[TempOf(t)] # NoFile
       THEN /\ file' = temp[TempOf(t)]
            /\ temp' = [temp EXCEPT ![TempOf(t)] = NoFile]
            /\ pc' = [pc EXCEPT ![t] = "replaced"]
       ELSE /\ pc' = [pc EXCEPT ![t] = "raised"]
            /\ UNCHANGED <<file, temp>>
    /\ UNCHANGED <<lockVars, callVars, outcome, failures>>

\* Both context managers unlock on the way out, raising or not.
ReleaseFileLock(t) ==
    /\ pc[t] \in {"replaced", "raised"}
    /\ pc' = [pc EXCEPT ![t] = "unlocked"]
    /\ fileLock' = [fileLock EXCEPT ![root[t]] = NoThread]
    /\ outcome' = [outcome EXCEPT ![version[t]] =
                      IF pc[t] = "replaced" THEN "returned" ELSE "failed"]
    /\ UNCHANGED <<file, temp, threadLock, callVars, failures>>

ReleaseThreadLock(t) ==
    /\ Goto(t, "unlocked", "idle")
    /\ threadLock' = [threadLock EXCEPT ![ProcOf[t]] = NoThread]
    /\ root' = [root EXCEPT ![t] = NoRoot]
    /\ version' = [version EXCEPT ![t] = NoVersion]
    /\ UNCHANGED <<file, temp, fileLock, outcome, failures>>

\* Opening the lock file raises OSError: only the thread lock is released.
FailFileLock(t) ==
    /\ Goto(t, "thread-locked", "unlocked")
    /\ failures < MaxFailures
    /\ failures' = failures + 1
    /\ outcome' = [outcome EXCEPT ![version[t]] = "failed"]
    /\ UNCHANGED <<file, temp, lockVars, callVars>>

\* Mutant: no unlocking on the way out of an exception.
FailWriteLocked(t) ==
    /\ Goto(t, "written", "idle")
    /\ failures < MaxFailures
    /\ failures' = failures + 1
    /\ root' = [root EXCEPT ![t] = NoRoot]
    /\ version' = [version EXCEPT ![t] = NoVersion]
    /\ outcome' = [outcome EXCEPT ![version[t]] = "failed"]
    /\ UNCHANGED <<file, temp, lockVars>>

\* Writing or renaming the temporary file raises OSError: it stays behind.
FailWrite(t) ==
    /\ pc[t] \in {"opened", "written"}
    /\ failures < MaxFailures
    /\ failures' = failures + 1
    /\ pc' = [pc EXCEPT ![t] = "raised"]
    /\ UNCHANGED <<file, temp, lockVars, callVars, outcome>>

\* A process is killed: its flocks are released by the kernel, its thread locks
\* die with it, and its temporary file stays behind.
Kill(p) ==
    LET mine == {t \in Threads : ProcOf[t] = p}
        lost == {version[t] : t \in mine}
    IN  /\ \E t \in mine : pc[t] # "idle"
        /\ failures < MaxFailures
        /\ failures' = failures + 1
        /\ threadLock' = [threadLock EXCEPT ![p] = NoThread]
        /\ fileLock' = [r \in Roots |->
                           IF fileLock[r] \in mine THEN NoThread ELSE fileLock[r]]
        /\ pc' = [t \in Threads |-> IF t \in mine THEN "idle" ELSE pc[t]]
        /\ root' = [t \in Threads |-> IF t \in mine THEN NoRoot ELSE root[t]]
        /\ version' = [t \in Threads |-> IF t \in mine THEN NoVersion ELSE version[t]]
        /\ outcome' = [v \in Versions |->
                          IF v \in lost /\ outcome[v] = "pending"
                          THEN "failed" ELSE outcome[v]]
        /\ UNCHANGED <<file, temp>>

-----------------------------------------------------------------------------

Write(t) ==
    \/ AcquireThreadLock(t)
    \/ AcquireFileLock(t)
    \/ OpenTemp(t)
    \/ WriteTemp(t)
    \/ Replace(t)
    \/ ReleaseFileLock(t)
    \/ ReleaseThreadLock(t)

Next ==
    \/ \E t \in Threads : CallWrite(t) \/ Write(t) \/ FailFileLock(t) \/ FailWrite(t)
    \/ \E p \in Processes : Kill(p)

Spec == Init /\ [][Next]_vars

\* A thread that called write_json goes on.  Neither lock promises an order of
\* arrival; none is needed while the writes that compete are finitely many.
FairSpec == Spec /\ \A t \in Threads : WF_vars(Write(t))

-----------------------------------------------------------------------------
(***************************************************************************)
(* Properties.                                                             *)
(***************************************************************************)

\* Two threads that are both past lock() belong to different processes and came
\* through stores with different roots.  So the threads of a process never share
\* its temporary file, and where every store has the same root, as for the
\* history index, lock() is one mutex.
LockHoldersAreApart ==
    \A t, u \in Threads :
        t # u /\ pc[t] \in Locked /\ pc[u] \in Locked =>
            ProcOf[t] # ProcOf[u] /\ root[t] # root[u]

\* The file implements AtomicFile: no reader ever finds a torn or a foreign
\* version, and a write_json that returned had replaced the file by its own.
StatusOf(v) ==
    IF outcome[v] = "pending"
    THEN IF \E t \in Threads : version[t] = v /\ pc[t] = "replaced"
         THEN "effective" ELSE "called"
    ELSE outcome[v]

Abstract == INSTANCE AtomicFile WITH status <- [v \in Versions |-> StatusOf(v)]

WritesAreAtomic == Abstract!Spec

\* A write that is called ends: the two locks are never held in a cycle and never
\* left held, also after failures.
WritesEnd == \A t \in Threads : pc[t] = "called" ~> pc[t] = "idle"

=============================================================================
