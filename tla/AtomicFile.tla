----------------------------- MODULE AtomicFile -----------------------------
(***************************************************************************)
(* What ArtifactStore promises of one artifact file: a write takes effect  *)
(* at one instant between its call and its return, a write that returns    *)
(* has taken effect, and a reader finds a whole version or no file.        *)
(***************************************************************************)
CONSTANTS
    Versions, \* the writes of the file
    NoFile    \* no version

VARIABLES
    file,   \* the version at the path, or NoFile
    status  \* how far the write of each version is

vars == <<file, status>>

Statuses == {"new", "called", "effective", "returned", "failed"}

Init == file = NoFile /\ status = [v \in Versions |-> "new"]

Call(v) ==
    /\ status[v] = "new"
    /\ status' = [status EXCEPT ![v] = "called"]
    /\ UNCHANGED file

TakeEffect(v) ==
    /\ status[v] = "called"
    /\ status' = [status EXCEPT ![v] = "effective"]
    /\ file' = v

Return(v) ==
    /\ status[v] = "effective"
    /\ status' = [status EXCEPT ![v] = "returned"]
    /\ UNCHANGED file

\* Writes whose process dies or that raise: they may have taken effect or not.
Fail(S) ==
    /\ \A v \in S : status[v] \in {"called", "effective"}
    /\ status' = [v \in Versions |-> IF v \in S THEN "failed" ELSE status[v]]
    /\ UNCHANGED file

Next ==
    \/ \E v \in Versions : Call(v) \/ TakeEffect(v) \/ Return(v)
    \/ \E S \in SUBSET Versions : Fail(S)

Spec == Init /\ [][Next]_vars

=============================================================================
