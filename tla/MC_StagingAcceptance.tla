------------------------ MODULE MC_StagingAcceptance ------------------------
(* The daily backup, and an acceptance with a rehearsal of its own.          *)
EXTENDS StagingAcceptance, TLC

RunSymmetry == Permutations(RunIds)

\* Manual items settled or not, with and without an override of the rehearsal.
MCOverrides ==
    {[i \in ManualItems |-> "pass"], [i \in ManualItems |-> "blocked"],
     [i \in ManualItems \cup {"backup_restore"} |-> "pass"]}
=============================================================================
