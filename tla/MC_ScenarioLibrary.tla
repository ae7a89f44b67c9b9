------------------------- MODULE MC_ScenarioLibrary -------------------------
(* Two ids, one of them built in; clients, versions are interchangeable. *)
EXTENDS ScenarioLibrary, TLC

Symmetry == Permutations(Versions) \cup Permutations(Clients)
=============================================================================
