-------------------------- MODULE MC_RunLifecycle --------------------------
(* A suite and a single scenario that share their views, and the benchmark. *)
EXTENDS RunLifecycle

CONSTANTS suite, single, latency

MCFamilyOf == [s \in Scopes |-> IF s = latency THEN "benchmark" ELSE "scenario"]
MCTypeOf == MCFamilyOf
=============================================================================
