-------------------------- MODULE MC_ArtifactStore --------------------------
(* The API server with two request threads, and one CLI process. *)
EXTENDS ArtifactStore

CONSTANTS t1, t2, t3, api, cli

MCProcOf == [t \in Threads |-> IF t = t3 THEN cli ELSE api]
=============================================================================
