--------------------------- MODULE MC_RunHistory ---------------------------
(* Small instances of RunHistory for TLC. *)
EXTENDS RunHistory
=============================================================================
