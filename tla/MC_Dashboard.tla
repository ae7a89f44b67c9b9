---------------------------- MODULE MC_Dashboard ----------------------------
(* The dashboard with three runs, two scenarios of which one is built in,  *)
(* and two handlers that await at a time.                                  *)
EXTENDS Dashboard, TLC

CONSTANTS s1, s2, r1, r2, r3, x, y

Symmetry == Permutations({s1, s2}) \cup Permutations({r1, r2, r3})

=============================================================================
