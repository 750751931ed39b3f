----------------------------- MODULE MCTreePool -----------------------------
(* The instance of TreePool that TLC checks: one root and three tree cells,   *)
(* so that a chain has a cell between its ends and a key two splices behind   *)
(* it, with a bound on what is kept and crossed at once.                      *)
EXTENDS TreePool
=============================================================================
