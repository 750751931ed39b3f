---------------------------- MODULE MCBuildArena ----------------------------
(* The arena's books on a small instance: a settlement weighs one byte, a     *)
(* composition two, so a budget of one evicts as soon as two unheld           *)
(* settlements, or one composition, are left.                                 *)
EXTENDS BuildArena, TLC

MCWeight == [n \in Names |-> IF n \in Digests THEN 2 ELSE 1]

\* Slots, owners and digests are told apart by nothing but their names.
MCSymmetry == Permutations(Slots) \cup Permutations(Owners) \cup Permutations(Digests)

=============================================================================
