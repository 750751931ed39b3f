----------------------------- MODULE MCCellSlab -----------------------------
(* A small slab for TLC. *)
EXTENDS CellSlab, TLC

Alike == Permutations(Slots)
=============================================================================
