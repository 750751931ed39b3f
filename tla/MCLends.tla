------------------------------ MODULE MCLends -------------------------------
(* The instance of Lends that TLC checks: one root, one tree cell and two     *)
(* tenant slots used again and again, each tenant of one a new one, so that a *)
(* tenant of the root may borrow the tree cell, and another the other way     *)
(* round, and both wait for ever; and a receipt run they may wait on.         *)
EXTENDS Lends, TLC

Alike == Permutations(Tenants)
=============================================================================
