----------------------------- MODULE Retention -----------------------------
(* What the cell slab and its sealed tier promise (cellgraph's               *)
(* graph/README.md, Liveness): the storage of a cell that still occupies a    *)
(* slot stays, and so does all that storage which stays can read.             *)

CONSTANT Births     \* every cell there may ever be

VARIABLES
    alive,          \* the cells that still occupy a slot
    present,        \* the cells whose storage is still there
    reads           \* <<b, c>>: a value in b's storage, still there, reads c's

vars == <<alive, present, reads>>

Init == alive = {} /\ present = {} /\ reads = {}

\* A cell is born once, with storage of its own.
Birth(b) ==
    /\ b \notin present
    /\ alive' = alive \cup {b} /\ present' = present \cup {b}
    /\ UNCHANGED reads

\* A value crosses into a live cell: what it reads is still there.
Cross(b, storage) ==
    /\ b \in alive /\ storage \subseteq present
    /\ reads' = reads \cup ({b} \X storage)
    /\ UNCHANGED <<alive, present>>

\* Cells leave their slots, and storage is freed that nothing which stays can read.
Leave(gone, freed) ==
    /\ freed \cap (alive \ gone) = {}
    /\ \A e \in reads : e[2] \in freed => e[1] \in freed
    /\ alive' = alive \ gone
    /\ present' = present \ freed
    /\ reads' = {e \in reads : e[1] \notin freed}

Next ==
    \/ \E b \in Births : Birth(b)
    \/ \E b \in Births, storage \in SUBSET present : Cross(b, storage)
    \/ \E gone \in SUBSET alive, freed \in SUBSET present : Leave(gone, freed)

Spec == Init /\ [][Next]_vars
=============================================================================
