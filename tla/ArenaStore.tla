----------------------------- MODULE ArenaStore -----------------------------
(* What the build arena promises those who run under it, with no counts, no    *)
(* index, no generations and no running totals: nodes named under parents,     *)
(* held by whoever borrows them or anything that reads through them, and an    *)
(* eviction that takes only what nothing reads, and only over the budget.      *)
EXTENDS Integers, FiniteSets, Folds

CONSTANTS
    Ids,        \* the handles of nodes
    Keys,       \* the keys of settlements
    Digests,    \* the syntax digests of compositions, the children of the root
    Weight,     \* the bytes a node of each name weighs
    Budget,     \* the unheld bytes the arena keeps
    Owners,     \* who may borrow
    Root,       \* the handle of the frozen load
    None        \* no node, no entry, no borrow

VARIABLES
    node,       \* the node each handle opens, or None
    older,      \* <<a, b>>: live a was used before live b
    borrowed    \* what each owner borrows

store == <<node, older, borrowed>>

LiveIds == {i \in Ids : node[i] # None}

IsLive(i) == i = Root \/ i \in LiveIds

\* The live node of that parent and name, or None.
Find(parent, name) ==
    LET found == {i \in LiveIds : node[i].parent = parent /\ node[i].name = name}
    IN  IF found = {} THEN None ELSE CHOOSE i \in found : TRUE

BaseOf(i) == IF i = Root THEN None ELSE node[i].base

\* What a node reads through: the node it lies under, and the compositions it pins.
ReadsThrough(i) == ({node[i].parent} \cup node[i].pins) \ {Root}

\* What some owner reads: what it borrows, and all that reads through.
Held ==
    LET reach[n \in 0 .. Cardinality(LiveIds)] ==
          IF n = 0 THEN {borrowed[o] : o \in Owners} \ {Root, None}
          ELSE UNION {{i} \cup ReadsThrough(i) : i \in reach[n - 1]}
    IN  reach[Cardinality(LiveIds)]

WeightOf(i) == Weight[node[i].name]

\* The bytes of the nodes no owner reads.
UnheldBytes ==
    MapThenFoldSet(LAMBDA m, n : m + n, 0, WeightOf, LAMBDA S : CHOOSE i \in S : TRUE,
                   LiveIds \ Held)

\* What may go: unheld, and nothing lies under it or pins it.
Evictable(i) == i \in LiveIds \ Held /\ \A j \in LiveIds : i \notin ReadsThrough(j)

UsedNow(i) == {p \in older : p[1] # i} \cup {<<j, i>> : j \in LiveIds \ {i}}

-----------------------------------------------------------------------------
Init ==
    /\ node = [i \in Ids |-> None]
    /\ older = {}
    /\ borrowed = [o \in Owners |-> None]

\* A node is laid, newest of all, where its parent holds none of its name.
Lay(i, parent, name, pins) ==
    /\ node[i] = None
    /\ IsLive(parent) /\ pins \subseteq LiveIds
    /\ Find(parent, name) = None
    /\ name \in Digests => parent = Root /\ pins = {}
    /\ node' = [node EXCEPT ![i] =
                  [name |-> name, parent |-> parent,
                   base |-> IF name \in Digests THEN name ELSE BaseOf(parent), pins |-> pins]]
    /\ older' = UsedNow(i)
    /\ UNCHANGED borrowed

Use(i) ==
    /\ i \in LiveIds
    /\ older' = UsedNow(i)
    /\ UNCHANGED <<node, borrowed>>

Borrow(o, i) ==
    /\ borrowed[o] = None
    /\ IsLive(i)
    /\ borrowed' = [borrowed EXCEPT ![o] = i]
    /\ UNCHANGED <<node, older>>

Release(o) ==
    /\ borrowed[o] # None
    /\ borrowed' = [borrowed EXCEPT ![o] = None]
    /\ UNCHANGED <<node, older>>

\* Over the budget, the least recently used of what may go, goes.
Evict(i) ==
    /\ UnheldBytes > Budget
    /\ Evictable(i)
    /\ \A j \in LiveIds : Evictable(j) => <<j, i>> \notin older
    /\ node' = [node EXCEPT ![i] = None]
    /\ older' = {p \in older : i \notin {p[1], p[2]}}
    /\ UNCHANGED borrowed

Next ==
    \/ \E i \in Ids \ LiveIds, parent \in LiveIds \cup {Root}, name \in Keys \cup Digests :
         \E pins \in SUBSET LiveIds : Lay(i, parent, name, pins)
    \/ \E i \in LiveIds : Use(i)
    \/ \E o \in Owners, i \in LiveIds \cup {Root} : Borrow(o, i)
    \/ \E o \in Owners : Release(o)
    \/ \E i \in LiveIds : Evict(i)

Spec == Init /\ [][Next]_store
=============================================================================
