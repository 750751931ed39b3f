----------------------------- MODULE BuildArena -----------------------------
(* The books of the build arena (src/src/scheduler/arena.rs): the settlements *)
(* and compositions a graph's frames run under, who holds each one, when it   *)
(* was last used and what it weighs.                                          *)
(*                                                                            *)
(* A settlement is found by its parent and key, a composition (a child of the *)
(* root) by its digest.  A node is held while a run cell borrows it, a held   *)
(* node lies below it, or a held settlement pins it.  Eviction takes unheld,  *)
(* unpinned leaves, least recently used first, until the unheld bytes fit the *)
(* budget.  The two loops of the code, `turned` and `evict_to_budget`, run    *)
(* one iteration a step; no other verb starts until they end.                 *)
EXTENDS Integers, FiniteSets, Folds

CONSTANTS
    Slots,      \* the slots of the arena: the bound on nodes live at once
    GenWidth,   \* generations a slot counts through before it wraps (2^32)
    Keys,       \* the keys of settlements
    Digests,    \* the syntax digests of compositions
    Weight,     \* the bytes a node of each name weighs, its books included
    Budget,     \* the unheld bytes the arena keeps
    Owners,     \* who may borrow: the run cells, and the levels a replay holds
    Root,       \* the handle of the frozen load, which is no slot
    None        \* no node, no entry, no borrow, no loop in progress

Names == Keys \cup Digests

\* A generation-stamped handle of a slot (values/settlement.rs `ArenaRef`).
Refs == [slot : Slots, generation : 0 .. GenWidth - 1]

Handles == Refs \cup {Root}

\* What a node is; its counts are the functions beside it.
Node == [name : Names, parent : Handles, base : Digests \cup {None}, pins : SUBSET Refs]

\* A loop of `turned`: the node that turned, which way, and the pins still to be told.
Turn == [at : Refs, held : BOOLEAN, pins : SUBSET Refs]

ASSUME ArenaAssumption ==
    /\ IsFiniteSet(Slots) /\ IsFiniteSet(Owners)
    /\ GenWidth \in Nat \ {0}
    /\ Keys \cap Digests = {}
    /\ Weight \in [Names -> Nat \ {0}]
    /\ Budget \in Nat \ {0}          \* a NonZeroUsize
    /\ Root \notin Refs
    /\ None \notin Handles \cup Node \cup Turn

VARIABLES
    node,       \* the node of each slot, or None
    gen,        \* the generation of each slot
    borrowers, children, heldChildren, pinners, heldPinners,   \* each node's counts
    older,      \* <<a, b>>: live a was used before live b (`used`, by the clock)
    index,      \* `children` and `compositions`: what finds each live node
    total,      \* bytes of every live node
    held,       \* bytes of every held node
    turn,       \* the loop of `turned` in progress, or None
    evicting,   \* whether `evict_to_budget` is in progress
    borrowed    \* the drain's side: what each owner borrows

nodes == <<node, gen, older, index, total>>
links == <<borrowers, children, pinners>>
holds == <<heldChildren, heldPinners>>
vars == <<nodes, links, holds, held, turn, evicting, borrowed>>

-----------------------------------------------------------------------------
At(s) == [slot |-> s, generation |-> gen[s]]

Occupied(s) == node[s] # None

\* `node`: a handle opens its slot only at the slot's generation.
Live(r) == r # Root /\ Occupied(r.slot) /\ gen[r.slot] = r.generation

IsLive(r) == r = Root \/ Live(r)

LiveRefs == {At(s) : s \in {t \in Slots : Occupied(t)}}

IsHeld(s) == borrowers[s] > 0 \/ heldChildren[s] > 0 \/ heldPinners[s] > 0

WeightOf(s) == Weight[node[s].name]

Find(parent, name) == index[<<parent, name>>]

Evictable_Pinned(s) == Occupied(s) /\ ~IsHeld(s) /\ children[s] = 0

\* `evict_to_budget`'s filter: unheld, childless, unpinned.
Evictable(s) ==
    /\ Occupied(s)
    /\ ~IsHeld(s)
    /\ children[s] = 0
    /\ pinners[s] = 0

Idle == turn = None /\ ~evicting

\* `door`: the composition the chain of a live handle rests on, or None for the load.
BaseOf(r) == IF r = Root THEN None ELSE node[r.slot].base

\* What a miss under `parent` may pin: live compositions of other composed code, and only
\* where the chain itself rests on a composition (drain.rs `seek`).
MayPin(parent) ==
    {r \in LiveRefs : /\ BaseOf(parent) # None
                      /\ node[r.slot].name \in Digests
                      /\ node[r.slot].name # BaseOf(parent)}

\* A slot's generation moves on: an increment of a u32.
NextGen_Unwrapped(g) == g + 1
NextGen(g) == (g + 1) % GenWidth

\* A held count told of a turn, to held or to unheld.
Told_Up(n, up) == n + 1
Told(n, up) == IF up THEN n + 1 ELSE n - 1

\* A count of the nodes named by `S`, each one more or one fewer.
More(count, S) == [t \in Slots |-> IF At(t) \in S THEN count[t] + 1 ELSE count[t]]
Fewer_Kept(count, S) == count
Fewer(count, S) == [t \in Slots |-> IF At(t) \in S THEN count[t] - 1 ELSE count[t]]

\* The index once the node `n` is gone: `children` or `compositions` forgets it.
Unfound(n) == [index EXCEPT ![<<n.parent, n.name>>] = None]

\* The order of use once `r` is the newest of the live handles, and once `r` is gone.
UsedNow(r) ==
    {p \in older : p[1] # r} \cup {<<x, r>> : x \in LiveRefs \ {r}}
Unused(r) == {p \in older : p[1] # r /\ p[2] # r}

-----------------------------------------------------------------------------
Zero == [s \in Slots |-> 0]

Init ==
    /\ node = [s \in Slots |-> None] /\ gen = Zero
    /\ borrowers = Zero /\ children = Zero /\ heldChildren = Zero
    /\ pinners = Zero /\ heldPinners = Zero
    /\ older = {}
    /\ index = [k \in Handles \X Names |-> None]
    /\ total = 0 /\ held = 0
    /\ turn = None /\ evicting = FALSE
    /\ borrowed = [o \in Owners |-> None]

\* `laid`, with the pins `insert` counts first: a vacant slot takes the node, unheld and newest.
Laid(parent, name, base, pins) ==
    \E s \in Slots :
        /\ ~Occupied(s)
        /\ node' = [node EXCEPT ![s] =
                      [name |-> name, parent |-> parent, base |-> base, pins |-> pins]]
        /\ borrowers' = [borrowers EXCEPT ![s] = 0]
        /\ heldChildren' = [heldChildren EXCEPT ![s] = 0]
        /\ heldPinners' = [heldPinners EXCEPT ![s] = 0]
        /\ children' = [More(children, {parent}) EXCEPT ![s] = 0]
        /\ pinners' = [More(pinners, pins) EXCEPT ![s] = 0]
        /\ older' = UsedNow(At(s))
        /\ index' = [index EXCEPT ![<<parent, name>>] = At(s)]
        /\ total' = total + Weight[name]
        /\ UNCHANGED <<gen, held, turn, evicting, borrowed>>

\* `insert`: a settlement keyed `k`, under a live parent that holds no child of that key.
Insert(parent, k, pins) ==
    /\ Idle
    /\ Find(parent, k) = None
    /\ pins \subseteq MayPin(parent)
    /\ Laid(parent, k, BaseOf(parent), pins)

\* `compose`: a composition, a child of the root, where its digest has none.
Compose(d) ==
    /\ Idle
    /\ Find(Root, d) = None
    /\ Laid(Root, d, d, {})

\* `stamp`, at any handle the drain holds: a hit, or a hop under it.  The root and a stale
\* handle take none.
Stamp(r) ==
    /\ Idle
    /\ Live(r)
    /\ older' = UsedNow(r)
    /\ UNCHANGED <<node, gen, index, total, links, holds, held, turn, evicting, borrowed>>

\* One iteration of `turned` begins: the node's bytes move into or out of the held total.
\* Every pin, then the parent, is told next.
Turned(s, up) ==
    /\ held' = IF up THEN held + WeightOf(s) ELSE held - WeightOf(s)
    /\ turn' = [at |-> At(s), held |-> up, pins |-> node[s].pins]

\* `borrow`: the root is never counted; a node unheld before turns.
Borrow(o, r) ==
    /\ Idle
    /\ borrowed[o] = None
    /\ IsLive(r)
    /\ borrowed' = [borrowed EXCEPT ![o] = r]
    /\ IF r = Root THEN UNCHANGED <<borrowers, held, turn>>
       ELSE /\ borrowers' = [borrowers EXCEPT ![r.slot] = @ + 1]
            /\ IF IsHeld(r.slot) THEN UNCHANGED <<held, turn>> ELSE Turned(r.slot, TRUE)
    /\ UNCHANGED <<nodes, children, pinners, holds, evicting>>

\* `release`, by an owner that borrows.
Release(o, r) ==
    /\ UNCHANGED <<nodes, children, pinners, holds, evicting>>
    /\ Idle
    /\ borrowed[o] = r
    /\ borrowed' = [borrowed EXCEPT ![o] = None]
    /\ IF r = Root THEN UNCHANGED <<borrowers, held, turn>>
       ELSE /\ borrowers' = [borrowers EXCEPT ![r.slot] = @ - 1]
            /\ IF IsHeld(r.slot)' THEN UNCHANGED <<held, turn>> ELSE Turned(r.slot, FALSE)

\* `turned`, its loop over the pins: a composition whose held pinners turn it takes its bytes
\* along; it lies under the root, so its own turn goes no further.
TurnPin(p) ==
    /\ UNCHANGED <<nodes, links, heldChildren, evicting, borrowed>>
    /\ turn # None
    /\ p \in turn.pins
    /\ heldPinners' = [heldPinners EXCEPT ![p.slot] = Told(@, turn.held)]
    /\ held' = IF IsHeld(p.slot) <=> IsHeld(p.slot)' THEN held
               ELSE IF turn.held THEN held + WeightOf(p.slot) ELSE held - WeightOf(p.slot)
    /\ turn' = [turn EXCEPT !.pins = @ \ {p}]

\* `turned`, once every pin is told: the parent's count of held children moves, and the turn
\* goes on from the parent where that turns it; it ends there, or at the root.
TurnParent(parent) ==
    /\ turn # None
    /\ turn.pins = {}
    /\ parent = node[turn.at.slot].parent
    /\ UNCHANGED <<nodes, links, heldPinners, evicting, borrowed>>
    /\ IF parent = Root THEN turn' = None /\ UNCHANGED <<heldChildren, held>>
       ELSE /\ heldChildren' = [heldChildren EXCEPT ![parent.slot] =
                                                           Told(@, turn.held)]
            /\ IF IsHeld(parent.slot) <=> IsHeld(parent.slot)'
               THEN turn' = None /\ UNCHANGED held
               ELSE Turned(parent.slot, turn.held)

Unheld == total - held

\* `evict_to_budget` is called: after a miss, once the new cell borrows.
EvictToBudget ==
    /\ Idle
    /\ evicting' = TRUE
    /\ UNCHANGED <<nodes, links, holds, held, turn, borrowed>>

\* The victim: the evictable node of the oldest use.
Victim_Newest(s) ==
    /\ Evictable(s)
    /\ \A t \in Slots : Evictable(t) => <<At(s), At(t)>> \notin older
Victim(s) ==
    /\ Evictable(s)
    /\ \A t \in Slots : Evictable(t) => <<At(t), At(s)>> \notin older

\* One iteration of the loop: `evict` takes the victim off its pins' and its parent's counts
\* and out of the index, and moves its slot's generation on.
Evict(s) ==
    LET n == node[s] IN
    /\ evicting
    /\ Unheld > Budget
    /\ Victim(s)
    /\ gen' = [gen EXCEPT ![s] = NextGen(@)]
    /\ node' = [node EXCEPT ![s] = None]
    /\ children' = Fewer(children, {n.parent})
    /\ pinners' = Fewer(pinners, n.pins)
    /\ older' = Unused(At(s))
    /\ index' = Unfound(n)
    /\ total' = total - Weight[n.name]
    /\ UNCHANGED <<borrowers, holds, held, turn, evicting, borrowed>>

\* The loop ends: within the budget, or out of victims.
EvictDone ==
    /\ evicting
    /\ Unheld <= Budget \/ \A s \in Slots : ~Evictable(s)
    /\ evicting' = FALSE
    /\ UNCHANGED <<nodes, links, holds, held, turn, borrowed>>

Next ==
    \/ \E p \in LiveRefs \cup {Root}, k \in Keys : \E pins \in SUBSET MayPin(p) : Insert(p, k, pins)
    \/ \E d \in Digests : Compose(d)
    \/ \E r \in Refs : Stamp(r)
    \/ \E o \in Owners, r \in Handles : Borrow(o, r)
    \/ \E o \in Owners, r \in Handles : Release(o, r)
    \/ \E p \in Refs : TurnPin(p)
    \/ \E p \in Handles : TurnParent(p)
    \/ EvictToBudget
    \/ \E s \in Slots : Evict(s)
    \/ EvictDone

Spec == Init /\ [][Next]_vars

-----------------------------------------------------------------------------
\* The books' shape.
TypeOK ==
    /\ node \in [Slots -> Node \cup {None}]
    /\ borrowers \in [Slots -> Int] /\ children \in [Slots -> Int]
    /\ heldChildren \in [Slots -> Int]
    /\ pinners \in [Slots -> Int] /\ heldPinners \in [Slots -> Int]
    /\ gen \in [Slots -> 0 .. GenWidth - 1]
    /\ older \subseteq Refs \X Refs
    /\ index \in [Handles \X Names -> Refs \cup {None}]
    /\ total \in Int /\ held \in Int
    /\ turn \in Turn \cup {None}
    /\ evicting \in BOOLEAN
    /\ borrowed \in [Owners -> Handles \cup {None}]

\* Who holds a live node, by the relations the counts stand for.
Borrowers(s) == {o \in Owners : borrowed[o] = At(s)}
Children(s) == {t \in Slots : Occupied(t) /\ node[t].parent = At(s)}
Pinners(s) == {t \in Slots : Occupied(t) /\ At(s) \in node[t].pins}

\* Every node that anything still refers to is live at the generation referred to: what a run
\* cell borrows, a settlement's parent and the compositions it pins.  So a chain a step reads
\* through is never cut, and the `expect`s of arena.rs never fire.
NoDangling ==
    /\ \A o \in Owners : borrowed[o] # None => IsLive(borrowed[o])
    /\ \A s \in Slots : Occupied(s) =>
         /\ IsLive(node[s].parent)
         /\ \A p \in node[s].pins : Live(p)

LinksCounted ==
    \A s \in Slots : Occupied(s) =>
      /\ borrowers[s] = Cardinality(Borrowers(s))
      /\ children[s] = Cardinality(Children(s))
      /\ pinners[s] = Cardinality(Pinners(s))

HeldCounted ==
    turn = None => \A s \in Slots : Occupied(s) =>
      /\ heldChildren[s] = Cardinality({t \in Children(s) : IsHeld(t)})
      /\ heldPinners[s] = Cardinality({t \in Pinners(s) : IsHeld(t)})

\* The counts of a live node are exactly the borrowers, children and pinners there are; between
\* verbs the counts of held children and held pinners are too.
CountsExact == LinksCounted /\ HeldCounted

\* A handle found by parent and name is that live node, and every live node is found.
IndexExact ==
    /\ \A p \in Handles, n \in Names : Find(p, n) # None =>
         /\ Live(Find(p, n))
         /\ node[Find(p, n).slot].parent = p
         /\ node[Find(p, n).slot].name = n
    /\ \A s \in Slots : Occupied(s) => Find(node[s].parent, node[s].name) = At(s)

\* The slots some run cell holds: the least set of live slots with every borrowed one, the
\* parent of each, and what each pins.
HeldClosed(S) ==
    /\ \A s \in Slots : Borrowers(s) # {} => s \in S
    /\ \A s \in Slots, t \in S : t \in Children(s) \/ t \in Pinners(s) => s \in S
TrulyHeld == {s \in Slots : \A S \in SUBSET Slots : HeldClosed(S) => s \in S}

Bytes(S) == MapThenFoldSet(LAMBDA m, n : m + n, 0, WeightOf, LAMBDA T : CHOOSE s \in T : TRUE, S)

\* Between verbs, what the books call held is what the borrows hold, byte for byte: the running
\* totals that `turned` moves by turns agree with the nodes there are and those truly held.
HeldExact ==
    turn = None =>
      /\ \A s \in Slots : Occupied(s) => (IsHeld(s) <=> s \in TrulyHeld)
      /\ held = Bytes(TrulyHeld)
      /\ total = Bytes({s \in Slots : Occupied(s)})

\* The books agree with the nodes there are: every count, the index both ways, and the bytes
\* held and laid.
BooksExact == CountsExact /\ IndexExact /\ HeldExact

\* `evict_to_budget` ends within the budget, never for want of a victim: whatever is unheld,
\* some unheld node has no child and no pinner.
BudgetKept == [][evicting /\ ~evicting' => Unheld' <= Budget]_vars

-----------------------------------------------------------------------------
\* The books stand for a store that keeps none: each handle opens the node of its slot at its
\* slot's generation.
Store == INSTANCE ArenaStore WITH
           Ids <- Refs,
           node <- [r \in Refs |-> IF Live(r) THEN node[r.slot] ELSE None]

\* Every verb of the arena is one step of that store and every iteration of `turned` none: a
\* borrow or a release holds and frees at once all it reads through, whatever the counts still
\* have to be told, and each eviction takes the node the store would.
ImplementsStore == Store!Spec
=============================================================================
