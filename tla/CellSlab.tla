------------------------------ MODULE CellSlab ------------------------------
(* The two tiers that hold a cell graph's storage (cellgraph/src/graph.rs,    *)
(* matrix.rs, reach.rs, sealed.rs, dormant.rs).                               *)
(*                                                                            *)
(* A cell occupies a slot of the slab.  What its region's values read, it     *)
(* holds: slots as bits of its row of the pin matrix, sealed regions as ids.  *)
(* When a dead cell's slot is let go, its storage goes one of four ways: it   *)
(* is reclaimed, absorbed into the one cell that holds it, folded into the    *)
(* one sealed region that names it, or sealed under a fresh id.  The last two *)
(* then fold in every sealed region nothing else holds.  Every count, index,  *)
(* mask and forwarding entry that spoke of the slot follows the storage.      *)
(*                                                                            *)
(* A step of a cell is the verbs it calls, one at a time: no cell dies inside *)
(* a step.  A disposal is one action and then a cascade, one iteration of a   *)
(* worklist a step, and nothing else runs until it ends.  The worklists are   *)
(* taken in any order, which covers the code's last in, first out.            *)
EXTENDS Integers, FiniteSets, Sequences, Functions

CONSTANTS
    Slots,      \* the slots of the slab, its cap
    NoSlot,     \* no slot is being disposed of
    Nowhere,    \* the place of what is gone
    MaxBirths,  \* bound: cells ever born, so regions ever sealed
    MaxKept,    \* bound: dormant carriers ever kept
    MaxReads,   \* bound: crossings the history remembers at once
    MaxBelow    \* bound: what may hold slots past their death at once

\* Sealed ids by serial: an index of the tier is reused, its serial is not.
Ids == 1 .. MaxBirths
NoId == 0

\* A handle of a slot names one birth.
Births == Slots \X (0 .. MaxBirths)
Regions == Slots \cup Ids
Masks == [slab : SUBSET Slots, ids : SUBSET Ids]

\* A dormant carrier: its key, and the cells whose storage its value may read.
Carriers == [home : Births, index : Nat, over : SUBSET Births]

ASSUME SlabAssumption ==
    /\ IsFiniteSet(Slots) /\ Slots # {}
    /\ MaxBirths \in Nat /\ MaxKept \in Nat
    /\ MaxReads \in Nat /\ MaxBelow \in Nat
    /\ Slots \cap Nat = {}
    /\ NoSlot \notin Slots /\ Nowhere \notin Regions

VARIABLES
    life, gen,          \* each slot's state and generation
    refused,            \* whether the release refused absorption
    below,              \* tree children, tenants and borrowers of each slot
    pins, tally,        \* the pin matrix by rows, and its count per column
    held,               \* the sealed ids each slot holds
    naming,             \* the sealed regions whose aggregate names each slot
    reaches,            \* each slot's reach table
    fate, first,        \* the relocation map: where a departed cell's keys lead
    tier, serial,       \* the sealed regions there are, and the last id minted
    aggSlots, aggIds,   \* each sealed region's aggregate
    holders,            \* each sealed region's count
    bundle,             \* the cells whose storage lies in each region
    dying,              \* the slot being disposed of
    target, merging,    \* the sealed region absorbing others, and its worklist
    drops,              \* how many holds on each id are still to be released
    kept,               \* every carrier kept so far, as the embedder has them
    reads               \* history: which cell's storage reads which, while it is there

cells == <<life, gen, refused, below>>
matrix == <<pins, tally, held>>
keys == <<reaches, fate, first>>
sealed == <<naming, tier, serial, aggSlots, aggIds>>
cascade == <<dying, target, merging, drops>>
carried == <<kept, reads>>
vars == <<cells, matrix, keys, sealed, holders, bundle, cascade, carried>>

-----------------------------------------------------------------------------
Occupied(s) == life[s] # "free"

Live(s) == life[s] = "live"

Occupant(s) == <<s, gen[s]>>

Born == {b \in Births : b[2] < gen[b[1]] \/ (b[2] = gen[b[1]] /\ Occupied(b[1]))}

Settled == \A i \in Ids : drops[i] = 0

\* No disposal and no cascade is in progress.
Idle == dying = NoSlot /\ target = NoId /\ Settled

One(b) == IF b THEN 1 ELSE 0

\* The occupied rows that name `s`.
Holding(s) == {o \in Slots : Occupied(o) /\ s \in pins[o]}

\* Where a key's home is now: its own slot, the region it was moved to, or nowhere.
Locate(h) == IF Occupied(h[1]) /\ gen[h[1]] = h[2] THEN h[1] ELSE fate[h]

FirstIndex(h) == IF Locate(h) = h[1] /\ gen[h[1]] = h[2] THEN 0 ELSE first[h]

Entitled(e, h) ==
    LET place == Locate(h)
    IN  \/ place \in Slots /\ (place = e \/ place \in pins[e])
        \/ place \in Ids /\ place \in held[e]

\* The reach a redeem in `e` hands back with the carrier, and the slot it is homed in.
RedeemedReach(v) ==
    LET place == Locate(v.home)
    IN  IF place \in Slots THEN reaches[place][FirstIndex(v.home) + v.index]
                           ELSE [slab |-> {}, ids |-> {place}]

RedeemedHome(e, v) == IF Locate(v.home) \in Slots THEN Locate(v.home) ELSE e

Single(s) == [slab |-> {s}, ids |-> {}]

\* What a step of `e` can build over: a value of its own, or a carrier it redeems.
Operands(e) ==
    {[reach |-> Single(e), home |-> e, over |-> bundle[e]]} \cup
    {[reach |-> RedeemedReach(v), home |-> RedeemedHome(e, v), over |-> v.over] :
        v \in {w \in kept : Entitled(e, w.home)}}

Mint_Untallied(into, mask) ==
    /\ pins' = [pins EXCEPT ![into] = (@ \cup mask.slab) \ {into}]
    /\ held' = [held EXCEPT ![into] = @ \cup mask.ids]
    /\ holders' = [i \in Ids |-> holders[i] + One(i \in (mask.ids \cap tier) \ held[into])]
    /\ UNCHANGED tally

\* The mint: fold a reach into the hold set of the region that stores the value.
Mint(into, mask) ==
    /\ pins' = [pins EXCEPT ![into] = (@ \cup mask.slab) \ {into}]
    /\ tally' = [t \in Slots |->
            tally[t] + One(t \in mask.slab \ (pins[into] \cup {into}))]
    /\ held' = [held EXCEPT ![into] = @ \cup mask.ids]
    /\ holders' = [i \in Ids |-> holders[i] + One(i \in (mask.ids \cap tier) \ held[into])]

\* `intern`: the first entry that holds the mask, appended if none does.
Interned(table, mask) ==
    IF \E k \in DOMAIN table : table[k] = mask THEN table ELSE Append(table, mask)

FirstHolding(table, mask) ==
    CHOOSE k \in DOMAIN table : table[k] = mask /\ \A j \in 1 .. k - 1 : table[j] # mask

Keep(home, mask, over) ==
    LET table == Interned(reaches[home], mask)
    IN  /\ reaches' = [reaches EXCEPT ![home] = table]
        /\ kept' = kept \cup {[home |-> Occupant(home),
                               index |-> FirstHolding(table, mask),
                               over |-> over]}
        /\ Cardinality(kept') <= MaxKept

-----------------------------------------------------------------------------
Init ==
    /\ life = [s \in Slots |-> "free"] /\ gen = [s \in Slots |-> 0]
    /\ refused = [s \in Slots |-> FALSE] /\ below = [s \in Slots |-> 0]
    /\ pins = [s \in Slots |-> {}] /\ tally = [s \in Slots |-> 0]
    /\ held = [s \in Slots |-> {}] /\ naming = [s \in Slots |-> {}]
    /\ reaches = [s \in Slots |-> <<>>]
    /\ fate = [b \in Births |-> Nowhere] /\ first = [b \in Births |-> 0]
    /\ tier = {} /\ serial = 0
    /\ aggSlots = [i \in Ids |-> {}] /\ aggIds = [i \in Ids |-> {}]
    /\ holders = [i \in Ids |-> 0] /\ bundle = [r \in Regions |-> {}]
    /\ dying = NoSlot /\ target = NoId /\ merging = {}
    /\ drops = [i \in Ids |-> 0]
    /\ kept = {} /\ reads = {}

\* `create`: a free slot, refused when there is none.
Create(s) ==
    /\ Idle /\ ~Occupied(s) /\ Cardinality(Born) < MaxBirths
    /\ life' = [life EXCEPT ![s] = "live"]
    /\ bundle' = [bundle EXCEPT ![s] = {Occupant(s)}]
    /\ UNCHANGED <<gen, refused, below, matrix, keys, sealed, holders, cascade, carried>>

\* A step of `e` keeps a carrier: its own value, lifted, or one it redeemed.
Rest(e) ==
    /\ Idle /\ Live(e)
    /\ \E o \in Operands(e) : Keep(o.home, o.reach, o.over)
    /\ UNCHANGED <<cells, matrix, fate, first, sealed, holders, bundle, cascade, reads>>

\* `hold`: a bare hold on another live cell.
Hold(e, other) ==
    /\ Idle /\ Live(e) /\ Live(other)
    /\ Mint(e, Single(other))
    /\ UNCHANGED <<cells, keys, sealed, bundle, cascade, carried>>

\* `alloc_into` over a pinned operand: a value built in `dest` that reads it, and kept there.
AllocInto(e, dest) ==
    /\ Idle /\ Live(e) /\ Live(dest)
    /\ \E o \in Operands(e) :
        /\ Mint(dest, o.reach)
        /\ reads' = reads \cup ({Occupant(dest)} \X (o.over \ {Occupant(dest)}))
        /\ Cardinality(reads') <= MaxReads
        /\ \/ Keep(dest, [o.reach EXCEPT !.slab = @ \cup {dest}],
                   o.over \cup {Occupant(dest)})
           \/ UNCHANGED <<reaches, kept>>
    /\ UNCHANGED <<cells, fate, first, sealed, bundle, cascade>>

\* A tree child, a tenant or a borrower of the slot's region comes.
Attach(s) ==
    /\ Idle /\ Live(s) /\ SumFunction(below) < MaxBelow
    /\ below' = [below EXCEPT ![s] = @ + 1]
    /\ UNCHANGED <<life, gen, refused, matrix, keys, sealed, holders, bundle, cascade, carried>>

\* It goes, and the slot's disposal may have waited for it.
Detach(s) ==
    /\ Idle /\ below[s] > 0
    /\ below' = [below EXCEPT ![s] = @ - 1]
    /\ dying' = IF life[s] = "dead" /\ below[s] = 1 THEN s ELSE NoSlot
    /\ UNCHANGED <<life, gen, refused, matrix, keys, sealed, holders, bundle,
                   target, merging, drops, carried>>

\* `release`: the death is declared, and the slot disposed of if nothing holds it.
Release(s) ==
    /\ Idle /\ Live(s)
    /\ life' = [life EXCEPT ![s] = "dead"]
    /\ \E no \in BOOLEAN : refused' = [refused EXCEPT ![s] = no]
    /\ dying' = IF below[s] = 0 THEN s ELSE NoSlot
    /\ UNCHANGED <<gen, below, matrix, keys, sealed, holders, bundle,
                   target, merging, drops, carried>>

-----------------------------------------------------------------------------
\* The tail every exit from the slab shares: the slot is free under a fresh generation.
Vacate(s) ==
    /\ life' = [life EXCEPT ![s] = "free"]
    /\ gen' = [gen EXCEPT ![s] = @ + 1]
    /\ refused' = [refused EXCEPT ![s] = FALSE]
    /\ dying' = NoSlot
    /\ UNCHANGED <<below, kept>>

\* The keys that lead to a region, and the departing occupant's if any was minted.
Lineage(r) == {b \in Births : fate[b] = r}

Departing(s) == IF reaches[s] # <<>> THEN {Occupant(s)} ELSE {}

\* `relocate_to_sealed`, `forget_chain`: those keys lead to a sealed region, or nowhere.
Forward(departed, place) ==
    /\ fate' = [b \in Births |-> IF b \in departed THEN place ELSE fate[b]]
    /\ first' = [b \in Births |-> IF b \in departed THEN 0 ELSE first[b]]

\* The storage of a region is freed, and with it what was read from there.
Free(r) ==
    /\ bundle' = [bundle EXCEPT ![r] = {}]
    /\ reads' = {e \in reads : e[1] \notin bundle[r]}

\* Two regions' bundles become one.
Splice(from, into) == [bundle EXCEPT ![into] = @ \cup bundle[from], ![from] = {}]

Unreached_TallyAlone(s) == tally[s] = 0

\* Neither a row nor an aggregate names the slot.
Unreached(s) == tally[s] = 0 /\ naming[s] = {}

\* Nothing reaches the cell's storage: it goes, and its holds are released.
Reclaim(s) ==
    /\ dying = s /\ Unreached(s)
    /\ Vacate(s)
    /\ pins' = [pins EXCEPT ![s] = {}]
    /\ tally' = [t \in Slots |-> tally[t] - One(t \in pins[s])]
    /\ held' = [held EXCEPT ![s] = {}]
    /\ drops' = [i \in Ids |-> One(i \in held[s])]
    /\ reaches' = [reaches EXCEPT ![s] = <<>>]
    /\ Forward(Lineage(s), Nowhere)
    /\ Free(s)
    /\ UNCHANGED <<naming, serial, tier, aggSlots, aggIds, holders, target, merging>>

\* `migrate_reaches`: the masks move into the cell that absorbs, re-homed and in order.
Rehomed(table, dead, into) ==
    [k \in 1 .. Len(table) |-> [table[k] EXCEPT !.slab = (@ \ {dead}) \cup {into}]]

Stripped(table, dead) == [k \in 1 .. Len(table) |-> [table[k] EXCEPT !.slab = @ \ {dead}]]

FirstMoved_Zero(into) == 0

\* Where the moved block starts in the table it is appended to.
FirstMoved(into) == Len(reaches[into])

MigrateReaches(s, into) ==
    LET offset == FirstMoved(into)
    IN  /\ reaches' = [reaches EXCEPT ![s] = <<>>,
                ![into] = Stripped(@, s) \o Rehomed(reaches[s], s, into)]
        /\ fate' = [b \in Births |->
                IF b \in Lineage(s) \cup Departing(s) THEN into ELSE fate[b]]
        /\ first' = [b \in Births |->
                CASE b \in Departing(s) -> offset
                  [] b \in Lineage(s) -> offset + first[b]
                  [] OTHER -> first[b]]

\* One cell of the slab holds it and nothing else names it: it becomes part of that cell.
AbsorbIntoCell(s) ==
    /\ dying = s /\ naming[s] = {} /\ ~refused[s]
    /\ \E into \in Slots :
        /\ Holding(s) = {into}
        /\ pins' = [pins EXCEPT ![s] = {}, ![into] = (@ \cup pins[s]) \ {s, into}]
        /\ tally' = [t \in Slots |->
                tally[t] + One(t \in pins[s] \ (pins[into] \cup {into})) - One(t \in pins[s])
                         - One(t = s)]
        /\ held' = [held EXCEPT ![s] = {}, ![into] = @ \cup held[s]]
        /\ drops' = [i \in Ids |-> One(i \in held[s] \cap held[into])]
        /\ MigrateReaches(s, into)
        /\ bundle' = Splice(s, into)
    /\ Vacate(s)
    /\ UNCHANGED <<sealed, holders, target, merging, reads>>

FoldIntoSealed_Unregistered(into, slots, ids, names, heldIds, listed) ==
    /\ naming' = listed
    /\ aggSlots' = [aggSlots EXCEPT ![into] = names \cup slots]
    /\ aggIds' = [aggIds EXCEPT ![into] = heldIds \cup (ids \ {into})]
    /\ holders' = [holders EXCEPT ![into] = @ - One(into \in ids)]
    /\ drops' = [i \in Ids |-> One(i \in (ids \ {into}) \cap heldIds)]

FoldIntoSealed_DuplicatesKept(into, slots, ids, names, heldIds, listed) ==
    /\ naming' = [t \in Slots |->
            IF t \in slots \ names THEN listed[t] \cup {into} ELSE listed[t]]
    /\ aggSlots' = [aggSlots EXCEPT ![into] = names \cup slots]
    /\ aggIds' = [aggIds EXCEPT ![into] = heldIds \cup (ids \ {into})]
    /\ holders' = [holders EXCEPT ![into] = @ - One(into \in ids)]
    /\ UNCHANGED drops

\* `fold_into_sealed`: what the target newly names registers it, a hold it had already is
\* to be released, and a hold on the target itself goes.
FoldIntoSealed(into, slots, ids, names, heldIds, listed) ==
    /\ naming' = [t \in Slots |->
            IF t \in slots \ names THEN listed[t] \cup {into} ELSE listed[t]]
    /\ aggSlots' = [aggSlots EXCEPT ![into] = names \cup slots]
    /\ aggIds' = [aggIds EXCEPT ![into] = heldIds \cup (ids \ {into})]
    /\ holders' = [holders EXCEPT ![into] = @ - One(into \in ids)]
    /\ drops' = [i \in Ids |-> One(i \in (ids \ {into}) \cap heldIds)]

\* No cell of the slab holds it and one sealed region names it: it folds into that region.
FoldIntoNamer(s) ==
    /\ dying = s /\ Holding(s) = {}
    /\ \E namer \in Ids :
        /\ naming[s] = {namer}
        /\ FoldIntoSealed(namer, pins[s], held[s], aggSlots[namer] \ {s}, aggIds[namer],
                          [naming EXCEPT ![s] = {}])
        /\ Forward(Lineage(s) \cup Departing(s), namer)
        /\ bundle' = Splice(s, namer)
        /\ target' = namer
        /\ merging' = aggIds'[namer]
    /\ reaches' = [reaches EXCEPT ![s] = <<>>]
    /\ pins' = [pins EXCEPT ![s] = {}]
    /\ tally' = [t \in Slots |-> tally[t] - One(t \in pins[s])]
    /\ held' = [held EXCEPT ![s] = {}]
    /\ Vacate(s)
    /\ UNCHANGED <<tier, serial, reads>>

Replaced_BitKept(table, s, id) ==
    [k \in 1 .. Len(table) |->
        IF s \in table[k].slab THEN [table[k] EXCEPT !.ids = @ \cup {id}] ELSE table[k]]

Replaced(table, s, id) ==
    [k \in 1 .. Len(table) |->
        IF s \in table[k].slab
        THEN [slab |-> table[k].slab \ {s}, ids |-> table[k].ids \cup {id}]
        ELSE table[k]]

\* Anything else seals: every name of the slot becomes the fresh id.
Seal(s) ==
    LET id == serial + 1
        named == {n \in naming[s] \cap tier : s \in aggSlots[n]}
    IN  /\ dying = s /\ ~Unreached(s)
        /\ ~(Cardinality(Holding(s)) = 1 /\ naming[s] = {} /\ ~refused[s])
        /\ ~(Holding(s) = {} /\ Cardinality(naming[s]) = 1)
        /\ pins' = [o \in Slots |-> IF o = s THEN {} ELSE pins[o] \ {s}]
        /\ tally' = [t \in Slots |->
                IF t = s THEN tally[s] - Cardinality(Holding(s)) ELSE tally[t] - One(t \in pins[s])]
        /\ held' = [o \in Slots |->
                IF o = s THEN {} ELSE held[o] \cup (IF o \in Holding(s) THEN {id} ELSE {})]
        /\ reaches' = [o \in Slots |->
                IF o = s THEN <<>>
                ELSE IF o \in Holding(s) THEN Replaced(reaches[o], s, id) ELSE reaches[o]]
        /\ aggSlots' = [n \in Ids |->
                IF n = id THEN pins[s] ELSE IF n \in named THEN aggSlots[n] \ {s} ELSE aggSlots[n]]
        /\ aggIds' = [n \in Ids |->
                IF n = id THEN held[s] ELSE IF n \in named THEN aggIds[n] \cup {id} ELSE aggIds[n]]
        /\ naming' = [t \in Slots |->
                IF t = s THEN {} ELSE naming[t] \cup (IF t \in pins[s] THEN {id} ELSE {})]
        /\ holders' = [holders EXCEPT ![id] = Cardinality(Holding(s)) + Cardinality(naming[s])]
        /\ Forward(Lineage(s) \cup Departing(s), id)
        /\ bundle' = Splice(s, id)
        /\ tier' = tier \cup {id} /\ serial' = id
        /\ target' = id /\ merging' = held[s]
        /\ Vacate(s)
        /\ UNCHANGED <<drops, reads>>

-----------------------------------------------------------------------------
\* `retire_sealed`: the region is out of the tier and the index, its keys and storage gone.
Retire(id) ==
    /\ tier' = tier \ {id}
    /\ naming' = [t \in Slots |-> naming[t] \ {id}]
    /\ aggSlots' = [aggSlots EXCEPT ![id] = {}]
    /\ aggIds' = [aggIds EXCEPT ![id] = {}]
    /\ Free(id)
    /\ Forward(Lineage(id), Nowhere)

\* An iteration of `release_sealed_holds`: one hold on `id` is released.
ReleaseSealedHold(id) ==
    /\ dying = NoSlot /\ drops[id] > 0
    /\ holders' = [holders EXCEPT ![id] = IF id \in tier THEN @ - 1 ELSE @]
    /\ IF id \in tier /\ holders[id] = 1
       THEN /\ Retire(id)
            /\ drops' = [i \in Ids |-> drops[i] - One(i = id) + One(i \in aggIds[id])]
       ELSE /\ drops' = [drops EXCEPT ![id] = @ - 1]
            /\ UNCHANGED <<fate, first, naming, tier, aggSlots, aggIds, bundle, reads>>
    /\ UNCHANGED <<cells, matrix, reaches, serial, dying, target, merging, kept>>

\* `reclaim_if_unheld`: a fold took the target's last holder, itself.
ReclaimUnheld ==
    /\ target # NoId /\ Settled /\ target \in tier /\ holders[target] = 0
    /\ Retire(target)
    /\ drops' = [i \in Ids |-> One(i \in aggIds[target])]
    /\ target' = NoId /\ merging' = {}
    /\ UNCHANGED <<cells, matrix, reaches, serial, holders, dying, kept>>

Popped_Peeked(source) == merging

Popped(source) == merging \ {source}

Requeued_OnePass(source) == {}

\* What a fold brings or lets go of is looked at again.
Requeued(source) == aggIds[source] \ {target}

\* An iteration of `absorb_singletons`: a region only the target holds folds into it.
AbsorbSingleton(source) ==
    /\ target # NoId /\ Settled /\ holders[target] > 0 /\ source \in merging
    /\ IF source # target /\ source \in tier /\ holders[source] = 1
       THEN /\ FoldIntoSealed(target, aggSlots[source], aggIds[source], aggSlots[target],
                              aggIds[target] \ {source},
                              [t \in Slots |-> naming[t] \ {source}])
            /\ tier' = tier \ {source}
            /\ Forward(Lineage(source), target)
            /\ bundle' = Splice(source, target)
            /\ merging' = Popped(source) \cup Requeued(source)
       ELSE /\ merging' = Popped(source)
            /\ UNCHANGED <<fate, first, naming, tier, aggSlots, aggIds, holders, bundle, drops>>
    /\ UNCHANGED <<cells, matrix, reaches, serial, dying, target, carried>>

\* The worklist is empty.
Flat ==
    /\ target # NoId /\ Settled /\ holders[target] > 0 /\ merging = {}
    /\ target' = NoId
    /\ UNCHANGED <<cells, matrix, keys, sealed, holders, bundle, dying, merging, drops, carried>>

Dispose(s) == Reclaim(s) \/ AbsorbIntoCell(s) \/ FoldIntoNamer(s) \/ Seal(s)

Cascade ==
    \/ \E s \in Slots : Dispose(s)
    \/ \E id \in Ids : ReleaseSealedHold(id) \/ AbsorbSingleton(id)
    \/ ReclaimUnheld
    \/ Flat

Next ==
    \/ \E s \in Slots : Create(s) \/ Rest(s) \/ Attach(s) \/ Detach(s) \/ Release(s)
    \/ \E e, s \in Slots : Hold(e, s) \/ AllocInto(e, s)
    \/ Cascade

\* A disposal runs to its end inside the verb that began it.
Spec == Init /\ [][Next]_vars /\ WF_vars(Cascade)

-----------------------------------------------------------------------------
TypeOK ==
    /\ life \in [Slots -> {"free", "live", "dead"}] /\ gen \in [Slots -> 0 .. MaxBirths]
    /\ refused \in [Slots -> BOOLEAN] /\ below \in [Slots -> 0 .. MaxBelow]
    /\ pins \in [Slots -> SUBSET Slots] /\ tally \in [Slots -> Nat]
    /\ held \in [Slots -> SUBSET Ids] /\ naming \in [Slots -> SUBSET Ids]
    /\ \A s \in Slots : \A k \in DOMAIN reaches[s] : reaches[s][k] \in Masks
    /\ fate \in [Births -> Regions \cup {Nowhere}] /\ first \in [Births -> Nat]
    /\ tier \subseteq Ids /\ serial \in 0 .. MaxBirths
    /\ aggSlots \in [Ids -> SUBSET Slots] /\ aggIds \in [Ids -> SUBSET Ids]
    /\ holders \in [Ids -> Nat] /\ bundle \in [Regions -> SUBSET Births]
    /\ dying \in Slots \cup {NoSlot} /\ target \in Ids \cup {NoId}
    /\ merging \subseteq Ids /\ drops \in [Ids -> Nat]
    /\ kept \subseteq Carriers /\ reads \subseteq Births \X Births

\* The counts a disposal is decided on are the sets they stand in for, at every step of
\* every cascade: the pin tally, each region's holders, the reverse naming index.
CountsExact ==
    /\ \A s \in Slots :
        /\ tally[s] = Cardinality(Holding(s))
        /\ naming[s] = {n \in tier : s \in aggSlots[n]}
    /\ \A i \in tier : holders[i] = Cardinality({s \in Slots : i \in held[s]})
                                   + Cardinality({n \in tier : i \in aggIds[n]}) + drops[i]

\* No name is stale: every bit names a slot that is still occupied and every id a region
\* of the tier, in rows, hold sets and aggregates, and none names itself.
NamesLive ==
    /\ \A s \in Slots : \A t \in pins[s] : Occupied(s) /\ Occupied(t) /\ s # t
    /\ \A s \in Slots : held[s] \subseteq (IF Occupied(s) THEN tier ELSE {})
    /\ \A n \in tier : /\ \A t \in aggSlots[n] : Occupied(t)
                       /\ aggIds[n] \subseteq tier \ {n}

\* Reach validity: every mask at rest in a cell's reach table is covered by its hold set.
MasksCovered ==
    \A s \in Slots : \A k \in DOMAIN reaches[s] :
        /\ reaches[s][k].slab \subseteq pins[s] \cup {s}
        /\ reaches[s][k].ids \subseteq held[s]

\* The regions one region holds: a cell its row and its ids, a sealed region its aggregate.
HeldThrough(r) == IF r \in Slots THEN pins[r] \cup held[r] ELSE aggSlots[r] \cup aggIds[r]

\* What a reach keeps: the regions it names and, over any chain, those they hold.
Keeps(mask) ==
    LET walk[n \in 0 .. Cardinality(Regions)] ==
            IF n = 0 THEN mask.slab \cup mask.ids
                     ELSE UNION {{r} \cup HeldThrough(r) : r \in walk[n - 1]}
    IN  walk[Cardinality(Regions)]

Bytes(R) == UNION {bundle[r] : r \in R}

\* A key kept before any number of deaths and merges leads to where its home's bytes are
\* now, to an entry of the table it landed in, and nowhere exactly when they are gone.
KeysFollowBytes ==
    \A v \in kept :
        LET place == Locate(v.home)
        IN  /\ place = Nowhere <=> \A r \in Regions : v.home \notin bundle[r]
            /\ place # Nowhere => v.home \in bundle[place]
            /\ place \in Slots => FirstIndex(v.home) + v.index \in DOMAIN reaches[place]

\* What a departed cell's storage was known by goes with it: masks at rest, and keys kept.
MovesWhole == MasksCovered /\ KeysFollowBytes

\* A redeem the door grants hands back a reach that covers all the value may read: its bits
\* name cells directly, and its ids the sealed regions that keep the rest, over any chain.
RedeemCovers ==
    \A e \in Slots, v \in kept :
        Live(e) /\ Idle /\ Entitled(e, v.home) =>
            LET reach == RedeemedReach(v)
            IN  v.over \subseteq Bytes(reach.slab \cup Keeps([reach EXCEPT !.slab = {}]))

\* While a region takes others in, the holds it releases are never the last: nothing it
\* still has to look at, nor itself, can leave the tier under it.
DuplicatesSurvive ==
    target # NoId => target \in tier /\ \A i \in Ids : drops[i] > 0 => drops[i] < holders[i]

\* Every count, index and name is that of the storage there is, and stays so while a
\* cascade gives back what it found twice.
NamesCounted == CountsExact /\ NamesLive /\ DuplicatesSurvive

\* A region that has taken others in holds none alone: the worklist missed none.
Flattened ==
    [][Flat => \A i \in aggIds[target] : holders[i] > 1]_vars

\* Between verbs, a sealed region no slot keeps is kept by a ring of sealed regions: only
\* a ring, which nothing prevents, is never freed.
OnlyRingsStay ==
    Idle => LET cellsKeep == Keeps([slab |-> {s \in Slots : Occupied(s)}, ids |-> {}])
                ringed(i) == i \in Keeps([slab |-> aggSlots[i], ids |-> aggIds[i]])
            IN  \A i \in tier :
                    i \in cellsKeep \/ \E r \in tier :
                        ringed(r) /\ i \in Keeps([slab |-> {}, ids |-> {r}])

\* No storage is freed that a cell still in its slot can read.
Promise == INSTANCE Retention WITH
    alive <- {Occupant(s) : s \in {t \in Slots : Occupied(t)}},
    present <- Bytes(Regions)

ImplementsRetention == Promise!Spec

\* Every disposal and every cascade it starts come to an end.
CascadesEnd == ~Idle ~> Idle
=============================================================================
