------------------------------- MODULE Lends -------------------------------
(* What keeps a region and a scratch bump in place for the cells that borrow  *)
(* them (cellgraph/src/lend.rs, tenant.rs, slots.rs, receipt.rs, the step     *)
(* end, the creation and release doors and the disposal walk of graph.rs).    *)
(*                                                                            *)
(* A write home, a slab cell or a tree cell, has a region and a scratch bump. *)
(* A tenant has neither and its steps write its host's.  A tree cell, and a   *)
(* tenant if it is lent anything, borrows one half of another home: a scratch *)
(* or a region.  A scratch is reset where a step ends with nothing at rest    *)
(* naming it; a home is disposed once it is dead and nothing counted on it    *)
(* is left.  A released tenant's lend passes to its host's scratch, which may *)
(* still name the lent bytes, until that scratch next resets.                 *)
(*                                                                            *)
(* One cell steps at a time and nothing is created, released or disposed of   *)
(* meanwhile.  A step may panic: what it left at rest stays, and the tail of  *)
(* its entry is not run.  The homes a disposal walk has still to visit are    *)
(* taken in any order, which covers the code's last in, first out.            *)
EXTENDS Naturals, FiniteSets

CONSTANTS
    Roots,      \* the slab cells
    MaxTrees,   \* bound: tree cells ever born
    Tenants,    \* the tenants there may be at once
    Runs,       \* bound: receipt runs there may be at once
    MaxNaming,  \* bound: cells that name a scratch, or will, at once
    None        \* no cell, no run, no lend

Trees == 1 .. MaxTrees
Homes == Roots \cup Trees
Cells == Homes \cup Tenants

Scratch(h) == [half |-> "scratch", of |-> h]
Region(h) == [half |-> "region", of |-> h]
LendsOf(homes) == {Scratch(h) : h \in homes} \cup {Region(h) : h \in homes}

ASSUME LendsAssumption ==
    /\ IsFiniteSet(Roots) /\ Roots # {} /\ Roots \cap Nat = {}
    /\ IsFiniteSet(Tenants) /\ Tenants \cap Homes = {}
    /\ MaxTrees \in Nat /\ MaxNaming \in Nat /\ IsFiniteSet(Runs)
    /\ None \notin Cells \cup Runs /\ None \notin LendsOf(Homes)

VARIABLES
    life, parent,       \* each home's state, and where a tree cell's chain goes on
    host,               \* whose region each tenant writes
    lent,               \* what each cell borrows
    children, tenants,  \* each home's counts: undisposed tree children, tenants,
    scratchTenants,     \*   tenants that name its scratch,
    scratchBorrowers,   \*   and cells that borrow its scratch
    regionBorrowers,    \*   and its region
    held,               \* the lends each home's scratch holds for tenants gone
    stored, holding,    \* the cells whose scratch state, or hold, names a scratch
    run, filled,        \* the receipt run at rest on a cell, and those not drained
    pending,            \* the cells with a registration not yet laid down
    freeRuns,           \* the released runs in each home's scratch
    tail, visit, walk,  \* a step end's tail, and the disposal walk
    outlived,           \* history: the lends of tenants gone that each scratch may name
    torn                \* history: a reset took bytes that something named

places == <<life, parent, host, lent>>
counts == <<children, tenants, scratchBorrowers>>
slots == <<stored, holding, run, filled, pending>>
vars == <<places, counts, scratchTenants, regionBorrowers, held, slots, freeRuns, tail,
           visit, walk, outlived, torn>>

-----------------------------------------------------------------------------
One(b) == IF b THEN 1 ELSE 0

Undisposed(h) == life[h] \in {"live", "dead"}

Live(x) == IF x \in Tenants THEN host[x] # None ELSE life[x] = "live"

\* The cell whose region a step in `x` writes.
WriteHome(x) == IF x \in Tenants THEN host[x] ELSE x

\* A cell of its own names the scratch it writes: by its state, its run, or its hold.
NamesScratch(x) == x \in stored \/ run[x] # None \/ x \in holding

ScratchNamed(h) == NamesScratch(h) \/ scratchTenants[h] > 0 \/ scratchBorrowers[h] > 0

HomeLent(h) == IF h \in Trees THEN lent[h] ELSE None

\* A tenant's lend takes a count of its own where its host's does not hold it.
Counted(h, l) == l # None /\ l.half = "region" /\ l # HomeLent(h)

Copies == {lent[x] : x \in {y \in Cells : Live(y)}} \ {None}
Named == {Region(h) : h \in {g \in Homes : Live(g)}}

\* What a new tree cell under `p`, or a new tenant of `h`, may be lent.
TreeLends(p) == {Scratch(p)} \cup Named \cup {l \in Copies : l.half = "scratch" => l.of = p}

TenantLends(h) ==
    ({None} \cup Named \cup {l \in Copies : l.half = "scratch" => l = HomeLent(h)})
    \ {Region(h)}

\* The bound: the step may have its cell name the scratch.
MayName(x) ==
    Cardinality({y \in Cells \ {x} : NamesScratch(y) \/ y \in pending}) < MaxNaming

\* The bound: there is a run for whatever it and the others have registered.
MayRegister(x) ==
    LET elsewhere == {run[y] : y \in Cells \ {x}} \cup
                     UNION {freeRuns[h] : h \in Homes \ {WriteHome(x)}}
    IN  Cardinality(elsewhere \ {None}) + Cardinality(pending \cup {x}) <= Cardinality(Runs)

Quiet == tail = None /\ visit = {} /\ walk = None

InUse == {run[x] : x \in Cells} \cup UNION {freeRuns[h] : h \in Homes}

-----------------------------------------------------------------------------
Init ==
    /\ life = [h \in Homes |-> "unborn"] /\ parent = [c \in Trees |-> None]
    /\ host = [t \in Tenants |-> None] /\ lent = [x \in Cells |-> None]
    /\ children = [h \in Homes |-> 0] /\ tenants = [h \in Homes |-> 0]
    /\ scratchTenants = [h \in Homes |-> 0] /\ scratchBorrowers = [h \in Homes |-> 0]
    /\ regionBorrowers = [h \in Homes |-> 0] /\ held = [h \in Homes |-> {}]
    /\ stored = {} /\ holding = {} /\ run = [x \in Cells |-> None]
    /\ filled = {} /\ pending = {} /\ freeRuns = [h \in Homes |-> {}]
    /\ tail = None /\ visit = {} /\ walk = None
    /\ outlived = [h \in Homes |-> {}] /\ torn = FALSE

Create(r) ==
    /\ Quiet /\ life[r] = "unborn"
    /\ life' = [life EXCEPT ![r] = "live"]
    /\ UNCHANGED <<parent, host, lent, counts, scratchTenants, regionBorrowers, held, slots,
                   freeRuns, tail, visit, walk, outlived, torn>>

\* `borrow`: a lend is counted on its lender, by half.
Borrow(l, b) ==
    /\ scratchBorrowers' = [h \in Homes |-> scratchBorrowers[h] + One(b /\ l = Scratch(h))]
    /\ regionBorrowers' = [h \in Homes |-> regionBorrowers[h] + One(b /\ l = Region(h))]

\* A tree cell under a live cell, or the host of the tenant named, which may be dead.
CreateTree(c, x, l) ==
    LET p == WriteHome(x)
    IN  /\ Quiet /\ life[c] = "unborn" /\ \A b \in Trees : b < c => life[b] # "unborn"
        /\ Live(x) /\ l \in TreeLends(p)
        /\ life' = [life EXCEPT ![c] = "live"]
        /\ parent' = [parent EXCEPT ![c] = p]
        /\ lent' = [lent EXCEPT ![c] = l]
        /\ children' = [children EXCEPT ![p] = @ + 1]
        /\ Borrow(l, TRUE)
        /\ UNCHANGED <<host, tenants, scratchTenants, held, slots, freeRuns, tail, visit,
                       walk, outlived, torn>>

CreateTenant(t, x, l) ==
    LET h == WriteHome(x)
    IN  /\ Quiet /\ host[t] = None
        /\ Live(x) /\ l \in TenantLends(h)
        /\ host' = [host EXCEPT ![t] = h]
        /\ lent' = [lent EXCEPT ![t] = l]
        /\ tenants' = [tenants EXCEPT ![h] = @ + 1]
        /\ Borrow(l, Counted(h, l))
        /\ UNCHANGED <<life, parent, children, scratchTenants, held, slots, freeRuns,
                       tail, visit, walk, outlived, torn>>

-----------------------------------------------------------------------------
\* How a step moves its host's count of the tenants that name its scratch.
CountMoves_Swapped(was, is) == was /\ ~is

CountMoves(was, is) == is /\ ~was

\* What the scratch of `h` may name: what the cell, or a tenant of it now or since the
\* last reset, was lent.
MayBorrow(h) ==
    (outlived[h] \cup {HomeLent(h)} \cup {lent[t] : t \in {u \in Tenants : host[u] = h}})
    \ {None}

\* What a reset of `h` would take from something that names it.
Tears(h) ==
    \/ \E x \in Cells : Live(x) /\ WriteHome(x) = h /\ NamesScratch(x)
    \/ \E g \in Homes : Undisposed(g) /\ Scratch(h) \in MayBorrow(g)

\* What a run at rest in the bump of `h` becomes when it is given back: one of the
\* bump's free runs, if every slot of it is empty.
Released(h, r, undrained) == [freeRuns EXCEPT ![h] = @ \cup ({r} \ (undrained \cup {None}))]

\* `reset_scratch` of `h`: the free runs in the bump go, and the counts it held drop.
\* `free` is what is free by then.
ResetScratch_RunsLeft(h, free) ==
    /\ held' = [held EXCEPT ![h] = {}] /\ outlived' = [outlived EXCEPT ![h] = {}]
    /\ freeRuns' = free /\ torn' = (torn \/ Tears(h)')

ResetScratch(h, free) ==
    /\ held' = [held EXCEPT ![h] = {}] /\ outlived' = [outlived EXCEPT ![h] = {}]
    /\ freeRuns' = [free EXCEPT ![h] = {}] /\ torn' = (torn \/ Tears(h)')

\* The region borrowers left once the lends in `lends` are given back.
Without(lends) == [h \in Homes |-> regionBorrowers[h] - One(Region(h) \in lends)]

\* Their lenders are to be visited.
Lenders(lends) == {l.of : l \in lends}

\* A step of `x`, to its end or to a panic.  It starts with the scratch state taken off
\* the cell and may park another, hold the scratch of a tree cell for good, take the
\* receipts of its run, and register a run, which takes the place of one it has drained:
\* with what it may have filed in that since, when the run is not free to reuse.
\* Its end resets the scratch if nothing names it; a panic skips that.
Step(x, parks, holds, takes, registers, files, panics) ==
    LET h == WriteHome(x)
        undrained == IF takes THEN filled \ {run[x]} ELSE filled
        left == IF registers THEN None ELSE run[x]
        free == IF ~registers THEN freeRuns
                ELSE Released(h, run[x], IF files THEN undrained \cup {run[x]} ELSE undrained)
        was == NamesScratch(x)
        is == parks \/ left # None \/ x \in holding \/ holds
    IN  /\ Quiet /\ Live(x)
        /\ takes => run[x] \in filled
        /\ holds => x \in Trees \ holding
        /\ registers => run[x] \notin undrained
        /\ parks \/ holds \/ registers => MayName(x)
        /\ registers => MayRegister(x)
        /\ files => registers /\ run[x] # None
        /\ UNCHANGED <<places, counts, walk>>
        /\ stored' = IF parks THEN stored \cup {x} ELSE stored \ {x}
        /\ holding' = IF holds THEN holding \cup {x} ELSE holding
        /\ run' = [run EXCEPT ![x] = left]
        /\ filled' = IF registers THEN undrained \ {run[x]} ELSE undrained
        /\ pending' = IF registers THEN pending \cup {x} ELSE pending
        /\ scratchTenants' = [scratchTenants EXCEPT ![h] = IF x \notin Tenants THEN @
                ELSE @ + One(CountMoves(was, is)) - One(CountMoves(is, was))]
        /\ tail' = IF panics \/ x \notin pending' THEN None ELSE x
        /\ IF panics \/ ScratchNamed(h)'
           THEN /\ freeRuns' = free
                /\ UNCHANGED <<regionBorrowers, held, outlived, torn, visit>>
           ELSE /\ ResetScratch(h, free)
                /\ regionBorrowers' = Without(held[h]) /\ visit' = Lenders(held[h])

\* A step of another live cell files the receipt a run waits for.
Deliver(x) ==
    /\ Quiet /\ Live(x)
    /\ run[x] # None /\ run[x] \notin filled
    /\ filled' = filled \cup {run[x]}
    /\ UNCHANGED <<places, counts, scratchTenants, regionBorrowers, held, stored, holding, run,
                   pending, freeRuns, tail, visit, walk, outlived, torn>>

Reused(h, r) == [freeRuns EXCEPT ![h] = @ \ {r}]

\* What is registered, by this step or by one that panicked, is laid down last: in a
\* run released over the same scratch, or in fresh bytes of it.
TailLays ==
    LET x == tail
        h == WriteHome(x)
        there == IF freeRuns[h] # {} THEN freeRuns[h] ELSE Runs \ InUse
        r == CHOOSE u \in there : TRUE
    IN  /\ tail # None /\ visit = {} /\ walk = None
        /\ there # {}
        /\ run' = [run EXCEPT ![x] = r]
        /\ freeRuns' = Reused(h, r)
        /\ scratchTenants' = [scratchTenants EXCEPT ![h] =
                @ + One(x \in Tenants /\ ~NamesScratch(x))]
        /\ pending' = pending \ {x}
        /\ tail' = None
        /\ UNCHANGED <<places, counts, regionBorrowers, held, stored, holding, filled,
                       visit, walk, outlived, torn>>

-----------------------------------------------------------------------------
\* A cell's own slots stop naming the scratch at its death.
ClearScratch(x) ==
    /\ stored' = stored \ {x} /\ holding' = holding \ {x} /\ pending' = pending \ {x}
    /\ run' = [run EXCEPT ![x] = None]
    /\ freeRuns' = Released(WriteHome(x), run[x], filled)
    /\ filled' = filled \ {run[x]}

Release(h) ==
    /\ Quiet /\ life[h] = "live"
    /\ life' = [life EXCEPT ![h] = "dead"]
    /\ ClearScratch(h)
    /\ visit' = {h}
    /\ UNCHANGED <<parent, host, lent, counts, scratchTenants, regionBorrowers, held,
                   tail, walk, outlived, torn>>

\* A counted lend passes to the host's scratch, or drops if that holds one already.
PassOn_Twice(h, l) ==
    /\ held' = [held EXCEPT ![h] = IF Counted(h, l) THEN @ \cup {l} ELSE @]
    /\ UNCHANGED regionBorrowers

PassOn(h, l) ==
    /\ held' = [held EXCEPT ![h] = IF Counted(h, l) THEN @ \cup {l} ELSE @]
    /\ regionBorrowers' = [g \in Homes |->
            regionBorrowers[g] - One(l \in held[h] /\ Counted(h, l) /\ l = Region(g))]

ReleaseTenant(t) ==
    LET h == host[t]
    IN  /\ Quiet /\ h # None
        /\ PassOn(h, lent[t])
        /\ tenants' = [tenants EXCEPT ![h] = @ - 1]
        /\ scratchTenants' = [scratchTenants EXCEPT ![h] = @ - One(NamesScratch(t))]
        /\ ClearScratch(t)
        /\ outlived' = [outlived EXCEPT ![h] = @ \cup ({lent[t]} \ {None, HomeLent(h)})]
        /\ host' = [host EXCEPT ![t] = None]
        /\ lent' = [lent EXCEPT ![t] = None]
        /\ visit' = {h}
        /\ UNCHANGED <<life, parent, children, scratchBorrowers, tail, walk, torn>>

-----------------------------------------------------------------------------
Disposable(h) ==
    life[h] = "dead" /\ children[h] = 0 /\ tenants[h] = 0 /\ regionBorrowers[h] = 0

\* A dead home has no step to end: its scratch resets as soon as nothing names it.
Settles_LiveOnly(h) == FALSE

Settles(h) == life[h] = "dead" /\ ~ScratchNamed(h)

\* The walk takes a home it has still to visit, and goes on from it if it may dispose.
SettleDeadScratch(h) ==
    /\ walk = None /\ h \in visit
    /\ UNCHANGED <<places, counts, scratchTenants, slots, tail>>
    /\ IF Settles(h)
       THEN /\ ResetScratch(h, freeRuns)
            /\ regionBorrowers' = Without(held[h])
            /\ visit' = (visit \ {h}) \cup Lenders(held[h])
       ELSE /\ UNCHANGED <<freeRuns, held, regionBorrowers, outlived, torn>>
            /\ visit' = visit \ {h}
    /\ walk' = IF Disposable(h)' THEN h ELSE None

\* A slab cell goes with its scratch, its region where it goes (CellSlab).
DisposeRoot(r) ==
    /\ walk = r
    /\ life' = [life EXCEPT ![r] = "gone"]
    /\ walk' = None
    /\ regionBorrowers' = Without(held[r]) /\ visit' = visit \cup Lenders(held[r])
    /\ UNCHANGED <<parent, host, lent, counts, scratchTenants, slots, tail>>
    /\ ResetScratch(r, freeRuns)

\* A tree cell (TreePool) also stops borrowing, and only then, and leaves its parent:
\* the lenders and the parent are to be visited.
Left(c) == Lenders(held[c]) \cup {lent[c].of, parent[c]}

DisposeTree(c) ==
    /\ walk = c
    /\ life' = [life EXCEPT ![c] = "gone"]
    /\ walk' = None
    /\ scratchBorrowers' = [h \in Homes |-> scratchBorrowers[h] - One(lent[c] = Scratch(h))]
    /\ regionBorrowers' =
            [h \in Homes |-> Without(held[c])[h] - One(lent[c] = Region(h))]
    /\ children' = [children EXCEPT ![parent[c]] = @ - 1]
    /\ parent' = [parent EXCEPT ![c] = None] /\ lent' = [lent EXCEPT ![c] = None]
    /\ visit' = visit \cup Left(c)
    /\ UNCHANGED <<host, tenants, scratchTenants, slots, tail>>
    /\ ResetScratch(c, freeRuns)

Cascade ==
    \/ TailLays
    \/ \E h \in Homes : SettleDeadScratch(h)
    \/ \E r \in Roots : DisposeRoot(r)
    \/ \E c \in Trees : DisposeTree(c)

Next ==
    \/ \E r \in Roots : Create(r)
    \/ \E c \in Trees, x \in Cells, l \in LendsOf(Homes) : CreateTree(c, x, l)
    \/ \E t \in Tenants, x \in Cells, l \in LendsOf(Homes) \cup {None} : CreateTenant(t, x, l)
    \/ \E x \in Cells, parks, holds, takes, registers, files, panics \in BOOLEAN :
            Step(x, parks, holds, takes, registers, files, panics)
    \/ \E x \in Cells : Deliver(x)
    \/ \E h \in Homes : Release(h)
    \/ \E t \in Tenants : ReleaseTenant(t)
    \/ Cascade

Spec == Init /\ [][Next]_vars

-----------------------------------------------------------------------------
TypeOK ==
    /\ life \in [Homes -> {"unborn", "live", "dead", "gone"}]
    /\ parent \in [Trees -> Homes \cup {None}] /\ host \in [Tenants -> Homes \cup {None}]
    /\ lent \in [Cells -> LendsOf(Homes) \cup {None}]
    /\ \A f \in {children, tenants, scratchTenants, scratchBorrowers, regionBorrowers} :
            f \in [Homes -> Nat]
    /\ held \in [Homes -> SUBSET LendsOf(Homes)] /\ outlived \in [Homes -> SUBSET LendsOf(Homes)]
    /\ stored \subseteq Cells /\ holding \subseteq Trees /\ pending \subseteq Cells
    /\ run \in [Cells -> Runs \cup {None}] /\ filled \subseteq InUse
    /\ freeRuns \in [Homes -> SUBSET Runs]
    /\ visit \subseteq Homes
    /\ \A c \in Trees : (lent[c] # None) = (parent[c] # None)

\* Every count is what it stands for: children and borrowers not yet off their home,
\* live tenants and those of them that name its scratch, and for a region also one for
\* each live tenant that counts its lend and each scratch that holds one for tenants
\* gone (graph.rs, `tenant_left`, `lay_receipts` and the drop of a step's context).
CountsExact ==
    \A h \in Homes :
        LET borrowing(l) == {c \in Trees : lent[c] = l}
            counting == {t \in Tenants : lent[t] = Region(h) /\ Counted(host[t], lent[t])}
        IN  /\ children[h] = Cardinality({c \in Trees : parent[c] = h})
            /\ tenants[h] = Cardinality({t \in Tenants : host[t] = h})
            /\ scratchTenants[h] =
                    Cardinality({t \in Tenants : host[t] = h /\ NamesScratch(t)})
            /\ scratchBorrowers[h] = Cardinality(borrowing(Scratch(h)))
            /\ regionBorrowers[h] = Cardinality(borrowing(Region(h))) + Cardinality(counting)
                    + Cardinality({g \in Homes : Region(h) \in held[g]})

\* Whatever a scratch may name is there: the region its cell, or a tenant gone since the
\* last reset, was lent is still in place, and no reset takes bytes that something at
\* rest, or the scratch of a cell lent them, may name (lend.rs, graph.rs `enter`).
LendsStay ==
    /\ ~torn
    /\ \A h \in Homes : Undisposed(h) =>
            \A l \in MayBorrow(h) : l.half = "region" => Undisposed(l.of)

\* One owner for each run: a cell, or one home's list of the released, and then drained.
\* Two cells that parked on one run would take each other's receipts (receipt.rs,
\* `FreeRuns`; graph.rs `reuse_run`).
RunsSole ==
    \A r \in Runs :
        LET cells == {x \in Cells : run[x] = r}
            homes == {h \in Homes : r \in freeRuns[h]}
        IN  /\ Cardinality(cells) + Cardinality(homes) <= 1
            /\ homes # {} => r \notin filled
            /\ \A h \in homes : Undisposed(h)

\* What a scratch bump holds for others outlasts their use of it, and no two use one run.
ScratchKept == LendsStay /\ RunsSole

-----------------------------------------------------------------------------
\* The audit of a lend cycle: what each disposal, or reset, waits on.
Disposal(h) == <<"disposal", h>>
Reset(h) == <<"reset", h>>

HeldLends ==
    {<<host[t], lent[t]>> : t \in {u \in Tenants : host[u] # None}} \cup
    UNION {{h} \X held[h] : h \in Homes}

Waits ==
    {<<Disposal(parent[c]), Disposal(c)>> : c \in {b \in Trees : parent[b] # None}} \cup
    {<<IF lent[c].half = "region" THEN Disposal(lent[c].of) ELSE Reset(lent[c].of), Disposal(c)>> :
        c \in {b \in Trees : parent[b] # None}} \cup
    {<<Disposal(e[2].of), Reset(e[1])>> : e \in {d \in HeldLends : Counted(d[1], d[2])}}

\* What waits for ever: whatever is in a set of which each waits on another.
StuckBy(waits) ==
    UNION {w \in SUBSET {e[1] : e \in waits} :
            \A x \in w : \E e \in waits : e[1] = x /\ e[2] \in w}

Stuck == UNION {StuckBy(waits) : waits \in {Waits}}

\* A graph with no lend cycle empties once all that is in it is released (graph.rs,
\* `is_empty`; lend_cycle.rs, `lend_cycle`).
EmptiesUnlessCycle ==
    (Quiet /\ \A x \in Cells : ~Live(x)) =>
        \/ /\ \A h \in Homes : ~Undisposed(h) /\ held[h] = {}
           /\ InUse \subseteq {None}
        \/ Stuck # {}

\* All that is released is disposed of, but for what is on a lend cycle or waits on what is, and
\* that waits for ever, whatever is released, stepped or reset (lend_cycle.rs, `lend_cycle`).
OnlyCyclesHold ==
    [][/\ EmptiesUnlessCycle'
       /\ held' # held \/ parent' # parent => Stuck \subseteq Stuck']_vars
=============================================================================
