------------------------------ MODULE TreePool ------------------------------
(* The tree cells of a call subtree (cellgraph/src/tree.rs, and the disposal  *)
(* walk and the placement doors of graph.rs).                                 *)
(*                                                                            *)
(* A tree cell owns its region and lies under a root, a slab cell, through a  *)
(* chain of tree parents.  A placement that pins one of its values into an    *)
(* ancestor pledges it, and every cell between, to splice its bytes there at  *)
(* death; a value crosses to anything off the chain by copy alone.  A dead    *)
(* cell waits for its children and for the tenants that write its region.    *)
(* Its bytes then splice or are reclaimed, and where a key may still name it  *)
(* a tombstone says where they went.  What becomes of a root's storage once   *)
(* its slot is let go is CellSlab's: here it is freed, or goes elsewhere.     *)
(*                                                                            *)
(* A handle names one birth: an index of the pool is reused under a fresh     *)
(* generation, so births, each happening once, stand for handles.             *)
EXTENDS Naturals, FiniteSets

LOCAL INSTANCE Functions

CONSTANTS
    Roots,       \* the slab cells that are ever roots
    MaxTrees,    \* bound: tree cells ever born
    MaxTenants,  \* bound: tenants at once
    MaxKept,     \* bound: tree cells carriers are kept in
    MaxCrossings,\* bound: pinned crossings the history remembers at once
    None         \* no cell

Trees == 1 .. MaxTrees
Homes == Roots \cup Trees

ASSUME PoolAssumption ==
    /\ IsFiniteSet(Roots) /\ Roots # {} /\ Roots \cap Nat = {}
    /\ MaxTrees \in Nat /\ MaxTenants \in Nat /\ MaxKept \in Nat /\ MaxCrossings \in Nat
    /\ None \notin Homes

VARIABLES
    life,        \* what each birth has come to
    parent,      \* one level up the chain of a cell still in the tree
    children,    \* the undisposed tree cells each home counts as its own
    tenants,     \* the tenants that write each home's region
    pledge,      \* the ancestor each tree cell's bytes will splice into
    kept,        \* the tree cells a dormant carrier was kept in
    into,        \* where each tombstone's bytes went
    tombstones,  \* the tombstone list hanging off each home
    walk,        \* the home whose disposal is being settled
    lies,        \* history: the home each birth's bytes now lie in
    reads        \* history: <<a, b>>, bytes written as a's read bytes written as b's

links == <<parent, children, tenants>>
graves == <<into, tombstones>>
history == <<lies, reads>>
vars == <<life, links, pledge, kept, graves, walk, history>>

-----------------------------------------------------------------------------
Undisposed(h) == life[h] \in {"live", "dead"}

\* A live cell, or the host a live tenant's name stands for, dead or not.
Named(h) == life[h] = "live" \/ tenants[h] > 0

\* The homes above a cell on its chain, the root the last of them.
Above[h \in Homes] ==
    IF h \in Trees /\ parent[h] # None THEN {parent[h]} \cup Above[parent[h]] ELSE {}

Depth(h) == Cardinality(Above[h])

Root(h) == CHOOSE r \in Roots : r \in {h} \cup Above[h]

\* The ancestry of a destination, as seen from the home of an operand.
Under(home, dest) == dest = home \/ home \in Above[dest]

Upward(home, dest) == home \in Trees /\ dest \in Above[home]

\* The cells a pin of `home` into `dest` pledges: each one on the way whose pledge
\* does not reach as far up already.
Unpledged_HomeAlone(home, dest) ==
    {c \in {home} : pledge[c] = None \/ Depth(pledge[c]) > Depth(dest)}

Unpledged_Deepened(home, dest) ==
    {c \in ({home} \cup Above[home]) \ Roots : Depth(c) > Depth(dest)}

Unpledged(home, dest) ==
    {c \in ({home} \cup Above[home]) \ Roots :
        /\ Depth(c) > Depth(dest)
        /\ pledge[c] = None \/ Depth(pledge[c]) > Depth(dest)}

\* Where a key kept in `b` is answered from: along the tombstones, each one a splice.
Resolve[b \in Homes] ==
    CASE life[b] = "tombstone" -> Resolve[into[b]]
      [] life[b] \in {"live", "dead", "elsewhere"} -> b
      [] OTHER -> None

\* What a step under root `r` can hold a carrier of: a cell it can name, or a key of its
\* own tree.
Operands(r) ==
    {h \in Homes : Undisposed(h) /\ Root(h) = r /\
        (Named(h) \/ \E k \in kept : Resolve[k] = h)}
    \cup {h \in Trees : Named(h)}

\* Some cell of the tree of `r` can be entered.
Entered(r) == \E h \in Homes : Undisposed(h) /\ Named(h) /\ Root(h) = r

Idle == walk = None

One(b) == IF b THEN 1 ELSE 0

-----------------------------------------------------------------------------
Init ==
    /\ life = [h \in Homes |-> "unborn"]
    /\ parent = [c \in Trees |-> None]
    /\ children = [h \in Homes |-> 0]
    /\ tenants = [h \in Homes |-> 0]
    /\ pledge = [c \in Trees |-> None]
    /\ kept = {}
    /\ into = [c \in Trees |-> None]
    /\ tombstones = [h \in Homes |-> {}]
    /\ walk = None
    /\ lies = [h \in Homes |-> None]
    /\ reads = {}

Born(h) ==
    /\ Idle /\ life[h] = "unborn"
    /\ life' = [life EXCEPT ![h] = "live"]
    /\ lies' = [lies EXCEPT ![h] = h]
    /\ UNCHANGED <<tenants, pledge, kept, graves, walk, reads>>

\* A slab cell, to be a root.
Create(r) == Born(r) /\ UNCHANGED <<parent, children>>

\* A tree cell under a live cell, or under the host of the tenant that is named.
CreateTree(c, p) ==
    /\ Named(p) /\ \A b \in Trees : b < c => life[b] # "unborn"
    /\ Born(c)
    /\ parent' = [parent EXCEPT ![c] = p]
    /\ children' = [children EXCEPT ![p] = @ + 1]

\* A tenant of a home, and its departure, after which the host may dispose.
CreateTenant(h) ==
    /\ Idle /\ Named(h) /\ FoldFunction(+, 0, tenants) < MaxTenants
    /\ tenants' = [tenants EXCEPT ![h] = @ + 1]
    /\ UNCHANGED <<life, parent, children, pledge, kept, graves, walk, history>>

ReleaseTenant(h) ==
    /\ Idle /\ tenants[h] > 0
    /\ tenants' = [tenants EXCEPT ![h] = @ - 1]
    /\ walk' = h
    /\ UNCHANGED <<life, parent, children, pledge, kept, graves, history>>

\* A declared death.  The cell leaves now if nothing holds it, and later if something does.
Release(h) ==
    /\ Idle /\ life[h] = "live"
    /\ life' = [life EXCEPT ![h] = "dead"]
    /\ walk' = h
    /\ UNCHANGED <<links, pledge, kept, graves, history>>

-----------------------------------------------------------------------------
\* A value homed in `home` is pinned into `dest`.  Downward it costs nothing, as the
\* destination dies first.  Upward it pledges.  To anything off the chain it is copied
\* instead, and the copy reads nothing.  A root's own values pinned under another root
\* are CellSlab's crossings.
Pin(r, home, dest) ==
    /\ Idle /\ Entered(r)
    /\ home \in Operands(r) /\ Named(dest) /\ home # dest
    /\ Under(home, dest) \/ Upward(home, dest)
    /\ pledge' = [c \in Trees |->
        IF Upward(home, dest) /\ c \in Unpledged(home, dest) THEN dest ELSE pledge[c]]
    /\ reads' = reads \cup ({dest} \X {b \in Homes : lies[b] = home})
    /\ Cardinality(reads') <= MaxCrossings
    /\ UNCHANGED <<life, links, kept, graves, walk, lies>>

\* A carrier homed in a tree cell is put to rest: a key names the cell from here on.
Keep(r, c) ==
    /\ Idle /\ Entered(r)
    /\ c \in Operands(r) \cap Trees /\ c \notin kept /\ Cardinality(kept) < MaxKept
    /\ kept' = kept \cup {c}
    /\ UNCHANGED <<life, links, pledge, graves, walk, history>>

-----------------------------------------------------------------------------
\* The tombstones on a home's list, and those on theirs.
BuriedAt[h \in Homes] ==
    tombstones[h] \cup UNION {BuriedAt[c] : c \in tombstones[h]}

Disposable(h) == life[h] = "dead" /\ children[h] = 0 /\ tenants[h] = 0

\* The walk stops at the first cell that is live or held.
Stop ==
    /\ walk # None /\ ~Disposable(walk)
    /\ walk' = None
    /\ UNCHANGED <<life, links, pledge, kept, graves, history>>

Leave_Linked(c) ==
    /\ children' = [children EXCEPT ![parent[c]] = @ - 1]
    /\ walk' = parent[c]
    /\ UNCHANGED <<parent, tenants, kept>>

\* A departed cell is off its parent's count, and its parent is visited next.
Leave(c) ==
    /\ parent' = [parent EXCEPT ![c] = None]
    /\ children' = [children EXCEPT ![parent[c]] = @ - 1]
    /\ walk' = parent[c]
    /\ UNCHANGED <<tenants, kept>>

LeavesTombstone_KeptAlone(c) == c \in kept

LeavesTombstone(c) == c \in kept \/ tombstones[c] # {}

\* A slot goes back to its list, and every tombstone hanging off it with it.
Free(gone) ==
    LET freed == {gone} \cup BuriedAt[gone]
    IN  /\ life' = [h \in Homes |-> IF h \in freed THEN "free" ELSE life[h]]
        /\ tombstones' = [h \in Homes |-> IF h \in freed THEN {} ELSE tombstones[h]]
        /\ into' = [c \in Trees |-> IF c \in freed THEN None ELSE into[c]]

\* Everything that lies in `home` lies in `dest` now, or nowhere.
Move(home, dest) ==
    /\ lies' = [b \in Homes |-> IF lies[b] = home THEN dest ELSE lies[b]]
    /\ reads' = {e \in reads : lies'[e[1]] # None}

\* No pledge: the bytes go, and with them every tombstone that led to them.
Reclaim(c) ==
    /\ walk = c /\ Disposable(c) /\ pledge[c] = None
    /\ Move(c, None) /\ Free(c) /\ Leave(c)
    /\ UNCHANGED pledge

\* A pledge: the bytes move there whole.  The cell stays behind as a tombstone if a key
\* may name it, or one that spliced into it.
Splice(c) ==
    LET dest == pledge[c]
    IN  /\ walk = c /\ Disposable(c) /\ dest # None
        /\ IF LeavesTombstone(c)
           THEN /\ life' = [life EXCEPT ![c] = "tombstone"]
                /\ into' = [into EXCEPT ![c] = dest]
                /\ tombstones' = [tombstones EXCEPT ![dest] = @ \cup {c}]
           ELSE Free(c)
        /\ pledge' = [pledge EXCEPT ![c] = None]
        /\ Move(c, dest) /\ Leave(c)

\* The storage of a root that has left its slot, or is leaving it, is freed.
Forget(r) ==
    /\ Move(r, None) /\ Free(r)
    /\ walk' = None
    /\ UNCHANGED <<links, pledge, kept>>

ReclaimRoot(r) == walk = r /\ Disposable(r) /\ Forget(r)

\* Absorbed, folded or sealed: the relocation entry takes the tombstones along.
Relocate(r) ==
    /\ walk = r /\ Disposable(r)
    /\ life' = [life EXCEPT ![r] = "elsewhere"]
    /\ walk' = None
    /\ UNCHANGED <<links, pledge, kept, graves, history>>

\* The storage a departed root's entry leads to is freed, the entry with it.
ForgetChain(r) == Idle /\ life[r] = "elsewhere" /\ Forget(r)

Next ==
    \/ \E r \in Roots : Create(r) \/ ReclaimRoot(r) \/ Relocate(r) \/ ForgetChain(r)
    \/ \E c \in Trees, p \in Homes : CreateTree(c, p)
    \/ \E h \in Homes : CreateTenant(h) \/ ReleaseTenant(h) \/ Release(h)
    \/ \E r \in Roots, home, dest \in Homes : Pin(r, home, dest)
    \/ \E r \in Roots, c \in Trees : Keep(r, c)
    \/ \E c \in Trees : Reclaim(c) \/ Splice(c)
    \/ Stop

Spec == Init /\ [][Next]_vars
-----------------------------------------------------------------------------
\* Types, and what each life keeps of the links.
TypeOK ==
    /\ life \in [Homes -> {"unborn", "live", "dead", "tombstone", "elsewhere", "free"}]
    /\ parent \in [Trees -> Homes \cup {None}] /\ pledge \in [Trees -> Homes \cup {None}]
    /\ children \in [Homes -> Nat] /\ tenants \in [Homes -> Nat]
    /\ kept \subseteq Trees /\ walk \in Homes \cup {None}
    /\ into \in [Trees -> Homes \cup {None}] /\ tombstones \in [Homes -> SUBSET Trees]
    /\ lies \in [Homes -> Homes \cup {None}] /\ reads \subseteq Homes \X Homes
    /\ \A c \in Trees : (parent[c] # None) = Undisposed(c)

\* A pledge names an ancestor, which is disposed later and so is there for the splice,
\* and every cell between is pledged at least as far up: one left behind would be
\* reclaimed under bytes that read it (tree.rs, `pledge_up`).
PledgesReach ==
    \A c \in Trees : Undisposed(c) /\ pledge[c] # None =>
        /\ pledge[c] \in Above[c]
        /\ \A i \in Above[c] \cap Trees : Depth(i) > Depth(pledge[c]) =>
                pledge[i] # None /\ Depth(pledge[i]) <= Depth(pledge[c])

\* A key finds the home its bytes lie in now, however many splices ago it was kept, and
\* finds nothing exactly when they are gone (tree.rs, `resolve`).
KeysFollow == \A c \in kept : Resolve[c] = lies[c]

\* A tombstone is there as long as the bytes it leads to and no longer: none keeps an
\* index of the pool for ever (tree.rs, `free_tombstones`).
TombstonesLead ==
    \A c \in Trees : life[c] = "tombstone" => lies[c] # None /\ c \in BuriedAt[lies[c]]

\* What a splice moved is found where it went, by keys and by tombstones, and only while it is there.
SplicesFollowed == KeysFollow /\ TombstonesLead

Promise == INSTANCE Retention WITH
    Births <- Homes,
    alive <- {h \in Homes : Undisposed(h)},
    present <- {h \in Homes : lies[h] # None}

\* The pool keeps what the slab keeps: the bytes of every cell not yet disposed, and
\* whatever bytes still there can read (tree/README.md, the ancestry rule).
ImplementsRetention == Promise!Spec
=============================================================================
