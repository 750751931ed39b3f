---------------------------- MODULE Lends_proofs ----------------------------
(* The counts of a graph's homes are exact, and what a region, a scratch or a *)
(* receipt run is held in place for is still there, for every graph.          *)
(*                                                                            *)
(* The counts are the sizes of seven families of sets, and each step moves at *)
(* most one member in or out of each: `OneMoves` is what becomes of a count   *)
(* then.  `Books` is the inductive invariant.  It says which links and lends  *)
(* there may be, that a run has one owner, and what the tail of a step and    *)
(* the disposal walk may rely on.  That no reset tears anything follows, as a *)
(* property of the state that the reset leaves (`NoTears`).                   *)
EXTENDS Lends, Counting_proofs

\* There are finitely many cells, and a home is no tenant.
LEMMA CellsFinite ==
    /\ IsFiniteSet(Homes) /\ IsFiniteSet(Trees) /\ IsFiniteSet(Tenants)
    /\ Roots \cap Trees = {} /\ Tenants \cap Homes = {} /\ None \notin Cells /\ None \notin Runs
<1>1. IsFiniteSet(1 .. MaxTrees)
  BY LendsAssumption, FS_Interval
<1>2. IsFiniteSet(Homes)
  BY <1>1, LendsAssumption, FS_Union DEF Homes, Trees
<1> QED
  BY <1>1, <1>2, LendsAssumption DEF Trees

\* A lend is of a scratch or of a region, and of one home.
LEMMA LendKinds ==
    /\ \A g, h \in Homes : /\ Scratch(g) # Region(h)
                           /\ Scratch(g) = Scratch(h) => g = h
                           /\ Region(g) = Region(h) => g = h
    /\ \A h \in Homes : /\ Scratch(h) \in LendsOf(Homes) /\ Region(h) \in LendsOf(Homes)
                        /\ Scratch(h).half = "scratch" /\ Scratch(h).of = h
                        /\ Region(h).half = "region" /\ Region(h).of = h
                        /\ Scratch(h) # None /\ Region(h) # None
    /\ \A l \in LendsOf(Homes) : /\ l # None /\ l.of \in Homes
                                 /\ l = Scratch(l.of) \/ l = Region(l.of)
<1>1. \A h \in Homes : /\ Scratch(h) \in LendsOf(Homes) /\ Region(h) \in LendsOf(Homes)
                       /\ Scratch(h).half = "scratch" /\ Scratch(h).of = h
                       /\ Region(h).half = "region" /\ Region(h).of = h
  BY DEF LendsOf, Scratch, Region
<1>2. \A l \in LendsOf(Homes) : \E h \in Homes : l = Scratch(h) \/ l = Region(h)
  BY DEF LendsOf
<1>3. \A l \in LendsOf(Homes) : l # None
  BY LendsAssumption
<1>4. \A l \in LendsOf(Homes) : l.of \in Homes /\ (l = Scratch(l.of) \/ l = Region(l.of))
  BY <1>1, <1>2
<1>5. \A g, h \in Homes : /\ Scratch(g) # Region(h)
                          /\ Scratch(g) = Scratch(h) => g = h
                          /\ Region(g) = Region(h) => g = h
  <2> SUFFICES ASSUME NEW g \in Homes, NEW h \in Homes
               PROVE  /\ Scratch(g) # Region(h)
                      /\ Scratch(g) = Scratch(h) => g = h
                      /\ Region(g) = Region(h) => g = h
    OBVIOUS
  <2>1. "scratch" # "region"
    OBVIOUS
  <2> QED
    BY <1>1, <2>1
<1> QED
  BY <1>1, <1>3, <1>4, <1>5

-----------------------------------------------------------------------------
\* What each count counts.
Kids(h) == {c \in Trees : parent[c] = h}
Guests(h) == {t \in Tenants : host[t] = h}
Naming(h) == {t \in Tenants : host[t] = h /\ NamesScratch(t)}
OnScratch(h) == {c \in Trees : lent[c] = Scratch(h)}
OnRegion(h) == {c \in Trees : lent[c] = Region(h)}
Counting(h) == {t \in Tenants : lent[t] = Region(h) /\ Counted(host[t], lent[t])}
Holders(h) == {g \in Homes : Region(h) \in held[g]}

\* CountsExact, family by family.
Exact ==
    /\ \A h \in Homes : children[h] = Cardinality(Kids(h))
    /\ \A h \in Homes : tenants[h] = Cardinality(Guests(h))
    /\ \A h \in Homes : scratchTenants[h] = Cardinality(Naming(h))
    /\ \A h \in Homes : scratchBorrowers[h] = Cardinality(OnScratch(h))
    /\ \A h \in Homes : regionBorrowers[h] =
            Cardinality(OnRegion(h)) + Cardinality(Counting(h)) + Cardinality(Holders(h))

\* The families are those the property counts.
LEMMA ExactIs == Exact <=> CountsExact
BY DEF Exact, CountsExact, Kids, Guests, Naming, OnScratch, OnRegion, Counting, Holders

\* TypeOK, but for the values of the counts.
Kinds ==
    /\ life \in [Homes -> {"unborn", "live", "dead", "gone"}]
    /\ parent \in [Trees -> Homes \cup {None}] /\ host \in [Tenants -> Homes \cup {None}]
    /\ lent \in [Cells -> LendsOf(Homes) \cup {None}]
    /\ held \in [Homes -> SUBSET LendsOf(Homes)] /\ outlived \in [Homes -> SUBSET LendsOf(Homes)]
    /\ stored \subseteq Cells /\ holding \subseteq Trees /\ pending \subseteq Cells
    /\ run \in [Cells -> Runs \cup {None}] /\ filled \subseteq InUse
    /\ freeRuns \in [Homes -> SUBSET Runs]
    /\ visit \subseteq Homes
    /\ \A c \in Trees : (lent[c] # None) = (parent[c] # None)

\* The counts are kept for every home.
Tables ==
    /\ children = [h \in Homes |-> children[h]]
    /\ tenants = [h \in Homes |-> tenants[h]]
    /\ scratchTenants = [h \in Homes |-> scratchTenants[h]]
    /\ scratchBorrowers = [h \in Homes |-> scratchBorrowers[h]]
    /\ regionBorrowers = [h \in Homes |-> regionBorrowers[h]]

\* The links: a tree cell and a tenant hang from a home that is there, and a tenant that is
\* not there has nothing.
LinksOK ==
    /\ \A c \in Trees : (parent[c] # None) = Undisposed(c)
    /\ \A c \in Trees : parent[c] # None => Undisposed(parent[c])
    /\ \A r \in Roots : lent[r] = None
    /\ \A t \in Tenants : host[t] # None => Undisposed(host[t])
    /\ \A t \in Tenants : host[t] = None => lent[t] = None /\ ~NamesScratch(t)

\* The lends: a scratch is lent down the tree only, a lent region is there, and what a
\* scratch holds covers what its tenants gone may have left in it.
LendsOK ==
    /\ \A c \in Trees, h \in Homes : lent[c] = Scratch(h) => parent[c] = h
    /\ \A t \in Tenants, h \in Homes : lent[t] = Scratch(h) => lent[t] = HomeLent(host[t])
    /\ \A x \in Cells, h \in Homes : lent[x] = Region(h) => Undisposed(h)
    /\ \A g, h \in Homes : Region(h) \in held[g] => Undisposed(h)
    /\ \A h \in Homes : outlived[h] \subseteq held[h]
    /\ \A g, h \in Homes : Scratch(h) \notin held[g]

\* The runs: one owner each, the released ones drained and in a bump that is there, and a
\* cell that waits for its run to be laid down has none.
RunsOK ==
    /\ \A x, y \in Cells : run[x] = run[y] /\ run[x] # None => x = y
    /\ \A g, h \in Homes : g # h => freeRuns[g] \cap freeRuns[h] = {}
    /\ \A x \in Cells, h \in Homes : run[x] \notin freeRuns[h]
    /\ \A h \in Homes : freeRuns[h] # {} => Undisposed(h)
    /\ \A h \in Homes : freeRuns[h] \cap filled = {}
    /\ \A x \in pending : run[x] = None
    /\ None \notin filled

\* The tail of a step is a live cell's, and the walk goes on from a home that may dispose.
TailOK ==
    /\ tail \in Cells \cup {None} /\ walk \in Homes \cup {None}
    /\ tail # None => tail \in pending /\ Live(tail)
    /\ walk # None => Disposable(walk)

\* The inductive invariant, but for what `torn` remembers.
Books == Kinds /\ Tables /\ Exact /\ LinksOK /\ LendsOK /\ RunsOK /\ TailOK

IInv == Books /\ ~torn

\* The families are finite, and so their sizes are numbers.
LEMMA Families ==
    \A h \in Homes : /\ Cardinality(Kids(h)) \in Nat /\ Cardinality(Guests(h)) \in Nat
                     /\ Cardinality(Naming(h)) \in Nat /\ Cardinality(OnScratch(h)) \in Nat
                     /\ Cardinality(OnRegion(h)) \in Nat /\ Cardinality(Counting(h)) \in Nat
                     /\ Cardinality(Holders(h)) \in Nat
<1> SUFFICES ASSUME NEW h \in Homes
             PROVE  /\ Cardinality(Kids(h)) \in Nat /\ Cardinality(Guests(h)) \in Nat
                    /\ Cardinality(Naming(h)) \in Nat /\ Cardinality(OnScratch(h)) \in Nat
                    /\ Cardinality(OnRegion(h)) \in Nat /\ Cardinality(Counting(h)) \in Nat
                    /\ Cardinality(Holders(h)) \in Nat
  OBVIOUS
<1>1. \A S \in SUBSET Trees : Cardinality(S) \in Nat
  BY CellsFinite, FS_Subset, FS_CardinalityType
<1>2. \A S \in SUBSET Tenants : Cardinality(S) \in Nat
  BY CellsFinite, FS_Subset, FS_CardinalityType
<1>3. \A S \in SUBSET Homes : Cardinality(S) \in Nat
  BY CellsFinite, FS_Subset, FS_CardinalityType
<1>4. /\ Kids(h) \in SUBSET Trees /\ OnScratch(h) \in SUBSET Trees /\ OnRegion(h) \in SUBSET Trees
      /\ Guests(h) \in SUBSET Tenants /\ Naming(h) \in SUBSET Tenants
      /\ Counting(h) \in SUBSET Tenants /\ Holders(h) \in SUBSET Homes
  BY DEF Kids, OnScratch, OnRegion, Guests, Naming, Counting, Holders
<1> QED
  BY <1>1, <1>2, <1>3, <1>4

\* Exact counts are numbers, and so the types hold.
LEMMA BooksTypes == Books => TypeOK
<1> SUFFICES ASSUME Books PROVE TypeOK
  OBVIOUS
<1>1. \A h \in Homes : /\ children[h] \in Nat /\ tenants[h] \in Nat /\ scratchTenants[h] \in Nat
                       /\ scratchBorrowers[h] \in Nat /\ regionBorrowers[h] \in Nat
  BY Families DEF Books, Exact
<1>2. /\ children \in [Homes -> Nat] /\ tenants \in [Homes -> Nat]
      /\ scratchTenants \in [Homes -> Nat] /\ scratchBorrowers \in [Homes -> Nat]
      /\ regionBorrowers \in [Homes -> Nat]
  BY <1>1 DEF Books, Tables
<1> QED
  BY <1>2 DEF Books, Kinds, TypeOK

\* A count of zero leaves its set empty.
LEMMA Uncounted ==
    ASSUME Books, NEW h \in Homes
    PROVE  /\ children[h] = 0 => \A c \in Trees : parent[c] # h
           /\ tenants[h] = 0 => \A t \in Tenants : host[t] # h
           /\ scratchTenants[h] = 0 => \A t \in Tenants : ~(host[t] = h /\ NamesScratch(t))
           /\ scratchBorrowers[h] = 0 => \A c \in Trees : lent[c] # Scratch(h)
           /\ regionBorrowers[h] = 0 => /\ \A x \in Cells : lent[x] # Region(h)
                                        /\ \A g \in Homes : Region(h) \notin held[g]
<1>1. /\ \A S \in SUBSET Trees : Cardinality(S) = 0 => S = {}
      /\ \A S \in SUBSET Tenants : Cardinality(S) = 0 => S = {}
      /\ \A S \in SUBSET Homes : Cardinality(S) = 0 => S = {}
  BY CellsFinite, FS_Subset, FS_EmptySet
<1>2. /\ Kids(h) \in SUBSET Trees /\ OnScratch(h) \in SUBSET Trees /\ OnRegion(h) \in SUBSET Trees
      /\ Guests(h) \in SUBSET Tenants /\ Naming(h) \in SUBSET Tenants
      /\ Counting(h) \in SUBSET Tenants /\ Holders(h) \in SUBSET Homes
  BY DEF Kids, OnScratch, OnRegion, Guests, Naming, Counting, Holders
<1>e. /\ children[h] = Cardinality(Kids(h)) /\ tenants[h] = Cardinality(Guests(h))
      /\ scratchTenants[h] = Cardinality(Naming(h))
      /\ scratchBorrowers[h] = Cardinality(OnScratch(h))
      /\ regionBorrowers[h] =
            Cardinality(OnRegion(h)) + Cardinality(Counting(h)) + Cardinality(Holders(h))
  BY DEF Books, Exact
<1>3. /\ children[h] = 0 => Kids(h) = {}
      /\ tenants[h] = 0 => Guests(h) = {}
      /\ scratchTenants[h] = 0 => Naming(h) = {}
      /\ scratchBorrowers[h] = 0 => OnScratch(h) = {}
  BY <1>1, <1>2, <1>e
<1>4. ASSUME regionBorrowers[h] = 0
      PROVE  OnRegion(h) = {} /\ Counting(h) = {} /\ Holders(h) = {}
  <2>1. /\ Cardinality(OnRegion(h)) = 0 /\ Cardinality(Counting(h)) = 0
        /\ Cardinality(Holders(h)) = 0
    BY <1>4, <1>e, Families
  <2> QED
    BY <1>1, <1>2, <2>1
<1>5. ASSUME regionBorrowers[h] = 0, NEW x \in Cells, lent[x] = Region(h) PROVE FALSE
  <2>1. CASE x \in Trees
    BY <1>4, <1>5, <2>1 DEF OnRegion
  <2>2. CASE x \in Roots
    BY <1>5, <2>2, LendKinds DEF Books, LinksOK
  <2>3. CASE x \in Tenants
    <3>1. lent[x] # None /\ lent[x].half = "region"
      BY <1>5, LendKinds
    <3>2. lent[x] = HomeLent(host[x])
      BY <1>4, <1>5, <2>3, <3>1 DEF Counting, Counted
    <3>3. host[x] \in Trees /\ lent[host[x]] = Region(h)
      BY <1>5, <3>1, <3>2 DEF HomeLent
    <3> QED
      BY <1>4, <1>5, <3>3 DEF OnRegion
  <2> QED
    BY <2>1, <2>2, <2>3 DEF Cells, Homes
<1> QED
  BY <1>3, <1>4, <1>5 DEF Kids, Guests, Naming, OnScratch, Holders

\* Where a live cell's steps write is there.
LEMMA WritesThere ==
    ASSUME Books, NEW x \in Cells, Live(x)
    PROVE  /\ WriteHome(x) \in Homes /\ Undisposed(WriteHome(x))
           /\ x \in Homes => WriteHome(x) = x /\ x \notin Tenants
           /\ x \in Tenants => WriteHome(x) = host[x] /\ host[x] # None /\ x \notin Homes
<1>1. CASE x \in Tenants
  BY <1>1, CellsFinite DEF Books, Kinds, LinksOK, Live, WriteHome
<1>2. CASE x \notin Tenants
  BY <1>2 DEF Live, WriteHome, Undisposed, Cells
<1> QED
  BY <1>1, <1>2

\* A home that is named is there, and so is the region of a lend that is copied.
LEMMA LendsThere ==
    ASSUME Books, NEW p \in Homes, NEW l \in LendsOf(Homes)
    PROVE  /\ l \in TreeLends(p) =>
                /\ \A h \in Homes : l = Scratch(h) => h = p
                /\ \A h \in Homes : l = Region(h) => Undisposed(h)
           /\ l \in TenantLends(p) =>
                /\ \A h \in Homes : l = Scratch(h) => l = HomeLent(p)
                /\ \A h \in Homes : l = Region(h) => Undisposed(h)
<1>1. ASSUME l \in Copies PROVE \A h \in Homes : l = Region(h) => Undisposed(h)
  BY <1>1 DEF Copies, Books, LendsOK
<1>2. ASSUME l \in Named
      PROVE  \A h \in Homes : /\ l = Region(h) => Undisposed(h)
                              /\ l # Scratch(h)
  <2>1. PICK g \in Homes : Live(g) /\ l = Region(g)
    BY <1>2 DEF Named
  <2>2. Undisposed(g)
    BY <2>1, CellsFinite DEF Live, Undisposed
  <2> QED
    BY <2>1, <2>2, LendKinds
<1>3. ASSUME l \in TreeLends(p)
      PROVE  /\ \A h \in Homes : l = Scratch(h) => h = p
             /\ \A h \in Homes : l = Region(h) => Undisposed(h)
  <2>1. CASE l = Scratch(p)
    BY <2>1, LendKinds
  <2>2. CASE l \in Named
    BY <1>2, <2>2
  <2>3. CASE l \in Copies /\ (l.half = "scratch" => l.of = p)
    BY <1>1, <2>3, LendKinds
  <2> QED
    BY <1>3, <2>1, <2>2, <2>3 DEF TreeLends
<1>4. ASSUME l \in TenantLends(p)
      PROVE  /\ \A h \in Homes : l = Scratch(h) => l = HomeLent(p)
             /\ \A h \in Homes : l = Region(h) => Undisposed(h)
  <2>1. l # None
    BY LendKinds
  <2>2. CASE l \in Named
    BY <1>2, <2>2
  <2>3. CASE l \in Copies /\ (l.half = "scratch" => l = HomeLent(p))
    BY <1>1, <2>3, LendKinds
  <2> QED
    BY <1>4, <2>1, <2>2, <2>3 DEF TenantLends
<1> QED
  BY <1>3, <1>4

\* An empty graph keeps the books.
LEMMA InitBooks == Init => IInv
<1> SUFFICES ASSUME Init PROVE IInv
  OBVIOUS
<1>0. \A x \in Trees \cup Roots : x \in Homes /\ x \in Cells
  BY DEF Homes, Cells
<1>1. Kinds /\ Tables
  BY <1>0 DEF Init, Kinds, Tables, Cells
<1>2. Exact
  <2>1. ASSUME NEW h \in Homes
        PROVE  /\ Kids(h) = {} /\ Guests(h) = {} /\ Naming(h) = {} /\ OnScratch(h) = {}
               /\ OnRegion(h) = {} /\ Counting(h) = {} /\ Holders(h) = {}
               /\ children[h] = 0 /\ tenants[h] = 0 /\ scratchTenants[h] = 0
               /\ scratchBorrowers[h] = 0 /\ regionBorrowers[h] = 0
    <3>1. h # None /\ Scratch(h) # None /\ Region(h) # None
      BY LendKinds, CellsFinite DEF Cells
    <3> QED
      BY <1>0, <3>1 DEF Init, Kids, Guests, Naming, OnScratch, OnRegion, Counting, Holders, Cells
  <2>2. ASSUME NEW h \in Homes
        PROVE  /\ children[h] = Cardinality(Kids(h)) /\ tenants[h] = Cardinality(Guests(h))
               /\ scratchTenants[h] = Cardinality(Naming(h))
               /\ scratchBorrowers[h] = Cardinality(OnScratch(h))
               /\ regionBorrowers[h] = Cardinality(OnRegion(h)) + Cardinality(Counting(h))
                                            + Cardinality(Holders(h))
    <3>1. Cardinality({}) = 0
      BY FS_EmptySet
    <3> QED
      BY <2>1, <3>1
  <2> QED
    BY <2>2 DEF Exact
<1>3. LinksOK
  BY <1>0 DEF Init, LinksOK, Undisposed, NamesScratch, Cells
<1>4. LendsOK
  BY <1>0, LendKinds DEF Init, LendsOK, Cells
<1>5. RunsOK /\ TailOK
  BY DEF Init, RunsOK, TailOK
<1> QED
  BY <1>1, <1>2, <1>3, <1>4, <1>5 DEF Init, IInv, Books

\* A slab cell's birth moves no count.
LEMMA CreateBooks ==
    ASSUME Books, NEW r \in Roots, Create(r)
    PROVE  Books'
<1>1. /\ life[r] = "unborn" /\ life' = [life EXCEPT ![r] = "live"]
      /\ parent' = parent /\ host' = host /\ lent' = lent /\ children' = children
      /\ tenants' = tenants /\ scratchBorrowers' = scratchBorrowers
      /\ scratchTenants' = scratchTenants /\ regionBorrowers' = regionBorrowers /\ held' = held
      /\ stored' = stored /\ holding' = holding /\ run' = run /\ filled' = filled
      /\ pending' = pending /\ freeRuns' = freeRuns /\ tail' = tail /\ visit' = visit
      /\ walk' = walk /\ outlived' = outlived /\ Quiet
  BY DEF Create, counts, slots
<1>2. Kinds /\ Tables /\ Exact /\ LinksOK /\ LendsOK /\ RunsOK /\ TailOK
  BY DEF Books
<1>3. \A h \in Homes : Undisposed(h)' <=> Undisposed(h) \/ h = r
  BY <1>1, <1>2 DEF Undisposed, Kinds
<1>4. \A c \in Trees : c # r /\ c \in Homes
  BY CellsFinite DEF Homes
<1>5. Kinds' /\ Tables'
  <2>1. InUse' = InUse
    BY <1>1 DEF InUse
  <2>2. life' \in [Homes -> {"unborn", "live", "dead", "gone"}]
    BY <1>1, <1>2 DEF Kinds
  <2>3. Kinds'
    BY <1>1, <1>2, <2>1, <2>2 DEF Kinds
  <2>4. Tables'
    BY <1>1, <1>2 DEF Tables
  <2> QED
    BY <2>3, <2>4
<1>6. Exact'
  <2>1. ASSUME NEW h \in Homes
        PROVE  /\ Kids(h)' = Kids(h) /\ Guests(h)' = Guests(h) /\ Naming(h)' = Naming(h)
               /\ OnScratch(h)' = OnScratch(h) /\ OnRegion(h)' = OnRegion(h)
               /\ Counting(h)' = Counting(h) /\ Holders(h)' = Holders(h)
    BY <1>1 DEF Kids, Guests, Naming, OnScratch, OnRegion, Counting, Holders, NamesScratch,
                Counted, HomeLent
  <2> QED
    BY <1>1, <1>2, <2>1 DEF Exact
<1>7. LinksOK'
  <2>1. \A c \in Trees : (parent'[c] # None) = Undisposed(c)'
    BY <1>1, <1>2, <1>4 DEF LinksOK, Undisposed, Kinds
  <2>2. \A t \in Tenants : NamesScratch(t)' <=> NamesScratch(t)
    BY <1>1 DEF NamesScratch
  <2>3. /\ \A c \in Trees : parent[c] # None => Undisposed(parent[c])'
        /\ \A t \in Tenants : host[t] # None => Undisposed(host[t])'
    BY <1>1, <1>2, <1>3 DEF LinksOK, Kinds
  <2> QED
    BY <1>1, <1>2, <2>1, <2>2, <2>3 DEF LinksOK
<1>8. LendsOK' /\ RunsOK'
  <2>1. \A t \in Tenants : HomeLent(host[t])' = HomeLent(host[t])
    BY <1>1 DEF HomeLent
  <2> QED
    BY <1>1, <1>2, <1>3, <2>1 DEF LendsOK, RunsOK
<1>9. TailOK'
  BY <1>1, <1>2 DEF TailOK, Quiet
<1> QED
  BY <1>5, <1>6, <1>7, <1>8, <1>9 DEF Books

\* A tree cell's: its parent counts it, and its lender if it has one.
LEMMA CreateTreeBooks ==
    ASSUME Books, NEW c \in Trees, NEW x \in Cells, NEW l \in LendsOf(Homes), CreateTree(c, x, l)
    PROVE  Books'
<1> DEFINE p == WriteHome(x)
<1>1. /\ life[c] = "unborn" /\ life' = [life EXCEPT ![c] = "live"] /\ Live(x)
      /\ l \in TreeLends(p) /\ parent' = [parent EXCEPT ![c] = p]
      /\ lent' = [lent EXCEPT ![c] = l] /\ children' = [children EXCEPT ![p] = @ + 1]
      /\ scratchBorrowers' = [h \in Homes |-> scratchBorrowers[h] + One(TRUE /\ l = Scratch(h))]
      /\ regionBorrowers' = [h \in Homes |-> regionBorrowers[h] + One(TRUE /\ l = Region(h))]
      /\ host' = host /\ tenants' = tenants
      /\ scratchTenants' = scratchTenants /\ held' = held
      /\ stored' = stored /\ holding' = holding /\ run' = run /\ filled' = filled
      /\ pending' = pending /\ freeRuns' = freeRuns /\ tail' = tail /\ visit' = visit
      /\ walk' = walk /\ outlived' = outlived /\ Quiet
  BY DEF CreateTree, Borrow, slots
<1>2. Kinds /\ Tables /\ Exact /\ LinksOK /\ LendsOK /\ RunsOK /\ TailOK
  BY DEF Books
<1>3. p \in Homes /\ Undisposed(p)
  BY <1>1, WritesThere
<1> HIDE DEF p
<1>4. /\ c \in Homes /\ c \in Cells /\ c \notin Tenants /\ c \notin Roots /\ ~Undisposed(c) /\ p # c
      /\ \A d \in Trees : d \in Cells /\ d \in Homes
      /\ \A t \in Tenants : t \in Cells /\ t # c /\ host[t] # c
      /\ \A d \in Trees : parent[d] # c
  BY <1>1, <1>2, <1>3, CellsFinite DEF Homes, Cells, Undisposed, LinksOK
<1>5. parent[c] = None /\ lent[c] = None
  BY <1>2, <1>4 DEF LinksOK, Kinds
<1>6. \A h \in Homes : Undisposed(h)' <=> Undisposed(h) \/ h = c
  BY <1>1, <1>2, <1>4 DEF Undisposed, Kinds
<1>7. /\ \A y \in Cells : lent'[y] = IF y = c THEN l ELSE lent[y]
      /\ \A d \in Trees : parent'[d] = IF d = c THEN p ELSE parent[d]
  BY <1>1, <1>2 DEF Kinds
<1>8. \A t \in Tenants : HomeLent(host[t])' = HomeLent(host[t])
  BY <1>1, <1>4, <1>7 DEF HomeLent
<1>9. l # None /\ p # None
  BY <1>3, LendKinds, CellsFinite DEF Cells
<1>10. Kinds'
  <2>1. InUse' = InUse
    BY <1>1 DEF InUse
  <2>2. /\ life' \in [Homes -> {"unborn", "live", "dead", "gone"}]
        /\ parent' \in [Trees -> Homes \cup {None}]
        /\ lent' \in [Cells -> LendsOf(Homes) \cup {None}]
    BY <1>1, <1>2, <1>3 DEF Kinds
  <2>3. \A d \in Trees : (lent'[d] # None) = (parent'[d] # None)
    BY <1>2, <1>4, <1>7, <1>9 DEF Kinds
  <2> QED
    BY <1>1, <1>2, <2>1, <2>2, <2>3 DEF Kinds
<1>11. Tables'
  BY <1>1, <1>2 DEF Tables
<1>12. Exact'
  <2> SUFFICES ASSUME NEW h \in Homes
        PROVE  /\ children'[h] = Cardinality(Kids(h)') /\ tenants'[h] = Cardinality(Guests(h)')
               /\ scratchTenants'[h] = Cardinality(Naming(h)')
               /\ scratchBorrowers'[h] = Cardinality(OnScratch(h)')
               /\ regionBorrowers'[h] = Cardinality(OnRegion(h)') + Cardinality(Counting(h)')
                                            + Cardinality(Holders(h)')
    BY DEF Exact
  <2>1. /\ Kids(h) \ {c} = Kids(h)' \ {c} /\ c \notin Kids(h)
        /\ c \in Kids(h)' <=> h = p
        /\ OnScratch(h) \ {c} = OnScratch(h)' \ {c} /\ c \notin OnScratch(h)
        /\ c \in OnScratch(h)' <=> l = Scratch(h)
        /\ OnRegion(h) \ {c} = OnRegion(h)' \ {c} /\ c \notin OnRegion(h)
        /\ c \in OnRegion(h)' <=> l = Region(h)
    <3>1. h # None /\ Scratch(h) # None /\ Region(h) # None
      BY LendKinds, CellsFinite DEF Cells
    <3> QED
      BY <1>4, <1>5, <1>7, <3>1 DEF Kids, OnScratch, OnRegion
  <2>2. /\ Guests(h)' = Guests(h) /\ Naming(h)' = Naming(h)
        /\ Counting(h)' = Counting(h) /\ Holders(h)' = Holders(h)
    BY <1>1, <1>4, <1>7, <1>8 DEF Guests, Naming, NamesScratch, Counting, Counted, Holders
  <2>3. children'[h] = children[h] + One(h = p)
    BY <1>1, <1>2, <1>3, Families DEF Exact, Tables, One
  <2>4. children'[h] = Cardinality(Kids(h)')
    <3>1. Kids(h) \in SUBSET Trees /\ Kids(h)' \in SUBSET Trees
      BY DEF Kids
    <3>2. /\ h = p => Cardinality(Kids(h)') = Cardinality(Kids(h)) + 1
          /\ h # p => Cardinality(Kids(h)') = Cardinality(Kids(h))
          /\ Cardinality(Kids(h)) \in Nat
      BY <2>1, <3>1, CellsFinite, OneMoves
    <3> QED
      BY <1>2, <2>3, <3>2 DEF Exact, One
  <2>5. scratchBorrowers'[h] = Cardinality(OnScratch(h)')
    <3>1. OnScratch(h) \in SUBSET Trees /\ OnScratch(h)' \in SUBSET Trees
      BY DEF OnScratch
    <3>2. /\ l = Scratch(h) => Cardinality(OnScratch(h)') = Cardinality(OnScratch(h)) + 1
          /\ l # Scratch(h) => Cardinality(OnScratch(h)') = Cardinality(OnScratch(h))
          /\ Cardinality(OnScratch(h)) \in Nat
      BY <2>1, <3>1, CellsFinite, OneMoves
    <3> QED
      BY <1>1, <1>2, <3>2 DEF Exact, One
  <2>6. regionBorrowers'[h] = Cardinality(OnRegion(h)') + Cardinality(Counting(h)')
                                  + Cardinality(Holders(h)')
    <3>1. OnRegion(h) \in SUBSET Trees /\ OnRegion(h)' \in SUBSET Trees
      BY DEF OnRegion
    <3>2. /\ l = Region(h) => Cardinality(OnRegion(h)') = Cardinality(OnRegion(h)) + 1
          /\ l # Region(h) => Cardinality(OnRegion(h)') = Cardinality(OnRegion(h))
          /\ Cardinality(OnRegion(h)) \in Nat
      BY <2>1, <3>1, CellsFinite, OneMoves
    <3>3. regionBorrowers'[h] = regionBorrowers[h] + One(l = Region(h))
      BY <1>1
    <3>4. Cardinality(Counting(h)) \in Nat /\ Cardinality(Holders(h)) \in Nat
      BY Families
    <3> QED
      BY <1>2, <2>2, <3>2, <3>3, <3>4 DEF Exact, One
  <2> QED
    BY <1>1, <1>2, <2>2, <2>4, <2>5, <2>6 DEF Exact
<1>13. LinksOK'
  <2>1. \A d \in Trees : (parent'[d] # None) = Undisposed(d)'
    <3> SUFFICES ASSUME NEW d \in Trees PROVE (parent'[d] # None) = Undisposed(d)'
      OBVIOUS
    <3>1. CASE d = c
      BY <1>1, <1>2, <1>4, <1>7, <1>9, <3>1 DEF Undisposed, Kinds
    <3>2. CASE d # c
      BY <1>1, <1>2, <1>4, <1>7, <3>2 DEF LinksOK, Undisposed, Kinds
    <3> QED
      BY <3>1, <3>2
  <2>2. \A t \in Tenants : NamesScratch(t)' <=> NamesScratch(t)
    BY <1>1 DEF NamesScratch
  <2>3. \A t \in Tenants : host[t] # None => Undisposed(host[t])'
    BY <1>1, <1>2, <1>6 DEF LinksOK, Kinds
  <2>4. ASSUME NEW d \in Trees, parent'[d] # None PROVE Undisposed(parent[d])'
    <3>1. parent'[d] \in Homes /\ Undisposed(parent'[d])
      BY <1>2, <1>3, <1>7, <2>4 DEF LinksOK, Kinds
    <3>2. life'[parent'[d]] \in {"live", "dead"}
      BY <1>1, <1>2, <3>1 DEF Undisposed, Kinds
    <3> QED
      BY <3>2 DEF Undisposed
  <2>5. \A r \in Roots : lent'[r] = None
    BY <1>2, <1>4, <1>7 DEF LinksOK, Cells, Homes
  <2> QED
    BY <1>1, <1>2, <1>4, <1>7, <2>1, <2>2, <2>3, <2>4, <2>5 DEF LinksOK
<1>14. LendsOK'
  <2>1. /\ \A h \in Homes : l = Scratch(h) => h = p
        /\ \A h \in Homes : l = Region(h) => Undisposed(h)
    BY <1>1, <1>3, LendsThere
  <2>2. \A d \in Trees, h \in Homes : lent'[d] = Scratch(h) => parent'[d] = h
    BY <1>2, <1>4, <1>7, <2>1 DEF LendsOK
  <2>3. \A y \in Cells, h \in Homes : lent'[y] = Region(h) => Undisposed(h)'
    BY <1>2, <1>6, <1>7, <2>1 DEF LendsOK
  <2>4. \A t \in Tenants, h \in Homes : lent'[t] = Scratch(h) => lent'[t] = HomeLent(host[t])'
    BY <1>2, <1>4, <1>7, <1>8 DEF LendsOK
  <2> QED
    BY <1>1, <1>2, <1>6, <2>2, <2>3, <2>4 DEF LendsOK
<1>15. RunsOK' /\ TailOK'
  BY <1>1, <1>2, <1>6 DEF RunsOK, TailOK, Quiet
<1> QED
  BY <1>10, <1>11, <1>12, <1>13, <1>14, <1>15 DEF Books

\* A tenant's: its host counts it, and its lender if the host does not hold that lend.
LEMMA CreateTenantBooks ==
    ASSUME Books, NEW t \in Tenants, NEW x \in Cells, NEW l \in LendsOf(Homes) \cup {None},
           CreateTenant(t, x, l)
    PROVE  Books'
<1>0. PICK p \in Homes : p = WriteHome(x) /\ Undisposed(p)
  BY WritesThere DEF CreateTenant
<1>1. /\ host[t] = None /\ Live(x) /\ l \in TenantLends(p)
      /\ host' = [host EXCEPT ![t] = p] /\ lent' = [lent EXCEPT ![t] = l]
      /\ tenants' = [tenants EXCEPT ![p] = @ + 1]
      /\ scratchBorrowers' = [h \in Homes |->
            scratchBorrowers[h] + One(Counted(p, l) /\ l = Scratch(h))]
      /\ regionBorrowers' = [h \in Homes |->
            regionBorrowers[h] + One(Counted(p, l) /\ l = Region(h))]
      /\ life' = life /\ parent' = parent /\ children' = children
      /\ scratchTenants' = scratchTenants /\ held' = held
      /\ stored' = stored /\ holding' = holding /\ run' = run /\ filled' = filled
      /\ pending' = pending /\ freeRuns' = freeRuns /\ tail' = tail /\ visit' = visit
      /\ walk' = walk /\ outlived' = outlived /\ Quiet
  BY <1>0 DEF CreateTenant, Borrow, slots
<1>2. Kinds /\ Tables /\ Exact /\ LinksOK /\ LendsOK /\ RunsOK /\ TailOK
  BY DEF Books
<1>3. p \in Homes /\ Undisposed(p)
  BY <1>0
<1>4. /\ t \in Cells /\ t \notin Homes /\ t \notin Trees /\ t \notin Roots /\ p # None
      /\ \A d \in Trees : d \in Cells /\ d \in Homes /\ d # t
      /\ \A u \in Tenants : u \in Cells
  BY <1>3, CellsFinite DEF Homes, Cells
<1>5. lent[t] = None /\ ~NamesScratch(t)
  BY <1>1, <1>2 DEF LinksOK
<1>6. /\ \A y \in Cells : lent'[y] = IF y = t THEN l ELSE lent[y]
      /\ \A u \in Tenants : host'[u] = IF u = t THEN p ELSE host[u]
  BY <1>1, <1>2 DEF Kinds
<1>7. \A g \in Homes \cup {None} : HomeLent(g)' = HomeLent(g)
  BY <1>4, <1>6 DEF HomeLent
<1>8. \A u \in Tenants : u # t => host[u] \in Homes \cup {None} /\ host'[u] = host[u]
  BY <1>2, <1>6 DEF Kinds
<1>9. \A u \in Cells : NamesScratch(u)' <=> NamesScratch(u)
  BY <1>1 DEF NamesScratch
<1>10. Kinds'
  <2>1. InUse' = InUse
    BY <1>1 DEF InUse
  <2>2. /\ host' \in [Tenants -> Homes \cup {None}]
        /\ lent' \in [Cells -> LendsOf(Homes) \cup {None}]
    BY <1>1, <1>2, <1>3 DEF Kinds
  <2>3. \A d \in Trees : (lent'[d] # None) = (parent'[d] # None)
    BY <1>1, <1>2, <1>4, <1>6 DEF Kinds
  <2> QED
    BY <1>1, <1>2, <2>1, <2>2, <2>3 DEF Kinds
<1>11. Tables'
  BY <1>1, <1>2 DEF Tables
<1>12. Exact'
  <2> SUFFICES ASSUME NEW h \in Homes
        PROVE  /\ children'[h] = Cardinality(Kids(h)') /\ tenants'[h] = Cardinality(Guests(h)')
               /\ scratchTenants'[h] = Cardinality(Naming(h)')
               /\ scratchBorrowers'[h] = Cardinality(OnScratch(h)')
               /\ regionBorrowers'[h] = Cardinality(OnRegion(h)') + Cardinality(Counting(h)')
                                            + Cardinality(Holders(h)')
    BY DEF Exact
  <2>0. h # None /\ Scratch(h) # None /\ Region(h) # None
    BY LendKinds, CellsFinite DEF Cells
  <2>1. /\ Guests(h) \ {t} = Guests(h)' \ {t} /\ t \notin Guests(h)
        /\ t \in Guests(h)' <=> h = p
    BY <1>1, <1>6, <2>0 DEF Guests
  <2>2. /\ Counting(h) \ {t} = Counting(h)' \ {t} /\ t \notin Counting(h)
        /\ t \in Counting(h)' <=> Counted(p, l) /\ l = Region(h)
    <3>1. Counted(p, l)' <=> Counted(p, l)
      BY <1>3, <1>7 DEF Counted
    <3>2. t \in Counting(h)' <=> Counted(p, l) /\ l = Region(h)
      BY <1>4, <1>6, <3>1 DEF Counting, Counted
    <3>3. t \notin Counting(h)
      BY <1>5, <2>0 DEF Counting
    <3>4. ASSUME NEW u \in Tenants, u # t PROVE u \in Counting(h)' <=> u \in Counting(h)
      BY <1>4, <1>6, <1>7, <1>8, <3>4 DEF Counting, Counted
    <3>5. Counting(h) \subseteq Tenants /\ Counting(h)' \subseteq Tenants
      BY DEF Counting
    <3> QED
      BY <3>2, <3>3, <3>4, <3>5
  <2>3. /\ Kids(h)' = Kids(h) /\ Naming(h)' = Naming(h) /\ OnScratch(h)' = OnScratch(h)
        /\ OnRegion(h)' = OnRegion(h) /\ Holders(h)' = Holders(h)
    BY <1>1, <1>4, <1>5, <1>6, <1>9 DEF Kids, Naming, OnScratch, OnRegion, Holders
  <2>4. tenants'[h] = Cardinality(Guests(h)')
    <3>1. Guests(h) \in SUBSET Tenants /\ Guests(h)' \in SUBSET Tenants
      BY DEF Guests
    <3>2. /\ h = p => Cardinality(Guests(h)') = Cardinality(Guests(h)) + 1
          /\ h # p => Cardinality(Guests(h)') = Cardinality(Guests(h))
          /\ Cardinality(Guests(h)) \in Nat
      BY <2>1, <3>1, CellsFinite, OneMoves
    <3>3. tenants'[h] = IF h = p THEN tenants[h] + 1 ELSE tenants[h]
      BY <1>1, <1>2, <1>3 DEF Tables
    <3> QED
      BY <1>2, <3>2, <3>3 DEF Exact
  <2>5. scratchBorrowers'[h] = Cardinality(OnScratch(h)')
    <3>1. ~(Counted(p, l) /\ l = Scratch(h))
      BY LendKinds DEF Counted
    <3>2. scratchBorrowers'[h] = scratchBorrowers[h] + 0
      BY <1>1, <3>1 DEF One
    <3> QED
      BY <1>2, <2>3, <3>2, Families DEF Exact
  <2>6. regionBorrowers'[h] = Cardinality(OnRegion(h)') + Cardinality(Counting(h)')
                                  + Cardinality(Holders(h)')
    <3> DEFINE more == Counted(p, l) /\ l = Region(h)
    <3>1. Counting(h) \in SUBSET Tenants /\ Counting(h)' \in SUBSET Tenants
      BY DEF Counting
    <3> HIDE DEF more
    <3>2. /\ more => Cardinality(Counting(h)') = Cardinality(Counting(h)) + 1
          /\ ~more => Cardinality(Counting(h)') = Cardinality(Counting(h))
      BY <2>2, <3>1, CellsFinite, OneMoves DEF more
    <3>3. regionBorrowers'[h] = regionBorrowers[h] + One(more)
      BY <1>1 DEF more
    <3>4. /\ Cardinality(OnRegion(h)) \in Nat /\ Cardinality(Counting(h)) \in Nat
          /\ Cardinality(Holders(h)) \in Nat
      BY Families
    <3> QED
      BY <1>2, <2>3, <3>2, <3>3, <3>4 DEF Exact, One
  <2> QED
    BY <1>1, <1>2, <2>3, <2>4, <2>5, <2>6 DEF Exact
<1>13. LinksOK'
  <2>1. \A h \in Homes : Undisposed(h)' <=> Undisposed(h)
    BY <1>1 DEF Undisposed
  <2>2. \A u \in Tenants : host'[u] # None => Undisposed(host[u])'
    <3> SUFFICES ASSUME NEW u \in Tenants, host'[u] # None PROVE Undisposed(host'[u])
      BY <1>1 DEF Undisposed
    <3> QED
      BY <1>2, <1>3, <1>6 DEF LinksOK
  <2>3. \A u \in Tenants : host'[u] = None => lent'[u] = None /\ ~NamesScratch(u)'
    BY <1>2, <1>4, <1>6, <1>9 DEF LinksOK
  <2>4. \A r \in Roots : lent'[r] = None
    BY <1>2, <1>4, <1>6 DEF LinksOK, Cells, Homes
  <2> QED
    BY <1>1, <1>2, <2>2, <2>3, <2>4 DEF LinksOK, Undisposed
<1>14. LendsOK'
  <2>1. /\ \A h \in Homes : l = Scratch(h) => l = HomeLent(p)
        /\ \A h \in Homes : l = Region(h) => Undisposed(h)
    <3>1. l = None => \A h \in Homes : l # Scratch(h) /\ l # Region(h)
      BY LendKinds
    <3> QED
      BY <1>1, <1>3, <3>1, LendsThere
  <2>2. \A d \in Trees, h \in Homes : lent'[d] = Scratch(h) => parent'[d] = h
    BY <1>1, <1>2, <1>4, <1>6 DEF LendsOK
  <2>3. \A y \in Cells, h \in Homes : lent'[y] = Region(h) => Undisposed(h)'
    BY <1>1, <1>2, <1>6, <2>1 DEF LendsOK, Undisposed
  <2>4. ASSUME NEW u \in Tenants, NEW h \in Homes, lent'[u] = Scratch(h)
        PROVE  lent'[u] = HomeLent(host[u])'
    <3>1. CASE u = t
      <4>1. HomeLent(host[t])' = HomeLent(p)
        BY <1>3, <1>6, <1>7 DEF HomeLent
      <4> QED
        BY <1>4, <1>6, <2>1, <2>4, <3>1, <4>1
    <3>2. CASE u # t
      <4>1. HomeLent(host[u])' = HomeLent(host[u])
        BY <1>7, <1>8, <3>2 DEF HomeLent
      <4> QED
        BY <1>2, <1>4, <1>6, <2>4, <3>2, <4>1 DEF LendsOK
    <3> QED
      BY <3>1, <3>2
  <2>5. \A g, h \in Homes : Region(h) \in held[g] => Undisposed(h)'
    BY <1>1, <1>2 DEF LendsOK, Undisposed
  <2> QED
    BY <1>1, <1>2, <2>2, <2>3, <2>4, <2>5 DEF LendsOK
<1>15. RunsOK' /\ TailOK'
  BY <1>1, <1>2 DEF RunsOK, TailOK, Quiet, Undisposed
<1> QED
  BY <1>10, <1>11, <1>12, <1>13, <1>14, <1>15 DEF Books

-----------------------------------------------------------------------------
\* A reset gives back what the scratch held, each lend to its lender.
LEMMA HeldReset ==
    ASSUME Books, NEW k \in Homes, held' = [held EXCEPT ![k] = {}]
    PROVE  \A h \in Homes :
            /\ Without(held[k])[h] = regionBorrowers[h] - One(Region(h) \in held[k])
            /\ Cardinality(Holders(h)) \in Nat /\ Cardinality(Holders(h)') \in Nat
            /\ Cardinality(Holders(h)') = Cardinality(Holders(h)) - One(Region(h) \in held[k])
<1> SUFFICES ASSUME NEW h \in Homes
             PROVE  /\ Cardinality(Holders(h)) \in Nat /\ Cardinality(Holders(h)') \in Nat
                    /\ Cardinality(Holders(h)')
                            = Cardinality(Holders(h)) - One(Region(h) \in held[k])
  BY DEF Without
<1>1. \A g \in Homes : held'[g] = IF g = k THEN {} ELSE held[g]
  BY DEF Books, Kinds
<1>2. /\ Holders(h) \ {k} = Holders(h)' \ {k} /\ k \notin Holders(h)'
      /\ k \in Holders(h) <=> Region(h) \in held[k]
      /\ Holders(h) \in SUBSET Homes /\ Holders(h)' \in SUBSET Homes
  BY <1>1 DEF Holders
<1>3. /\ Cardinality(Holders(h)) \in Nat /\ Cardinality(Holders(h)') \in Nat
      /\ Region(h) \in held[k] => Cardinality(Holders(h)') = Cardinality(Holders(h)) - 1
      /\ Region(h) \notin held[k] => Cardinality(Holders(h)') = Cardinality(Holders(h))
  BY <1>2, CellsFinite, OneMoves
<1> QED
  BY <1>3 DEF One

\* A run given up is gone, or is one of the released of one bump, and then drained.
LEMMA RunsMove ==
    ASSUME Kinds, RunsOK, NEW x \in Cells, NEW h \in Homes,
           run' \in [Cells -> Runs \cup {None}],
           \A y \in Cells : y # x => run'[y] = run[y],
           run'[x] = None \/ run'[x] = run[x],
           freeRuns' \in [Homes -> SUBSET Runs],
           \A g \in Homes : g # h => freeRuns'[g] \subseteq freeRuns[g],
           freeRuns'[h] \subseteq freeRuns[h] \cup {run[x]},
           \A g \in Homes : freeRuns'[g] # {} => Undisposed(g)',
           filled' \subseteq filled, run'[x] = None => run[x] \notin filled',
           run[x] \in freeRuns'[h] => run'[x] = None,
           pending' \subseteq pending \cup {x}, x \in pending' => run'[x] = None
    PROVE  RunsOK' /\ filled' \subseteq InUse'
<1>0. \A g \in Homes : None \notin freeRuns[g] /\ None \notin freeRuns'[g]
  BY CellsFinite DEF Kinds
<1>1. \A y, z \in Cells : run'[y] = run'[z] /\ run'[y] # None => y = z
  BY DEF RunsOK
<1>2. \A f, g \in Homes : f # g => freeRuns'[f] \cap freeRuns'[g] = {}
  BY DEF RunsOK
<1>3. \A y \in Cells, g \in Homes : run'[y] \notin freeRuns'[g]
  <2> SUFFICES ASSUME NEW y \in Cells, NEW g \in Homes, run'[y] \in freeRuns'[g] PROVE FALSE
    OBVIOUS
  <2>1. run'[y] # None /\ run'[y] = run[y]
    BY <1>0
  <2>2. g = h /\ run[y] = run[x]
    BY <2>1 DEF RunsOK
  <2> QED
    BY <2>1, <2>2 DEF RunsOK
<1>4. \A g \in Homes : freeRuns'[g] \cap filled' = {}
  BY DEF RunsOK
<1>5. \A y \in pending' : run'[y] = None
  BY DEF RunsOK, Kinds
<1>6. None \notin filled'
  BY DEF RunsOK
<1>7. filled' \subseteq InUse'
  <2> SUFFICES ASSUME NEW u \in filled' PROVE u \in InUse'
    OBVIOUS
  <2>1. PICK y \in Cells : u = run[y]
    BY DEF Kinds, RunsOK, InUse
  <2>2. u = run'[y]
    BY <2>1
  <2> QED
    BY <2>2 DEF InUse
<1> QED
  BY <1>1, <1>2, <1>3, <1>4, <1>5, <1>6, <1>7 DEF RunsOK

\* A step: it moves its own cell among those that name the scratch, its run among the
\* released, and what the scratch held back to the lenders, if it resets.
LEMMA StepBooks ==
    ASSUME Books, NEW x \in Cells,
           NEW parks \in BOOLEAN, NEW holds \in BOOLEAN, NEW takes \in BOOLEAN,
           NEW registers \in BOOLEAN, NEW files \in BOOLEAN, NEW panics \in BOOLEAN,
           Step(x, parks, holds, takes, registers, files, panics)
    PROVE  Books'
<1>0. PICK h \in Homes : h = WriteHome(x) /\ Undisposed(h)
  BY WritesThere DEF Step
<1> DEFINE undrained == IF takes THEN filled \ {run[x]} ELSE filled
           left == IF registers THEN None ELSE run[x]
           free == IF ~registers THEN freeRuns
                   ELSE Released(h, run[x], IF files THEN undrained \cup {run[x]} ELSE undrained)
           was == NamesScratch(x)
           is == parks \/ left # None \/ x \in holding \/ holds
<1>1. /\ Quiet /\ Live(x) /\ (holds => x \in Trees)
      /\ life' = life /\ parent' = parent /\ host' = host /\ lent' = lent
      /\ children' = children /\ tenants' = tenants /\ scratchBorrowers' = scratchBorrowers
      /\ walk' = walk
      /\ stored' = IF parks THEN stored \cup {x} ELSE stored \ {x}
      /\ holding' = IF holds THEN holding \cup {x} ELSE holding
      /\ run' = [run EXCEPT ![x] = left]
      /\ filled' = IF registers THEN undrained \ {run[x]} ELSE undrained
      /\ pending' = IF registers THEN pending \cup {x} ELSE pending
      /\ scratchTenants' = [scratchTenants EXCEPT ![h] = IF x \notin Tenants THEN @
                ELSE @ + One(CountMoves(was, is)) - One(CountMoves(is, was))]
      /\ tail' = IF panics \/ x \notin pending' THEN None ELSE x
      /\ takes => run[x] \in filled
      /\ registers => run[x] \notin undrained
  BY <1>0 DEF Step, places, counts
<1>2. \/ /\ freeRuns' = free /\ regionBorrowers' = regionBorrowers /\ held' = held
         /\ outlived' = outlived /\ visit' = visit
      \/ /\ freeRuns' = [free EXCEPT ![h] = {}] /\ regionBorrowers' = Without(held[h])
         /\ held' = [held EXCEPT ![h] = {}] /\ outlived' = [outlived EXCEPT ![h] = {}]
         /\ visit' = Lenders(held[h])
  BY <1>0 DEF Step, ResetScratch
<1>3. Kinds /\ Tables /\ Exact /\ LinksOK /\ LendsOK /\ RunsOK /\ TailOK
  BY DEF Books
<1>4. /\ free \in [Homes -> SUBSET Runs]
      /\ \A g \in Homes : g # h => free[g] = freeRuns[g]
      /\ free[h] \subseteq freeRuns[h] \cup {run[x]}
      /\ run[x] \in free[h] => left = None
      /\ filled' \subseteq filled
      /\ left = None => run[x] \notin filled'
      /\ left = None \/ left = run[x]
  <2>1. run[x] \in Runs \cup {None} /\ freeRuns \in [Homes -> SUBSET Runs]
    BY <1>3 DEF Kinds
  <2>2. /\ filled' \subseteq filled /\ (left = None => run[x] \notin filled')
        /\ left = None \/ left = run[x]
    BY <1>1, <1>3 DEF RunsOK
  <2>3. CASE ~registers
    <3>1. free = freeRuns
      BY <2>3
    <3>2. run[x] \notin freeRuns[h]
      BY <1>3 DEF RunsOK
    <3> HIDE DEF free
    <3> QED
      BY <2>1, <2>2, <3>1, <3>2
  <2>4. CASE registers
    <3>1. PICK some : free = [freeRuns EXCEPT ![h] = @ \cup ({run[x]} \ (some \cup {None}))]
      BY <2>4 DEF Released
    <3>2. left = None
      BY <2>4
    <3> HIDE DEF free, left
    <3> QED
      BY <2>1, <2>2, <3>1, <3>2
  <2> QED
    BY <2>3, <2>4
<1> HIDE DEF free
<1>5. /\ freeRuns' \in [Homes -> SUBSET Runs]
      /\ \A g \in Homes : g # h => freeRuns'[g] = freeRuns[g]
      /\ freeRuns'[h] \subseteq freeRuns[h] \cup {run[x]}
      /\ run[x] \in freeRuns'[h] => left = None
  BY <1>2, <1>4
<1>6. /\ \A y \in Cells : run'[y] = IF y = x THEN left ELSE run[y]
      /\ run' \in [Cells -> Runs \cup {None}]
  <2>1. left \in Runs \cup {None}
    BY <1>3 DEF Kinds
  <2> HIDE DEF left
  <2> QED
    BY <1>1, <1>3, <2>1 DEF Kinds
<1>7. RunsOK' /\ filled' \subseteq InUse'
  <2>1. \A g \in Homes : freeRuns'[g] # {} => Undisposed(g)'
    BY <1>0, <1>1, <1>3, <1>5 DEF RunsOK, Undisposed
  <2>2. pending' \subseteq pending \cup {x} /\ (x \in pending' => run'[x] = None)
    BY <1>1, <1>3, <1>6 DEF RunsOK
  <2>3. \A g \in Homes : g # h => freeRuns'[g] \subseteq freeRuns[g]
    BY <1>5
  <2> HIDE DEF left
  <2>4. /\ run'[x] = left
        /\ \A y \in Cells : y # x => run'[y] = run[y]
    BY <1>6
  <2> QED
    BY <1>3, <1>4, <1>5, <1>6, <2>1, <2>2, <2>3, <2>4, RunsMove
<1>8. /\ \A y \in Cells : y # x => (NamesScratch(y)' <=> NamesScratch(y))
      /\ NamesScratch(x)' <=> is
  <2> HIDE DEF left
  <2>1. x \in stored' <=> parks
    BY <1>1
  <2>2. x \in holding' <=> x \in holding \/ holds
    BY <1>1
  <2>3. run'[x] = left
    BY <1>6
  <2>4. \A y \in Cells : y # x => /\ y \in stored' <=> y \in stored
                                  /\ y \in holding' <=> y \in holding
                                  /\ run'[y] = run[y]
    BY <1>1, <1>6
  <2> QED
    BY <2>1, <2>2, <2>3, <2>4 DEF NamesScratch
<1> HIDE DEF left, undrained
<1>9. Kinds'
  <2>1. \A y \in held[h] : y.of \in Homes
    BY <1>3, LendKinds DEF Kinds
  <2>2. /\ visit' \subseteq Homes /\ held' \in [Homes -> SUBSET LendsOf(Homes)]
        /\ outlived' \in [Homes -> SUBSET LendsOf(Homes)]
    BY <1>2, <1>3, <2>1 DEF Kinds, Lenders
  <2>3. stored' \subseteq Cells /\ holding' \subseteq Trees /\ pending' \subseteq Cells
    BY <1>1, <1>3 DEF Kinds
  <2> QED
    BY <1>1, <1>3, <1>5, <1>6, <1>7, <2>2, <2>3 DEF Kinds
<1>10. Tables'
  <2>1. regionBorrowers' = [g \in Homes |-> regionBorrowers'[g]]
    BY <1>2, <1>3 DEF Tables, Without
  <2>2. scratchTenants' = [g \in Homes |-> scratchTenants'[g]]
    BY <1>1, <1>3 DEF Tables
  <2> QED
    BY <1>1, <1>3, <2>1, <2>2 DEF Tables
<1>11. Exact'
  <2> SUFFICES ASSUME NEW g \in Homes
        PROVE  /\ children'[g] = Cardinality(Kids(g)') /\ tenants'[g] = Cardinality(Guests(g)')
               /\ scratchTenants'[g] = Cardinality(Naming(g)')
               /\ scratchBorrowers'[g] = Cardinality(OnScratch(g)')
               /\ regionBorrowers'[g] = Cardinality(OnRegion(g)') + Cardinality(Counting(g)')
                                            + Cardinality(Holders(g)')
    BY DEF Exact
  <2>1. /\ Kids(g)' = Kids(g) /\ Guests(g)' = Guests(g) /\ OnScratch(g)' = OnScratch(g)
        /\ OnRegion(g)' = OnRegion(g) /\ Counting(g)' = Counting(g)
    BY <1>1 DEF Kids, Guests, OnScratch, OnRegion, Counting, Counted, HomeLent
  <2>2. scratchTenants'[g] = Cardinality(Naming(g)')
    <3>0. Naming(g) \in SUBSET Tenants /\ Naming(g)' \in SUBSET Tenants
      BY DEF Naming
    <3>1. Naming(g) \ {x} = Naming(g)' \ {x}
      BY <1>1, <1>8 DEF Naming, Cells
    <3>2. /\ x \in Naming(g) <=> x \in Tenants /\ g = h /\ was
          /\ x \in Naming(g)' <=> x \in Tenants /\ g = h /\ is
      BY <1>0, <1>1, <1>8, WritesThere DEF Naming
    <3> HIDE DEF was, is
    <3>3. /\ Cardinality(Naming(g)) \in Nat
          /\ (x \in Naming(g) <=> x \in Naming(g)') =>
                Cardinality(Naming(g)') = Cardinality(Naming(g))
          /\ x \in Naming(g)' /\ x \notin Naming(g) =>
                Cardinality(Naming(g)') = Cardinality(Naming(g)) + 1
          /\ x \in Naming(g) /\ x \notin Naming(g)' =>
                Cardinality(Naming(g)') = Cardinality(Naming(g)) - 1
      BY <3>0, <3>1, CellsFinite, OneMoves
    <3>4. scratchTenants'[g] =
            IF x \in Tenants /\ g = h
            THEN scratchTenants[g] + One(CountMoves(was, is)) - One(CountMoves(is, was))
            ELSE scratchTenants[g]
      BY <1>1, <1>3 DEF Tables
    <3>5. scratchTenants[g] = Cardinality(Naming(g))
      BY <1>3 DEF Exact
    <3>6. /\ (was <=> is) => One(CountMoves(was, is)) = 0 /\ One(CountMoves(is, was)) = 0
          /\ is /\ ~was => One(CountMoves(was, is)) = 1 /\ One(CountMoves(is, was)) = 0
          /\ was /\ ~is => One(CountMoves(was, is)) = 0 /\ One(CountMoves(is, was)) = 1
      BY DEF One, CountMoves
    <3>7. CASE ~(x \in Tenants /\ g = h)
      BY <3>2, <3>3, <3>4, <3>5, <3>7
    <3>8. CASE x \in Tenants /\ g = h /\ (was <=> is)
      <4>1. scratchTenants'[g] = Cardinality(Naming(g)) + 0 - 0
        BY <3>4, <3>5, <3>6, <3>8
      <4>2. Cardinality(Naming(g)') = Cardinality(Naming(g))
        BY <3>2, <3>3, <3>8
      <4> QED
        BY <3>3, <4>1, <4>2
    <3>9. CASE x \in Tenants /\ g = h /\ is /\ ~was
      <4>1. scratchTenants'[g] = Cardinality(Naming(g)) + 1 - 0
        BY <3>4, <3>5, <3>6, <3>9
      <4>2. Cardinality(Naming(g)') = Cardinality(Naming(g)) + 1
        BY <3>2, <3>3, <3>9
      <4> QED
        BY <3>3, <4>1, <4>2
    <3>10. CASE x \in Tenants /\ g = h /\ was /\ ~is
      <4>1. scratchTenants'[g] = Cardinality(Naming(g)) + 0 - 1
        BY <3>4, <3>5, <3>6, <3>10
      <4>2. Cardinality(Naming(g)') = Cardinality(Naming(g)) - 1
        BY <3>2, <3>3, <3>10
      <4> QED
        BY <3>3, <4>1, <4>2
    <3> QED
      BY <3>7, <3>8, <3>9, <3>10
  <2>3. regionBorrowers'[g] = Cardinality(OnRegion(g)') + Cardinality(Counting(g)')
                                  + Cardinality(Holders(g)')
    <3>1. CASE regionBorrowers' = regionBorrowers /\ held' = held
      BY <1>3, <2>1, <3>1 DEF Exact, Holders
    <3>2. CASE regionBorrowers' = Without(held[h]) /\ held' = [held EXCEPT ![h] = {}]
      <4>1. /\ regionBorrowers'[g] = regionBorrowers[g] - One(Region(g) \in held[h])
            /\ Cardinality(Holders(g)') = Cardinality(Holders(g)) - One(Region(g) \in held[h])
        BY <3>2, HeldReset
      <4>2. /\ Cardinality(OnRegion(g)) \in Nat /\ Cardinality(Counting(g)) \in Nat
            /\ Cardinality(Holders(g)) \in Nat /\ One(Region(g) \in held[h]) \in Nat
        BY Families DEF One
      <4> QED
        BY <1>3, <2>1, <4>1, <4>2 DEF Exact
    <3> QED
      BY <1>2, <3>1, <3>2
  <2> QED
    BY <1>1, <1>3, <2>1, <2>2, <2>3 DEF Exact
<1>12. LinksOK'
  <2>1. \A t \in Tenants : host[t] = None => t # x
    BY <1>1, CellsFinite DEF Live
  <2>2. \A t \in Tenants : host[t] = None => lent[t] = None /\ ~NamesScratch(t)'
    BY <1>3, <1>8, <2>1 DEF LinksOK, Cells
  <2> QED
    BY <1>1, <1>3, <2>2 DEF LinksOK, Undisposed
<1>13. LendsOK'
  <2>1. /\ \A g \in Homes : held'[g] \subseteq held[g]
        /\ \A g \in Homes : outlived'[g] \subseteq held'[g]
    BY <1>2, <1>3 DEF LendsOK, Kinds
  <2>2. \A t \in Tenants : HomeLent(host[t])' = HomeLent(host[t])
    BY <1>1 DEF HomeLent
  <2> QED
    BY <1>1, <1>3, <2>1, <2>2 DEF LendsOK, Undisposed
<1>14. TailOK'
  BY <1>1, <1>3 DEF TailOK, Quiet, Live
<1> QED
  BY <1>7, <1>9, <1>10, <1>11, <1>12, <1>13, <1>14 DEF Books

\* A receipt is filed in a run at rest on a cell, which is no free one.
LEMMA DeliverBooks ==
    ASSUME Books, NEW x \in Cells, Deliver(x)
    PROVE  Books'
<1>1. /\ run[x] # None /\ filled' = filled \cup {run[x]}
      /\ life' = life /\ parent' = parent /\ host' = host /\ lent' = lent
      /\ children' = children /\ tenants' = tenants /\ scratchBorrowers' = scratchBorrowers
      /\ scratchTenants' = scratchTenants /\ regionBorrowers' = regionBorrowers /\ held' = held
      /\ stored' = stored /\ holding' = holding /\ run' = run
      /\ pending' = pending /\ freeRuns' = freeRuns /\ tail' = tail /\ visit' = visit
      /\ walk' = walk /\ outlived' = outlived
  BY DEF Deliver, places, counts
<1>2. Kinds /\ Tables /\ Exact /\ LinksOK /\ LendsOK /\ RunsOK /\ TailOK
  BY DEF Books
<1>3. Kinds'
  <2>1. run[x] \in InUse /\ InUse' = InUse
    BY <1>1 DEF InUse
  <2> QED
    BY <1>1, <1>2, <2>1 DEF Kinds
<1>4. Exact'
  <2>1. \A h \in Homes : /\ Kids(h)' = Kids(h) /\ Guests(h)' = Guests(h)
                         /\ Naming(h)' = Naming(h) /\ OnScratch(h)' = OnScratch(h)
                         /\ OnRegion(h)' = OnRegion(h) /\ Counting(h)' = Counting(h)
                         /\ Holders(h)' = Holders(h)
    BY <1>1 DEF Kids, Guests, Naming, OnScratch, OnRegion, Counting, Holders, NamesScratch,
                Counted, HomeLent
  <2> QED
    BY <1>1, <1>2, <2>1 DEF Exact
<1>5. Tables' /\ TailOK'
  BY <1>1, <1>2 DEF Tables, TailOK, Live, Disposable
<1>6. LinksOK' /\ LendsOK'
  BY <1>1, <1>2 DEF LinksOK, LendsOK, Undisposed, NamesScratch, HomeLent
<1>7. RunsOK'
  BY <1>1, <1>2 DEF RunsOK, Undisposed
<1> QED
  BY <1>2, <1>3, <1>4, <1>5, <1>6, <1>7 DEF Books

\* What the tail of a step lays down is a run that nothing else has, drained.
LEMMA TailLaysBooks ==
    ASSUME Books, TailLays
    PROVE  Books'
<1>0. PICK x \in Cells : x = tail /\ Live(x) /\ run[x] = None /\ x \in pending
  BY DEF Books, TailOK, RunsOK, TailLays
<1>1. PICK h \in Homes : h = WriteHome(x) /\ Undisposed(h)
  BY <1>0, WritesThere
<1>2. PICK r : /\ r \in freeRuns[h] \/ (freeRuns[h] = {} /\ r \in Runs \ InUse)
               /\ run' = [run EXCEPT ![x] = r]
               /\ freeRuns' = [freeRuns EXCEPT ![h] = @ \ {r}]
  <2> DEFINE there == IF freeRuns[h] # {} THEN freeRuns[h] ELSE Runs \ InUse
             r == CHOOSE u \in there : TRUE
  <2>1. there # {} /\ run' = [run EXCEPT ![x] = r] /\ freeRuns' = [freeRuns EXCEPT ![h] = @ \ {r}]
    BY <1>0, <1>1 DEF TailLays, Reused
  <2>2. r \in there
    BY <2>1
  <2> QED
    BY <2>1, <2>2
<1>3. /\ scratchTenants' = [scratchTenants EXCEPT ![h] =
                @ + One(x \in Tenants /\ ~NamesScratch(x))]
      /\ pending' = pending \ {x} /\ tail' = None /\ walk = None /\ walk' = walk
      /\ life' = life /\ parent' = parent /\ host' = host /\ lent' = lent
      /\ children' = children /\ tenants' = tenants /\ scratchBorrowers' = scratchBorrowers
      /\ regionBorrowers' = regionBorrowers /\ held' = held
      /\ stored' = stored /\ holding' = holding /\ filled' = filled /\ visit' = visit
      /\ outlived' = outlived
  BY <1>0, <1>1 DEF TailLays, places, counts
<1>4. Kinds /\ Tables /\ Exact /\ LinksOK /\ LendsOK /\ RunsOK /\ TailOK
  BY DEF Books
<1>5. /\ r \in Runs /\ r # None /\ r \notin filled
      /\ \A y \in Cells : run[y] # r
      /\ \A g \in Homes : g # h => r \notin freeRuns[g]
  <2>1. CASE r \in freeRuns[h]
    BY <1>4, <2>1, CellsFinite DEF Kinds, RunsOK
  <2>2. CASE freeRuns[h] = {} /\ r \in Runs \ InUse
    BY <1>4, <2>2, CellsFinite DEF Kinds, InUse
  <2> QED
    BY <1>2, <2>1, <2>2
<1>6. /\ \A y \in Cells : run'[y] = IF y = x THEN r ELSE run[y]
      /\ \A g \in Homes : freeRuns'[g] = IF g = h THEN freeRuns[h] \ {r} ELSE freeRuns[g]
  BY <1>2, <1>4 DEF Kinds
<1>7. RunsOK'
  <2>1. \A y, z \in Cells : run'[y] = run'[z] /\ run'[y] # None => y = z
    BY <1>4, <1>5, <1>6 DEF RunsOK
  <2>2. \A f, g \in Homes : f # g => freeRuns'[f] \cap freeRuns'[g] = {}
    BY <1>4, <1>6 DEF RunsOK
  <2>3. \A y \in Cells, g \in Homes : run'[y] \notin freeRuns'[g]
    BY <1>4, <1>5, <1>6 DEF RunsOK
  <2>4. \A g \in Homes : freeRuns'[g] # {} => Undisposed(g)'
    BY <1>1, <1>3, <1>4, <1>6 DEF RunsOK, Undisposed
  <2>5. \A g \in Homes : freeRuns'[g] \cap filled' = {}
    BY <1>3, <1>4, <1>6 DEF RunsOK
  <2>6. \A y \in pending' : run'[y] = None
    BY <1>3, <1>4, <1>6 DEF RunsOK, Kinds
  <2> QED
    BY <1>3, <1>4, <2>1, <2>2, <2>3, <2>4, <2>5, <2>6 DEF RunsOK
<1>8. Kinds'
  <2>1. filled' \subseteq InUse'
    <3> SUFFICES ASSUME NEW u \in filled PROVE u \in InUse'
      BY <1>3
    <3>1. CASE \E y \in Cells : u = run[y]
      <4>1. PICK y \in Cells : u = run[y]
        BY <3>1
      <4>2. y # x
        BY <1>0, <1>4, <4>1 DEF RunsOK
      <4> QED
        BY <1>6, <4>1, <4>2 DEF InUse
    <3>2. CASE \E g \in Homes : u \in freeRuns[g]
      BY <1>4, <3>2 DEF RunsOK
    <3> QED
      BY <1>4, <3>1, <3>2 DEF Kinds, InUse
  <2>2. run' \in [Cells -> Runs \cup {None}] /\ freeRuns' \in [Homes -> SUBSET Runs]
    BY <1>2, <1>4, <1>5 DEF Kinds
  <2> QED
    BY <1>3, <1>4, <2>1, <2>2 DEF Kinds
<1>9. Tables' /\ TailOK'
  BY <1>3, <1>4 DEF Tables, TailOK
<1>10. /\ \A y \in Cells : y # x => (NamesScratch(y)' <=> NamesScratch(y))
       /\ NamesScratch(x)'
  BY <1>3, <1>5, <1>6 DEF NamesScratch
<1>11. Exact'
  <2> SUFFICES ASSUME NEW g \in Homes
        PROVE  scratchTenants'[g] = Cardinality(Naming(g)')
    <3>1. \A f \in Homes : /\ Kids(f)' = Kids(f) /\ Guests(f)' = Guests(f)
                           /\ OnScratch(f)' = OnScratch(f) /\ OnRegion(f)' = OnRegion(f)
                           /\ Counting(f)' = Counting(f) /\ Holders(f)' = Holders(f)
      BY <1>3 DEF Kids, Guests, OnScratch, OnRegion, Counting, Holders, Counted, HomeLent
    <3> QED
      BY <1>3, <1>4, <3>1 DEF Exact
  <2>1. Naming(g) \in SUBSET Tenants /\ Naming(g)' \in SUBSET Tenants
    BY DEF Naming
  <2>2. Naming(g) \ {x} = Naming(g)' \ {x}
    BY <1>3, <1>10 DEF Naming, Cells
  <2>3. x \in Tenants => host[x] = h
    BY <1>0, <1>1, WritesThere
  <2>4. /\ x \in Naming(g) <=> x \in Tenants /\ g = h /\ NamesScratch(x)
        /\ x \in Naming(g)' <=> x \in Tenants /\ g = h
    BY <1>3, <1>10, <2>3 DEF Naming
  <2>5. /\ Cardinality(Naming(g)) \in Nat
        /\ (x \in Naming(g) <=> x \in Naming(g)') =>
              Cardinality(Naming(g)') = Cardinality(Naming(g))
        /\ x \in Naming(g)' /\ x \notin Naming(g) =>
              Cardinality(Naming(g)') = Cardinality(Naming(g)) + 1
    BY <2>1, <2>2, CellsFinite, OneMoves
  <2> DEFINE more == x \in Tenants /\ ~NamesScratch(x)
  <2>6. scratchTenants'[g] = IF g = h THEN scratchTenants[g] + One(more) ELSE scratchTenants[g]
    BY <1>3, <1>4 DEF Tables
  <2>7. scratchTenants[g] = Cardinality(Naming(g))
    BY <1>4 DEF Exact
  <2>8. CASE g = h /\ more
    <3>1. Cardinality(Naming(g)') = Cardinality(Naming(g)) + 1
      BY <2>4, <2>5, <2>8
    <3> QED
      BY <2>6, <2>7, <2>8, <3>1 DEF One
  <2>9. CASE ~(g = h /\ more)
    <3>1. Cardinality(Naming(g)') = Cardinality(Naming(g))
      BY <2>4, <2>5, <2>9
    <3>2. g = h => One(more) = 0
      BY <2>9 DEF One
    <3> HIDE DEF more
    <3> QED
      BY <2>5, <2>6, <2>7, <3>1, <3>2
  <2> QED
    BY <2>8, <2>9
<1>12. LinksOK'
  <2>1. \A t \in Tenants : host[t] = None => t # x
    BY <1>0 DEF Live
  <2>2. \A t \in Tenants : host[t] = None => lent[t] = None /\ ~NamesScratch(t)'
    BY <1>4, <1>10, <2>1 DEF LinksOK, Cells
  <2> QED
    BY <1>3, <1>4, <2>2 DEF LinksOK, Undisposed
<1>13. LendsOK'
  BY <1>3, <1>4 DEF LendsOK, Undisposed, HomeLent
<1> QED
  BY <1>7, <1>8, <1>9, <1>11, <1>12, <1>13 DEF Books

\* A cell that dies gives up what its own slots had of the scratch.
LEMMA Cleared ==
    ASSUME Books, NEW x \in Cells, NEW h \in Homes, h = WriteHome(x), Undisposed(h),
           ClearScratch(x), \A g \in Homes : Undisposed(g)' <=> Undisposed(g)
    PROVE  /\ stored' \subseteq Cells /\ holding' \subseteq Trees /\ pending' \subseteq Cells
           /\ run' \in [Cells -> Runs \cup {None}] /\ freeRuns' \in [Homes -> SUBSET Runs]
           /\ filled' \subseteq InUse' /\ RunsOK'
           /\ \A y \in Cells : y # x => (NamesScratch(y)' <=> NamesScratch(y))
           /\ ~NamesScratch(x)'
<1>1. /\ stored' = stored \ {x} /\ holding' = holding \ {x} /\ pending' = pending \ {x}
      /\ run' = [run EXCEPT ![x] = None]
      /\ freeRuns' = [freeRuns EXCEPT ![h] = @ \cup ({run[x]} \ (filled \cup {None}))]
      /\ filled' = filled \ {run[x]}
  BY DEF ClearScratch, Released
<1>2. Kinds /\ RunsOK
  BY DEF Books
<1>3. /\ stored' \subseteq Cells /\ holding' \subseteq Trees /\ pending' \subseteq Cells
      /\ run' \in [Cells -> Runs \cup {None}] /\ freeRuns' \in [Homes -> SUBSET Runs]
  BY <1>1, <1>2 DEF Kinds
<1>4. /\ \A y \in Cells : run'[y] = IF y = x THEN None ELSE run[y]
      /\ \A g \in Homes : g # h => freeRuns'[g] = freeRuns[g]
      /\ freeRuns'[h] \subseteq freeRuns[h] \cup {run[x]}
  BY <1>1, <1>2 DEF Kinds
<1>5. \A g \in Homes : freeRuns'[g] # {} => Undisposed(g)'
  BY <1>2, <1>4 DEF RunsOK
<1>6. RunsOK' /\ filled' \subseteq InUse'
  <2>1. /\ \A y \in Cells : y # x => run'[y] = run[y]
        /\ run'[x] = None
        /\ \A g \in Homes : g # h => freeRuns'[g] \subseteq freeRuns[g]
        /\ filled' \subseteq filled /\ run[x] \notin filled'
        /\ pending' \subseteq pending \cup {x}
    BY <1>1, <1>4
  <2> QED
    BY <1>2, <1>3, <1>4, <1>5, <2>1, RunsMove
<1>7. /\ \A y \in Cells : y # x => (NamesScratch(y)' <=> NamesScratch(y))
      /\ ~NamesScratch(x)'
  BY <1>1, <1>4 DEF NamesScratch
<1> QED
  BY <1>3, <1>6, <1>7

\* A home's death moves no count.
LEMMA ReleaseBooks ==
    ASSUME Books, NEW h \in Homes, Release(h)
    PROVE  Books'
<1>1. /\ life[h] = "live" /\ life' = [life EXCEPT ![h] = "dead"] /\ Quiet
      /\ ClearScratch(h) /\ visit' = {h}
      /\ parent' = parent /\ host' = host /\ lent' = lent
      /\ children' = children /\ tenants' = tenants /\ scratchBorrowers' = scratchBorrowers
      /\ scratchTenants' = scratchTenants /\ regionBorrowers' = regionBorrowers /\ held' = held
      /\ tail' = tail /\ walk' = walk /\ outlived' = outlived
  BY DEF Release, counts
<1>2. Kinds /\ Tables /\ Exact /\ LinksOK /\ LendsOK /\ RunsOK /\ TailOK
  BY DEF Books
<1>3. h \in Cells /\ h \notin Tenants /\ h = WriteHome(h) /\ Undisposed(h)
  BY <1>1, CellsFinite DEF Cells, WriteHome, Undisposed
<1>4. \A g \in Homes : Undisposed(g)' <=> Undisposed(g)
  BY <1>1, <1>2 DEF Undisposed, Kinds
<1>5. /\ stored' \subseteq Cells /\ holding' \subseteq Trees /\ pending' \subseteq Cells
      /\ run' \in [Cells -> Runs \cup {None}] /\ freeRuns' \in [Homes -> SUBSET Runs]
      /\ filled' \subseteq InUse' /\ RunsOK'
      /\ \A y \in Cells : y # h => (NamesScratch(y)' <=> NamesScratch(y))
  BY <1>1, <1>3, <1>4, Cleared
<1>6. \A t \in Tenants : NamesScratch(t)' <=> NamesScratch(t)
  BY <1>3, <1>5 DEF Cells
<1>7. Kinds'
  <2>1. life' \in [Homes -> {"unborn", "live", "dead", "gone"}]
    BY <1>1, <1>2 DEF Kinds
  <2> QED
    BY <1>1, <1>2, <1>5, <2>1 DEF Kinds
<1>8. Tables' /\ TailOK'
  BY <1>1, <1>2 DEF Tables, TailOK, Quiet
<1>9. Exact'
  <2>1. \A g \in Homes : /\ Kids(g)' = Kids(g) /\ Guests(g)' = Guests(g)
                         /\ OnScratch(g)' = OnScratch(g) /\ OnRegion(g)' = OnRegion(g)
                         /\ Counting(g)' = Counting(g) /\ Holders(g)' = Holders(g)
    BY <1>1 DEF Kids, Guests, OnScratch, OnRegion, Counting, Holders, Counted, HomeLent
  <2>2. \A g \in Homes : Naming(g)' = Naming(g)
    BY <1>1, <1>6 DEF Naming
  <2> QED
    BY <1>1, <1>2, <2>1, <2>2 DEF Exact
<1>10. LinksOK'
  <2>1. /\ \A c \in Trees : parent[c] # None => Undisposed(parent[c])'
        /\ \A t \in Tenants : host[t] # None => Undisposed(host[t])'
        /\ \A c \in Trees : Undisposed(c)' <=> Undisposed(c)
    BY <1>1, <1>2, <1>4 DEF LinksOK, Kinds, Homes
  <2>2. \A c \in Trees : (parent[c] # None) = Undisposed(c)'
    BY <1>2, <2>1 DEF LinksOK, Undisposed
  <2> QED
    BY <1>1, <1>2, <1>6, <2>1, <2>2 DEF LinksOK
<1>11. LendsOK'
  <2>1. \A t \in Tenants : HomeLent(host[t])' = HomeLent(host[t])
    BY <1>1 DEF HomeLent
  <2> QED
    BY <1>1, <1>2, <1>4, <2>1 DEF LendsOK
<1> QED
  BY <1>5, <1>7, <1>8, <1>9, <1>10, <1>11 DEF Books

\* A tenant's: what it was lent passes to its host's scratch, and the count of it with it.
LEMMA ReleaseTenantBooks ==
    ASSUME Books, NEW t \in Tenants, ReleaseTenant(t)
    PROVE  Books'
<1>1. Kinds /\ Tables /\ Exact /\ LinksOK /\ LendsOK /\ RunsOK /\ TailOK
  BY DEF Books
<1>0. PICK h \in Homes : h = host[t] /\ h = WriteHome(t) /\ Undisposed(h)
  <2>1. host[t] \in Homes /\ host[t] # None
    BY <1>1 DEF ReleaseTenant, Kinds
  <2> QED
    BY <1>1, <2>1 DEF LinksOK, WriteHome
<1> DEFINE l == lent[t]
           moved == Counted(h, l)
           named == NamesScratch(t)
<1>2. /\ held' = [held EXCEPT ![h] = IF moved THEN @ \cup {l} ELSE @]
      /\ regionBorrowers' = [g \in Homes |->
              regionBorrowers[g] - One(l \in held[h] /\ moved /\ l = Region(g))]
      /\ tenants' = [tenants EXCEPT ![h] = @ - 1]
      /\ scratchTenants' = [scratchTenants EXCEPT ![h] = @ - One(named)]
      /\ outlived' = [outlived EXCEPT ![h] = @ \cup ({l} \ {None, HomeLent(h)})]
      /\ host' = [host EXCEPT ![t] = None] /\ lent' = [lent EXCEPT ![t] = None]
      /\ visit' = {h} /\ ClearScratch(t) /\ Quiet
      /\ life' = life /\ parent' = parent /\ children' = children
      /\ scratchBorrowers' = scratchBorrowers /\ tail' = tail /\ walk' = walk
  BY <1>0 DEF ReleaseTenant, PassOn
<1>3. /\ t \in Cells /\ t \notin Homes /\ t \notin Trees /\ t \notin Roots
      /\ \A d \in Trees : d \in Cells /\ d \in Homes /\ d # t
      /\ \A u \in Tenants : u \in Cells
      /\ h # None
  BY CellsFinite DEF Homes, Cells
<1>4. \A g \in Homes : Undisposed(g)' <=> Undisposed(g)
  BY <1>2 DEF Undisposed
<1>5. /\ stored' \subseteq Cells /\ holding' \subseteq Trees /\ pending' \subseteq Cells
      /\ run' \in [Cells -> Runs \cup {None}] /\ freeRuns' \in [Homes -> SUBSET Runs]
      /\ filled' \subseteq InUse' /\ RunsOK'
      /\ \A y \in Cells : y # t => (NamesScratch(y)' <=> NamesScratch(y))
      /\ ~NamesScratch(t)'
  BY <1>0, <1>2, <1>3, <1>4, Cleared
<1>6. /\ \A y \in Cells : lent'[y] = IF y = t THEN None ELSE lent[y]
      /\ \A u \in Tenants : host'[u] = IF u = t THEN None ELSE host[u]
      /\ l \in LendsOf(Homes) \cup {None}
  BY <1>1, <1>2, <1>3 DEF Kinds
<1>7. \A g \in Homes \cup {None} : HomeLent(g)' = HomeLent(g)
  BY <1>3, <1>6 DEF HomeLent
<1>8. \A u \in Tenants : host[u] \in Homes \cup {None}
  BY <1>1 DEF Kinds
<1>9. moved => l # None /\ l \in LendsOf(Homes) /\ \A g \in Homes : l # Scratch(g)
  BY <1>6, LendKinds DEF Counted
<1> HIDE DEF moved, named
<1>10. Kinds'
  <2>1. /\ host' \in [Tenants -> Homes \cup {None}]
        /\ lent' \in [Cells -> LendsOf(Homes) \cup {None}]
        /\ held' \in [Homes -> SUBSET LendsOf(Homes)]
        /\ outlived' \in [Homes -> SUBSET LendsOf(Homes)]
    BY <1>1, <1>2, <1>6, <1>9 DEF Kinds
  <2>2. \A d \in Trees : (lent'[d] # None) = (parent'[d] # None)
    BY <1>1, <1>2, <1>3, <1>6 DEF Kinds
  <2> QED
    BY <1>1, <1>2, <1>5, <2>1, <2>2 DEF Kinds
<1>11. Tables'
  BY <1>1, <1>2 DEF Tables
<1>12. Exact'
  <2> SUFFICES ASSUME NEW g \in Homes
        PROVE  /\ children'[g] = Cardinality(Kids(g)') /\ tenants'[g] = Cardinality(Guests(g)')
               /\ scratchTenants'[g] = Cardinality(Naming(g)')
               /\ scratchBorrowers'[g] = Cardinality(OnScratch(g)')
               /\ regionBorrowers'[g] = Cardinality(OnRegion(g)') + Cardinality(Counting(g)')
                                            + Cardinality(Holders(g)')
    BY DEF Exact
  <2>0. g # None /\ Region(g) # None
    BY LendKinds, CellsFinite DEF Cells
  <2>1. /\ Kids(g)' = Kids(g) /\ OnScratch(g)' = OnScratch(g) /\ OnRegion(g)' = OnRegion(g)
    BY <1>2, <1>3, <1>6 DEF Kids, OnScratch, OnRegion
  <2>2. tenants'[g] = Cardinality(Guests(g)')
    <3>1. Guests(g) \in SUBSET Tenants /\ Guests(g)' \in SUBSET Tenants
      BY DEF Guests
    <3>2. /\ Guests(g) \ {t} = Guests(g)' \ {t} /\ t \notin Guests(g)'
          /\ t \in Guests(g) <=> g = h
      BY <1>0, <1>6, <2>0 DEF Guests
    <3>3. /\ g = h => Cardinality(Guests(g)') = Cardinality(Guests(g)) - 1
          /\ g # h => Cardinality(Guests(g)') = Cardinality(Guests(g))
      BY <3>1, <3>2, CellsFinite, OneMoves
    <3>4. tenants'[g] = IF g = h THEN tenants[g] - 1 ELSE tenants[g]
      BY <1>1, <1>2 DEF Tables
    <3> QED
      BY <1>1, <3>3, <3>4 DEF Exact
  <2>3. scratchTenants'[g] = Cardinality(Naming(g)')
    <3>1. Naming(g) \in SUBSET Tenants /\ Naming(g)' \in SUBSET Tenants
      BY DEF Naming
    <3>2. Naming(g) \ {t} = Naming(g)' \ {t} /\ t \notin Naming(g)'
      BY <1>3, <1>5, <1>6 DEF Naming
    <3>3. t \in Naming(g) <=> g = h /\ named
      BY <1>0 DEF Naming, named
    <3>4. /\ Cardinality(Naming(g)) \in Nat
          /\ g = h /\ named => Cardinality(Naming(g)') = Cardinality(Naming(g)) - 1
          /\ ~(g = h /\ named) => Cardinality(Naming(g)') = Cardinality(Naming(g))
      BY <3>1, <3>2, <3>3, CellsFinite, OneMoves
    <3>5. scratchTenants'[g] =
            IF g = h THEN scratchTenants[g] - One(named) ELSE scratchTenants[g]
      BY <1>1, <1>2 DEF Tables
    <3>6. scratchTenants[g] = Cardinality(Naming(g))
      BY <1>1 DEF Exact
    <3>7. CASE g = h /\ named
      BY <3>4, <3>5, <3>6, <3>7 DEF One
    <3>8. CASE ~(g = h /\ named)
      <4>1. g = h => One(named) = 0
        BY <3>8 DEF One
      <4> QED
        BY <3>4, <3>5, <3>6, <3>8, <4>1
    <3> QED
      BY <3>7, <3>8
  <2>4. regionBorrowers'[g] = Cardinality(OnRegion(g)') + Cardinality(Counting(g)')
                                  + Cardinality(Holders(g)')
    <3> DEFINE mine == moved /\ l = Region(g)
    <3>1. /\ Counting(g) \in SUBSET Tenants /\ Counting(g)' \in SUBSET Tenants
          /\ Holders(g) \in SUBSET Homes /\ Holders(g)' \in SUBSET Homes
      BY DEF Counting, Holders
    <3>2. Counting(g) \ {t} = Counting(g)' \ {t}
      <4>1. ASSUME NEW u \in Tenants, u # t PROVE u \in Counting(g)' <=> u \in Counting(g)
        BY <1>3, <1>6, <1>7, <1>8, <4>1 DEF Counting, Counted
      <4> QED
        BY <3>1, <4>1
    <3>3. t \notin Counting(g)' /\ (t \in Counting(g) <=> mine)
      <4>1. t \notin Counting(g)'
        BY <1>3, <1>6, <2>0 DEF Counting
      <4>2. t \in Counting(g) <=> mine
        BY <1>0 DEF Counting, moved
      <4> QED
        BY <4>1, <4>2
    <3>4. /\ Holders(g) \ {h} = Holders(g)' \ {h}
          /\ h \in Holders(g) <=> Region(g) \in held[h]
          /\ h \in Holders(g)' <=> Region(g) \in held[h] \/ mine
      BY <1>1, <1>2 DEF Holders, Kinds
    <3>5. regionBorrowers'[g] = regionBorrowers[g] - One(l \in held[h] /\ mine)
      <4>1. (l \in held[h] /\ moved /\ l = Region(g)) <=> (l \in held[h] /\ mine)
        OBVIOUS
      <4> QED
        BY <1>2, <4>1 DEF One
    <3>6. mine => (l \in held[h] <=> Region(g) \in held[h])
      OBVIOUS
    <3> HIDE DEF mine
    <3>7. /\ Cardinality(Counting(g)) \in Nat
          /\ mine => Cardinality(Counting(g)') = Cardinality(Counting(g)) - 1
          /\ ~mine => Cardinality(Counting(g)') = Cardinality(Counting(g))
      BY <3>1, <3>2, <3>3, CellsFinite, OneMoves
    <3>8. /\ Cardinality(Holders(g)) \in Nat
          /\ mine /\ l \notin held[h] => Cardinality(Holders(g)') = Cardinality(Holders(g)) + 1
          /\ ~mine \/ l \in held[h] => Cardinality(Holders(g)') = Cardinality(Holders(g))
      BY <3>1, <3>4, <3>6, CellsFinite, OneMoves
    <3>9. Cardinality(OnRegion(g)) \in Nat
      BY Families
    <3>10. regionBorrowers[g] = Cardinality(OnRegion(g)) + Cardinality(Counting(g))
                                    + Cardinality(Holders(g))
      BY <1>1 DEF Exact
    <3>11. CASE mine /\ l \in held[h]
      BY <2>1, <3>5, <3>7, <3>8, <3>9, <3>10, <3>11 DEF One
    <3>12. CASE mine /\ l \notin held[h]
      BY <2>1, <3>5, <3>7, <3>8, <3>9, <3>10, <3>12 DEF One
    <3>13. CASE ~mine
      BY <2>1, <3>5, <3>7, <3>8, <3>9, <3>10, <3>13 DEF One
    <3> QED
      BY <3>11, <3>12, <3>13
  <2> QED
    BY <1>1, <1>2, <2>1, <2>2, <2>3, <2>4 DEF Exact
<1>13. LinksOK'
  <2>1. \A u \in Tenants : host'[u] # None => Undisposed(host[u])'
    <3> SUFFICES ASSUME NEW u \in Tenants, host'[u] # None PROVE Undisposed(host'[u])
      BY <1>2 DEF Undisposed
    <3> QED
      BY <1>1, <1>6 DEF LinksOK
  <2>2. \A u \in Tenants : host'[u] = None => lent'[u] = None /\ ~NamesScratch(u)'
    BY <1>1, <1>3, <1>5, <1>6 DEF LinksOK
  <2>3. \A r \in Roots : lent'[r] = None
    BY <1>1, <1>3, <1>6 DEF LinksOK, Cells, Homes
  <2> QED
    BY <1>1, <1>2, <2>1, <2>2, <2>3 DEF LinksOK, Undisposed
<1>14. LendsOK'
  <2>1. \A d \in Trees, g \in Homes : lent'[d] = Scratch(g) => parent'[d] = g
    BY <1>1, <1>2, <1>3, <1>6 DEF LendsOK
  <2>2. \A g \in Homes : Scratch(g) # None /\ Region(g) # None
    BY LendKinds
  <2>3. ASSUME NEW u \in Tenants, NEW g \in Homes, lent'[u] = Scratch(g)
        PROVE  lent'[u] = HomeLent(host[u])'
    <3>1. u # t
      BY <1>3, <1>6, <2>2, <2>3
    <3>2. HomeLent(host[u])' = HomeLent(host[u])
      BY <1>6, <1>7, <1>8, <3>1
    <3> QED
      BY <1>1, <1>3, <1>6, <2>3, <3>1, <3>2 DEF LendsOK
  <2>4. \A y \in Cells, g \in Homes : lent'[y] = Region(g) => Undisposed(g)'
    BY <1>1, <1>4, <1>6, <2>2 DEF LendsOK
  <2>5. \A f, g \in Homes : Region(g) \in held'[f] => Undisposed(g)'
    <3> SUFFICES ASSUME NEW f \in Homes, NEW g \in Homes, Region(g) \in held'[f]
                 PROVE  Undisposed(g)
      BY <1>4
    <3>1. Region(g) \in held[f] \/ Region(g) = l
      BY <1>1, <1>2 DEF Kinds
    <3> QED
      BY <1>1, <1>3, <3>1 DEF LendsOK
  <2>6. \A f, g \in Homes : Scratch(g) \notin held'[f]
    BY <1>1, <1>2, <1>9 DEF LendsOK, Kinds
  <2>7. \A g \in Homes : outlived'[g] \subseteq held'[g]
    <3> SUFFICES ASSUME NEW g \in Homes, NEW k \in outlived'[g] PROVE k \in held'[g]
      OBVIOUS
    <3>1. CASE k \in outlived[g]
      BY <1>1, <1>2, <3>1 DEF LendsOK, Kinds
    <3>2. CASE k \notin outlived[g]
      <4>1. g = h /\ k = l /\ l # None /\ l # HomeLent(h)
        BY <1>1, <1>2, <3>2 DEF Kinds
      <4>2. l.half = "region"
        <5>1. l \in LendsOf(Homes) /\ l.of \in Homes
          BY <1>6, <4>1, LendKinds
        <5>2. l # Scratch(l.of)
          BY <1>0, <1>1, <4>1, <5>1 DEF LendsOK
        <5>3. l = Region(l.of)
          BY <5>1, <5>2, LendKinds
        <5> QED
          BY <5>1, <5>3, LendKinds
      <4>3. moved
        BY <4>1, <4>2 DEF moved, Counted
      <4> QED
        BY <1>1, <1>2, <4>1, <4>3 DEF Kinds
    <3> QED
      BY <3>1, <3>2
  <2> QED
    BY <2>1, <2>3, <2>4, <2>5, <2>6, <2>7 DEF LendsOK
<1>15. TailOK'
  BY <1>1, <1>2 DEF TailOK, Quiet
<1> QED
  BY <1>5, <1>10, <1>11, <1>12, <1>13, <1>14, <1>15 DEF Books

-----------------------------------------------------------------------------
\* The free runs that go with a reset are drained, and so nothing waits in them.
LEMMA ResetRuns ==
    ASSUME Kinds, RunsOK, NEW h \in Homes, freeRuns' = [freeRuns EXCEPT ![h] = {}],
           run' = run, filled' = filled, pending' = pending,
           \A g \in Homes : g # h => (Undisposed(g)' <=> Undisposed(g))
    PROVE  RunsOK' /\ filled' \subseteq InUse' /\ freeRuns' \in [Homes -> SUBSET Runs]
<1>1. /\ freeRuns' \in [Homes -> SUBSET Runs]
      /\ \A g \in Homes : freeRuns'[g] = IF g = h THEN {} ELSE freeRuns[g]
  BY DEF Kinds
<1>2. filled' \subseteq InUse'
  <2> SUFFICES ASSUME NEW u \in filled PROVE u \in InUse'
    OBVIOUS
  <2>1. PICK y \in Cells : u = run[y]
    BY DEF Kinds, RunsOK, InUse
  <2> QED
    BY <2>1 DEF InUse
<1> QED
  BY <1>1, <1>2 DEF RunsOK

\* A dead home's scratch settles: what it held goes back to the lenders.
LEMMA SettleBooks ==
    ASSUME Books, NEW h \in Homes, SettleDeadScratch(h)
    PROVE  Books'
<1>1. /\ life' = life /\ parent' = parent /\ host' = host /\ lent' = lent
      /\ children' = children /\ tenants' = tenants /\ scratchBorrowers' = scratchBorrowers
      /\ scratchTenants' = scratchTenants
      /\ stored' = stored /\ holding' = holding /\ run' = run /\ filled' = filled
      /\ pending' = pending /\ tail' = tail
      /\ walk' = IF Disposable(h)' THEN h ELSE None
  BY DEF SettleDeadScratch, places, counts, slots
<1>2. \/ /\ freeRuns' = [freeRuns EXCEPT ![h] = {}] /\ regionBorrowers' = Without(held[h])
         /\ held' = [held EXCEPT ![h] = {}] /\ outlived' = [outlived EXCEPT ![h] = {}]
         /\ visit' = (visit \ {h}) \cup Lenders(held[h])
      \/ /\ freeRuns' = freeRuns /\ regionBorrowers' = regionBorrowers /\ held' = held
         /\ outlived' = outlived /\ visit' = visit \ {h}
  BY DEF SettleDeadScratch, ResetScratch
<1>3. Kinds /\ Tables /\ Exact /\ LinksOK /\ LendsOK /\ RunsOK /\ TailOK
  BY DEF Books
<1>4. RunsOK' /\ filled' \subseteq InUse' /\ freeRuns' \in [Homes -> SUBSET Runs]
  <2>1. CASE freeRuns' = freeRuns
    BY <1>1, <1>3, <2>1 DEF RunsOK, Kinds, InUse, Undisposed
  <2>2. CASE freeRuns' = [freeRuns EXCEPT ![h] = {}]
    <3>1. \A g \in Homes : Undisposed(g)' <=> Undisposed(g)
      BY <1>1 DEF Undisposed
    <3> QED
      BY <1>1, <1>3, <2>2, <3>1, ResetRuns
  <2> QED
    BY <1>2, <2>1, <2>2
<1>5. Kinds'
  <2>1. \A y \in held[h] : y.of \in Homes
    BY <1>3, LendKinds DEF Kinds
  <2>2. /\ visit' \subseteq Homes /\ held' \in [Homes -> SUBSET LendsOf(Homes)]
        /\ outlived' \in [Homes -> SUBSET LendsOf(Homes)]
    BY <1>2, <1>3, <2>1 DEF Kinds, Lenders
  <2> QED
    BY <1>1, <1>3, <1>4, <2>2 DEF Kinds
<1>6. Tables'
  <2>1. regionBorrowers' = [g \in Homes |-> regionBorrowers'[g]]
    BY <1>2, <1>3 DEF Tables, Without
  <2> QED
    BY <1>1, <1>3, <2>1 DEF Tables
<1>7. Exact'
  <2>1. \A g \in Homes : /\ Kids(g)' = Kids(g) /\ Guests(g)' = Guests(g) /\ Naming(g)' = Naming(g)
                         /\ OnScratch(g)' = OnScratch(g) /\ OnRegion(g)' = OnRegion(g)
                         /\ Counting(g)' = Counting(g)
    BY <1>1 DEF Kids, Guests, Naming, OnScratch, OnRegion, Counting, NamesScratch, Counted,
                HomeLent
  <2>2. ASSUME NEW g \in Homes
        PROVE  regionBorrowers'[g] = Cardinality(OnRegion(g)) + Cardinality(Counting(g))
                                         + Cardinality(Holders(g)')
    <3>1. CASE regionBorrowers' = regionBorrowers /\ held' = held
      BY <1>3, <3>1 DEF Exact, Holders
    <3>2. CASE regionBorrowers' = Without(held[h]) /\ held' = [held EXCEPT ![h] = {}]
      <4>1. /\ regionBorrowers'[g] = regionBorrowers[g] - One(Region(g) \in held[h])
            /\ Cardinality(Holders(g)') = Cardinality(Holders(g)) - One(Region(g) \in held[h])
        BY <3>2, HeldReset
      <4>2. /\ Cardinality(OnRegion(g)) \in Nat /\ Cardinality(Counting(g)) \in Nat
            /\ Cardinality(Holders(g)) \in Nat /\ One(Region(g) \in held[h]) \in Nat
        BY Families DEF One
      <4> QED
        BY <1>3, <4>1, <4>2 DEF Exact
    <3> QED
      BY <1>2, <3>1, <3>2
  <2> QED
    BY <1>1, <1>3, <2>1, <2>2 DEF Exact
<1>8. LinksOK'
  BY <1>1, <1>3 DEF LinksOK, Undisposed, NamesScratch
<1>9. LendsOK'
  <2>1. /\ \A g \in Homes : held'[g] \subseteq held[g]
        /\ \A g \in Homes : outlived'[g] \subseteq held'[g]
    BY <1>2, <1>3 DEF LendsOK, Kinds
  <2>2. \A t \in Tenants : HomeLent(host[t])' = HomeLent(host[t])
    BY <1>1 DEF HomeLent
  <2> QED
    BY <1>1, <1>3, <2>1, <2>2 DEF LendsOK, Undisposed
<1>10. TailOK'
  <2>1. tail # None => Live(tail)'
    BY <1>1, <1>3 DEF TailOK, Live
  <2>2. walk' # None => Disposable(walk)'
    <3> SUFFICES ASSUME walk' # None PROVE Disposable(walk)'
      OBVIOUS
    <3>1. Disposable(h)' /\ walk' = h
      BY <1>1
    <3> QED
      BY <3>1 DEF Disposable
  <2> QED
    BY <1>1, <1>3, <2>1, <2>2 DEF TailOK
<1> QED
  BY <1>4, <1>5, <1>6, <1>7, <1>8, <1>9, <1>10 DEF Books

\* A slab cell is disposed of: nothing is left that names it.
LEMMA DisposeRootBooks ==
    ASSUME Books, NEW r \in Roots, DisposeRoot(r)
    PROVE  Books'
<1>1. /\ life' = [life EXCEPT ![r] = "gone"] /\ walk' = None /\ walk = r
      /\ regionBorrowers' = Without(held[r]) /\ visit' = visit \cup Lenders(held[r])
      /\ held' = [held EXCEPT ![r] = {}] /\ outlived' = [outlived EXCEPT ![r] = {}]
      /\ freeRuns' = [freeRuns EXCEPT ![r] = {}]
      /\ parent' = parent /\ host' = host /\ lent' = lent
      /\ children' = children /\ tenants' = tenants /\ scratchBorrowers' = scratchBorrowers
      /\ scratchTenants' = scratchTenants
      /\ stored' = stored /\ holding' = holding /\ run' = run /\ filled' = filled
      /\ pending' = pending /\ tail' = tail
  BY DEF DisposeRoot, ResetScratch, counts, slots
<1>2. Kinds /\ Tables /\ Exact /\ LinksOK /\ LendsOK /\ RunsOK /\ TailOK
  BY DEF Books
<1>3. /\ r \in Homes /\ r \in Cells /\ r # None /\ r \notin Trees /\ r \notin Tenants
      /\ \A c \in Trees : c \in Homes /\ c # r
  BY CellsFinite DEF Homes, Cells
<1>4. Disposable(r)
  BY <1>1, <1>2, <1>3 DEF TailOK
<1>5. /\ \A c \in Trees : parent[c] # r
      /\ \A t \in Tenants : host[t] # r
      /\ \A x \in Cells : lent[x] # Region(r)
      /\ \A g \in Homes : Region(r) \notin held[g]
  BY <1>3, <1>4, Uncounted DEF Disposable
<1>6. \A g \in Homes : g # r => (Undisposed(g)' <=> Undisposed(g))
  BY <1>1, <1>2 DEF Undisposed, Kinds
<1>7. RunsOK' /\ filled' \subseteq InUse' /\ freeRuns' \in [Homes -> SUBSET Runs]
  BY <1>1, <1>2, <1>3, <1>6, ResetRuns
<1>8. Kinds'
  <2>1. \A y \in held[r] : y.of \in Homes
    BY <1>2, <1>3, LendKinds DEF Kinds
  <2>2. /\ held' \in [Homes -> SUBSET LendsOf(Homes)]
        /\ outlived' \in [Homes -> SUBSET LendsOf(Homes)]
        /\ life' \in [Homes -> {"unborn", "live", "dead", "gone"}]
    BY <1>1, <1>2 DEF Kinds
  <2>3. visit' \subseteq Homes
    BY <1>1, <1>2, <2>1 DEF Kinds, Lenders
  <2> QED
    BY <1>1, <1>2, <1>7, <2>2, <2>3 DEF Kinds
<1>9. Tables'
  BY <1>1, <1>2 DEF Tables, Without
<1>10. Exact'
  <2>1. \A g \in Homes : /\ Kids(g)' = Kids(g) /\ Guests(g)' = Guests(g) /\ Naming(g)' = Naming(g)
                         /\ OnScratch(g)' = OnScratch(g) /\ OnRegion(g)' = OnRegion(g)
                         /\ Counting(g)' = Counting(g)
    BY <1>1 DEF Kids, Guests, Naming, OnScratch, OnRegion, Counting, NamesScratch, Counted,
                HomeLent
  <2>2. ASSUME NEW g \in Homes
        PROVE  regionBorrowers'[g] = Cardinality(OnRegion(g)) + Cardinality(Counting(g))
                                         + Cardinality(Holders(g)')
    <3>1. /\ regionBorrowers'[g] = regionBorrowers[g] - One(Region(g) \in held[r])
          /\ Cardinality(Holders(g)') = Cardinality(Holders(g)) - One(Region(g) \in held[r])
      BY <1>1, <1>3, HeldReset
    <3>2. /\ Cardinality(OnRegion(g)) \in Nat /\ Cardinality(Counting(g)) \in Nat
          /\ Cardinality(Holders(g)) \in Nat /\ One(Region(g) \in held[r]) \in Nat
      BY Families DEF One
    <3> QED
      BY <1>2, <3>1, <3>2 DEF Exact
  <2> QED
    BY <1>1, <1>2, <2>1, <2>2 DEF Exact
<1>11. LinksOK'
  <2>1. \A c \in Trees : (parent[c] # None) = Undisposed(c)'
    BY <1>1, <1>2, <1>3 DEF LinksOK, Undisposed, Kinds
  <2>2. /\ \A c \in Trees : parent'[c] # None => Undisposed(parent[c])'
        /\ \A t \in Tenants : host'[t] # None => Undisposed(host[t])'
    <3>1. \A g \in Homes \ {r} : life'[g] = life[g]
      BY <1>1, <1>2 DEF Kinds
    <3>2. /\ \A c \in Trees : parent[c] # None => parent[c] \in Homes \ {r}
          /\ \A t \in Tenants : host[t] # None => host[t] \in Homes \ {r}
      BY <1>2, <1>5 DEF Kinds
    <3> QED
      BY <1>1, <1>2, <3>1, <3>2 DEF LinksOK, Undisposed
  <2>3. \A t \in Tenants : NamesScratch(t)' <=> NamesScratch(t)
    BY <1>1 DEF NamesScratch
  <2> QED
    BY <1>1, <1>2, <2>1, <2>2, <2>3 DEF LinksOK
<1>12. LendsOK'
  <2>1. /\ \A g \in Homes : held'[g] \subseteq held[g]
        /\ \A g \in Homes : outlived'[g] \subseteq held'[g]
    BY <1>1, <1>2 DEF LendsOK, Kinds
  <2>2. \A t \in Tenants : HomeLent(host[t])' = HomeLent(host[t])
    BY <1>1 DEF HomeLent
  <2>3. /\ \A x \in Cells, g \in Homes : lent[x] = Region(g) => Undisposed(g)'
        /\ \A f, g \in Homes : Region(g) \in held'[f] => Undisposed(g)'
    BY <1>2, <1>5, <1>6, <2>1 DEF LendsOK
  <2> QED
    BY <1>1, <1>2, <2>1, <2>2, <2>3 DEF LendsOK
<1>13. TailOK'
  <2>1. ASSUME tail # None PROVE Live(tail)'
    <3>1. Live(tail) /\ tail # r
      BY <1>2, <1>3, <1>4, <2>1 DEF TailOK, Disposable, Live
    <3>2. life'[tail] = life[tail] \/ tail \notin Homes
      BY <1>1, <1>2, <3>1 DEF Kinds
    <3> QED
      BY <1>1, <1>2, <2>1, <3>1, <3>2 DEF TailOK, Live, Cells
  <2> QED
    BY <1>1, <1>2, <2>1 DEF TailOK
<1> QED
  BY <1>7, <1>8, <1>9, <1>10, <1>11, <1>12, <1>13 DEF Books

\* A tree cell is disposed of, and is off its parent and its lender.
LEMMA DisposeTreeBooks ==
    ASSUME Books, NEW c \in Trees, DisposeTree(c)
    PROVE  Books'
<1>1. /\ life' = [life EXCEPT ![c] = "gone"] /\ walk' = None /\ walk = c
      /\ scratchBorrowers' = [g \in Homes |-> scratchBorrowers[g] - One(lent[c] = Scratch(g))]
      /\ regionBorrowers' = [g \in Homes |-> Without(held[c])[g] - One(lent[c] = Region(g))]
      /\ children' = [children EXCEPT ![parent[c]] = @ - 1]
      /\ parent' = [parent EXCEPT ![c] = None] /\ lent' = [lent EXCEPT ![c] = None]
      /\ visit' = visit \cup Lenders(held[c]) \cup {lent[c].of, parent[c]}
      /\ held' = [held EXCEPT ![c] = {}] /\ outlived' = [outlived EXCEPT ![c] = {}]
      /\ freeRuns' = [freeRuns EXCEPT ![c] = {}]
      /\ host' = host /\ tenants' = tenants /\ scratchTenants' = scratchTenants
      /\ stored' = stored /\ holding' = holding /\ run' = run /\ filled' = filled
      /\ pending' = pending /\ tail' = tail
  BY DEF DisposeTree, Left, ResetScratch, slots
<1>2. Kinds /\ Tables /\ Exact /\ LinksOK /\ LendsOK /\ RunsOK /\ TailOK
  BY DEF Books
<1>3. /\ c \in Homes /\ c \in Cells /\ c # None /\ c \notin Roots /\ c \notin Tenants
      /\ \A d \in Trees : d \in Homes /\ d \in Cells
      /\ \A t \in Tenants : t \in Cells /\ t # c
  BY CellsFinite DEF Homes, Cells
<1>4. Disposable(c)
  BY <1>1, <1>2, <1>3 DEF TailOK
<1>5. /\ \A d \in Trees : parent[d] # c
      /\ \A t \in Tenants : host[t] # c
      /\ \A x \in Cells : lent[x] # Region(c)
      /\ \A g \in Homes : Region(c) \notin held[g]
  BY <1>3, <1>4, Uncounted DEF Disposable
<1>6. \A g \in Homes : g # c => (Undisposed(g)' <=> Undisposed(g))
  BY <1>1, <1>2 DEF Undisposed, Kinds
<1>7. RunsOK' /\ filled' \subseteq InUse' /\ freeRuns' \in [Homes -> SUBSET Runs]
  BY <1>1, <1>2, <1>3, <1>6, ResetRuns
<1>8. PICK p \in Homes : p = parent[c]
  <2>1. Undisposed(c)
    BY <1>4 DEF Disposable, Undisposed
  <2>2. parent[c] # None
    BY <1>2, <2>1 DEF LinksOK
  <2> QED
    BY <1>2, <2>2 DEF Kinds
<1>9. PICK l \in LendsOf(Homes) : l = lent[c] /\ l.of \in Homes
  <2>1. p # None
    BY CellsFinite DEF Cells
  <2> QED
    BY <1>2, <1>3, <1>8, <2>1, LendKinds DEF Kinds
<1>10. /\ \A y \in Cells : lent'[y] = IF y = c THEN None ELSE lent[y]
       /\ \A d \in Trees : parent'[d] = IF d = c THEN None ELSE parent[d]
  BY <1>1, <1>2 DEF Kinds
<1>11. \A t \in Tenants : HomeLent(host[t])' = HomeLent(host[t])
  BY <1>1, <1>3, <1>5, <1>10 DEF HomeLent
<1>12. Kinds'
  <2>1. \A y \in held[c] : y.of \in Homes
    BY <1>2, <1>3, LendKinds DEF Kinds
  <2>2. /\ held' \in [Homes -> SUBSET LendsOf(Homes)]
        /\ outlived' \in [Homes -> SUBSET LendsOf(Homes)]
        /\ life' \in [Homes -> {"unborn", "live", "dead", "gone"}]
        /\ parent' \in [Trees -> Homes \cup {None}]
        /\ lent' \in [Cells -> LendsOf(Homes) \cup {None}]
    BY <1>1, <1>2 DEF Kinds
  <2>3. visit' \subseteq Homes
    BY <1>1, <1>2, <1>8, <1>9, <2>1 DEF Kinds, Lenders
  <2>4. \A d \in Trees : (lent'[d] # None) = (parent'[d] # None)
    BY <1>2, <1>3, <1>10 DEF Kinds
  <2> QED
    BY <1>1, <1>2, <1>7, <2>2, <2>3, <2>4 DEF Kinds
<1>13. Tables'
  BY <1>1, <1>2 DEF Tables
<1>14. Exact'
  <2> SUFFICES ASSUME NEW g \in Homes
        PROVE  /\ children'[g] = Cardinality(Kids(g)') /\ tenants'[g] = Cardinality(Guests(g)')
               /\ scratchTenants'[g] = Cardinality(Naming(g)')
               /\ scratchBorrowers'[g] = Cardinality(OnScratch(g)')
               /\ regionBorrowers'[g] = Cardinality(OnRegion(g)') + Cardinality(Counting(g)')
                                            + Cardinality(Holders(g)')
    BY DEF Exact
  <2>0. g # None /\ Scratch(g) # None /\ Region(g) # None
    BY LendKinds, CellsFinite DEF Cells
  <2>1. /\ Kids(g) \ {c} = Kids(g)' \ {c} /\ c \notin Kids(g)'
        /\ c \in Kids(g) <=> g = p
        /\ OnScratch(g) \ {c} = OnScratch(g)' \ {c} /\ c \notin OnScratch(g)'
        /\ c \in OnScratch(g) <=> l = Scratch(g)
        /\ OnRegion(g) \ {c} = OnRegion(g)' \ {c} /\ c \notin OnRegion(g)'
        /\ c \in OnRegion(g) <=> l = Region(g)
    BY <1>3, <1>8, <1>9, <1>10, <2>0 DEF Kids, OnScratch, OnRegion
  <2>2. /\ Kids(g) \in SUBSET Trees /\ Kids(g)' \in SUBSET Trees
        /\ OnScratch(g) \in SUBSET Trees /\ OnScratch(g)' \in SUBSET Trees
        /\ OnRegion(g) \in SUBSET Trees /\ OnRegion(g)' \in SUBSET Trees
    BY DEF Kids, OnScratch, OnRegion
  <2>3. /\ Guests(g)' = Guests(g) /\ Naming(g)' = Naming(g) /\ Counting(g)' = Counting(g)
    BY <1>1, <1>3, <1>10, <1>11 DEF Guests, Naming, NamesScratch, Counting, Counted
  <2>4. children'[g] = Cardinality(Kids(g)')
    <3>1. /\ g = p => Cardinality(Kids(g)') = Cardinality(Kids(g)) - 1
          /\ g # p => Cardinality(Kids(g)') = Cardinality(Kids(g))
      BY <2>1, <2>2, CellsFinite, OneMoves
    <3>2. children'[g] = IF g = p THEN children[g] - 1 ELSE children[g]
      BY <1>1, <1>2, <1>8 DEF Tables
    <3> QED
      BY <1>2, <3>1, <3>2 DEF Exact
  <2>5. scratchBorrowers'[g] = Cardinality(OnScratch(g)')
    <3>1. /\ l = Scratch(g) => Cardinality(OnScratch(g)') = Cardinality(OnScratch(g)) - 1
          /\ l # Scratch(g) => Cardinality(OnScratch(g)') = Cardinality(OnScratch(g))
          /\ Cardinality(OnScratch(g)) \in Nat
      BY <2>1, <2>2, CellsFinite, OneMoves
    <3>2. scratchBorrowers'[g] = scratchBorrowers[g] - One(l = Scratch(g))
      BY <1>1, <1>9
    <3> QED
      BY <1>2, <3>1, <3>2 DEF Exact, One
  <2>6. regionBorrowers'[g] = Cardinality(OnRegion(g)') + Cardinality(Counting(g)')
                                  + Cardinality(Holders(g)')
    <3>1. /\ l = Region(g) => Cardinality(OnRegion(g)') = Cardinality(OnRegion(g)) - 1
          /\ l # Region(g) => Cardinality(OnRegion(g)') = Cardinality(OnRegion(g))
          /\ Cardinality(OnRegion(g)) \in Nat
      BY <2>1, <2>2, CellsFinite, OneMoves
    <3> DEFINE freed == One(Region(g) \in held[c])
    <3>2. /\ Without(held[c])[g] = regionBorrowers[g] - freed
          /\ Cardinality(Holders(g)') = Cardinality(Holders(g)) - freed
      BY <1>1, <1>3, HeldReset
    <3>3. regionBorrowers'[g] = regionBorrowers[g] - freed - One(l = Region(g))
      BY <1>1, <1>9, <3>2
    <3>4. /\ Cardinality(Counting(g)) \in Nat /\ Cardinality(Holders(g)) \in Nat
          /\ freed \in Nat
      BY Families DEF One
    <3>5. regionBorrowers[g] = Cardinality(OnRegion(g)) + Cardinality(Counting(g))
                                   + Cardinality(Holders(g))
      BY <1>2 DEF Exact
    <3> HIDE DEF freed
    <3> QED
      BY <2>3, <3>1, <3>2, <3>3, <3>4, <3>5 DEF One
  <2> QED
    BY <1>1, <1>2, <2>3, <2>4, <2>5, <2>6 DEF Exact
<1>15. LinksOK'
  <2>1. \A d \in Trees : (parent'[d] # None) = Undisposed(d)'
    BY <1>1, <1>2, <1>3, <1>10 DEF LinksOK, Undisposed, Kinds
  <2>2. /\ \A d \in Trees : parent'[d] # None => Undisposed(parent'[d])
        /\ \A d \in Trees : parent'[d] # None => parent'[d] \in Homes \ {c}
        /\ \A t \in Tenants : host[t] # None => Undisposed(host[t]) /\ host[t] \in Homes \ {c}
    BY <1>2, <1>3, <1>5, <1>10 DEF LinksOK, Kinds
  <2>3. /\ \A d \in Trees : parent'[d] # None => Undisposed(parent[d])'
        /\ \A t \in Tenants : host'[t] # None => Undisposed(host[t])'
    <3>1. \A g \in Homes \ {c} : life'[g] = life[g]
      BY <1>1, <1>2 DEF Kinds
    <3> QED
      BY <1>1, <2>2, <3>1 DEF Undisposed
  <2>4. \A t \in Tenants : NamesScratch(t)' <=> NamesScratch(t)
    BY <1>1 DEF NamesScratch
  <2>5. \A t \in Tenants : host'[t] = None => lent'[t] = None /\ ~NamesScratch(t)'
    BY <1>1, <1>2, <1>3, <1>10, <2>4 DEF LinksOK
  <2>6. \A r \in Roots : lent'[r] = None
    BY <1>2, <1>3, <1>10 DEF LinksOK, Cells, Homes
  <2> QED
    BY <2>1, <2>3, <2>5, <2>6 DEF LinksOK
<1>16. LendsOK'
  <2>1. /\ \A g \in Homes : held'[g] \subseteq held[g]
        /\ \A g \in Homes : outlived'[g] \subseteq held'[g]
    BY <1>1, <1>2 DEF LendsOK, Kinds
  <2>2. \A g \in Homes : Scratch(g) # None /\ Region(g) # None
    BY LendKinds
  <2>3. \A d \in Trees, g \in Homes : lent'[d] = Scratch(g) => parent'[d] = g
    BY <1>2, <1>3, <1>10, <2>2 DEF LendsOK
  <2>4. \A t \in Tenants, g \in Homes : lent'[t] = Scratch(g) => lent'[t] = HomeLent(host[t])'
    BY <1>2, <1>3, <1>10, <1>11 DEF LendsOK
  <2>5. \A x \in Cells, g \in Homes : lent'[x] = Region(g) => Undisposed(g)'
    BY <1>2, <1>5, <1>6, <1>10, <2>2 DEF LendsOK
  <2>6. \A f, g \in Homes : Region(g) \in held'[f] => Undisposed(g)'
    BY <1>2, <1>5, <1>6, <2>1 DEF LendsOK
  <2> QED
    BY <1>2, <2>1, <2>3, <2>4, <2>5, <2>6 DEF LendsOK
<1>17. TailOK'
  <2>1. ASSUME tail # None PROVE Live(tail)'
    <3>1. Live(tail) /\ tail # c
      BY <1>2, <1>3, <1>4, <2>1 DEF TailOK, Disposable, Live
    <3>2. life'[tail] = life[tail] \/ tail \notin Homes
      BY <1>1, <1>2, <3>1 DEF Kinds
    <3> QED
      BY <1>1, <1>2, <2>1, <3>1, <3>2 DEF TailOK, Live, Cells
  <2> QED
    BY <1>1, <1>2, <2>1 DEF TailOK
<1> QED
  BY <1>7, <1>12, <1>13, <1>14, <1>15, <1>16, <1>17 DEF Books

\* A step that changes nothing.
LEMMA IdleBooks ==
    ASSUME Books, UNCHANGED vars
    PROVE  Books'
<1>1. /\ life' = life /\ parent' = parent /\ host' = host /\ lent' = lent
      /\ children' = children /\ tenants' = tenants /\ scratchBorrowers' = scratchBorrowers
      /\ scratchTenants' = scratchTenants /\ regionBorrowers' = regionBorrowers /\ held' = held
      /\ stored' = stored /\ holding' = holding /\ run' = run /\ filled' = filled
      /\ pending' = pending /\ freeRuns' = freeRuns /\ tail' = tail /\ visit' = visit
      /\ walk' = walk /\ outlived' = outlived
  BY DEF vars, places, counts, slots
<1>2. Kinds /\ Tables /\ Exact /\ LinksOK /\ LendsOK /\ RunsOK /\ TailOK
  BY DEF Books
<1>3. Kinds' /\ Tables'
  BY <1>1, <1>2 DEF Kinds, Tables, InUse
<1>4. Exact'
  <2>1. \A h \in Homes : /\ Kids(h)' = Kids(h) /\ Guests(h)' = Guests(h)
                         /\ Naming(h)' = Naming(h) /\ OnScratch(h)' = OnScratch(h)
                         /\ OnRegion(h)' = OnRegion(h) /\ Counting(h)' = Counting(h)
                         /\ Holders(h)' = Holders(h)
    BY <1>1 DEF Kids, Guests, Naming, OnScratch, OnRegion, Counting, Holders, NamesScratch,
                Counted, HomeLent
  <2> QED
    BY <1>1, <1>2, <2>1 DEF Exact
<1>5. LinksOK' /\ LendsOK'
  BY <1>1, <1>2 DEF LinksOK, LendsOK, Undisposed, NamesScratch, HomeLent
<1>6. RunsOK'
  BY <1>1, <1>2 DEF RunsOK, Undisposed
<1>7. TailOK'
  BY <1>1, <1>2 DEF TailOK, Live, Disposable
<1> QED
  BY <1>3, <1>4, <1>5, <1>6, <1>7 DEF Books

-----------------------------------------------------------------------------
\* The books of a state say that a reset of a scratch that nothing is counted to name, or
\* that is gone, takes nothing that something names.
LEMMA NoTears ==
    \A h \in Homes : Books /\ (~Undisposed(h) \/ ~ScratchNamed(h)) => ~Tears(h)
<1> SUFFICES ASSUME Books, NEW h \in Homes, ~Undisposed(h) \/ ~ScratchNamed(h), Tears(h)
             PROVE  FALSE
  OBVIOUS
<1>1. Kinds /\ LinksOK /\ LendsOK
  BY DEF Books
<1>2. ASSUME NEW x \in Cells, Live(x), WriteHome(x) = h, NamesScratch(x) PROVE FALSE
  <2>1. /\ Undisposed(h) /\ (x \in Homes => h = x) /\ (x \in Tenants => host[x] = h)
    BY <1>2, WritesThere
  <2>2. ~NamesScratch(h) /\ ~(scratchTenants[h] > 0)
    BY <2>1 DEF ScratchNamed
  <2>3. scratchTenants[h] = 0
    BY <2>2, BooksTypes DEF TypeOK
  <2>4. \A t \in Tenants : ~(host[t] = h /\ NamesScratch(t))
    BY <2>3, Uncounted
  <2> QED
    BY <1>2, <2>1, <2>2, <2>4 DEF Cells
<1>3. ASSUME NEW c \in Trees, lent[c] = Scratch(h) PROVE FALSE
  <2>1. parent[c] = h /\ h # None
    BY <1>1, <1>3, CellsFinite DEF LendsOK, Cells
  <2>2. Undisposed(h)
    BY <1>1, <2>1 DEF LinksOK
  <2>3. scratchBorrowers[h] = 0
    <3>1. ~(scratchBorrowers[h] > 0)
      BY <2>2 DEF ScratchNamed
    <3> QED
      BY <3>1, BooksTypes DEF TypeOK
  <2> QED
    BY <1>3, <2>3, Uncounted
<1>4. ASSUME NEW g \in Homes, HomeLent(g) = Scratch(h) PROVE FALSE
  <2>1. g \in Trees
    BY <1>4, LendKinds DEF HomeLent
  <2> QED
    BY <1>3, <1>4, <2>1 DEF HomeLent
<1>5. ASSUME NEW g \in Homes, Scratch(h) \in MayBorrow(g) PROVE FALSE
  <2>1. CASE Scratch(h) \in outlived[g]
    BY <1>1, <2>1 DEF LendsOK
  <2>2. CASE Scratch(h) = HomeLent(g)
    BY <1>4, <2>2
  <2>3. CASE \E t \in Tenants : host[t] = g /\ Scratch(h) = lent[t]
    <3>1. PICK t \in Tenants : host[t] = g /\ lent[t] = Scratch(h)
      BY <2>3
    <3>2. HomeLent(g) = Scratch(h)
      BY <1>1, <3>1 DEF LendsOK
    <3> QED
      BY <1>4, <3>2
  <2> QED
    BY <1>5, <2>1, <2>2, <2>3 DEF MayBorrow
<1> QED
  BY <1>2, <1>5 DEF Tears

\* No step tears: where it resets a scratch, nothing is counted to name it after.
LEMMA NextTornFree ==
    ASSUME Books, Books', ~torn, [Next]_vars
    PROVE  ~torn'
<1>0. (\A h \in Homes : Books /\ (~Undisposed(h) \/ ~ScratchNamed(h)) => ~Tears(h))'
  BY NoTears, PTL
<1>1. \A h \in Homes : ~Undisposed(h)' \/ ~ScratchNamed(h)' => ~Tears(h)'
  BY <1>0
<1>2. ASSUME NEW x \in Cells, NEW parks \in BOOLEAN, NEW holds \in BOOLEAN,
             NEW takes \in BOOLEAN, NEW registers \in BOOLEAN, NEW files \in BOOLEAN,
             NEW panics \in BOOLEAN, Step(x, parks, holds, takes, registers, files, panics)
      PROVE  ~torn'
  <2>1. PICK h \in Homes : h = WriteHome(x)
    BY <1>2, WritesThere DEF Step
  <2>2. host' = host
    BY <1>2 DEF Step, places
  <2>3. WriteHome(x)' = h
    BY <2>1, <2>2 DEF WriteHome
  <2>4. torn' = torn \/ (~ScratchNamed(WriteHome(x))' /\ torn' = (torn \/ Tears(WriteHome(x))'))
    BY <1>2 DEF Step, ResetScratch
  <2>5. torn' = torn \/ (~ScratchNamed(h)' /\ torn' = (torn \/ Tears(h)'))
    BY <2>3, <2>4 DEF ScratchNamed, Tears, NamesScratch
  <2> QED
    BY <1>1, <2>5
<1>3. ASSUME NEW h \in Homes, SettleDeadScratch(h) PROVE ~torn'
  <2>1. torn' = torn \/ (~ScratchNamed(h) /\ torn' = (torn \/ Tears(h)'))
    BY <1>3 DEF SettleDeadScratch, Settles, ResetScratch
  <2>2. ScratchNamed(h)' <=> ScratchNamed(h)
    BY <1>3 DEF SettleDeadScratch, ScratchNamed, NamesScratch, counts, slots
  <2> QED
    BY <1>1, <2>1, <2>2
<1>4. ASSUME NEW r \in Roots, DisposeRoot(r) PROVE ~torn'
  <2>1. r \in Homes /\ life' = [life EXCEPT ![r] = "gone"] /\ torn' = (torn \/ Tears(r)')
    BY <1>4 DEF DisposeRoot, ResetScratch, Homes
  <2>2. ~Undisposed(r)'
    BY <2>1 DEF Undisposed, Books, Kinds
  <2> QED
    BY <1>1, <2>1, <2>2
<1>5. ASSUME NEW c \in Trees, DisposeTree(c) PROVE ~torn'
  <2>1. c \in Homes /\ life' = [life EXCEPT ![c] = "gone"] /\ torn' = (torn \/ Tears(c)')
    BY <1>5 DEF DisposeTree, ResetScratch, Homes
  <2>2. ~Undisposed(c)'
    BY <2>1 DEF Undisposed, Books, Kinds
  <2> QED
    BY <1>1, <2>1, <2>2
<1>6. ASSUME torn' = torn PROVE ~torn'
  BY <1>6
<1>7. /\ UNCHANGED vars => torn' = torn
      /\ TailLays => torn' = torn
      /\ \A r \in Roots : Create(r) => torn' = torn
      /\ \A h \in Homes : Release(h) => torn' = torn
      /\ \A t \in Tenants : ReleaseTenant(t) => torn' = torn
      /\ \A x \in Cells : Deliver(x) => torn' = torn
  BY DEF vars, TailLays, Create, Release, ReleaseTenant, Deliver
<1>8. /\ \A c \in Trees, x \in Cells, l \in LendsOf(Homes) :
            CreateTree(c, x, l) => torn' = torn
      /\ \A t \in Tenants, x \in Cells, l \in LendsOf(Homes) \cup {None} :
            CreateTenant(t, x, l) => torn' = torn
  BY DEF CreateTree, CreateTenant
<1> QED
  BY <1>2, <1>3, <1>4, <1>5, <1>6, <1>7, <1>8 DEF Next, Cascade

\* The invariant is inductive.
LEMMA NextIInv == IInv /\ [Next]_vars => IInv'
<1> SUFFICES ASSUME IInv, [Next]_vars PROVE IInv'
  OBVIOUS
<1>0. Books /\ ~torn
  BY DEF IInv
<1>1. Books'
  <2>1. ASSUME NEW r \in Roots, Create(r) PROVE Books'
    BY <1>0, <2>1, CreateBooks
  <2>2. ASSUME NEW c \in Trees, NEW x \in Cells, NEW l \in LendsOf(Homes), CreateTree(c, x, l)
        PROVE  Books'
    BY <1>0, <2>2, CreateTreeBooks
  <2>3. ASSUME NEW t \in Tenants, NEW x \in Cells, NEW l \in LendsOf(Homes) \cup {None},
               CreateTenant(t, x, l)
        PROVE  Books'
    BY <1>0, <2>3, CreateTenantBooks
  <2>4. ASSUME NEW x \in Cells, NEW parks \in BOOLEAN, NEW holds \in BOOLEAN,
               NEW takes \in BOOLEAN, NEW registers \in BOOLEAN, NEW files \in BOOLEAN,
               NEW panics \in BOOLEAN, Step(x, parks, holds, takes, registers, files, panics)
        PROVE  Books'
    BY <1>0, <2>4, StepBooks
  <2>5. ASSUME NEW x \in Cells, Deliver(x) PROVE Books'
    BY <1>0, <2>5, DeliverBooks
  <2>6. ASSUME NEW h \in Homes, Release(h) PROVE Books'
    BY <1>0, <2>6, ReleaseBooks
  <2>7. ASSUME NEW t \in Tenants, ReleaseTenant(t) PROVE Books'
    BY <1>0, <2>7, ReleaseTenantBooks
  <2>8. CASE TailLays
    BY <1>0, <2>8, TailLaysBooks
  <2>9. ASSUME NEW h \in Homes, SettleDeadScratch(h) PROVE Books'
    BY <1>0, <2>9, SettleBooks
  <2>10. ASSUME NEW r \in Roots, DisposeRoot(r) PROVE Books'
    BY <1>0, <2>10, DisposeRootBooks
  <2>11. ASSUME NEW c \in Trees, DisposeTree(c) PROVE Books'
    BY <1>0, <2>11, DisposeTreeBooks
  <2>12. CASE UNCHANGED vars
    BY <1>0, <2>12, IdleBooks
  <2> QED
    BY <2>1, <2>2, <2>3, <2>4, <2>5, <2>6, <2>7, <2>8, <2>9, <2>10, <2>11, <2>12 DEF Next, Cascade
<1> QED
  BY <1>0, <1>1, NextTornFree DEF IInv

\* It holds of every state reached.
LEMMA AlwaysIInv == Spec => []IInv
<1> QED
  BY InitBooks, NextIInv, PTL DEF Spec

-----------------------------------------------------------------------------
\* Every count stays a number that is never taken below zero, and every link, lend and run
\* names what there may be.
THEOREM TypeCorrect == Spec => []TypeOK
<1>1. IInv => TypeOK
  BY BooksTypes DEF IInv
<1> QED
  BY <1>1, AlwaysIInv, PTL

\* Every count a disposal waits on is exactly what it stands for, however many cells, tenants
\* and lends there are.
THEOREM CountsHold == Spec => []CountsExact
<1>1. IInv => CountsExact
  BY ExactIs DEF IInv, Books
<1> QED
  BY <1>1, AlwaysIInv, PTL

\* The regions that a scratch may name are there, and no reset has torn anything.
LEMMA BooksLends == IInv => LendsStay
<1> SUFFICES ASSUME IInv, NEW h \in Homes, Undisposed(h), NEW l \in MayBorrow(h), l.half = "region"
             PROVE  Undisposed(l.of)
  BY DEF IInv, LendsStay
<1>1. Kinds /\ LinksOK /\ LendsOK
  BY DEF IInv, Books
<1>2. l \in LendsOf(Homes) /\ (l \in held[h] \/ \E x \in Cells : l = lent[x])
  <2>0. l # None /\ \A t \in Tenants : t \in Cells
    BY DEF MayBorrow, Cells
  <2>1. CASE l \in outlived[h]
    BY <1>1, <2>1 DEF Kinds, LendsOK
  <2>2. CASE l = HomeLent(h)
    <3>1. h \in Cells /\ l = lent[h]
      BY <2>0, <2>2 DEF HomeLent, Cells
    <3> QED
      BY <1>1, <2>0, <3>1 DEF Kinds
  <2>3. CASE \E t \in Tenants : host[t] = h /\ l = lent[t]
    BY <1>1, <2>0, <2>3 DEF Kinds
  <2> QED
    BY <2>1, <2>2, <2>3 DEF MayBorrow
<1>3. l.of \in Homes /\ l = Region(l.of)
  BY <1>2, LendKinds
<1> QED
  BY <1>1, <1>2, <1>3 DEF LendsOK

\* Each run has one owner, and a released one is drained and in a bump that is there.
LEMMA BooksRuns == IInv => RunsSole
<1> SUFFICES ASSUME IInv, NEW r \in Runs
             PROVE  LET cells == {x \in Cells : run[x] = r}
                        homes == {h \in Homes : r \in freeRuns[h]}
                    IN  /\ Cardinality(cells) + Cardinality(homes) <= 1
                        /\ homes # {} => r \notin filled
                        /\ \A h \in homes : Undisposed(h)
  BY DEF RunsSole
<1> DEFINE cells == {x \in Cells : run[x] = r}
           homes == {h \in Homes : r \in freeRuns[h]}
<1>1. RunsOK /\ r # None
  BY CellsFinite DEF IInv, Books
<1>2. (homes # {} => r \notin filled) /\ \A h \in homes : Undisposed(h)
  BY <1>1 DEF RunsOK
<1>3. /\ \A x, y \in cells : x = y
      /\ \A g, h \in homes : g = h
      /\ cells = {} \/ homes = {}
  BY <1>1 DEF RunsOK
<1> HIDE DEF cells, homes
<1>4. ASSUME NEW S, \A x, y \in S : x = y
      PROVE  Cardinality(S) \in {0, 1} /\ (S = {} => Cardinality(S) = 0)
  <2>1. CASE S = {}
    BY <2>1, FS_EmptySet
  <2>2. CASE S # {}
    <3>1. PICK x : S = {x}
      BY <1>4, <2>2
    <3> QED
      BY <2>2, <3>1, FS_Singleton
  <2> QED
    BY <2>1, <2>2
<1>5. /\ Cardinality(cells) \in {0, 1} /\ (cells = {} => Cardinality(cells) = 0)
      /\ Cardinality(homes) \in {0, 1} /\ (homes = {} => Cardinality(homes) = 0)
  BY <1>3, <1>4
<1>6. Cardinality(cells) + Cardinality(homes) <= 1
  BY <1>3, <1>5
<1> QED
  BY <1>2, <1>6 DEF cells, homes

\* What a scratch bump holds for others outlasts their use of it, and no two cells use one
\* run, in a graph of any size and shape, through every panic, release and reset.
THEOREM ScratchHolds == Spec => []ScratchKept
<1>1. IInv => ScratchKept
  BY BooksLends, BooksRuns DEF ScratchKept
<1> QED
  BY <1>1, AlwaysIInv, PTL
====
