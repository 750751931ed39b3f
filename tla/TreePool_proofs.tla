-------------------------- MODULE TreePool_proofs --------------------------
(* The tree pool is well typed, keeps its pledges, leads its keys to where    *)
(* the bytes lie, and implements Retention, for every pool.                   *)
(*                                                                            *)
(* Two links make forests: `parent`, up which pledges reach, and `into`, down *)
(* which tombstones lead.  The first part is about forests alone: what is     *)
(* above a home is the least set closed under the link, a chain, and the      *)
(* recursive functions of TreePool compute it.  The second part is the        *)
(* inductive invariant.  Its heart is `Safe`: whatever reads a home lies in   *)
(* it, below it, or above it no higher than it is pledged; so the disposal of *)
(* a cell with no pledge and no children frees nothing that is still read.    *)
(* The third part draws the theorems from it.                                 *)
EXTENDS TreePool, Counting_proofs

\* Of some tree cells, one was born before the others.
LEMMA FirstTree ==
    ASSUME NEW S \in SUBSET Trees, S # {}
    PROVE  \E c \in S : \A d \in S : c <= d
<1>1. S \in SUBSET Nat
  BY PoolAssumption DEF Trees
<1> QED
  BY <1>1, LeastNat

\* Of some tree cells, one was born after the others.
LEMMA LastTree ==
    ASSUME NEW S \in SUBSET Trees, S # {}
    PROVE  \E c \in S : \A d \in S : d <= c
<1> DEFINE N == {MaxTrees - c : c \in S}
<1>1. N \in SUBSET Nat /\ N # {}
  <2>1. \A c \in S : MaxTrees - c \in Nat
    BY PoolAssumption DEF Trees
  <2> QED
    BY <2>1
<1>2. PICK n \in N : \A m \in N : n <= m
  <2> HIDE DEF N
  <2> QED
    BY <1>1, LeastNat
<1>3. PICK c \in S : n = MaxTrees - c
  BY <1>2
<1>4. \A d \in S : MaxTrees - c <= MaxTrees - d
  BY <1>2, <1>3
<1> QED
  BY <1>4, PoolAssumption DEF Trees

\* A link that leads from each tree cell to one born before it, or to a root (tree.rs: a
\* parent is live when its child is made, and bytes splice into an ancestor).
Forest(up) ==
    /\ up \in [Trees -> Homes \cup {None}]
    /\ \A c \in Trees : up[c] \in Roots \cup {None} \/ (up[c] \in Trees /\ up[c] < c)

\* `h` has something above it.
Linked(up, h) == h \in Trees /\ up[h] # None

\* A set that holds what is above `h`, and what is above each of its members.
ClosedAbove(up, h, S) ==
    /\ Linked(up, h) => up[h] \in S
    /\ \A c \in S : Linked(up, c) => up[c] \in S

\* The homes above `h`: the least set of the kind.  `Above` and `BuriedAt` are recursive
\* functions, and this is what they compute.
Anc(up, h) == {g \in Homes : \A S \in SUBSET Homes : ClosedAbove(up, h, S) => g \in S}

\* The homes above are the one next above, and the homes above that.
LEMMA AncUnfold ==
    ASSUME NEW up, Forest(up), NEW h \in Homes
    PROVE  Anc(up, h) = IF Linked(up, h) THEN {up[h]} \cup Anc(up, up[h]) ELSE {}
<1>1. CASE ~Linked(up, h)
  <2>1. ClosedAbove(up, h, {})
    BY <1>1 DEF ClosedAbove
  <2> QED
    BY <1>1, <2>1 DEF Anc
<1>2. CASE Linked(up, h)
  <2>1. up[h] \in Homes /\ h \in Trees
    BY <1>2 DEF Linked, Forest
  <2> DEFINE U == {up[h]} \cup Anc(up, up[h])
  <2>2. ASSUME NEW S \in SUBSET Homes, ClosedAbove(up, h, S) PROVE U \subseteq S
    <3>1. up[h] \in S /\ ClosedAbove(up, up[h], S)
      BY <1>2, <2>2 DEF ClosedAbove
    <3> QED
      BY <3>1 DEF Anc
  <2>3. ClosedAbove(up, h, U)
    <3> SUFFICES ASSUME NEW c \in U, Linked(up, c) PROVE up[c] \in U
      BY <1>2 DEF ClosedAbove
    <3>1. up[c] \in Homes
      BY DEF Linked, Forest
    <3>2. ASSUME NEW S \in SUBSET Homes, ClosedAbove(up, up[h], S) PROVE up[c] \in S
      BY <3>2 DEF Anc, ClosedAbove
    <3> QED
      BY <3>1, <3>2 DEF Anc
  <2>4. U \in SUBSET Homes
    BY <2>1 DEF Anc
  <2>5. Anc(up, h) \subseteq U
    BY <2>3, <2>4 DEF Anc
  <2>6. U \subseteq Anc(up, h)
    BY <2>2, <2>4 DEF Anc
  <2> QED
    BY <1>2, <2>5, <2>6
<1> QED
  BY <1>1, <1>2

\* One unfolding of `Above`.
AboveFrom(up, f) ==
    [h \in Homes |-> IF h \in Trees /\ up[h] # None THEN {up[h]} \cup f[up[h]] ELSE {}]

\* A recursive function that unfolds like `Above` is determined, and gives the homes above.
LEMMA AncFunction ==
    ASSUME NEW up, Forest(up), NEW f
    PROVE  f = AboveFrom(up, f) <=> f = [h \in Homes |-> Anc(up, h)]
<1> DEFINE g == [h \in Homes |-> Anc(up, h)]
<1>1. g = AboveFrom(up, g)
  <2>1. \A h \in Homes : Linked(up, h) => up[h] \in Homes
    BY DEF Linked, Forest
  <2>2. \A h \in Homes : Anc(up, h) = IF Linked(up, h) THEN {up[h]} \cup Anc(up, up[h]) ELSE {}
    BY AncUnfold
  <2> QED
    BY <2>1, <2>2 DEF AboveFrom, Linked
<1>2. ASSUME f = AboveFrom(up, f) PROVE f = g
  <2>1. \A r \in Homes : ~Linked(up, r) => f[r] = g[r]
    BY <1>1, <1>2 DEF AboveFrom, Linked
  <2> DEFINE Bad == {c \in Trees : f[c] # g[c]}
  <2>2. Bad = {}
    <3> SUFFICES ASSUME Bad # {} PROVE FALSE
      OBVIOUS
    <3>1. PICK c \in Bad : \A d \in Bad : c <= d
      BY FirstTree
    <3>2. Linked(up, c) /\ c \in Homes
      BY <2>1 DEF Homes
    <3>3. f[up[c]] = g[up[c]]
      <4>1. CASE up[c] \in Roots
        <5>1. ~Linked(up, up[c]) /\ up[c] \in Homes
          BY <4>1, PoolAssumption DEF Linked, Trees, Homes
        <5> QED
          BY <2>1, <5>1
      <4>2. CASE up[c] \in Trees /\ up[c] < c
        <5>1. up[c] \in Nat /\ c \in Nat
          BY <4>2, PoolAssumption DEF Trees
        <5> QED
          BY <3>1, <4>2, <5>1
      <4> QED
        BY <3>2, <4>1, <4>2 DEF Forest, Linked
    <3>4. f[c] = {up[c]} \cup f[up[c]] /\ g[c] = {up[c]} \cup g[up[c]]
      BY <1>1, <1>2, <3>2 DEF AboveFrom, Linked
    <3> QED
      BY <3>3, <3>4
  <2>3. f = [h \in Homes |-> f[h]]
    BY <1>2 DEF AboveFrom
  <2>4. \A h \in Homes : f[h] = g[h]
    BY <2>1, <2>2 DEF Linked
  <2> QED
    BY <2>3, <2>4
<1> QED
  BY <1>1, <1>2

\* `Above` is what the walk up the parents meets (tree.rs, `walk_up`), in a state and in
\* the next one.
LEMMA AboveAnc ==
    ASSUME Forest(parent)
    PROVE  Above = [h \in Homes |-> Anc(parent, h)]
<1>1. Above = CHOOSE f : f = AboveFrom(parent, f)
  BY DEF Above, AboveFrom
<1> QED
  BY <1>1, AncFunction

\* The same of the next state.
LEMMA AboveAncNext ==
    ASSUME Forest(parent')
    PROVE  Above' = [h \in Homes |-> Anc(parent', h)]
<1>1. Above' = CHOOSE f : f = AboveFrom(parent', f)
  BY DEF Above, AboveFrom
<1> QED
  BY <1>1, AncFunction

-----------------------------------------------------------------------------
\* What is above `h` was born before it, and `h` is a linked tree cell.
LEMMA AncIn ==
    ASSUME NEW up, Forest(up), NEW h \in Homes, NEW a \in Anc(up, h)
    PROVE  /\ a \in Homes
           /\ Linked(up, h) /\ h \in Trees /\ up[h] \in Homes
           /\ \E c \in Trees : up[c] = a
           /\ a # h
           /\ a \in Trees => a < h
<1>1. Linked(up, h) /\ h \in Trees /\ up[h] \in Homes
  BY AncUnfold DEF Linked, Forest
<1> DEFINE S == {g \in Homes : /\ \E c \in Trees : up[c] = g
                               /\ g \in Roots \/ (g \in Trees /\ g < h)}
<1>2. ClosedAbove(up, h, S)
  <2>1. up[h] \in S
    BY <1>1 DEF Forest, Linked
  <2>2. ASSUME NEW c \in S, Linked(up, c) PROVE up[c] \in S
    <3>1. c \in Trees /\ c < h /\ up[c] \in Homes
      BY <2>2, PoolAssumption DEF Linked, Trees, Forest
    <3>2. up[c] \in Roots \/ (up[c] \in Trees /\ up[c] < c)
      BY <2>2, <3>1 DEF Linked, Forest
    <3>3. ASSUME up[c] \in Trees, up[c] < c PROVE up[c] < h
      BY <1>1, <3>1, <3>3, PoolAssumption DEF Trees
    <3> QED
      BY <3>1, <3>2, <3>3
  <2> QED
    BY <2>1, <2>2 DEF ClosedAbove
<1>3. a \in S
  BY <1>2 DEF Anc
<1>4. a # h /\ (a \in Trees => a < h)
  BY <1>1, <1>3, PoolAssumption DEF Trees
<1> QED
  BY <1>1, <1>3, <1>4

\* Above an ancestor is above.
LEMMA AncTrans ==
    ASSUME NEW up, Forest(up), NEW h \in Homes, NEW a \in Anc(up, h)
    PROVE  Anc(up, a) \subseteq Anc(up, h)
<1> SUFFICES ASSUME NEW b \in Anc(up, a), NEW S \in SUBSET Homes, ClosedAbove(up, h, S)
             PROVE  b \in S
  BY DEF Anc
<1>1. a \in S
  BY DEF Anc
<1>2. ClosedAbove(up, a, S)
  BY <1>1 DEF ClosedAbove
<1> QED
  BY <1>2 DEF Anc

\* The homes above one home form a chain.
LEMMA AncChain ==
    ASSUME NEW up, Forest(up), NEW h \in Homes
    PROVE  \A a, b \in Anc(up, h) : a = b \/ a \in Anc(up, b) \/ b \in Anc(up, a)
<1> DEFINE Chain(g) == \A a, b \in Anc(up, g) : a = b \/ a \in Anc(up, b) \/ b \in Anc(up, a)
           Bad == {c \in Trees : ~Chain(c)}
<1>1. \A g \in Homes : ~Linked(up, g) => Chain(g)
  BY AncUnfold
<1>2. ASSUME NEW g \in Homes, Linked(up, g), Chain(up[g]) PROVE Chain(g)
  <2>1. Anc(up, g) = {up[g]} \cup Anc(up, up[g])
    BY <1>2, AncUnfold
  <2> QED
    BY <1>2, <2>1
<1>3. Bad = {}
  <2> SUFFICES ASSUME Bad # {} PROVE FALSE
    OBVIOUS
  <2>1. PICK c \in Bad : \A d \in Bad : c <= d
    BY FirstTree
  <2>2. Linked(up, c) /\ c \in Homes /\ c \in Trees
    BY <1>1 DEF Homes
  <2>3. Chain(up[c])
    <3>1. CASE up[c] \in Roots
      <4>1. ~Linked(up, up[c]) /\ up[c] \in Homes
        BY <3>1, PoolAssumption DEF Linked, Trees, Homes
      <4> HIDE DEF Chain
      <4> QED
        BY <1>1, <4>1
    <3>2. CASE up[c] \in Trees /\ up[c] < c
      <4>1. up[c] \in Nat /\ c \in Nat
        BY <3>2, PoolAssumption DEF Trees
      <4>2. up[c] \notin Bad
        BY <2>1, <3>2, <4>1
      <4> HIDE DEF Chain
      <4> QED
        BY <3>2, <4>2
    <3> QED
      BY <2>2, <3>1, <3>2 DEF Forest, Linked
  <2>4. Chain(c)
    <3> HIDE DEF Chain
    <3> QED
      BY <1>2, <2>2, <2>3
  <2> QED
    BY <2>4
<1>4. CASE h \in Trees
  BY <1>3, <1>4
<1>5. CASE h \notin Trees
  BY <1>1, <1>5 DEF Linked
<1> QED
  BY <1>4, <1>5

\* There are finitely many homes, so depths are numbers.
LEMMA HomesFinite == IsFiniteSet(Homes) /\ IsFiniteSet(Trees)
<1>1. IsFiniteSet(1 .. MaxTrees)
  BY PoolAssumption, FS_Interval
<1> QED
  BY <1>1, PoolAssumption, FS_Union DEF Homes, Trees

\* An ancestor is less deep.
LEMMA AncDepth ==
    ASSUME NEW up, Forest(up), NEW h \in Homes, NEW a \in Anc(up, h)
    PROVE  /\ Cardinality(Anc(up, a)) \in Nat /\ Cardinality(Anc(up, h)) \in Nat
           /\ Cardinality(Anc(up, a)) < Cardinality(Anc(up, h))
<1>1. Anc(up, a) \subseteq Anc(up, h) /\ Anc(up, h) \in SUBSET Homes /\ a \in Homes
  BY AncTrans DEF Anc
<1>2. a \notin Anc(up, a)
  BY <1>1, AncIn
<1>3. IsFiniteSet(Anc(up, h))
  BY <1>1, HomesFinite, FS_Subset
<1>4. IsFiniteSet(Anc(up, a))
  BY <1>1, <1>3, FS_Subset
<1>5. Cardinality(Anc(up, a)) <= Cardinality(Anc(up, h))
  BY <1>1, <1>3, FS_Subset
<1>6. Cardinality(Anc(up, a)) # Cardinality(Anc(up, h))
  BY <1>1, <1>2, <1>3, FS_Subset
<1> QED
  BY <1>3, <1>4, <1>5, <1>6, FS_CardinalityType

\* Of two homes on one chain, the deeper is below the other.
LEMMA AncOrder ==
    ASSUME NEW up, Forest(up), NEW h \in Homes, NEW a \in Anc(up, h), NEW b \in Anc(up, h)
    PROVE  Cardinality(Anc(up, a)) > Cardinality(Anc(up, b)) <=> b \in Anc(up, a)
<1>1. a \in Homes /\ b \in Homes
  BY DEF Anc
<1>2. a = b \/ a \in Anc(up, b) \/ b \in Anc(up, a)
  BY AncChain
<1>3. IsFiniteSet(Anc(up, a)) /\ IsFiniteSet(Anc(up, b))
  <2>1. Anc(up, a) \in SUBSET Homes /\ Anc(up, b) \in SUBSET Homes
    BY DEF Anc
  <2> QED
    BY <2>1, HomesFinite, FS_Subset
<1>4. Cardinality(Anc(up, a)) \in Nat /\ Cardinality(Anc(up, b)) \in Nat
  BY <1>3, FS_CardinalityType
<1>5. a = b => Cardinality(Anc(up, a)) = Cardinality(Anc(up, b)) /\ b \notin Anc(up, a)
  BY <1>1, AncIn
<1>6. a \in Anc(up, b) => Cardinality(Anc(up, a)) < Cardinality(Anc(up, b))
  BY <1>1, AncDepth
<1>7. b \in Anc(up, a) => Cardinality(Anc(up, b)) < Cardinality(Anc(up, a))
  BY <1>1, AncDepth
<1> QED
  BY <1>2, <1>4, <1>5, <1>6, <1>7

\* Where an end of a chain is linked, cut or moved, the chains of the others stay.
LEMMA AncSame ==
    ASSUME NEW up, NEW new, Forest(up), Forest(new), NEW c \in Trees,
           \A x \in Trees : up[x] # c /\ new[x] # c,
           \A x \in Trees \ {c} : new[x] = up[x],
           NEW h \in Homes, h # c
    PROVE  Anc(new, h) = Anc(up, h)
<1>1. c \notin Anc(up, h) /\ c \notin Anc(new, h)
  BY AncIn
<1>2. ASSUME NEW f, NEW g, Forest(f), Forest(g), c \notin Anc(f, h),
             \A x \in Trees \ {c} : g[x] = f[x]
      PROVE  Anc(g, h) \subseteq Anc(f, h)
  <2>1. ClosedAbove(f, h, Anc(f, h))
    <3>1. Linked(f, h) => f[h] \in Anc(f, h)
      BY <1>2, AncUnfold
    <3>2. ASSUME NEW x \in Anc(f, h), Linked(f, x) PROVE f[x] \in Anc(f, h)
      <4>1. x \in Homes /\ f[x] \in Anc(f, x)
        BY <1>2, <3>2, AncUnfold DEF Anc
      <4> QED
        BY <1>2, <4>1, AncTrans
    <3> QED
      BY <3>1, <3>2 DEF ClosedAbove
  <2>2. ClosedAbove(g, h, Anc(f, h))
    BY <1>2, <2>1 DEF ClosedAbove, Linked
  <2>3. Anc(f, h) \in SUBSET Homes
    BY DEF Anc
  <2> QED
    BY <2>2, <2>3 DEF Anc
<1>3. Anc(new, h) \subseteq Anc(up, h)
  BY <1>1, <1>2
<1>4. Anc(up, h) \subseteq Anc(new, h)
  BY <1>1, <1>2
<1> QED
  BY <1>3, <1>4

-----------------------------------------------------------------------------
\* `x` reads what lies in `y`: of `y` itself, of an ancestor of its own, or of a cell below
\* it that is pledged at least as far up as it.
Safe(x, y) ==
    \/ x = y
    \/ y \in Anc(parent, x)
    \/ y \in Trees /\ x \in Anc(parent, y) /\ pledge[y] \in {x} \cup Anc(parent, x)

\* The links: each tree cell lies under one born before it that is not yet disposed, births
\* are in order, and a home's count is the number of its children (tree.rs, `drop_child`).
Shape ==
    /\ Forest(parent)
    /\ \A c \in Trees : parent[c] # None => Undisposed(parent[c])
    /\ \A h \in Homes : tenants[h] > 0 => Undisposed(h)
    /\ \A b, c \in Trees : b < c /\ life[c] # "unborn" => life[b] # "unborn"
    /\ \A h \in Homes : children[h] = Cardinality({c \in Trees : parent[c] = h})

\* PledgesReach in terms of the chain alone, with no depth compared.
PledgeOK ==
    \A c \in Trees : pledge[c] # None =>
        /\ pledge[c] \in Anc(parent, c)
        /\ \A i \in Anc(parent, c) \cap Trees : pledge[c] \in Anc(parent, i) =>
                pledge[i] \in {pledge[c]} \cup Anc(parent, pledge[c])

\* Bytes lie where they were written until they move, and always in a home that is there.
LiesOK ==
    /\ \A h \in Homes : Undisposed(h) \/ life[h] = "elsewhere" => lies[h] = h
    /\ \A h \in Homes : life[h] = "unborn" => lies[h] = None
    /\ \A b \in Homes : lies[b] # None => Undisposed(lies[b]) \/ life[lies[b]] = "elsewhere"

\* What makes a disposal harmless: every read that is remembered is a safe one.
ReadsOK ==
    \A e \in reads : /\ lies[e[1]] # None /\ lies[e[2]] # None
                     /\ Safe(lies[e[1]], lies[e[2]])

\* The tombstones: each list is the inverse of `into`, and both ends of an entry lie in one
\* home.  A key names a birth that has happened, and a freed cell lies nowhere.
GravesOK ==
    /\ Forest(into)
    /\ \A c \in Trees : into[c] # None <=> life[c] = "tombstone"
    /\ \A c \in Trees : into[c] # None => /\ lies[c] = lies[into[c]] /\ lies[c] # None
                                          /\ life[into[c]] \notin {"unborn", "free"}
    /\ \A h \in Homes : tombstones[h] = {c \in Trees : into[c] = h}
    /\ \A c \in kept : life[c] # "unborn" /\ (life[c] = "free" => lies[c] = None)
    /\ \A c \in Trees : life[c] # "elsewhere"
    /\ \A r \in Roots : life[r] # "tombstone"

\* The inductive invariant.
IInv == TypeOK /\ Shape /\ PledgeOK /\ LiesOK /\ ReadsOK /\ GravesOK

-----------------------------------------------------------------------------
\* A home whose count is zero is above nothing.
LEMMA Childless ==
    ASSUME TypeOK, Shape, NEW h \in Homes, children[h] = 0
    PROVE  /\ \A c \in Trees : parent[c] # h
           /\ \A x \in Homes : h \notin Anc(parent, x)
<1> DEFINE C == {c \in Trees : parent[c] = h}
<1>1. IsFiniteSet(C)
  BY HomesFinite, FS_Subset
<1>2. Cardinality(C) = 0
  BY DEF Shape
<1>3. C = {}
  BY <1>1, <1>2, FS_EmptySet
<1> QED
  BY <1>3, AncIn DEF Shape

\* The tombstones that lead to a home are those on its list, and those on theirs.
BuriedFrom(f) ==
    [h \in Homes |-> tombstones[h] \cup UNION {f[c] : c \in tombstones[h]}]

\* `BuriedAt` is determined: the tombstones that have the home above them.
LEMMA BuriedAnc ==
    ASSUME TypeOK, GravesOK
    PROVE  BuriedAt = [h \in Homes |-> {c \in Trees : h \in Anc(into, c)}]
<1> DEFINE g == [h \in Homes |-> {c \in Trees : h \in Anc(into, c)}]
<1>0. Forest(into)
  BY DEF GravesOK
<1>1. ASSUME NEW h \in Homes
      PROVE  /\ tombstones[h] = {c \in Trees : into[c] = h}
             /\ \A c \in tombstones[h] : c \in Homes /\ (h \in Trees => h < c)
  <2>1. tombstones[h] = {c \in Trees : into[c] = h}
    BY DEF GravesOK
  <2>2. \A c \in Trees : into[c] = h /\ h \in Trees => h < c
    BY <1>0, PoolAssumption DEF Forest, Trees, Homes
  <2> QED
    BY <2>1, <2>2 DEF Homes
<1>2. g = BuriedFrom(g)
  <2>1. ASSUME NEW h \in Homes
        PROVE  g[h] = tombstones[h] \cup UNION {g[c] : c \in tombstones[h]}
    <3>1. ASSUME NEW c \in g[h] PROVE c \in tombstones[h] \/ \E d \in tombstones[h] : c \in g[d]
      <4>1. c \in Trees /\ h \in Anc(into, c) /\ c \in Homes
        BY DEF Homes
      <4>2. ASSUME \A d \in tombstones[h] : c \notin g[d], into[c] # h PROVE FALSE
        <5> DEFINE T == Anc(into, c) \ {h}
        <5>1. ClosedAbove(into, c, T)
          <6>1. Linked(into, c) => into[c] \in T
            BY <1>0, <4>1, <4>2, AncUnfold
          <6>2. ASSUME NEW a \in T, Linked(into, a) PROVE into[a] \in T
            <7>1. a \in Homes /\ into[a] \in Anc(into, a) /\ a \in Trees
              BY <1>0, <6>2, AncUnfold DEF Anc, Linked
            <7>2. into[a] \in Anc(into, c)
              BY <1>0, <4>1, <7>1, AncTrans
            <7>3. into[a] # h
              BY <1>1, <4>1, <4>2, <7>1
            <7> QED
              BY <7>2, <7>3
          <6> QED
            BY <6>1, <6>2 DEF ClosedAbove
        <5>2. T \in SUBSET Homes
          BY DEF Anc
        <5>3. Anc(into, c) \subseteq T
          BY <5>1, <5>2 DEF Anc
        <5> QED
          BY <4>1, <5>3
      <4> QED
        BY <1>1, <4>1, <4>2
    <3>2. ASSUME NEW c \in tombstones[h] PROVE c \in g[h] /\ g[c] \subseteq g[h]
      <4>1. c \in Trees /\ into[c] = h /\ c \in Homes /\ Linked(into, c)
        BY <1>1, <3>2, PoolAssumption DEF Linked, Homes
      <4>2. h \in Anc(into, c)
        BY <1>0, <4>1, AncUnfold
      <4>3. ASSUME NEW d \in Trees, c \in Anc(into, d) PROVE h \in Anc(into, d)
        BY <1>0, <4>2, <4>3, AncTrans DEF Homes
      <4> QED
        BY <4>1, <4>2, <4>3
    <3> HIDE DEF g
    <3> QED
      BY <3>1, <3>2
  <2> HIDE DEF g
  <2>2. g = [h \in Homes |-> g[h]]
    BY DEF g
  <2> QED
    BY <2>1, <2>2 DEF BuriedFrom
<1>3. ASSUME NEW f, f = BuriedFrom(f) PROVE f = g
  <2>1. ASSUME NEW h \in Homes, \A c \in tombstones[h] : f[c] = g[c] PROVE f[h] = g[h]
    <3>1. f[h] = tombstones[h] \cup UNION {f[c] : c \in tombstones[h]}
      BY <1>3 DEF BuriedFrom
    <3>2. g[h] = tombstones[h] \cup UNION {g[c] : c \in tombstones[h]}
      BY <1>2 DEF BuriedFrom
    <3> HIDE DEF g
    <3> QED
      BY <2>1, <3>1, <3>2
  <2> HIDE DEF g
  <2> DEFINE Bad == {c \in Trees : f[c] # g[c]}
  <2>2. Bad = {}
    <3> SUFFICES ASSUME Bad # {} PROVE FALSE
      OBVIOUS
    <3>1. PICK c \in Bad : \A d \in Bad : d <= c
      BY LastTree
    <3>2. ASSUME NEW d \in tombstones[c] PROVE f[d] = g[d]
      <4>1. d \in Trees /\ c < d /\ c \in Nat /\ d \in Nat
        BY <1>1, <3>2, PoolAssumption DEF Homes, Trees
      <4> QED
        BY <3>1, <4>1
    <3> QED
      BY <2>1, <3>1, <3>2 DEF Homes
  <2>3. \A c \in Trees : f[c] = g[c]
    BY <2>2
  <2>4. \A h \in Homes : f[h] = g[h]
    BY <1>1, <2>1, <2>3
  <2>5. f = [h \in Homes |-> f[h]] /\ g = [h \in Homes |-> g[h]]
    BY <1>3 DEF BuriedFrom, g
  <2> QED
    BY <2>4, <2>5
<1>4. BuriedAt = CHOOSE f : f = BuriedFrom(f)
  BY DEF BuriedAt, BuriedFrom
<1> HIDE DEF g
<1>5. BuriedAt = g
  BY <1>2, <1>3, <1>4
<1> QED
  BY <1>5 DEF g

-----------------------------------------------------------------------------
\* What a tombstone leads to, it lies with, and it leads all the way to where it lies.
LEMMA LiesAlong ==
    ASSUME TypeOK, GravesOK, NEW c \in Trees, NEW g \in Anc(into, c)
    PROVE  lies[g] = lies[c] /\ into[c] # None
<1> DEFINE S == {a \in Homes : lies[a] = lies[c]}
<1>1. into[c] # None
  BY AncIn DEF GravesOK, Homes, Linked
<1>2. \A a \in S : Linked(into, a) => into[a] \in S
  BY DEF GravesOK, Linked, Forest
<1>3. c \in S
  BY DEF Homes
<1>4. ClosedAbove(into, c, S)
  BY <1>2, <1>3 DEF ClosedAbove
<1> QED
  BY <1>1, <1>4 DEF Anc

\* Where a tombstone's bytes lie is one of the homes it leads to.
LEMMA LiesAtEnd ==
    ASSUME TypeOK, LiesOK, GravesOK, NEW c \in Trees, into[c] # None
    PROVE  lies[c] \in Anc(into, c)
<1>0. Forest(into)
  BY DEF GravesOK
<1> DEFINE Bad == {d \in Trees : into[d] # None /\ lies[d] \notin Anc(into, d)}
<1>1. Bad = {}
  <2> SUFFICES ASSUME Bad # {} PROVE FALSE
    OBVIOUS
  <2>1. PICK d \in Bad : \A e \in Bad : d <= e
    BY FirstTree
  <2>2. /\ d \in Homes /\ into[d] \in Homes
        /\ Anc(into, d) = {into[d]} \cup Anc(into, into[d])
        /\ lies[d] = lies[into[d]]
    BY <1>0, AncUnfold DEF GravesOK, Homes, Linked, Forest
  <2>3. CASE into[d] \in Trees /\ into[into[d]] # None
    <3>1. into[d] < d /\ into[d] \in Nat /\ d \in Nat
      BY <1>0, <2>3, PoolAssumption DEF Forest, Trees
    <3> QED
      BY <2>1, <2>2, <2>3, <3>1
  <2>4. CASE ~(into[d] \in Trees /\ into[into[d]] # None)
    <3>1. Undisposed(into[d]) \/ life[into[d]] = "elsewhere"
      BY <2>2, <2>4 DEF TypeOK, GravesOK, Undisposed, Homes
    <3> QED
      BY <2>2, <3>1 DEF LiesOK
  <2> QED
    BY <2>3, <2>4
<1> QED
  BY <1>1

\* What is freed with a home: it, and the tombstones that lie there.
LEMMA FreedWith ==
    ASSUME TypeOK, LiesOK, GravesOK, NEW gone \in Homes, lies[gone] = gone
    PROVE  BuriedAt[gone] = {c \in Trees : into[c] # None /\ lies[c] = gone}
<1>1. BuriedAt[gone] = {c \in Trees : gone \in Anc(into, c)}
  BY BuriedAnc
<1> QED
  BY <1>1, LiesAlong, LiesAtEnd

\* Freeing a home whose storage goes to `dest`, or nowhere.
LEMMA FreeKeeps ==
    ASSUME TypeOK, LiesOK, GravesOK,
           NEW gone \in Homes, Undisposed(gone) \/ life[gone] = "elsewhere",
           NEW dest \in Homes \cup {None},
           dest # None => /\ Undisposed(dest) /\ dest # gone
                          /\ tombstones[gone] = {} /\ gone \notin kept,
           Free(gone), kept' = kept,
           lies' = [b \in Homes |-> IF lies[b] = gone THEN dest ELSE lies[b]]
    PROVE  /\ GravesOK' /\ LiesOK'
           /\ life' \in [Homes -> {"unborn", "live", "dead", "tombstone", "elsewhere", "free"}]
           /\ into' \in [Trees -> Homes \cup {None}] /\ tombstones' \in [Homes -> SUBSET Trees]
           /\ lies' \in [Homes -> Homes \cup {None}]
           /\ \A h \in Homes : Undisposed(h)' <=> Undisposed(h) /\ h # gone
           /\ \A c \in Trees : life'[c] # "unborn" <=> life[c] # "unborn"
<1> DEFINE F == {gone} \cup {c \in Trees : into[c] # None /\ lies[c] = gone}
<1>0. lies[gone] = gone /\ (gone \in Trees => into[gone] = None)
  BY DEF LiesOK, GravesOK, Undisposed
<1>1. /\ life' = [h \in Homes |-> IF h \in F THEN "free" ELSE life[h]]
      /\ tombstones' = [h \in Homes |-> IF h \in F THEN {} ELSE tombstones[h]]
      /\ into' = [c \in Trees |-> IF c \in F THEN None ELSE into[c]]
  BY <1>0, FreedWith DEF Free
<1>2. \A c \in F : c # gone => c \in Trees /\ life[c] = "tombstone" /\ into[c] # None
  BY DEF GravesOK
<1>3. \A c \in Trees : into[c] # None /\ into[c] \in F => c \in F
  BY <1>0, <1>2 DEF GravesOK
<1>4. \A c \in Trees : into[c] # None /\ c \notin F => into[c] \notin F
  BY <1>3
<1>5. \A c \in Trees : into[c] # None => into[c] \in Homes
  BY DEF TypeOK
<1>6. dest # None => F = {gone}
  <2>1. ASSUME dest # None, NEW c \in Trees PROVE gone \notin Anc(into, c)
    BY <2>1, AncIn DEF GravesOK, Homes
  <2>2. ASSUME dest # None, NEW c \in Trees, into[c] # None, lies[c] = gone PROVE FALSE
    BY <2>1, <2>2, LiesAtEnd
  <2> QED
    BY <2>2
<1>11. \A c \in Trees : into[c] # None /\ c \in F => into[c] \in F
  <2> SUFFICES ASSUME NEW c \in Trees, into[c] # None, c \in F PROVE into[c] \in F
    OBVIOUS
  <2>1. lies[c] = gone /\ lies[into[c]] = gone /\ into[c] \in Homes
    BY <1>0, <1>5 DEF GravesOK
  <2>2. CASE into[c] \in Trees /\ into[into[c]] # None
    BY <2>1, <2>2
  <2>3. CASE ~(into[c] \in Trees /\ into[into[c]] # None)
    <3>1. Undisposed(into[c]) \/ life[into[c]] = "elsewhere"
      BY <2>1, <2>3 DEF TypeOK, GravesOK, Undisposed, Homes
    <3> QED
      BY <2>1, <3>1 DEF LiesOK
  <2> QED
    BY <2>2, <2>3
<1>12. \A c \in Trees \ F : lies[c] = gone => into[c] = None
  OBVIOUS
<1>13. gone \in F /\ (dest # None => dest \notin F)
  BY <1>6
<1>14. \A c \in F : lies[c] = gone
  BY <1>0
<1> HIDE DEF F
<1>7. /\ life' \in [Homes -> {"unborn", "live", "dead", "tombstone", "elsewhere", "free"}]
      /\ into' \in [Trees -> Homes \cup {None}] /\ tombstones' \in [Homes -> SUBSET Trees]
      /\ lies' \in [Homes -> Homes \cup {None}]
  BY <1>1 DEF TypeOK
<1>8. \A h \in Homes : Undisposed(h)' <=> Undisposed(h) /\ h # gone
  BY <1>1, <1>2 DEF Undisposed, F
<1>9. GravesOK'
  <2>1. Forest(into)'
    BY <1>1, <1>7 DEF GravesOK, Forest
  <2>2. \A c \in Trees : into'[c] # None <=> life'[c] = "tombstone"
    BY <1>1 DEF GravesOK, Homes
  <2>3. \A c \in Trees : into'[c] # None => /\ lies'[c] = lies'[into'[c]] /\ lies'[c] # None
                                            /\ life'[into'[c]] \notin {"unborn", "free"}
    <3> SUFFICES ASSUME NEW c \in Trees, into'[c] # None
                 PROVE  /\ lies'[c] = lies'[into'[c]] /\ lies'[c] # None
                        /\ life'[into'[c]] \notin {"unborn", "free"}
      OBVIOUS
    <3>1. c \notin F /\ into'[c] = into[c] /\ into[c] \notin F /\ into[c] \in Homes
      BY <1>1, <1>4, <1>5
    <3>2. lies[c] # gone
      BY <1>12, <3>1
    <3> QED
      BY <1>1, <3>1, <3>2 DEF GravesOK, Homes
  <2>4. \A h \in Homes : tombstones'[h] = {c \in Trees : into'[c] = h}
    <3> SUFFICES ASSUME NEW h \in Homes PROVE tombstones'[h] = {c \in Trees : into'[c] = h}
      OBVIOUS
    <3>0. h # None
      BY PoolAssumption
    <3>1. CASE h \in F
      <4>1. \A c \in Trees : into'[c] # h
        BY <1>1, <1>3, <3>0, <3>1
      <4> QED
        BY <1>1, <3>1, <4>1
    <3>2. CASE h \notin F
      <4>1. \A c \in Trees : into'[c] = h <=> into[c] = h
        BY <1>1, <1>11, <3>0, <3>2
      <4> QED
        BY <1>1, <3>2, <4>1 DEF GravesOK
    <3> QED
      BY <3>1, <3>2
  <2>5. \A c \in kept' : life'[c] # "unborn" /\ (life'[c] = "free" => lies'[c] = None)
    <3> SUFFICES ASSUME NEW c \in kept
                 PROVE  life'[c] # "unborn" /\ (life'[c] = "free" => lies'[c] = None)
      OBVIOUS
    <3>1. c \in Homes /\ c \in Trees
      BY DEF TypeOK, Homes
    <3>2. CASE c \in F
      <4>1. dest = None
        BY <1>6, <3>2
      <4> QED
        BY <1>1, <1>14, <3>1, <3>2, <4>1
    <3>3. CASE c \notin F
      <4>1. life'[c] = life[c] /\ None # gone
        BY <1>1, <3>1, <3>3, PoolAssumption
      <4> QED
        BY <3>1, <4>1 DEF GravesOK
    <3> QED
      BY <3>2, <3>3
  <2>6. /\ \A c \in Trees : life'[c] # "elsewhere"
        /\ \A r \in Roots : life'[r] # "tombstone"
    BY <1>1 DEF GravesOK, Homes
  <2> QED
    BY <2>1, <2>2, <2>3, <2>4, <2>5, <2>6 DEF GravesOK
<1>10. LiesOK'
  <2>1. \A h \in Homes : (Undisposed(h) \/ life[h] = "elsewhere")' => lies'[h] = h
    BY <1>1, <1>13 DEF LiesOK, Undisposed
  <2>2. \A h \in Homes : life'[h] = "unborn" => lies'[h] = None
    BY <1>1, PoolAssumption DEF LiesOK
  <2>3. \A b \in Homes : lies'[b] # None => (Undisposed(lies[b]) \/ life[lies[b]] = "elsewhere")'
    <3> SUFFICES ASSUME NEW b \in Homes, lies'[b] # None
                 PROVE  life'[lies'[b]] \in {"live", "dead", "elsewhere"}
      BY DEF Undisposed
    <3>1. CASE lies[b] = gone
      <4>1. lies'[b] = dest /\ dest # None
        BY <3>1
      <4> QED
        BY <1>1, <1>13, <4>1 DEF Undisposed
    <3>2. CASE lies[b] # gone
      <4>1. lies'[b] = lies[b] /\ lies[b] \in Homes
        BY <3>2 DEF TypeOK
      <4>2. life[lies[b]] \in {"live", "dead", "elsewhere"}
        BY <4>1, PoolAssumption DEF LiesOK, Undisposed
      <4>3. lies[b] \notin F
        BY <1>2, <3>2, <4>2
      <4> QED
        BY <1>1, <4>1, <4>2, <4>3
    <3> QED
      BY <3>1, <3>2
  <2> QED
    BY <2>1, <2>2, <2>3 DEF LiesOK
<1>15. \A c \in Trees : life'[c] # "unborn" <=> life[c] # "unborn"
  <2>1. \A c \in F : life[c] # "unborn"
    BY <1>2 DEF Undisposed
  <2> QED
    BY <1>1, <2>1 DEF Homes
<1> QED
  BY <1>7, <1>8, <1>9, <1>10, <1>15

-----------------------------------------------------------------------------
\* What an action may read of the links: those who are above, and no more.
LEMMA AboveIs ==
    ASSUME IInv
    PROVE  /\ Forest(parent)
           /\ \A h \in Homes : Above[h] = Anc(parent, h)
           /\ \A h \in Homes : Depth(h) = Cardinality(Anc(parent, h))
           /\ \A c \in Trees : pledge[c] # None => /\ pledge[c] \in Anc(parent, c)
                                                   /\ Undisposed(c)
           /\ \A h \in Homes : \A a \in Anc(parent, h) : Undisposed(a) /\ Undisposed(h)
<1>1. Forest(parent) /\ TypeOK /\ Shape /\ PledgeOK
  BY DEF IInv, Shape
<1>2. Above = [h \in Homes |-> Anc(parent, h)]
  BY <1>1, AboveAnc
<1>3. ASSUME NEW h \in Homes, NEW a \in Anc(parent, h) PROVE Undisposed(a) /\ Undisposed(h)
  <2>1. h \in Trees /\ parent[h] # None /\ \E c \in Trees : parent[c] = a
    BY <1>1, <1>3, AncIn DEF Linked
  <2>2. a # None
    BY <1>3, PoolAssumption DEF Anc
  <2> QED
    BY <1>1, <2>1, <2>2 DEF TypeOK, Shape
<1>4. \A c \in Trees : pledge[c] # None => pledge[c] \in Anc(parent, c) /\ Undisposed(c)
  BY <1>1, <1>3 DEF PledgeOK, Homes
<1> QED
  BY <1>1, <1>2, <1>3, <1>4 DEF Depth

\* A home that can be named is there, with its own bytes in it.
LEMMA NamedThere ==
    ASSUME IInv, NEW h \in Homes, Named(h)
    PROVE  Undisposed(h) /\ lies[h] = h
BY DEF IInv, Shape, LiesOK, Named, Undisposed

\* The empty pool.
LEMMA InitIInv == Init => IInv
<1> SUFFICES ASSUME Init PROVE IInv
  OBVIOUS
<1>1. \A c \in Trees : c \in Homes
  BY DEF Homes
<1>2. TypeOK
  BY <1>1 DEF Init, TypeOK, Undisposed
<1>3. Shape
  <2>1. {c \in Trees : parent[c] = None} \subseteq Trees
    OBVIOUS
  <2>2. ASSUME NEW h \in Homes PROVE children[h] = Cardinality({c \in Trees : parent[c] = h})
    <3>1. {c \in Trees : parent[c] = h} = {}
      BY PoolAssumption DEF Init
    <3> QED
      BY <3>1, FS_EmptySet DEF Init
  <2> QED
    BY <1>1, <2>2 DEF Init, Shape, Forest
<1>4. PledgeOK /\ ReadsOK
  BY DEF Init, PledgeOK, ReadsOK
<1>5. LiesOK
  BY DEF Init, LiesOK, Undisposed
<1>6. GravesOK
  BY <1>1, PoolAssumption DEF Init, GravesOK, Forest, Homes
<1> QED
  BY <1>2, <1>3, <1>4, <1>5, <1>6 DEF IInv

-----------------------------------------------------------------------------
\* Steps that change none of the links, nor what lies where.
LEMMA PlainIInv ==
    ASSUME IInv, UNCHANGED <<parent, children, pledge, graves, history>>,
           tenants' \in [Homes -> Nat], kept' \subseteq Trees, walk' \in Homes \cup {None},
           life' \in [Homes -> {"unborn", "live", "dead", "tombstone", "elsewhere", "free"}],
           \A h \in Homes : life'[h] # life[h] =>
                \/ life[h] = "live" /\ life'[h] = "dead"
                \/ h \in Roots /\ life'[h] = "elsewhere" /\ Undisposed(h)
                               /\ children[h] = 0 /\ tenants'[h] = 0,
           \A h \in Homes : tenants'[h] > 0 => Undisposed(h),
           \A c \in kept' \ kept : Undisposed(c)
    PROVE  IInv'
<1>0. TypeOK /\ Shape /\ PledgeOK /\ LiesOK /\ ReadsOK /\ GravesOK
  BY DEF IInv
<1>1. /\ parent' = parent /\ children' = children /\ pledge' = pledge
      /\ into' = into /\ tombstones' = tombstones /\ lies' = lies /\ reads' = reads
  BY DEF graves, history
<1>2. \A c \in Trees : c \in Homes /\ c \notin Roots
  BY PoolAssumption DEF Homes, Trees
<1>3. \A c \in Trees : Undisposed(c)' <=> Undisposed(c)
  BY <1>2 DEF Undisposed
<1>4. TypeOK'
  <2>1. \A c \in Trees : (parent'[c] # None) = Undisposed(c)'
    BY <1>0, <1>1, <1>3 DEF TypeOK, Undisposed
  <2> QED
    BY <1>0, <1>1, <2>1 DEF TypeOK
<1>5. Shape'
  <2>1. \A c \in Trees : parent[c] # None => Undisposed(parent[c])'
    <3> SUFFICES ASSUME NEW c \in Trees, parent[c] # None PROVE Undisposed(parent[c])'
      OBVIOUS
    <3>1. parent[c] \in Homes /\ Undisposed(parent[c])
      BY <1>0 DEF TypeOK, Shape
    <3>2. children[parent[c]] # 0
      BY <1>0, <3>1, Childless
    <3> QED
      BY <3>1, <3>2 DEF Undisposed
  <2>2. \A h \in Homes : tenants'[h] > 0 => Undisposed(h)'
    BY <1>0 DEF Undisposed
  <2>3. \A b, c \in Trees : b < c /\ life'[c] # "unborn" => life'[b] # "unborn"
    BY <1>0, <1>2 DEF Shape, Undisposed
  <2> QED
    BY <1>0, <1>1, <2>1, <2>2, <2>3 DEF Shape
<1>6. PledgeOK'
  BY <1>0, <1>1 DEF PledgeOK
<1>7. LiesOK'
  <2>1. \A h \in Homes : (Undisposed(h) \/ life[h] = "elsewhere")'
                         <=> Undisposed(h) \/ life[h] = "elsewhere"
    BY <1>2 DEF Undisposed
  <2>2. \A h \in Homes : life'[h] = "unborn" => life[h] = "unborn"
    OBVIOUS
  <2>3. \A b \in Homes : lies[b] # None => lies[b] \in Homes
    BY <1>0 DEF TypeOK
  <2> QED
    BY <1>0, <1>1, <2>1, <2>2, <2>3 DEF LiesOK
<1>8. ReadsOK'
  BY <1>0, <1>1 DEF ReadsOK, Safe
<1>9. GravesOK'
  <2>1. \A h \in Homes : (life'[h] \in {"unborn", "free"} <=> life[h] \in {"unborn", "free"})
                         /\ (life'[h] = "tombstone" <=> life[h] = "tombstone")
    BY DEF Undisposed
  <2>2. \A c \in Trees : into[c] # None => into[c] \in Homes
    BY <1>0 DEF TypeOK
  <2>3. \A c \in kept' : life'[c] # "unborn" /\ (life'[c] = "free" => lies[c] = None)
    BY <1>0, <1>2, <1>3 DEF GravesOK, Undisposed
  <2>4. \A c \in Trees : life'[c] # "elsewhere"
    BY <1>0, <1>2 DEF GravesOK
  <2>5. \A r \in Roots : life'[r] # "tombstone"
    BY <1>0, <2>1 DEF GravesOK, Homes
  <2> QED
    BY <1>0, <1>1, <1>2, <2>1, <2>2, <2>3, <2>4, <2>5 DEF GravesOK
<1> QED
  BY <1>4, <1>5, <1>6, <1>7, <1>8, <1>9 DEF IInv

\* A slab cell's birth.
LEMMA CreateIInv ==
    ASSUME IInv, NEW r \in Roots, Create(r)
    PROVE  IInv'
<1>0. TypeOK /\ Shape /\ PledgeOK /\ LiesOK /\ ReadsOK /\ GravesOK
  BY DEF IInv
<1>1. /\ life[r] = "unborn" /\ life' = [life EXCEPT ![r] = "live"]
      /\ lies' = [lies EXCEPT ![r] = r] /\ r \in Homes
      /\ parent' = parent /\ children' = children /\ tenants' = tenants /\ pledge' = pledge
      /\ kept' = kept /\ into' = into /\ tombstones' = tombstones /\ walk' = walk
      /\ reads' = reads
  BY DEF Create, Born, Homes, graves, links
<1>2. \A c \in Trees : c \in Homes /\ c # r
  BY PoolAssumption DEF Homes, Trees
<1>3. \A h \in Homes : Undisposed(h)' <=> Undisposed(h) \/ h = r
  BY <1>0, <1>1 DEF Undisposed, TypeOK
<1>4. lies[r] = None /\ r # None /\ \A b \in Homes : lies[b] # r
  BY <1>0, <1>1, PoolAssumption DEF LiesOK, Undisposed
<1>5. TypeOK'
  <2>1. \A c \in Trees : (parent'[c] # None) = Undisposed(c)'
    BY <1>0, <1>1, <1>2 DEF TypeOK, Undisposed
  <2> QED
    BY <1>0, <1>1, <2>1 DEF TypeOK
<1>6. Shape'
  <2>1. \A c \in Trees : parent[c] # None => Undisposed(parent[c])'
    BY <1>0, <1>1, <1>3 DEF TypeOK, Shape
  <2>2. \A h \in Homes : tenants[h] > 0 => Undisposed(h)'
    BY <1>0, <1>1, <1>3 DEF Shape
  <2>3. \A c \in Trees : life'[c] = life[c]
    BY <1>0, <1>1, <1>2 DEF TypeOK
  <2> QED
    BY <1>0, <1>1, <2>1, <2>2, <2>3 DEF Shape
<1>7. PledgeOK'
  BY <1>0, <1>1 DEF PledgeOK
<1>8. LiesOK'
  <2>1. \A h \in Homes : (Undisposed(h) \/ life[h] = "elsewhere")' => lies'[h] = h
    BY <1>0, <1>1, <1>3 DEF LiesOK, TypeOK
  <2>2. \A h \in Homes : life'[h] = "unborn" => lies'[h] = None
    BY <1>0, <1>1 DEF LiesOK, TypeOK
  <2>3. ASSUME NEW b \in Homes, lies'[b] # None
        PROVE  (Undisposed(lies[b]) \/ life[lies[b]] = "elsewhere")'
    <3>1. CASE b = r
      BY <1>0, <1>1, <1>3, <3>1 DEF TypeOK, Undisposed
    <3>2. CASE b # r
      <4>1. lies'[b] = lies[b] /\ lies[b] \in Homes /\ lies[b] # r
        BY <1>0, <1>1, <1>4, <2>3, <3>2 DEF TypeOK
      <4> QED
        BY <1>0, <1>1, <2>3, <4>1 DEF LiesOK, Undisposed, TypeOK
    <3> QED
      BY <3>1, <3>2
  <2> QED
    BY <2>1, <2>2, <2>3 DEF LiesOK
<1>9. ReadsOK'
  <2>1. \A e \in reads : /\ e[1] \in Homes /\ e[2] \in Homes
                         /\ lies'[e[1]] = lies[e[1]] /\ lies'[e[2]] = lies[e[2]]
    BY <1>0, <1>1, <1>4 DEF TypeOK, ReadsOK
  <2> QED
    BY <1>0, <1>1, <2>1 DEF ReadsOK, Safe
<1>10. GravesOK'
  <2>1. \A c \in Trees : life'[c] = life[c] /\ lies'[c] = lies[c]
    BY <1>0, <1>1, <1>2 DEF TypeOK
  <2>2. \A c \in Trees : into[c] # None =>
          into[c] # r /\ into[c] \in Homes /\ life'[into[c]] = life[into[c]]
                      /\ lies'[into[c]] = lies[into[c]]
    BY <1>0, <1>1 DEF TypeOK, GravesOK
  <2>3. \A s \in Roots : life'[s] # "tombstone"
    BY <1>0, <1>1 DEF GravesOK, TypeOK
  <2> QED
    BY <1>0, <1>1, <2>1, <2>2, <2>3 DEF GravesOK, TypeOK
<1> QED
  BY <1>5, <1>6, <1>7, <1>8, <1>9, <1>10 DEF IInv

\* A tree cell's: its parent is there, and it comes below everything.
LEMMA CreateTreeIInv ==
    ASSUME IInv, NEW c \in Trees, NEW p \in Homes, CreateTree(c, p)
    PROVE  IInv'
<1>0. TypeOK /\ Shape /\ PledgeOK /\ LiesOK /\ ReadsOK /\ GravesOK
  BY DEF IInv
<1>1. /\ life[c] = "unborn" /\ life' = [life EXCEPT ![c] = "live"]
      /\ lies' = [lies EXCEPT ![c] = c] /\ c \in Homes
      /\ parent' = [parent EXCEPT ![c] = p] /\ children' = [children EXCEPT ![p] = @ + 1]
      /\ tenants' = tenants /\ pledge' = pledge
      /\ kept' = kept /\ into' = into /\ tombstones' = tombstones /\ walk' = walk
      /\ reads' = reads
      /\ Named(p) /\ \A b \in Trees : b < c => life[b] # "unborn"
  BY DEF CreateTree, Born, Homes, graves
<1>2. \A x \in Trees : x \in Homes /\ x \in Nat /\ x \notin Roots
  BY PoolAssumption DEF Homes, Trees
<1>3. \A h \in Homes : Undisposed(h)' <=> Undisposed(h) \/ h = c
  BY <1>0, <1>1 DEF Undisposed, TypeOK
<1>4. lies[c] = None /\ c # None /\ (\A b \in Homes : lies[b] # c) /\ ~Undisposed(c)
  BY <1>0, <1>1, PoolAssumption DEF LiesOK, Undisposed
<1>5. Undisposed(p) /\ p # c /\ p # None
  BY <1>1, <1>4, NamedThere, PoolAssumption
<1>6. p \in Roots \/ (p \in Trees /\ p < c)
  <2>1. ASSUME p \in Trees, c < p PROVE FALSE
    BY <1>0, <1>1, <1>5, <2>1 DEF Shape, Undisposed
  <2> QED
    BY <1>2, <1>5, <2>1 DEF Homes
<1>7. parent[c] = None /\ pledge[c] = None /\ \A x \in Trees : parent[x] # c
  <2>1. parent[c] = None
    BY <1>0, <1>4 DEF TypeOK
  <2>2. pledge[c] = None
    BY <1>4, AboveIs
  <2>3. \A x \in Trees : parent[x] # c
    BY <1>0, <1>4 DEF Shape
  <2> QED
    BY <2>1, <2>2, <2>3
<1>8. Forest(parent) /\ Forest(parent')
  BY <1>0, <1>1, <1>6 DEF Shape, Forest, TypeOK
<1>9. \A h \in Homes : h # c => Anc(parent', h) = Anc(parent, h)
  <2>1. /\ \A x \in Trees : parent[x] # c /\ parent'[x] # c
        /\ \A x \in Trees \ {c} : parent'[x] = parent[x]
    BY <1>0, <1>1, <1>5, <1>7 DEF TypeOK
  <2> QED
    BY <1>8, <2>1, AncSame
<1>10. \A h \in Homes : \A a \in Anc(parent, h) : a # c /\ h # c
  BY <1>4, AboveIs
<1>11. TypeOK'
  <2>1. \A x \in Trees : (parent'[x] # None) = Undisposed(x)'
    BY <1>0, <1>1, <1>2, <1>5 DEF TypeOK, Undisposed
  <2> QED
    BY <1>0, <1>1, <2>1 DEF TypeOK
<1>12. Shape'
  <2>1. \A x \in Trees : parent'[x] # None => Undisposed(parent[x])'
    BY <1>0, <1>1, <1>3, <1>5 DEF TypeOK, Shape
  <2>2. \A h \in Homes : tenants[h] > 0 => Undisposed(h)'
    BY <1>0, <1>3 DEF Shape
  <2>3. \A a, b \in Trees : a < b /\ life'[b] # "unborn" => life'[a] # "unborn"
    <3> SUFFICES ASSUME NEW a \in Trees, NEW b \in Trees, a < b, life'[b] # "unborn"
                 PROVE  life'[a] # "unborn"
      OBVIOUS
    <3>1. CASE a = c
      BY <1>0, <1>1, <3>1 DEF TypeOK
    <3>2. CASE a # c /\ b = c
      BY <1>0, <1>1, <1>2, <3>2 DEF TypeOK
    <3>3. CASE a # c /\ b # c
      BY <1>0, <1>1, <1>2, <3>3 DEF TypeOK, Shape
    <3> QED
      BY <3>1, <3>2, <3>3
  <2>4. ASSUME NEW h \in Homes PROVE children'[h] = Cardinality({x \in Trees : parent'[x] = h})
    <3> DEFINE Old == {x \in Trees : parent[x] = h}
               New == {x \in Trees : parent'[x] = h}
    <3>1. children[h] = Cardinality(Old) /\ children[h] \in Nat
      BY <1>0 DEF Shape, TypeOK
    <3>2. IsFiniteSet(Old) /\ c \notin Old
      BY <1>7, HomesFinite, FS_Subset, PoolAssumption
    <3>3. CASE h = p
      <4>1. New = Old \cup {c}
        BY <1>0, <1>1, <1>7, <3>3 DEF TypeOK
      <4> HIDE DEF New, Old
      <4>2. Cardinality(New) = Cardinality(Old) + 1
        BY <3>2, <4>1, FS_AddElement
      <4>3. children'[h] = children[h] + 1
        BY <1>0, <1>1, <3>3 DEF TypeOK
      <4>4. children'[h] = Cardinality(New)
        BY <3>1, <4>2, <4>3
      <4> QED
        BY <4>4 DEF New
    <3>4. CASE h # p
      <4>1. New = Old
        BY <1>0, <1>1, <1>7, <3>4, PoolAssumption DEF TypeOK
      <4>2. children'[h] = children[h]
        BY <1>0, <1>1, <3>4 DEF TypeOK
      <4> QED
        BY <3>1, <4>1, <4>2
    <3> QED
      BY <3>3, <3>4
  <2> QED
    BY <1>1, <1>8, <2>1, <2>2, <2>3, <2>4 DEF Shape
<1>13. PledgeOK'
  <2> SUFFICES ASSUME NEW x \in Trees, pledge[x] # None
               PROVE  /\ pledge[x] \in Anc(parent', x)
                      /\ \A i \in Anc(parent', x) \cap Trees : pledge[x] \in Anc(parent', i) =>
                            pledge[i] \in {pledge[x]} \cup Anc(parent', pledge[x])
    BY <1>1 DEF PledgeOK
  <2>1. x # c /\ x \in Homes /\ pledge[x] \in Homes /\ pledge[x] \in Anc(parent, x)
    BY <1>0, <1>2, <1>7 DEF PledgeOK, Anc
  <2>2. pledge[x] # c /\ \A i \in Anc(parent, x) : i # c /\ i \in Homes
    BY <1>10, <2>1 DEF Anc
  <2> QED
    BY <1>0, <1>9, <2>1, <2>2 DEF PledgeOK
<1>14. LiesOK'
  <2>1. \A h \in Homes : (Undisposed(h) \/ life[h] = "elsewhere")' => lies'[h] = h
    BY <1>0, <1>1, <1>3 DEF LiesOK, TypeOK
  <2>2. \A h \in Homes : life'[h] = "unborn" => lies'[h] = None
    BY <1>0, <1>1 DEF LiesOK, TypeOK
  <2>3. ASSUME NEW b \in Homes, lies'[b] # None
        PROVE  (Undisposed(lies[b]) \/ life[lies[b]] = "elsewhere")'
    <3>1. CASE b = c
      BY <1>0, <1>1, <1>3, <3>1 DEF TypeOK, Undisposed
    <3>2. CASE b # c
      <4>1. lies'[b] = lies[b] /\ lies[b] \in Homes /\ lies[b] # c
        BY <1>0, <1>1, <1>4, <2>3, <3>2 DEF TypeOK
      <4> QED
        BY <1>0, <1>1, <2>3, <4>1 DEF LiesOK, Undisposed, TypeOK
    <3> QED
      BY <3>1, <3>2
  <2> QED
    BY <2>1, <2>2, <2>3 DEF LiesOK
<1>15. ReadsOK'
  <2> SUFFICES ASSUME NEW e \in reads
               PROVE  lies'[e[1]] # None /\ lies'[e[2]] # None /\ Safe(lies[e[1]], lies[e[2]])'
    BY <1>1 DEF ReadsOK
  <2>1. /\ e[1] \in Homes /\ e[2] \in Homes
        /\ lies'[e[1]] = lies[e[1]] /\ lies'[e[2]] = lies[e[2]]
        /\ lies[e[1]] \in Homes \ {c} /\ lies[e[2]] \in Homes \ {c}
        /\ lies[e[1]] # None /\ lies[e[2]] # None
        /\ Safe(lies[e[1]], lies[e[2]])
    BY <1>0, <1>1, <1>4 DEF TypeOK, ReadsOK
  <2> QED
    BY <1>1, <1>9, <2>1 DEF Safe
<1>16. GravesOK'
  <2>1. \A x \in Trees : into[x] # None =>
          /\ x # c /\ into[x] # c /\ into[x] \in Homes
          /\ life'[into[x]] = life[into[x]] /\ lies'[into[x]] = lies[into[x]]
          /\ lies'[x] = lies[x]
    BY <1>0, <1>1, <1>2 DEF TypeOK, GravesOK
  <2>2. \A x \in Trees : into[x] # None <=> life'[x] = "tombstone"
    BY <1>0, <1>1, <1>2 DEF GravesOK, TypeOK
  <2>3. \A x \in kept : life'[x] # "unborn" /\ (life'[x] = "free" => lies'[x] = None)
    BY <1>0, <1>1, <1>2 DEF GravesOK, TypeOK
  <2>4. (\A x \in Trees : life'[x] # "elsewhere") /\ \A r \in Roots : life'[r] # "tombstone"
    BY <1>0, <1>1, <1>2 DEF GravesOK, TypeOK, Homes
  <2> QED
    BY <1>0, <1>1, <2>1, <2>2, <2>3, <2>4 DEF GravesOK
<1> QED
  BY <1>11, <1>12, <1>13, <1>14, <1>15, <1>16 DEF IInv

-----------------------------------------------------------------------------
\* The depths `pledge_up` compares are the order of the chain.
LEMMA UnpledgedIs ==
    ASSUME IInv, NEW home \in Trees, NEW dest \in Anc(parent, home)
    PROVE  \A c \in Trees : c \in Unpledged(home, dest) <=>
                /\ c = home \/ c \in Anc(parent, home)
                /\ dest \in Anc(parent, c)
                /\ pledge[c] = None \/ dest \in Anc(parent, pledge[c])
<1>0. /\ Forest(parent) /\ home \in Homes /\ dest \in Homes
      /\ \A c \in Trees : c \in Homes /\ c \notin Roots
      /\ \A h \in Homes : Above[h] = Anc(parent, h) /\ Depth(h) = Cardinality(Anc(parent, h))
  BY AboveIs, PoolAssumption DEF Homes, Trees, Anc
<1>1. \A h \in Homes : \A a, b \in Anc(parent, h) : Depth(a) > Depth(b) <=> b \in Anc(parent, a)
  <2> SUFFICES ASSUME NEW h \in Homes, NEW a \in Anc(parent, h), NEW b \in Anc(parent, h)
               PROVE  Depth(a) > Depth(b) <=> b \in Anc(parent, a)
    OBVIOUS
  <2>1. a \in Homes /\ b \in Homes
    BY DEF Anc
  <2> QED
    BY <1>0, <2>1, AncOrder
<1>2. ASSUME NEW c \in Trees, c = home \/ c \in Anc(parent, home)
      PROVE  Depth(c) > Depth(dest) <=> dest \in Anc(parent, c)
  <2>1. CASE c = home
    BY <1>0, <2>1, AncDepth
  <2>2. CASE c \in Anc(parent, home)
    BY <1>0, <1>1, <2>2
  <2> QED
    BY <1>2, <2>1, <2>2
<1>3. ASSUME NEW c \in Trees, dest \in Anc(parent, c), pledge[c] # None
      PROVE  Depth(pledge[c]) > Depth(dest) <=> dest \in Anc(parent, pledge[c])
  <2>1. pledge[c] \in Anc(parent, c)
    BY <1>3, AboveIs
  <2> QED
    BY <1>0, <1>1, <1>3, <2>1
<1> QED
  BY <1>0, <1>2, <1>3 DEF Unpledged

\* A pin: pledges only ever reach further up, so what was safe stays so, and the new read is
\* safe by the pledge it makes or finds.
LEMMA PinIInv ==
    ASSUME IInv, NEW r \in Roots, NEW home \in Homes, NEW dest \in Homes, Pin(r, home, dest)
    PROVE  IInv'
<1>0. TypeOK /\ Shape /\ PledgeOK /\ LiesOK /\ ReadsOK /\ GravesOK
  BY DEF IInv
<1>1. /\ Named(dest) /\ home # dest
      /\ Under(home, dest) \/ Upward(home, dest)
      /\ pledge' = [c \in Trees |->
           IF Upward(home, dest) /\ c \in Unpledged(home, dest) THEN dest ELSE pledge[c]]
      /\ reads' = reads \cup ({dest} \X {b \in Homes : lies[b] = home})
      /\ life' = life /\ parent' = parent /\ children' = children /\ tenants' = tenants
      /\ kept' = kept /\ into' = into /\ tombstones' = tombstones /\ walk' = walk
      /\ lies' = lies
  BY DEF Pin, links, graves
<1>2. /\ Forest(parent)
      /\ \A h \in Homes : Above[h] = Anc(parent, h)
      /\ \A c \in Trees : pledge[c] # None => pledge[c] \in Anc(parent, c)
      /\ \A c \in Trees : c \in Homes
  BY AboveIs DEF Homes
<1>3. Undisposed(dest) /\ lies[dest] = dest /\ dest # None /\ home # None
  BY <1>1, NamedThere, PoolAssumption
<1>4. Upward(home, dest) <=> home \in Trees /\ dest \in Anc(parent, home)
  BY <1>2 DEF Upward
<1> DEFINE InU(c) == /\ home \in Trees /\ dest \in Anc(parent, home)
                     /\ c = home \/ c \in Anc(parent, home)
                     /\ dest \in Anc(parent, c)
                     /\ pledge[c] = None \/ dest \in Anc(parent, pledge[c])
<1>5. \A c \in Trees : pledge'[c] = IF InU(c) THEN dest ELSE pledge[c]
  BY <1>1, <1>4, UnpledgedIs
<1>6. TypeOK' /\ Shape'
  <2>1. TypeOK'
    <3>1. \A c \in Trees : (parent'[c] # None) = Undisposed(c)'
      BY <1>0, <1>1 DEF TypeOK, Undisposed
    <3>2. pledge' \in [Trees -> Homes \cup {None}]
      BY <1>0, <1>1 DEF TypeOK
    <3>3. reads' \subseteq Homes \X Homes
      BY <1>0, <1>1 DEF TypeOK
    <3> QED
      BY <1>0, <1>1, <3>1, <3>2, <3>3 DEF TypeOK
  <2>2. Shape'
    BY <1>0, <1>1 DEF Shape, Undisposed
  <2> QED
    BY <2>1, <2>2
\* Two pledges of one cell, or a pledge and a destination above it, compare.
<1>7. ASSUME NEW c \in Trees, dest \in Anc(parent, c), pledge[c] # None,
             dest \notin Anc(parent, pledge[c])
      PROVE  pledge[c] \in {dest} \cup Anc(parent, dest)
  BY <1>2, <1>7, AncChain
<1>8. PledgeOK'
  <2> SUFFICES ASSUME NEW x \in Trees, pledge'[x] # None
               PROVE  /\ pledge'[x] \in Anc(parent, x)
                      /\ \A i \in Anc(parent, x) \cap Trees : pledge'[x] \in Anc(parent, i) =>
                            pledge'[i] \in {pledge'[x]} \cup Anc(parent, pledge'[x])
    BY <1>1 DEF PledgeOK
  <2>1. CASE InU(x)
    <3>1. pledge'[x] = dest /\ dest \in Anc(parent, x)
      BY <1>5, <2>1
    <3>2. ASSUME NEW i \in Anc(parent, x) \cap Trees, dest \in Anc(parent, i)
          PROVE  pledge'[i] \in {dest} \cup Anc(parent, dest)
      <4>1. i \in Anc(parent, home)
        BY <1>2, <2>1, AncTrans
      <4>2. CASE InU(i)
        BY <1>5, <4>2
      <4>3. CASE ~InU(i)
        <5>1. pledge'[i] = pledge[i] /\ pledge[i] # None /\ dest \notin Anc(parent, pledge[i])
          BY <1>5, <2>1, <3>2, <4>1, <4>3
        <5> QED
          BY <1>7, <3>2, <5>1
      <4> QED
        BY <4>2, <4>3
    <3> QED
      BY <3>1, <3>2
  <2>2. CASE ~InU(x)
    <3>1. pledge'[x] = pledge[x] /\ pledge[x] # None /\ pledge[x] \in Anc(parent, x)
          /\ pledge[x] \in Homes
      BY <1>2, <1>5, <2>2 DEF Anc
    <3>2. ASSUME NEW i \in Anc(parent, x) \cap Trees, pledge[x] \in Anc(parent, i)
          PROVE  pledge'[i] \in {pledge[x]} \cup Anc(parent, pledge[x])
      <4>1. pledge[i] \in {pledge[x]} \cup Anc(parent, pledge[x])
        BY <1>0, <3>1, <3>2 DEF PledgeOK
      <4>2. pledge[i] \in Homes /\ pledge[i] # None
        BY <3>1, <4>1, PoolAssumption DEF Anc
      <4>3. CASE InU(i)
        <5>1. pledge'[i] = dest /\ dest \in Anc(parent, pledge[i])
          BY <1>5, <4>2, <4>3
        <5>2. dest \in Anc(parent, pledge[x])
          BY <1>2, <3>1, <4>1, <5>1, AncTrans
        <5> QED
          BY <5>1, <5>2
      <4>4. CASE ~InU(i)
        BY <1>5, <4>1, <4>4
      <4> QED
        BY <4>3, <4>4
    <3> QED
      BY <3>1, <3>2
  <2> HIDE DEF InU
  <2> QED
    BY <2>1, <2>2
<1>9. ReadsOK'
  <2> SUFFICES ASSUME NEW e \in reads'
               PROVE  lies[e[1]] # None /\ lies[e[2]] # None /\ Safe(lies[e[1]], lies[e[2]])'
    BY <1>1 DEF ReadsOK
  <2>1. CASE e \in reads
    <3>1. /\ lies[e[1]] # None /\ lies[e[2]] # None /\ Safe(lies[e[1]], lies[e[2]])
          /\ lies[e[1]] \in Homes /\ lies[e[2]] \in Homes
      BY <1>0, <2>1 DEF ReadsOK, TypeOK
    <3> DEFINE x == lies[e[1]]
               y == lies[e[2]]
    <3>2. \/ x = y \/ y \in Anc(parent, x)
          \/ (y \in Trees /\ x \in Anc(parent, y) /\ pledge[y] \in {x} \cup Anc(parent, x))
      BY <3>1 DEF Safe
    <3>3. ASSUME y \in Trees, x \in Anc(parent, y), pledge[y] \in {x} \cup Anc(parent, x)
          PROVE  pledge'[y] \in {x} \cup Anc(parent, x)
      <4>1. pledge[y] \in Homes /\ pledge[y] # None
        BY <3>1, <3>3, PoolAssumption DEF Anc
      <4>2. CASE InU(y)
        <5>1. pledge'[y] = dest /\ dest \in Anc(parent, pledge[y])
          BY <1>5, <3>3, <4>1, <4>2
        <5>2. dest \in Anc(parent, x)
          BY <1>2, <3>1, <3>3, <5>1, AncTrans
        <5> QED
          BY <5>1, <5>2
      <4>3. CASE ~InU(y)
        BY <1>5, <3>3, <4>3
      <4> HIDE DEF InU
      <4> QED
        BY <4>2, <4>3
    <3> HIDE DEF x, y
    <3>4. \/ x = y \/ y \in Anc(parent, x)
          \/ (y \in Trees /\ x \in Anc(parent, y) /\ pledge'[y] \in {x} \cup Anc(parent, x))
      BY <3>2, <3>3
    <3> QED
      BY <1>1, <3>1, <3>4 DEF Safe, x, y
  <2>2. CASE e \notin reads
    <3>1. e[1] = dest /\ lies[e[2]] = home
      BY <1>1, <2>2
    <3>2. \/ home \in Anc(parent, dest)
          \/ (home \in Trees /\ dest \in Anc(parent, home)
                /\ pledge'[home] \in {dest} \cup Anc(parent, dest))
      <4>1. CASE Under(home, dest)
        BY <1>1, <1>2, <4>1 DEF Under
      <4>2. CASE Upward(home, dest)
        <5>1. home \in Trees /\ dest \in Anc(parent, home)
          BY <1>4, <4>2
        <5>2. CASE InU(home)
          BY <1>5, <5>1, <5>2
        <5>3. CASE ~InU(home)
          <6>1. pledge'[home] = pledge[home] /\ pledge[home] # None
                /\ dest \notin Anc(parent, pledge[home])
            BY <1>5, <5>1, <5>3
          <6> QED
            BY <1>7, <5>1, <6>1
        <5> HIDE DEF InU
        <5> QED
          BY <5>1, <5>2, <5>3
      <4> QED
        BY <1>1, <4>1, <4>2
    <3>3. Safe(dest, home)'
      BY <1>1, <3>2 DEF Safe
    <3> QED
      BY <1>1, <1>3, <3>1, <3>2 DEF Safe
  <2> QED
    BY <2>1, <2>2
<1>10. LiesOK' /\ GravesOK'
  BY <1>0, <1>1 DEF LiesOK, GravesOK, Undisposed
<1> QED
  BY <1>6, <1>8, <1>9, <1>10 DEF IInv

-----------------------------------------------------------------------------
\* A cell that leaves has nothing under it, so the chains of the others stay as they are.
LEMMA LeaveLinks ==
    ASSUME IInv, NEW c \in Trees, Disposable(c), Leave(c)
    PROVE  /\ Forest(parent) /\ Forest(parent')
           /\ c \in Homes /\ Undisposed(c) /\ lies[c] = c /\ parent[c] \in Homes
           /\ parent' \in [Trees -> Homes \cup {None}] /\ children' \in [Homes -> Nat]
           /\ \A x \in Trees : parent'[x] = IF x = c THEN None ELSE parent[x]
           /\ \A h \in Homes : c \notin Anc(parent, h)
           /\ \A h \in Homes \ {c} : Anc(parent', h) = Anc(parent, h)
           /\ \A x \in Trees : parent'[x] # None => parent'[x] # c /\ Undisposed(parent'[x])
           /\ \A h \in Homes : children'[h] = Cardinality({x \in Trees : parent'[x] = h})
           /\ tenants' = tenants /\ tenants[c] = 0 /\ kept' = kept /\ walk' \in Homes
<1>0. TypeOK /\ Shape /\ LiesOK
  BY DEF IInv
<1>1. /\ parent' = [parent EXCEPT ![c] = None]
      /\ children' = [children EXCEPT ![parent[c]] = @ - 1]
      /\ walk' = parent[c] /\ tenants' = tenants /\ kept' = kept
      /\ life[c] = "dead" /\ children[c] = 0 /\ tenants[c] = 0 /\ c \in Homes
  BY DEF Leave, Disposable, Homes
<1>2. Undisposed(c) /\ lies[c] = c
  BY <1>0, <1>1 DEF Undisposed, LiesOK
<1>3. parent[c] \in Homes /\ parent[c] # None
  BY <1>0, <1>2 DEF TypeOK
<1>4. (\A x \in Trees : parent[x] # c) /\ \A h \in Homes : c \notin Anc(parent, h)
  BY <1>0, <1>1, Childless
<1>5. /\ parent' \in [Trees -> Homes \cup {None}]
      /\ \A x \in Trees : parent'[x] = IF x = c THEN None ELSE parent[x]
  BY <1>0, <1>1 DEF TypeOK
<1>6. Forest(parent) /\ Forest(parent')
  BY <1>0, <1>5 DEF Shape, Forest
<1>7. \A h \in Homes \ {c} : Anc(parent', h) = Anc(parent, h)
  <2>1. c # None
    BY <1>1, PoolAssumption
  <2>2. \A x \in Trees : parent[x] # c /\ parent'[x] # c
    BY <1>4, <1>5, <2>1
  <2>3. \A x \in Trees \ {c} : parent'[x] = parent[x]
    BY <1>5
  <2> QED
    BY <1>6, <2>2, <2>3, AncSame
<1>8. \A x \in Trees : parent'[x] # None => parent'[x] # c /\ Undisposed(parent'[x])
  BY <1>0, <1>4, <1>5 DEF Shape
<1>9. ASSUME NEW h \in Homes
      PROVE  children'[h] \in Nat /\ children'[h] = Cardinality({x \in Trees : parent'[x] = h})
  <2> DEFINE Old == {x \in Trees : parent[x] = h}
             New == {x \in Trees : parent'[x] = h}
  <2>1. children[h] = Cardinality(Old) /\ children[h] \in Nat /\ h # None
    BY <1>0, PoolAssumption DEF Shape, TypeOK
  <2>2. IsFiniteSet(Old) /\ IsFiniteSet(New)
    BY HomesFinite, FS_Subset
  <2>3. CASE h = parent[c]
    <3>1. New = Old \ {c} /\ c \in Old
      BY <1>5, <2>1, <2>3
    <3> HIDE DEF New, Old
    <3>2. Cardinality(New) = Cardinality(Old) - 1
      BY <2>2, <3>1, FS_RemoveElement
    <3>3. children'[h] = children[h] - 1
      BY <1>0, <1>1, <2>3 DEF TypeOK
    <3>4. children'[h] = Cardinality(New) /\ Cardinality(New) \in Nat
      BY <2>1, <2>2, <3>2, <3>3, FS_CardinalityType
    <3> QED
      BY <3>4 DEF New
  <2>4. CASE h # parent[c]
    <3>1. New = Old
      BY <1>5, <2>1, <2>4
    <3>2. children'[h] = children[h]
      BY <1>0, <1>1, <2>4 DEF TypeOK
    <3> QED
      BY <2>1, <3>1, <3>2
  <2> QED
    BY <2>3, <2>4
<1>10. children' \in [Homes -> Nat]
  <2>1. children' = [h \in Homes |-> children'[h]]
    BY <1>0, <1>1 DEF TypeOK
  <2> QED
    BY <1>9, <2>1
<1> QED
  BY <1>1, <1>2, <1>3, <1>4, <1>5, <1>6, <1>7, <1>8, <1>9, <1>10

\* The links once a cell has left, whatever becomes of its storage.
LEMMA LeaveShape ==
    ASSUME IInv, NEW c \in Trees, Disposable(c), Leave(c),
           \A h \in Homes : Undisposed(h)' <=> Undisposed(h) /\ h # c,
           \A x \in Trees : life'[x] # "unborn" <=> life[x] # "unborn",
           pledge' \in [Trees -> Homes \cup {None}],
           \A x \in Trees : pledge'[x] = IF x = c THEN None ELSE pledge[x]
    PROVE  /\ Shape' /\ PledgeOK'
           /\ \A x \in Trees : (parent'[x] # None) = Undisposed(x)'
<1>0. TypeOK /\ Shape /\ PledgeOK
  BY DEF IInv
<1>1. /\ Forest(parent') /\ c \in Homes
      /\ \A x \in Trees : parent'[x] = IF x = c THEN None ELSE parent[x]
      /\ \A h \in Homes : c \notin Anc(parent, h)
      /\ \A h \in Homes \ {c} : Anc(parent', h) = Anc(parent, h)
      /\ \A x \in Trees : parent'[x] # None => parent'[x] # c /\ Undisposed(parent'[x])
      /\ parent' \in [Trees -> Homes \cup {None}]
      /\ \A h \in Homes : children'[h] = Cardinality({x \in Trees : parent'[x] = h})
      /\ tenants' = tenants /\ tenants[c] = 0
  BY LeaveLinks
<1>2. Shape'
  <2>1. \A x \in Trees : parent'[x] # None => Undisposed(parent[x])'
    BY <1>1
  <2>2. \A h \in Homes : tenants'[h] > 0 => Undisposed(h)'
    BY <1>0, <1>1 DEF Shape
  <2>3. \A a, b \in Trees : a < b /\ life'[b] # "unborn" => life'[a] # "unborn"
    BY <1>0 DEF Shape
  <2> QED
    BY <1>1, <2>1, <2>2, <2>3 DEF Shape
<1>3. PledgeOK'
  <2> SUFFICES ASSUME NEW x \in Trees, pledge'[x] # None
               PROVE  /\ pledge'[x] \in Anc(parent', x)
                      /\ \A i \in Anc(parent', x) \cap Trees : pledge'[x] \in Anc(parent', i) =>
                            pledge'[i] \in {pledge'[x]} \cup Anc(parent', pledge'[x])
    BY DEF PledgeOK
  <2>1. x # c /\ x \in Homes /\ pledge'[x] = pledge[x] /\ pledge[x] \in Anc(parent, x)
    BY <1>0 DEF PledgeOK, Homes
  <2>2. /\ pledge[x] \in Homes \ {c}
        /\ \A i \in Anc(parent, x) : i \in Homes \ {c}
    BY <1>1, <2>1 DEF Anc
  <2>3. ASSUME NEW i \in Anc(parent, x) \cap Trees, pledge[x] \in Anc(parent, i)
        PROVE  pledge'[i] \in {pledge[x]} \cup Anc(parent, pledge[x])
    BY <1>0, <2>1, <2>2, <2>3 DEF PledgeOK
  <2> QED
    BY <1>1, <2>1, <2>2, <2>3
<1>4. ASSUME NEW x \in Trees PROVE (parent'[x] # None) = Undisposed(x)'
  <2>1. (parent[x] # None) = Undisposed(x) /\ x \in Homes
    BY <1>0 DEF TypeOK, Homes
  <2> QED
    BY <1>1, <2>1 DEF Undisposed
<1> QED
  BY <1>2, <1>3, <1>4

\* Whoever reads what lies in a cell that leaves lies there too, or is pledged for.
LEMMA ReclaimIInv ==
    ASSUME IInv, NEW c \in Trees, Reclaim(c)
    PROVE  /\ IInv'
           /\ \A e \in reads : lies[e[2]] = c => lies[e[1]] = c
           /\ \A h \in Homes : Undisposed(h)' <=> Undisposed(h) /\ h # c
<1>0. TypeOK /\ Shape /\ PledgeOK /\ LiesOK /\ ReadsOK /\ GravesOK
  BY DEF IInv
<1>1. /\ Disposable(c) /\ pledge[c] = None /\ Leave(c) /\ Free(c) /\ pledge' = pledge
      /\ lies' = [b \in Homes |-> IF lies[b] = c THEN None ELSE lies[b]]
      /\ reads' = {e \in reads : lies'[e[1]] # None}
  BY DEF Reclaim, Move
<1>2. /\ c \in Homes /\ Undisposed(c) /\ lies[c] = c /\ c # None
      /\ \A h \in Homes : c \notin Anc(parent, h)
      /\ \A h \in Homes \ {c} : Anc(parent', h) = Anc(parent, h)
      /\ parent' \in [Trees -> Homes \cup {None}] /\ children' \in [Homes -> Nat]
      /\ tenants' = tenants /\ kept' = kept /\ walk' \in Homes
  BY <1>1, LeaveLinks, PoolAssumption
<1>3. /\ GravesOK' /\ LiesOK'
      /\ life' \in [Homes -> {"unborn", "live", "dead", "tombstone", "elsewhere", "free"}]
      /\ into' \in [Trees -> Homes \cup {None}] /\ tombstones' \in [Homes -> SUBSET Trees]
      /\ lies' \in [Homes -> Homes \cup {None}]
      /\ \A h \in Homes : Undisposed(h)' <=> Undisposed(h) /\ h # c
      /\ \A x \in Trees : life'[x] # "unborn" <=> life[x] # "unborn"
  <2>1. None \in Homes \cup {None}
    OBVIOUS
  <2>2. \A dest \in Homes \cup {None} : dest = None =>
          lies' = [b \in Homes |-> IF lies[b] = c THEN dest ELSE lies[b]]
    BY <1>1
  <2> QED
    BY <1>0, <1>1, <1>2, <2>1, <2>2, FreeKeeps
<1>4. /\ Shape' /\ PledgeOK'
      /\ \A x \in Trees : (parent'[x] # None) = Undisposed(x)'
  <2>1. /\ pledge' \in [Trees -> Homes \cup {None}]
        /\ \A x \in Trees : pledge'[x] = IF x = c THEN None ELSE pledge[x]
    BY <1>0, <1>1 DEF TypeOK
  <2> QED
    BY <1>1, <1>3, <2>1, LeaveShape
<1>5. ASSUME NEW e \in reads
      PROVE  /\ lies[e[1]] \in Homes /\ lies[e[2]] \in Homes
             /\ e[1] \in Homes /\ e[2] \in Homes
             /\ lies[e[2]] = c => lies[e[1]] = c
  <2>1. /\ lies[e[1]] \in Homes /\ lies[e[2]] \in Homes /\ Safe(lies[e[1]], lies[e[2]])
        /\ e[1] \in Homes /\ e[2] \in Homes
    BY <1>0 DEF ReadsOK, TypeOK
  <2>2. ASSUME lies[e[2]] = c PROVE lies[e[1]] = c
    <3>1. None \notin {lies[e[1]]} \cup Anc(parent, lies[e[1]])
      BY <2>1, PoolAssumption DEF Anc
    <3> QED
      BY <1>1, <1>2, <2>1, <2>2, <3>1 DEF Safe
  <2> QED
    BY <2>1, <2>2
<1>6. ReadsOK'
  <2> SUFFICES ASSUME NEW e \in reads, lies'[e[1]] # None
               PROVE  lies'[e[2]] # None /\ Safe(lies[e[1]], lies[e[2]])'
    BY <1>1 DEF ReadsOK
  <2>1. lies[e[1]] \in Homes \ {c} /\ lies[e[2]] \in Homes \ {c}
    BY <1>1, <1>5
  <2>2. lies'[e[1]] = lies[e[1]] /\ lies'[e[2]] = lies[e[2]]
    BY <1>1, <1>5, <2>1
  <2>3. Safe(lies[e[1]], lies[e[2]])
    BY <1>0 DEF ReadsOK
  <2> QED
    BY <1>1, <1>2, <2>1, <2>2, <2>3, PoolAssumption DEF Safe
<1>7. TypeOK'
  <2>1. pledge' \in [Trees -> Homes \cup {None}] /\ reads' \subseteq Homes \X Homes
        /\ tenants' \in [Homes -> Nat] /\ kept' \subseteq Trees
    BY <1>0, <1>1, <1>2 DEF TypeOK
  <2> QED
    BY <1>2, <1>3, <1>4, <2>1 DEF TypeOK
<1> QED
  BY <1>3, <1>4, <1>5, <1>6, <1>7 DEF IInv

\* A cell that stays behind as a tombstone, its bytes in `dest`.
LEMMA EntombKeeps ==
    ASSUME TypeOK, LiesOK, GravesOK, NEW c \in Trees, Undisposed(c),
           NEW dest \in Homes, Undisposed(dest), dest \in Roots \/ (dest \in Trees /\ dest < c),
           life' = [life EXCEPT ![c] = "tombstone"],
           into' = [into EXCEPT ![c] = dest],
           tombstones' = [tombstones EXCEPT ![dest] = @ \cup {c}], kept' = kept,
           lies' = [b \in Homes |-> IF lies[b] = c THEN dest ELSE lies[b]]
    PROVE  /\ GravesOK' /\ LiesOK'
           /\ life' \in [Homes -> {"unborn", "live", "dead", "tombstone", "elsewhere", "free"}]
           /\ into' \in [Trees -> Homes \cup {None}] /\ tombstones' \in [Homes -> SUBSET Trees]
           /\ lies' \in [Homes -> Homes \cup {None}]
           /\ \A h \in Homes : Undisposed(h)' <=> Undisposed(h) /\ h # c
           /\ \A x \in Trees : life'[x] # "unborn" <=> life[x] # "unborn"
<1>0. /\ c \in Homes /\ c \notin Roots /\ c # dest /\ c # None /\ dest # None
      /\ lies[c] = c /\ lies[dest] = dest /\ into[c] = None
      /\ \A x \in Trees : x \in Homes
  BY PoolAssumption DEF Homes, Trees, LiesOK, GravesOK, Undisposed
<1>1. /\ \A h \in Homes : life'[h] = IF h = c THEN "tombstone" ELSE life[h]
      /\ \A x \in Trees : into'[x] = IF x = c THEN dest ELSE into[x]
      /\ \A h \in Homes : tombstones'[h] = IF h = dest THEN tombstones[h] \cup {c}
                                                       ELSE tombstones[h]
      /\ \A b \in Homes : lies'[b] = IF lies[b] = c THEN dest ELSE lies[b]
  BY <1>0 DEF TypeOK
<1>2. /\ life' \in [Homes -> {"unborn", "live", "dead", "tombstone", "elsewhere", "free"}]
      /\ into' \in [Trees -> Homes \cup {None}] /\ tombstones' \in [Homes -> SUBSET Trees]
      /\ lies' \in [Homes -> Homes \cup {None}]
  BY <1>0 DEF TypeOK
<1>3. \A h \in Homes : Undisposed(h)' <=> Undisposed(h) /\ h # c
  BY <1>1 DEF Undisposed
<1>4. GravesOK'
  <2>1. Forest(into)'
    BY <1>1, <1>2 DEF GravesOK, Forest
  <2>2. \A x \in Trees : into'[x] # None <=> life'[x] = "tombstone"
    BY <1>0, <1>1 DEF GravesOK
  <2>3. ASSUME NEW x \in Trees, into'[x] # None
        PROVE  /\ lies'[x] = lies'[into'[x]] /\ lies'[x] # None
               /\ life'[into'[x]] \notin {"unborn", "free"}
    <3>1. CASE x = c
      BY <1>0, <1>1, <3>1 DEF Undisposed
    <3>2. CASE x # c
      <4>1. into'[x] = into[x] /\ into[x] # None /\ into[x] \in Homes
        BY <1>1, <2>3, <3>2 DEF TypeOK
      <4>2. lies[x] = lies[into[x]] /\ lies[x] # None /\ life[into[x]] \notin {"unborn", "free"}
        BY <4>1 DEF GravesOK
      <4> QED
        BY <1>0, <1>1, <4>1, <4>2
    <3> QED
      BY <3>1, <3>2
  <2>4. ASSUME NEW h \in Homes PROVE tombstones'[h] = {x \in Trees : into'[x] = h}
    <3>1. tombstones[h] = {x \in Trees : into[x] = h} /\ h # None
      BY PoolAssumption DEF GravesOK
    <3> QED
      BY <1>0, <1>1, <3>1
  <2>5. ASSUME NEW x \in kept'
        PROVE  life'[x] # "unborn" /\ (life'[x] = "free" => lies'[x] = None)
    <3>1. x \in Homes /\ life[x] # "unborn" /\ (life[x] = "free" => lies[x] = None)
      BY <1>0, <2>5 DEF TypeOK, GravesOK
    <3> QED
      BY <1>0, <1>1, <3>1
  <2>6. (\A x \in Trees : life'[x] # "elsewhere") /\ \A r \in Roots : life'[r] # "tombstone"
    BY <1>0, <1>1 DEF GravesOK, Homes
  <2> QED
    BY <2>1, <2>2, <2>3, <2>4, <2>5, <2>6 DEF GravesOK
<1>5. LiesOK'
  <2>1. \A h \in Homes : (Undisposed(h) \/ life[h] = "elsewhere")' => lies'[h] = h
    BY <1>0, <1>1 DEF LiesOK, Undisposed
  <2>2. \A h \in Homes : life'[h] = "unborn" => lies'[h] = None
    BY <1>0, <1>1 DEF LiesOK
  <2>3. ASSUME NEW b \in Homes, lies'[b] # None
        PROVE  (Undisposed(lies[b]) \/ life[lies[b]] = "elsewhere")'
    <3>1. CASE lies[b] = c
      BY <1>0, <1>1, <3>1 DEF Undisposed
    <3>2. CASE lies[b] # c
      <4>1. lies'[b] = lies[b] /\ lies[b] \in Homes
        BY <1>1, <2>3, <3>2 DEF TypeOK
      <4> QED
        BY <1>1, <2>3, <3>2, <4>1 DEF LiesOK, Undisposed
    <3> QED
      BY <3>1, <3>2
  <2> QED
    BY <2>1, <2>2, <2>3 DEF LiesOK
<1>6. \A x \in Trees : life'[x] # "unborn" <=> life[x] # "unborn"
  BY <1>0, <1>1 DEF Undisposed
<1> QED
  BY <1>2, <1>3, <1>4, <1>5, <1>6

\* What read through the cell that spliced reads through its destination.
LEMMA SpliceIInv ==
    ASSUME IInv, NEW c \in Trees, Splice(c)
    PROVE  /\ IInv'
           /\ \A h \in Homes : Undisposed(h)' <=> Undisposed(h) /\ h # c
<1>0. TypeOK /\ Shape /\ PledgeOK /\ LiesOK /\ ReadsOK /\ GravesOK
  BY DEF IInv
<1> DEFINE dest == pledge[c]
<1>1. /\ Disposable(c) /\ dest # None /\ Leave(c)
      /\ pledge' = [pledge EXCEPT ![c] = None]
      /\ lies' = [b \in Homes |-> IF lies[b] = c THEN dest ELSE lies[b]]
      /\ reads' = {e \in reads : lies'[e[1]] # None}
  BY DEF Splice, Move
<1>2. /\ Forest(parent)
      /\ c \in Homes /\ Undisposed(c) /\ lies[c] = c /\ c # None
      /\ \A h \in Homes : c \notin Anc(parent, h)
      /\ \A h \in Homes \ {c} : Anc(parent', h) = Anc(parent, h)
      /\ parent' \in [Trees -> Homes \cup {None}] /\ children' \in [Homes -> Nat]
      /\ tenants' = tenants /\ kept' = kept /\ walk' \in Homes
  BY <1>1, LeaveLinks, PoolAssumption
<1>3. dest \in Anc(parent, c) /\ dest \in Homes
  BY <1>1, AboveIs DEF Anc
<1>4. Undisposed(dest) /\ dest # c /\ (dest \in Roots \/ (dest \in Trees /\ dest < c))
  <2>1. Undisposed(dest)
    BY <1>2, <1>3, AboveIs
  <2>2. dest # c /\ (dest \in Trees => dest < c)
    BY <1>2, <1>3, AncIn
  <2> QED
    BY <1>3, <2>1, <2>2 DEF Homes
<1> HIDE DEF dest
<1>5. /\ GravesOK' /\ LiesOK'
      /\ life' \in [Homes -> {"unborn", "live", "dead", "tombstone", "elsewhere", "free"}]
      /\ into' \in [Trees -> Homes \cup {None}] /\ tombstones' \in [Homes -> SUBSET Trees]
      /\ lies' \in [Homes -> Homes \cup {None}]
      /\ \A h \in Homes : Undisposed(h)' <=> Undisposed(h) /\ h # c
      /\ \A x \in Trees : life'[x] # "unborn" <=> life[x] # "unborn"
  <2>1. CASE LeavesTombstone(c)
    <3>1. /\ life' = [life EXCEPT ![c] = "tombstone"]
          /\ into' = [into EXCEPT ![c] = dest]
          /\ tombstones' = [tombstones EXCEPT ![dest] = @ \cup {c}]
      BY <2>1 DEF Splice, dest
    <3> QED
      BY <1>0, <1>1, <1>2, <1>3, <1>4, <3>1, EntombKeeps
  <2>2. CASE ~LeavesTombstone(c)
    <3>1. Free(c) /\ tombstones[c] = {} /\ c \notin kept
      BY <2>2 DEF Splice, LeavesTombstone
    <3>2. dest \in Homes \cup {None}
      BY <1>3
    <3> QED
      BY <1>0, <1>1, <1>2, <1>4, <3>1, <3>2, FreeKeeps
  <2> QED
    BY <2>1, <2>2
<1>6. /\ Shape' /\ PledgeOK'
      /\ \A x \in Trees : (parent'[x] # None) = Undisposed(x)'
      /\ pledge' \in [Trees -> Homes \cup {None}]
      /\ \A x \in Trees : pledge'[x] = IF x = c THEN None ELSE pledge[x]
  <2>1. /\ pledge' \in [Trees -> Homes \cup {None}]
        /\ \A x \in Trees : pledge'[x] = IF x = c THEN None ELSE pledge[x]
    BY <1>0, <1>1 DEF TypeOK
  <2> QED
    BY <1>1, <1>5, <2>1, LeaveShape
<1>7. ReadsOK'
  <2> SUFFICES ASSUME NEW e \in reads, lies'[e[1]] # None
               PROVE  lies'[e[2]] # None /\ Safe(lies[e[1]], lies[e[2]])'
    BY <1>1 DEF ReadsOK
  <2> DEFINE x == lies[e[1]]
             y == lies[e[2]]
             to(h) == IF h = c THEN dest ELSE h
  <2>1. /\ x \in Homes /\ y \in Homes /\ Safe(x, y)
        /\ lies'[e[1]] = to(x) /\ lies'[e[2]] = to(y)
    BY <1>0, <1>1 DEF ReadsOK, TypeOK
  <2> HIDE DEF x, y
  <2>2. /\ to(x) \in Homes \ {c} /\ to(y) \in Homes \ {c} /\ to(y) # None
    BY <1>3, <1>4, <2>1, PoolAssumption
  <2>3. \/ to(x) = to(y) \/ to(y) \in Anc(parent, to(x))
        \/ /\ to(y) \in Trees /\ to(x) \in Anc(parent, to(y))
           /\ pledge[to(y)] \in {to(x)} \cup Anc(parent, to(x))
    <3>1. CASE x = y
      BY <3>1
    <3>2. CASE y \in Anc(parent, x) /\ x = c
      <4>1. y # c /\ to(y) = y /\ to(x) = dest
        BY <1>2, <3>2
      <4>2. y = dest \/ y \in Anc(parent, dest) \/ dest \in Anc(parent, y)
        BY <1>2, <1>3, <3>2, AncChain
      <4>3. ASSUME dest \in Anc(parent, y)
            PROVE  y \in Trees /\ pledge[y] \in {dest} \cup Anc(parent, dest)
        <5>1. y \in Trees
          BY <1>2, <2>1, <4>3, AncIn
        <5> QED
          BY <1>0, <1>1, <3>2, <4>3, <5>1 DEF PledgeOK, dest
      <4> QED
        BY <4>1, <4>2, <4>3
    <3>3. CASE y \in Anc(parent, x) /\ x # c
      BY <1>2, <2>1, <3>3
    <3>4. CASE y \in Trees /\ x \in Anc(parent, y) /\ pledge[y] \in {x} \cup Anc(parent, x)
      <4>1. x # c /\ to(x) = x
        BY <1>2, <2>1, <3>4
      <4>2. CASE y = c
        BY <3>4, <4>1, <4>2 DEF dest
      <4>3. CASE y # c
        BY <3>4, <4>1, <4>3
      <4> QED
        BY <4>2, <4>3
    <3> HIDE DEF to
    <3> QED
      BY <2>1, <3>1, <3>2, <3>3, <3>4 DEF Safe
  <2> HIDE DEF to
  <2>4. pledge'[to(y)] = pledge[to(y)] \/ to(y) \notin Trees
    BY <1>6, <2>2
  <2> QED
    BY <1>2, <2>1, <2>2, <2>3, <2>4 DEF Safe
<1>8. TypeOK'
  <2>1. reads' \subseteq Homes \X Homes /\ tenants' \in [Homes -> Nat] /\ kept' \subseteq Trees
    BY <1>0, <1>1, <1>2 DEF TypeOK
  <2> QED
    BY <1>2, <1>5, <1>6, <2>1 DEF TypeOK
<1> QED
  BY <1>5, <1>6, <1>7, <1>8 DEF IInv

\* A root whose storage is freed has no tree under it, so nothing outside it reads it.
LEMMA ForgetIInv ==
    ASSUME IInv, NEW r \in Roots, ReclaimRoot(r) \/ ForgetChain(r)
    PROVE  /\ IInv'
           /\ \A e \in reads : lies[e[2]] = r => lies[e[1]] = r
           /\ \A h \in Homes : Undisposed(h)' <=> Undisposed(h) /\ h # r
<1>0. TypeOK /\ Shape /\ PledgeOK /\ LiesOK /\ ReadsOK /\ GravesOK
  BY DEF IInv
<1>1. /\ Disposable(r) \/ life[r] = "elsewhere"
      /\ Free(r) /\ walk' = None
      /\ lies' = [b \in Homes |-> IF lies[b] = r THEN None ELSE lies[b]]
      /\ reads' = {e \in reads : lies'[e[1]] # None}
      /\ parent' = parent /\ children' = children /\ tenants' = tenants /\ pledge' = pledge
      /\ kept' = kept
  BY DEF ReclaimRoot, ForgetChain, Forget, Move, links
<1>2. /\ r \in Homes /\ r # None /\ r \notin Trees /\ lies[r] = r
      /\ Undisposed(r) \/ life[r] = "elsewhere"
  BY <1>0, <1>1, PoolAssumption DEF Homes, Trees, LiesOK, Disposable, Undisposed
<1>3. tenants[r] = 0
  BY <1>0, <1>1, <1>2 DEF Disposable, Shape, TypeOK, Undisposed
<1>4. \A x \in Trees : parent[x] # r
  <2>1. CASE Disposable(r)
    BY <1>0, <1>2, <2>1, Childless DEF Disposable
  <2>2. CASE life[r] = "elsewhere"
    BY <1>0, <1>2, <2>2 DEF Shape, Undisposed
  <2> QED
    BY <1>1, <2>1, <2>2
<1>5. \A h \in Homes : r \notin Anc(parent, h)
  BY <1>0, <1>4, AncIn DEF Shape
<1>6. /\ GravesOK' /\ LiesOK'
      /\ life' \in [Homes -> {"unborn", "live", "dead", "tombstone", "elsewhere", "free"}]
      /\ into' \in [Trees -> Homes \cup {None}] /\ tombstones' \in [Homes -> SUBSET Trees]
      /\ lies' \in [Homes -> Homes \cup {None}]
      /\ \A h \in Homes : Undisposed(h)' <=> Undisposed(h) /\ h # r
      /\ \A x \in Trees : life'[x] # "unborn" <=> life[x] # "unborn"
  <2>1. None \in Homes \cup {None}
    OBVIOUS
  <2>2. \A dest \in Homes \cup {None} : dest = None =>
          lies' = [b \in Homes |-> IF lies[b] = r THEN dest ELSE lies[b]]
    BY <1>1
  <2> QED
    BY <1>0, <1>1, <1>2, <2>1, <2>2, FreeKeeps
<1>7. Shape'
  <2>1. \A x \in Trees : parent'[x] # None => Undisposed(parent[x])'
    <3> SUFFICES ASSUME NEW x \in Trees, parent[x] # None PROVE Undisposed(parent[x])'
      BY <1>1
    <3>1. parent[x] \in Homes /\ parent[x] # r /\ Undisposed(parent[x]) /\ parent'[x] = parent[x]
      BY <1>0, <1>1, <1>4 DEF TypeOK, Shape
    <3>2. life'[parent[x]] \in {"live", "dead"}
      BY <1>6, <3>1 DEF Undisposed
    <3> QED
      BY <1>1, <3>2 DEF Undisposed
  <2>2. \A h \in Homes : tenants'[h] > 0 => Undisposed(h)'
    BY <1>0, <1>1, <1>3, <1>6 DEF Shape
  <2>3. \A a, b \in Trees : a < b /\ life'[b] # "unborn" => life'[a] # "unborn"
    BY <1>0, <1>6 DEF Shape
  <2> QED
    BY <1>0, <1>1, <2>1, <2>2, <2>3 DEF Shape
<1>8. PledgeOK'
  BY <1>0, <1>1 DEF PledgeOK
<1>9. ASSUME NEW e \in reads
      PROVE  /\ lies[e[1]] \in Homes /\ lies[e[2]] \in Homes
             /\ e[1] \in Homes /\ e[2] \in Homes
             /\ lies[e[2]] = r => lies[e[1]] = r
  <2>1. /\ lies[e[1]] \in Homes /\ lies[e[2]] \in Homes /\ Safe(lies[e[1]], lies[e[2]])
        /\ e[1] \in Homes /\ e[2] \in Homes
    BY <1>0 DEF ReadsOK, TypeOK
  <2> QED
    BY <1>2, <1>5, <2>1 DEF Safe
<1>10. ReadsOK'
  <2> SUFFICES ASSUME NEW e \in reads, lies'[e[1]] # None
               PROVE  lies'[e[2]] # None /\ Safe(lies[e[1]], lies[e[2]])'
    BY <1>1 DEF ReadsOK
  <2>1. lies'[e[1]] = lies[e[1]] /\ lies'[e[2]] = lies[e[2]] /\ lies[e[2]] # None
    BY <1>1, <1>9, PoolAssumption
  <2>2. Safe(lies[e[1]], lies[e[2]])
    BY <1>0 DEF ReadsOK
  <2> QED
    BY <1>1, <2>1, <2>2 DEF Safe
<1>11. TypeOK'
  <2>1. \A x \in Trees : (parent'[x] # None) = Undisposed(x)'
    <3> SUFFICES ASSUME NEW x \in Trees PROVE (parent'[x] # None) = Undisposed(x)'
      OBVIOUS
    <3>1. (parent[x] # None) = Undisposed(x) /\ x \in Homes /\ x # r
      BY <1>0, <1>2 DEF TypeOK, Homes
    <3> QED
      BY <1>1, <1>6, <3>1 DEF Undisposed
  <2>2. reads' \subseteq Homes \X Homes
    BY <1>0, <1>1 DEF TypeOK
  <2> QED
    BY <1>0, <1>1, <1>6, <2>1, <2>2 DEF TypeOK
<1> QED
  BY <1>6, <1>7, <1>8, <1>9, <1>10, <1>11 DEF IInv

-----------------------------------------------------------------------------
\* Every step keeps the invariant.
LEMMA NextIInv == IInv /\ [Next]_vars => IInv'
<1> SUFFICES ASSUME IInv, [Next]_vars PROVE IInv'
  OBVIOUS
<1>0. TypeOK
  BY DEF IInv
<1>1. ASSUME NEW r \in Roots, Create(r) PROVE IInv'
  BY <1>1, CreateIInv
<1>2. ASSUME NEW r \in Roots, ReclaimRoot(r) \/ ForgetChain(r) PROVE IInv'
  BY <1>2, ForgetIInv
<1>3. ASSUME NEW r \in Roots, Relocate(r) PROVE IInv'
  <2>1. Disposable(r) /\ r \in Homes /\ tenants' = tenants
    BY <1>3 DEF Relocate, Homes, links
  <2>2. \A h \in Homes : life'[h] # life[h] =>
          h = r /\ life'[h] = "elsewhere" /\ Undisposed(h)
    BY <1>0, <1>3, <2>1 DEF Relocate, TypeOK, Disposable, Undisposed
  <2>3. \A h \in Homes : tenants'[h] > 0 => Undisposed(h)
    BY <2>1 DEF IInv, Shape
  <2> QED
    BY <1>0, <1>3, <2>1, <2>2, <2>3, PlainIInv DEF Relocate, TypeOK, links, Disposable
<1>4. ASSUME NEW c \in Trees, NEW p \in Homes, CreateTree(c, p) PROVE IInv'
  BY <1>4, CreateTreeIInv
<1>5. ASSUME NEW h \in Homes, CreateTenant(h) PROVE IInv'
  <2>1. Undisposed(h)
    BY <1>5, NamedThere DEF CreateTenant
  <2>2. \A g \in Homes : tenants'[g] > 0 => Undisposed(g)
    BY <1>0, <1>5, <2>1 DEF CreateTenant, TypeOK, IInv, Shape
  <2>3. tenants' \in [Homes -> Nat]
    <3>1. tenants' = [tenants EXCEPT ![h] = @ + 1] /\ tenants \in [Homes -> Nat]
      BY <1>0, <1>5 DEF CreateTenant, TypeOK
    <3> QED
      BY <3>1
  <2> QED
    BY <1>0, <1>5, <2>2, <2>3, PlainIInv DEF CreateTenant, TypeOK
<1>6. ASSUME NEW h \in Homes, ReleaseTenant(h) PROVE IInv'
  <2>1. \A g \in Homes : tenants'[g] > 0 => Undisposed(g)
    BY <1>0, <1>6 DEF ReleaseTenant, TypeOK, IInv, Shape
  <2>2. tenants' \in [Homes -> Nat]
    BY <1>0, <1>6 DEF ReleaseTenant, TypeOK
  <2> QED
    BY <1>0, <1>6, <2>1, <2>2, PlainIInv DEF ReleaseTenant, TypeOK
<1>7. ASSUME NEW h \in Homes, Release(h) PROVE IInv'
  <2>1. \A g \in Homes : tenants[g] > 0 => Undisposed(g)
    BY DEF IInv, Shape
  <2>2. \A g \in Homes : life'[g] # life[g] => life[g] = "live" /\ life'[g] = "dead"
    BY <1>0, <1>7 DEF Release, TypeOK
  <2> QED
    BY <1>0, <1>7, <2>1, <2>2, PlainIInv DEF Release, TypeOK, links
<1>8. ASSUME NEW r \in Roots, NEW home \in Homes, NEW dest \in Homes, Pin(r, home, dest)
      PROVE  IInv'
  BY <1>8, PinIInv
<1>9. ASSUME NEW r \in Roots, NEW c \in Trees, Keep(r, c) PROVE IInv'
  <2>1. \A g \in Homes : tenants[g] > 0 => Undisposed(g)
    BY DEF IInv, Shape
  <2>2. Undisposed(c)
    BY <1>9, NamedThere DEF Keep, Operands, Homes
  <2> QED
    BY <1>0, <1>9, <2>1, <2>2, PlainIInv DEF Keep, TypeOK, links
<1>10. ASSUME NEW c \in Trees, Reclaim(c) PROVE IInv'
  BY <1>10, ReclaimIInv
<1>11. ASSUME NEW c \in Trees, Splice(c) PROVE IInv'
  BY <1>11, SpliceIInv
<1>12. CASE Stop \/ UNCHANGED vars
  <2>1. \A g \in Homes : tenants[g] > 0 => Undisposed(g)
    BY DEF IInv, Shape
  <2>2. /\ UNCHANGED <<life, links, pledge, kept, graves, history>>
        /\ walk' \in Homes \cup {None}
    BY <1>0, <1>12 DEF Stop, vars, TypeOK
  <2> QED
    BY <1>0, <2>1, <2>2, PlainIInv DEF TypeOK, links
<1> QED
  BY <1>1, <1>2, <1>3, <1>4, <1>5, <1>6, <1>7, <1>8, <1>9, <1>10, <1>11, <1>12 DEF Next

\* The invariant holds in every behaviour.
LEMMA AlwaysIInv == Spec => []IInv
BY InitIInv, NextIInv, PTL DEF Spec

\* Every state is well typed, and a cell has a parent exactly as long as it is undisposed.
THEOREM TypeCorrect == Spec => []TypeOK
<1>1. IInv => TypeOK
  BY DEF IInv
<1> QED
  BY <1>1, AlwaysIInv, PTL

-----------------------------------------------------------------------------
\* Along a chain, comparing depths is comparing positions.
LEMMA PledgesStand == IInv => PledgesReach
<1> SUFFICES ASSUME IInv, NEW c \in Trees, Undisposed(c), pledge[c] # None
             PROVE  /\ pledge[c] \in Above[c]
                    /\ \A i \in Above[c] \cap Trees : Depth(i) > Depth(pledge[c]) =>
                          pledge[i] # None /\ Depth(pledge[i]) <= Depth(pledge[c])
  BY DEF PledgesReach
<1>1. /\ Forest(parent) /\ c \in Homes
      /\ \A h \in Homes : Above[h] = Anc(parent, h) /\ Depth(h) = Cardinality(Anc(parent, h))
      /\ pledge[c] \in Anc(parent, c) /\ pledge[c] \in Homes
  BY AboveIs DEF Homes, Anc
<1>2. ASSUME NEW i \in Anc(parent, c) \cap Trees, Depth(i) > Depth(pledge[c])
      PROVE  pledge[i] # None /\ Depth(pledge[i]) <= Depth(pledge[c])
  <2>1. i \in Homes
    BY DEF Homes
  <2>2. pledge[c] \in Anc(parent, i)
    BY <1>1, <1>2, <2>1, AncOrder
  <2>3. pledge[i] \in {pledge[c]} \cup Anc(parent, pledge[c])
    BY <1>1, <2>2 DEF IInv, PledgeOK
  <2>4. pledge[i] # None /\ pledge[i] \in Homes
    BY <1>1, <2>3, PoolAssumption DEF Anc
  <2>5. CASE pledge[i] = pledge[c]
    <3>1. Depth(pledge[c]) \in Nat
      BY <1>1, AncDepth
    <3>2. Depth(pledge[i]) = Depth(pledge[c])
      BY <2>5 DEF Depth
    <3> QED
      BY <2>4, <3>1, <3>2
  <2>6. CASE pledge[i] \in Anc(parent, pledge[c])
    BY <1>1, <2>4, <2>6, AncDepth
  <2> QED
    BY <2>3, <2>5, <2>6
<1> QED
  BY <1>1, <1>2

\* A pledge always names an ancestor that outlives the cell, and the cells between are
\* pledged at least as far (tree.rs, `pledge_up`), for any number of cells, tenants and pins.
THEOREM PledgesHold == Spec => []PledgesReach
BY AlwaysIInv, PledgesStand, PTL

-----------------------------------------------------------------------------
\* One unfolding of `Resolve`.
ResolveFrom(f) ==
    [b \in Homes |->
        CASE life[b] = "tombstone" -> f[into[b]]
          [] life[b] \in {"live", "dead", "elsewhere"} -> b
          [] OTHER -> None]

\* What a key should find: the home the bytes lie in, and nothing if they are gone.
Found == [b \in Homes |->
    IF life[b] \in {"tombstone", "live", "dead", "elsewhere"} THEN lies[b] ELSE None]

\* `Resolve` is determined, and finds it.
LEMMA ResolveFound ==
    ASSUME TypeOK, LiesOK, GravesOK
    PROVE  Resolve = Found
<1>1. ASSUME NEW b \in Homes, life[b] = "tombstone"
      PROVE  /\ b \in Trees /\ into[b] \in Homes /\ lies[b] = lies[into[b]]
             /\ into[b] \in Roots \/ (into[b] \in Trees /\ into[b] < b)
             /\ life[into[b]] \in {"tombstone", "live", "dead", "elsewhere"}
  <2>1. b \in Trees /\ into[b] # None
    BY <1>1 DEF GravesOK, Homes
  <2>2. into[b] \in Homes
    BY <2>1 DEF TypeOK
  <2>3. life[into[b]] \in {"tombstone", "live", "dead", "elsewhere"}
    BY <2>1, <2>2 DEF TypeOK, GravesOK
  <2> QED
    BY <2>1, <2>2, <2>3 DEF GravesOK, Forest
<1>2. Found = ResolveFrom(Found)
  <2>1. ASSUME NEW b \in Homes
        PROVE  Found[b] = CASE life[b] = "tombstone" -> Found[into[b]]
                            [] life[b] \in {"live", "dead", "elsewhere"} -> b
                            [] OTHER -> None
    BY <1>1 DEF Found, LiesOK, Undisposed
  <2>2. Found = [b \in Homes |-> Found[b]]
    BY DEF Found
  <2> QED
    BY <2>1, <2>2 DEF ResolveFrom
<1>3. ASSUME NEW f, f = ResolveFrom(f) PROVE f = Found
  <2>1. ASSUME NEW b \in Homes, life[b] = "tombstone" => f[into[b]] = Found[into[b]]
        PROVE  f[b] = Found[b]
    <3>1. f[b] = CASE life[b] = "tombstone" -> f[into[b]]
                   [] life[b] \in {"live", "dead", "elsewhere"} -> b
                   [] OTHER -> None
      BY <1>3 DEF ResolveFrom
    <3>2. Found[b] = CASE life[b] = "tombstone" -> Found[into[b]]
                       [] life[b] \in {"live", "dead", "elsewhere"} -> b
                       [] OTHER -> None
      BY <1>2 DEF ResolveFrom
    <3> QED
      BY <2>1, <3>1, <3>2
  <2> DEFINE Bad == {c \in Trees : f[c] # Found[c]}
  <2>2. Bad = {}
    <3> SUFFICES ASSUME Bad # {} PROVE FALSE
      OBVIOUS
    <3>1. PICK c \in Bad : \A d \in Bad : c <= d
      BY FirstTree
    <3>2. c \in Homes
      BY DEF Homes
    <3>3. life[c] = "tombstone" /\ f[into[c]] # Found[into[c]]
      BY <2>1, <3>1, <3>2
    <3>4. into[c] \in Trees /\ into[c] < c
      <4>1. \A r \in Roots : r \in Homes /\ life[r] # "tombstone"
        BY DEF GravesOK, Homes
      <4>2. into[c] \notin Roots
        BY <2>1, <3>3, <4>1
      <4> QED
        BY <1>1, <3>2, <3>3, <4>2
    <3>5. into[c] \in Nat /\ c \in Nat
      BY <3>4, PoolAssumption DEF Trees
    <3> QED
      BY <3>1, <3>3, <3>4, <3>5
  <2>3. \A b \in Homes : f[b] = Found[b]
    <3>1. \A r \in Roots : r \in Homes /\ life[r] # "tombstone"
      BY DEF GravesOK, Homes
    <3> QED
      BY <2>1, <2>2, <3>1 DEF Homes
  <2>4. f = [b \in Homes |-> f[b]] /\ Found = [b \in Homes |-> Found[b]]
    BY <1>3 DEF ResolveFrom, Found
  <2> QED
    BY <2>3, <2>4
<1>4. Resolve = CHOOSE f : f = ResolveFrom(f)
  BY DEF Resolve, ResolveFrom
<1> QED
  BY <1>2, <1>3, <1>4

\* Keys and tombstones lead to where the bytes lie.
LEMMA KeysLead == IInv => SplicesFollowed
<1> SUFFICES ASSUME IInv PROVE SplicesFollowed
  OBVIOUS
<1>0. TypeOK /\ LiesOK /\ GravesOK
  BY DEF IInv
<1>1. ASSUME NEW c \in kept PROVE Resolve[c] = lies[c]
  <2>1. c \in Homes /\ life[c] # "unborn" /\ (life[c] = "free" => lies[c] = None)
    BY <1>0 DEF TypeOK, GravesOK, Homes
  <2>2. Resolve[c] = Found[c]
    BY <1>0, ResolveFound
  <2> QED
    BY <1>0, <2>1, <2>2 DEF Found, TypeOK
<1>2. ASSUME NEW c \in Trees, life[c] = "tombstone"
      PROVE  lies[c] # None /\ c \in BuriedAt[lies[c]]
  <2>1. into[c] # None /\ lies[c] # None
    BY <1>0, <1>2 DEF GravesOK
  <2>2. lies[c] \in Anc(into, c)
    BY <1>0, <2>1, LiesAtEnd
  <2>3. lies[c] \in Homes
    BY <2>2 DEF Anc
  <2>4. BuriedAt[lies[c]] = {d \in Trees : lies[c] \in Anc(into, d)}
    BY <1>0, <2>3, BuriedAnc
  <2> QED
    BY <2>1, <2>2, <2>4
<1> QED
  BY <1>1, <1>2 DEF SplicesFollowed, KeysFollow, TombstonesLead

\* However many splices ago a key was kept, it finds the bytes where they lie now, and every
\* tombstone hangs off the home that holds its bytes (tree.rs, `resolve`, `free_tombstones`).
THEOREM SplicesFound == Spec => []SplicesFollowed
BY AlwaysIInv, KeysLead, PTL

-----------------------------------------------------------------------------
\* The empty pool is the empty slab of Retention.
LEMMA InitPromise == Init => Promise!Init
<1> SUFFICES ASSUME Init PROVE Promise!Init
  OBVIOUS
<1>1. \A h \in Homes : ~Undisposed(h) /\ lies[h] = None
  BY DEF Init, Undisposed
<1> QED
  BY <1>1 DEF Init, Promise!Init

\* A departure of the slab, said of the pool's own state.
LEMMA LeavePromise ==
    ASSUME NEW gone \in SUBSET {g \in Homes : Undisposed(g)},
           NEW freed \in SUBSET {b \in Homes : lies[b] # None},
           \A g \in freed : Undisposed(g) => g \in gone,
           \A e \in reads : e[2] \in freed => e[1] \in freed,
           \A g \in Homes : Undisposed(g)' <=> Undisposed(g) /\ g \notin gone,
           \A b \in Homes : lies'[b] # None <=> lies[b] # None /\ b \notin freed,
           reads' = {e \in reads : e[1] \notin freed}
    PROVE  Promise!Next
<1> DEFINE alive == {g \in Homes : Undisposed(g)}
           present == {b \in Homes : lies[b] # None}
<1>1. freed \cap (alive \ gone) = {}
  OBVIOUS
<1>2. alive' = alive \ gone
  OBVIOUS
<1>3. present' = present \ freed
  OBVIOUS
<1>4. Promise!Leave(gone, freed)
  BY <1>1, <1>2, <1>3 DEF Promise!Leave
<1> QED
  BY <1>4 DEF Promise!Next

\* A home that is freed takes along what lies in it, and is read by nothing else.
LEMMA FreedLeaves ==
    ASSUME IInv, NEW h \in Homes, Undisposed(h) \/ life[h] = "elsewhere",
           Move(h, None),
           \A g \in Homes : Undisposed(g)' <=> Undisposed(g) /\ g # h,
           \A e \in reads : lies[e[2]] = h => lies[e[1]] = h
    PROVE  Promise!Next
<1> DEFINE gone == {g \in Homes : Undisposed(g) /\ g = h}
           freed == {b \in Homes : lies[b] = h}
<1>1. /\ lies' = [b \in Homes |-> IF lies[b] = h THEN None ELSE lies[b]]
      /\ reads' = {e \in reads : lies'[e[1]] # None}
      /\ reads \subseteq Homes \X Homes /\ h # None
      /\ \A g \in Homes : Undisposed(g) => lies[g] = g
      /\ \A e \in reads : lies[e[1]] # None
  BY PoolAssumption DEF Move, IInv, TypeOK, LiesOK, ReadsOK
<1>2. /\ gone \in SUBSET {g \in Homes : Undisposed(g)}
      /\ freed \in SUBSET {b \in Homes : lies[b] # None}
  BY <1>1
<1>3. \A g \in freed : Undisposed(g) => g \in gone
  BY <1>1
<1>4. \A e \in reads : e[2] \in freed => e[1] \in freed
  BY <1>1
<1>5. /\ \A g \in Homes : Undisposed(g)' <=> Undisposed(g) /\ g \notin gone
      /\ \A b \in Homes : lies'[b] # None <=> lies[b] # None /\ b \notin freed
  BY <1>1
<1>6. reads' = {e \in reads : e[1] \notin freed}
  BY <1>1
<1> HIDE DEF gone, freed
<1> QED
  BY <1>2, <1>3, <1>4, <1>5, <1>6, LeavePromise

\* A cell that gives up its index, or its slot, while what lies in it stays.
LEMMA StorageStays ==
    ASSUME NEW h \in Homes, Undisposed(h),
           \A g \in Homes : Undisposed(g)' <=> Undisposed(g) /\ g # h,
           \A b \in Homes : lies'[b] = None <=> lies[b] = None,
           reads' = reads
    PROVE  Promise!Next
<1> DEFINE gone == {h}
           freed == {}
<1>1. /\ gone \in SUBSET {g \in Homes : Undisposed(g)}
      /\ freed \in SUBSET {b \in Homes : lies[b] # None}
      /\ \A g \in freed : Undisposed(g) => g \in gone
      /\ \A e \in reads : e[2] \in freed => e[1] \in freed
      /\ \A g \in Homes : Undisposed(g)' <=> Undisposed(g) /\ g \notin gone
      /\ \A b \in Homes : lies'[b] # None <=> lies[b] # None /\ b \notin freed
      /\ reads' = {e \in reads : e[1] \notin freed}
  OBVIOUS
<1> HIDE DEF gone, freed
<1> QED
  BY <1>1, LeavePromise

\* A birth is a birth.
LEMMA BornBirth ==
    ASSUME IInv, NEW h \in Homes, Born(h)
    PROVE  Promise!Next
<1> DEFINE alive == {g \in Homes : Undisposed(g)}
           present == {b \in Homes : lies[b] # None}
<1>1. /\ life[h] = "unborn" /\ lies[h] = None /\ h # None /\ reads' = reads
      /\ life' = [life EXCEPT ![h] = "live"] /\ lies' = [lies EXCEPT ![h] = h]
      /\ life \in [Homes -> {"unborn", "live", "dead", "tombstone", "elsewhere", "free"}]
      /\ lies \in [Homes -> Homes \cup {None}]
  BY PoolAssumption DEF Born, IInv, LiesOK, TypeOK
<1>2. alive' = alive \cup {h}
  BY <1>1 DEF Undisposed
<1>3. present' = present \cup {h}
  BY <1>1
<1>4. Promise!Birth(h)
  BY <1>1, <1>2, <1>3 DEF Promise!Birth
<1> QED
  BY <1>4 DEF Promise!Next

\* A pin is a crossing into a cell that is alive, of storage that is there.
LEMMA PinCross ==
    ASSUME IInv, NEW r \in Roots, NEW home \in Homes, NEW dest \in Homes, Pin(r, home, dest)
    PROVE  Promise!Next
<1> DEFINE alive == {g \in Homes : Undisposed(g)}
           present == {b \in Homes : lies[b] # None}
           storage == {b \in Homes : lies[b] = home}
<1>1. /\ reads' = reads \cup ({dest} \X storage)
      /\ life' = life /\ lies' = lies /\ Named(dest) /\ home # None
  BY PoolAssumption DEF Pin
<1>2. dest \in alive /\ storage \in SUBSET present
  BY <1>1, NamedThere
<1>3. alive' = alive /\ present' = present
  BY <1>1 DEF Undisposed
<1>4. Promise!Cross(dest, storage)
  BY <1>1, <1>2, <1>3 DEF Promise!Cross
<1> QED
  BY <1>2, <1>4 DEF Promise!Next

\* Every step of the pool is a step of Retention, or changes nothing it speaks of.
LEMMA NextPromise ==
    IInv /\ IInv' /\ [Next]_vars => [Promise!Next]_(Promise!vars)
<1> SUFFICES ASSUME IInv, IInv', [Next]_vars PROVE [Promise!Next]_(Promise!vars)
  OBVIOUS
<1> DEFINE alive == {g \in Homes : Undisposed(g)}
           present == {b \in Homes : lies[b] # None}
<1>0. TypeOK
  BY DEF IInv
<1>s. ASSUME \A g \in Homes : Undisposed(g)' <=> Undisposed(g), UNCHANGED history
      PROVE  UNCHANGED Promise!vars
  <2>1. alive' = alive
    BY <1>s
  <2>2. present' = present /\ reads' = reads
    BY <1>s DEF history
  <2> QED
    BY <2>1, <2>2 DEF Promise!vars
<1>1. ASSUME NEW r \in Roots, Create(r) PROVE Promise!Next
  BY <1>1, BornBirth DEF Create, Homes
<1>2. ASSUME NEW r \in Roots, ReclaimRoot(r) \/ ForgetChain(r) PROVE Promise!Next
  <2>1. r \in Homes /\ (Undisposed(r) \/ life[r] = "elsewhere") /\ Move(r, None)
    BY <1>2 DEF ReclaimRoot, ForgetChain, Forget, Disposable, Undisposed, Homes
  <2> QED
    BY <1>2, <2>1, ForgetIInv, FreedLeaves
<1>3. ASSUME NEW r \in Roots, Relocate(r) PROVE Promise!Next
  <2>1. r \in Homes /\ Undisposed(r) /\ lies' = lies /\ reads' = reads
    BY <1>3 DEF Relocate, Disposable, Undisposed, Homes, history
  <2>2. \A g \in Homes : Undisposed(g)' <=> Undisposed(g) /\ g # r
    BY <1>0, <1>3 DEF Relocate, Undisposed, TypeOK
  <2> QED
    BY <2>1, <2>2, StorageStays
<1>4. ASSUME NEW c \in Trees, NEW p \in Homes, CreateTree(c, p) PROVE Promise!Next
  BY <1>4, BornBirth DEF CreateTree, Homes
<1>5. ASSUME NEW h \in Homes, CreateTenant(h) \/ ReleaseTenant(h) PROVE UNCHANGED Promise!vars
  BY <1>5, <1>s DEF CreateTenant, ReleaseTenant, Undisposed
<1>6. ASSUME NEW h \in Homes, Release(h) PROVE UNCHANGED Promise!vars
  <2>1. \A g \in Homes : Undisposed(g)' <=> Undisposed(g)
    BY <1>0, <1>6 DEF Release, Undisposed, TypeOK
  <2> QED
    BY <1>6, <1>s, <2>1 DEF Release
<1>7. ASSUME NEW r \in Roots, NEW home \in Homes, NEW dest \in Homes, Pin(r, home, dest)
      PROVE  Promise!Next
  BY <1>7, PinCross
<1>8. ASSUME NEW r \in Roots, NEW c \in Trees, Keep(r, c) PROVE UNCHANGED Promise!vars
  BY <1>8, <1>s DEF Keep, Undisposed
<1>9. ASSUME NEW c \in Trees, Reclaim(c) PROVE Promise!Next
  <2>1. c \in Homes /\ Undisposed(c) /\ Move(c, None)
    BY <1>9 DEF Reclaim, Disposable, Undisposed, Homes
  <2> QED
    BY <1>9, <2>1, ReclaimIInv, FreedLeaves
<1>10. ASSUME NEW c \in Trees, Splice(c) PROVE Promise!Next
  <2>1. /\ c \in Homes /\ Undisposed(c)
        /\ pledge[c] # None
        /\ lies' = [b \in Homes |-> IF lies[b] = c THEN pledge[c] ELSE lies[b]]
        /\ reads' = {e \in reads : lies'[e[1]] # None}
    BY <1>10 DEF Splice, Disposable, Undisposed, Homes, Move
  <2>2. c # None /\ reads \subseteq Homes \X Homes /\ \A e \in reads : lies[e[1]] # None
    BY <2>1, PoolAssumption DEF IInv, TypeOK, ReadsOK
  <2>3. (\A b \in Homes : lies'[b] = None <=> lies[b] = None) /\ reads' = reads
    BY <2>1, <2>2
  <2> QED
    BY <1>10, <2>1, <2>3, SpliceIInv, StorageStays
<1>11. CASE Stop \/ UNCHANGED vars
  BY <1>11, <1>s DEF Stop, vars, Undisposed
<1> QED
  BY <1>1, <1>2, <1>3, <1>4, <1>5, <1>6, <1>7, <1>8, <1>9, <1>10, <1>11 DEF Next

\* The pool keeps what Retention promises: no step frees bytes that something which stays
\* can read, neither a reclaim, nor a splice, nor the end of a root.
THEOREM PoolKeepsRetention == Spec => ImplementsRetention
<1>1. IInv /\ IInv' /\ [Next]_vars => [Promise!Next]_(Promise!vars)
  BY NextPromise
<1> QED
  BY <1>1, InitPromise, AlwaysIInv, PTL DEF Spec, ImplementsRetention, Promise!Spec
====
