--------------------------- MODULE CellSlab_proofs ---------------------------
(* What holds of the slab and its sealed tier for any slots and any number of *)
(* births, proved of CellSlab.                                                *)
(*                                                                            *)
(* CountsExact and NamesLive are the names; SerialsOK bounds what is minted   *)
(* by the cells that have left; BundlesOK says that a birth's bytes are in    *)
(* one place, FatesOK that a key leads there.  The cascade needs TargetOK: a  *)
(* region in the middle of taking others in has on its worklist every hold    *)
(* that it alone may have, so that a hold to be released is one of several.   *)
(* The disposals and the folds share what they do to the bytes: Leaves says   *)
(* that one region goes, BytesMove and BytesFree where its bytes and keys do. *)
(* Retention, the last part, is proved from that invariant.                   *)
EXTENDS CellSlab, Counting_proofs

\* The births whose cell has left its slot.
Departed == {b \in Births : b[2] < gen[b[1]]}

\* TypeOK, with the tables as sequences.
Kinds == TypeOK /\ reaches \in [Slots -> Seq(Masks)]

\* A serial is minted for a cell that has left its slot, and never twice.
SerialsOK ==
    /\ Cardinality(Born) <= MaxBirths /\ serial <= Cardinality(Departed)
    /\ \A i \in tier : i <= serial

\* A disposal is of a dead cell and begins with no cascade on.  What is still to be released
\* is of regions there are.
DisposalOK ==
    /\ dying # NoSlot => life[dying] = "dead" /\ target = NoId /\ Settled
    /\ \A i \in Ids : drops[i] > 0 => i \in tier

\* A region that takes others in is there, and looks at holds of its own: all that only it may
\* hold, and all that are counted twice.
TargetOK ==
    target # NoId =>
      /\ target \in tier /\ merging \subseteq aggIds[target]
      /\ \A i \in Ids : drops[i] > 0 => i \in aggIds[target]
      /\ \A i \in aggIds[target] \ merging : holders[i] > drops[i] + 1

\* Each birth's bytes are in one place, which is there, and its own while it has its slot.
BundlesOK ==
    /\ \A r \in Regions : bundle[r] \subseteq Born
    /\ \A q, r \in Regions : q # r => bundle[q] \cap bundle[r] = {}
    /\ \A s \in Slots : IF Occupied(s) THEN Occupant(s) \in bundle[s] ELSE bundle[s] = {}
    /\ \A i \in Ids \ tier : bundle[i] = {}

\* A key is forwarded once its cell has left, to where its bytes are.
FatesOK ==
    /\ \A b \in Births : fate[b] # Nowhere => b \in Departed /\ b \in bundle[fate[b]]
    /\ \A v \in kept : v.home \in Born

\* The invariant.
IInv == /\ Kinds /\ SerialsOK /\ CountsExact /\ NamesLive /\ DisposalOK /\ TargetOK
        /\ BundlesOK /\ FatesOK /\ MovesWhole

-----------------------------------------------------------------------------
\* The families that the counts are sizes of.
HeldBy(i) == {s \in Slots : i \in held[s]}
NamedBy(i) == {n \in tier : i \in aggIds[n]}

\* The names: counted, and none stale.
Names == CountsExact /\ NamesLive

\* The slots and the ids are finite and apart, and nothing is both a name and none.
LEMMA Apart ==
    /\ IsFiniteSet(Slots) /\ IsFiniteSet(Ids) /\ Ids \subseteq Nat /\ MaxBirths \in Nat
    /\ \A s \in Slots : s \notin Ids /\ s \notin Nat /\ s # NoSlot /\ s # Nowhere /\ s # NoId
    /\ \A i \in Ids : i \in Nat /\ i # 0 /\ i # NoId /\ i # Nowhere
    /\ NoSlot \notin Slots /\ Nowhere \notin Regions /\ NoId \notin Ids
<1>1. IsFiniteSet(Ids)
  BY SlabAssumption, FS_Interval DEF Ids
<1>2. Ids \subseteq Nat /\ \A i \in Ids : i \in Nat /\ i # 0
  BY SlabAssumption DEF Ids
<1> QED
  BY <1>1, <1>2, SlabAssumption DEF Regions, NoId

\* Their sizes are numbers.
LEMMA Sizes ==
    /\ \A s \in Slots : Cardinality(Holding(s)) \in Nat
    /\ TypeOK => \A i \in Ids : Cardinality(HeldBy(i)) \in Nat /\ Cardinality(NamedBy(i)) \in Nat
<1>1. ASSUME NEW s \in Slots PROVE Cardinality(Holding(s)) \in Nat
  <2>1. Holding(s) \subseteq Slots
    BY DEF Holding
  <2> QED
    BY <2>1, Apart, FS_Subset, FS_CardinalityType
<1>2. ASSUME NEW i \in Ids PROVE Cardinality(HeldBy(i)) \in Nat
  <2>1. HeldBy(i) \subseteq Slots
    BY DEF HeldBy
  <2> QED
    BY <2>1, Apart, FS_Subset, FS_CardinalityType
<1>3. ASSUME TypeOK, NEW i \in Ids PROVE Cardinality(NamedBy(i)) \in Nat
  <2>1. NamedBy(i) \subseteq Ids
    BY <1>3 DEF NamedBy, TypeOK
  <2> QED
    BY <2>1, Apart, FS_Subset, FS_CardinalityType
<1> QED
  BY <1>1, <1>2, <1>3

\* A member of a selection goes and another takes its place, which may be taken: the count drops
\* where it was.
LEMMA Replaces ==
    ASSUME NEW D, IsFiniteSet(D), NEW S \in SUBSET D, NEW T \in SUBSET D,
           NEW x \in D, NEW y \in D, x # y, x \notin T, S \ {x, y} = T \ {x, y},
           y \in T <=> x \in S \/ y \in S
    PROVE  /\ Cardinality(S) \in Nat /\ Cardinality(T) \in Nat
           /\ Cardinality(S) = Cardinality(T) + One(x \in S /\ y \in S)
<1> DEFINE U == S \ {x}
<1>1. U \in SUBSET D /\ S \ {x} = U \ {x} /\ U \ {y} = T \ {y} /\ x \notin U
  OBVIOUS
<1> HIDE DEF U
<1>2. /\ Cardinality(S) \in Nat /\ Cardinality(U) \in Nat
      /\ (x \in S <=> x \in U) => Cardinality(U) = Cardinality(S)
      /\ x \in S /\ x \notin U => Cardinality(U) = Cardinality(S) - 1
  BY <1>1, OneMoves
<1>3. /\ Cardinality(T) \in Nat
      /\ (y \in U <=> y \in T) => Cardinality(T) = Cardinality(U)
      /\ y \in T /\ y \notin U => Cardinality(T) = Cardinality(U) + 1
  BY <1>1, OneMoves
<1>4. y \in S <=> y \in U
  BY <1>1
<1>5. CASE x \in S /\ y \in S
  BY <1>1, <1>2, <1>3, <1>4, <1>5 DEF One
<1>6. CASE x \in S /\ y \notin S
  BY <1>1, <1>2, <1>3, <1>4, <1>6 DEF One
<1>7. CASE x \notin S
  BY <1>1, <1>2, <1>3, <1>4, <1>7 DEF One
<1> QED
  BY <1>5, <1>6, <1>7

\* The counts, by their families.
LEMMA CountsAre ==
    CountsExact <=>
        /\ \A s \in Slots : /\ tally[s] = Cardinality(Holding(s))
                            /\ naming[s] = {n \in tier : s \in aggSlots[n]}
        /\ \A i \in tier : holders[i] = Cardinality(HeldBy(i)) + Cardinality(NamedBy(i)) + drops[i]
BY DEF CountsExact, HeldBy, NamedBy

-----------------------------------------------------------------------------
\* What a step builds over.

\* A reach that may be minted: its bits name occupied slots, its ids regions of the tier.
Sound(mask) ==
    /\ mask \in Masks /\ mask.ids \subseteq tier
    /\ \A t \in mask.slab : Occupied(t)

\* A place keys lead to is there.
LEMMA PlaceThere ==
    ASSUME IInv, NEW b \in Births, Locate(b) # Nowhere
    PROVE  /\ Locate(b) \in Regions
           /\ Locate(b) \in Slots => Occupied(Locate(b))
           /\ Locate(b) \in Ids => Locate(b) \in tier
<1>1. CASE Occupied(b[1]) /\ gen[b[1]] = b[2]
  BY <1>1, Apart DEF Locate, Births, Regions
<1>2. CASE ~(Occupied(b[1]) /\ gen[b[1]] = b[2])
  <2>1. Locate(b) = fate[b] /\ fate[b] \in Regions /\ b \in bundle[fate[b]]
    BY <1>2 DEF Locate, IInv, Kinds, TypeOK, FatesOK
  <2> QED
    BY <2>1, Apart DEF IInv, BundlesOK, Regions
<1> QED
  BY <1>1, <1>2

\* What a step can build over reads what its home holds, and so may be minted.
LEMMA OperandOK ==
    ASSUME IInv, NEW e \in Slots, Live(e), NEW o \in Operands(e)
    PROVE  /\ Sound(o.reach) /\ o.over \subseteq Births
           /\ o.home \in Slots /\ Occupied(o.home)
           /\ o.reach.slab \subseteq pins[o.home] \cup {o.home}
           /\ o.reach.ids \subseteq held[o.home]
<1>0. TypeOK /\ NamesLive /\ MasksCovered /\ KeysFollowBytes /\ Occupied(e)
  BY DEF IInv, Kinds, MovesWhole, Live, Occupied
<1>1. CASE o = [reach |-> Single(e), home |-> e, over |-> bundle[e]]
  <2>1. o.reach = Single(e) /\ o.home = e /\ o.over = bundle[e]
    BY <1>1
  <2>2. bundle[e] \subseteq Births
    BY <1>0 DEF TypeOK, Regions
  <2> QED
    BY <1>0, <2>1, <2>2 DEF Single, Sound, Masks
<1>2. ASSUME NEW v \in kept, Entitled(e, v.home),
             o = [reach |-> RedeemedReach(v), home |-> RedeemedHome(e, v), over |-> v.over]
      PROVE  /\ Sound(o.reach) /\ o.over \subseteq Births
             /\ o.home \in Slots /\ Occupied(o.home)
             /\ o.reach.slab \subseteq pins[o.home] \cup {o.home}
             /\ o.reach.ids \subseteq held[o.home]
  <2>0. o.reach = RedeemedReach(v) /\ o.home = RedeemedHome(e, v) /\ o.over = v.over
    BY <1>2
  <2> DEFINE p == Locate(v.home)
             k == FirstIndex(v.home) + v.index
  <2>1. v.home \in Births /\ v.over \subseteq Births
    BY <1>0 DEF TypeOK, Carriers
  <2>2. p # Nowhere /\ p \in Regions
    BY <1>2, Apart DEF Entitled, Regions
  <2>3. /\ p \in Slots => Occupied(p)
        /\ p \in Ids => p \in tier
    BY <2>1, <2>2, PlaceThere
  <2>4. CASE p \in Slots
    <3>1. o.home = p /\ o.reach = reaches[p][k]
      BY <2>0, <2>4 DEF RedeemedReach, RedeemedHome
    <3>2. k \in DOMAIN reaches[p]
      BY <1>0, <2>2, <2>4 DEF KeysFollowBytes
    <3> HIDE DEF p, k
    <3>3. /\ reaches[p][k] \in Masks
          /\ reaches[p][k].slab \subseteq pins[p] \cup {p}
          /\ reaches[p][k].ids \subseteq held[p]
      BY <1>0, <2>4, <3>2 DEF TypeOK, MasksCovered
    <3>4. held[p] \subseteq tier /\ \A t \in pins[p] : Occupied(t)
      BY <1>0, <2>3, <2>4 DEF NamesLive
    <3> QED
      BY <2>0, <2>1, <2>3, <2>4, <3>1, <3>3, <3>4 DEF Sound
  <2>5. CASE p \in Ids
    <3>1. p \notin Slots
      BY <2>5, Apart
    <3>2. o.home = e /\ o.reach = [slab |-> {}, ids |-> {p}] /\ p \in held[e]
      BY <1>2, <2>0, <3>1 DEF RedeemedReach, RedeemedHome, Entitled
    <3> HIDE DEF p, k
    <3>3. o.reach.slab = {} /\ o.reach.ids = {p} /\ o.reach \in Masks
      BY <2>5, <3>2 DEF Masks
    <3> QED
      BY <1>0, <2>0, <2>1, <2>3, <2>5, <3>2, <3>3 DEF Sound
  <2> QED
    BY <2>2, <2>4, <2>5 DEF Regions
<1> QED
  BY <1>1, <1>2 DEF Operands

\* The mint counts what it adds, and names only what is there.
LEMMA MintKeeps ==
    ASSUME TypeOK, Names, NEW into \in Slots, Live(into), NEW mask, Sound(mask), Mint(into, mask),
           UNCHANGED <<life, naming, tier, aggSlots, aggIds, drops>>
    PROVE  /\ Names'
           /\ pins' \in [Slots -> SUBSET Slots] /\ tally' \in [Slots -> Nat]
           /\ held' \in [Slots -> SUBSET Ids] /\ holders' \in [Ids -> Nat]
           /\ pins'[into] = (pins[into] \cup mask.slab) \ {into}
           /\ held'[into] = held[into] \cup mask.ids
           /\ \A s \in Slots \ {into} : pins'[s] = pins[s] /\ held'[s] = held[s]
           /\ \A i \in Ids : holders'[i] >= holders[i]
<1>1. /\ pins' = [pins EXCEPT ![into] = (@ \cup mask.slab) \ {into}]
      /\ tally' = [t \in Slots |-> tally[t] + One(t \in mask.slab \ (pins[into] \cup {into}))]
      /\ held' = [held EXCEPT ![into] = @ \cup mask.ids]
      /\ holders' = [i \in Ids |-> holders[i] + One(i \in (mask.ids \cap tier) \ held[into])]
  BY DEF Mint
<1>2. mask.slab \subseteq Slots /\ mask.ids \subseteq Ids /\ mask.ids \subseteq tier
      /\ tier \subseteq Ids /\ Occupied(into)
  BY DEF Sound, Masks, TypeOK, Live, Occupied
<1>3. /\ pins' \in [Slots -> SUBSET Slots] /\ held' \in [Slots -> SUBSET Ids]
      /\ pins'[into] = (pins[into] \cup mask.slab) \ {into}
      /\ held'[into] = held[into] \cup mask.ids
      /\ \A s \in Slots \ {into} : pins'[s] = pins[s] /\ held'[s] = held[s]
  BY <1>1, <1>2 DEF TypeOK
<1>4. tally' \in [Slots -> Nat] /\ holders' \in [Ids -> Nat]
      /\ \A i \in Ids : holders'[i] >= holders[i]
  BY <1>1 DEF TypeOK, One
<1>5. ASSUME NEW t \in Slots PROVE tally'[t] = Cardinality(Holding(t)')
  <2>1. Holding(t) \in SUBSET Slots /\ Holding(t)' \in SUBSET Slots
    BY DEF Holding
  <2>2. Holding(t) \ {into} = Holding(t)' \ {into}
    BY <1>3 DEF Holding, Occupied
  <2>3. /\ into \in Holding(t) <=> t \in pins[into]
        /\ into \in Holding(t)' <=> t \in pins'[into]
    BY <1>2 DEF Holding, Occupied
  <2>4. tally[t] = Cardinality(Holding(t))
    BY DEF Names, CountsExact
  <2>5. t \in pins'[into] <=> t \in pins[into] \/ t \in mask.slab \ (pins[into] \cup {into})
    BY <1>3 DEF Names, NamesLive
  <2>6. /\ Cardinality(Holding(t)) \in Nat /\ Cardinality(Holding(t)') \in Nat
        /\ (into \in Holding(t) <=> into \in Holding(t)') =>
                Cardinality(Holding(t)') = Cardinality(Holding(t))
        /\ into \in Holding(t)' /\ into \notin Holding(t) =>
                Cardinality(Holding(t)') = Cardinality(Holding(t)) + 1
    BY <2>1, <2>2, Apart, OneMoves
  <2>7. tally'[t] = tally[t] + One(t \in mask.slab \ (pins[into] \cup {into}))
    BY <1>1
  <2> QED
    BY <2>3, <2>4, <2>5, <2>6, <2>7 DEF One
<1>6. ASSUME NEW i \in tier
      PROVE  holders'[i] = Cardinality(HeldBy(i)') + Cardinality(NamedBy(i)') + drops'[i]
  <2>0. i \in Ids
    BY <1>2
  <2>1. HeldBy(i) \in SUBSET Slots /\ HeldBy(i)' \in SUBSET Slots
    BY DEF HeldBy
  <2>2. HeldBy(i) \ {into} = HeldBy(i)' \ {into}
    BY <1>3 DEF HeldBy
  <2>3. /\ into \in HeldBy(i) <=> i \in held[into]
        /\ into \in HeldBy(i)' <=> i \in held[into] \cup mask.ids
    BY <1>3 DEF HeldBy
  <2>4. holders[i] = Cardinality(HeldBy(i)) + Cardinality(NamedBy(i)) + drops[i]
    BY CountsAre DEF Names
  <2>5. /\ Cardinality(HeldBy(i)) \in Nat /\ Cardinality(HeldBy(i)') \in Nat
        /\ (into \in HeldBy(i) <=> into \in HeldBy(i)') =>
                Cardinality(HeldBy(i)') = Cardinality(HeldBy(i))
        /\ into \in HeldBy(i)' /\ into \notin HeldBy(i) =>
                Cardinality(HeldBy(i)') = Cardinality(HeldBy(i)) + 1
    BY <2>1, <2>2, Apart, OneMoves
  <2>6. NamedBy(i)' = NamedBy(i) /\ drops'[i] = drops[i] /\ Cardinality(NamedBy(i)) \in Nat
        /\ drops[i] \in Nat
    BY <2>0, Sizes DEF NamedBy, TypeOK
  <2>7. holders'[i] = holders[i] + One(i \in mask.ids \ held[into])
    BY <1>1, <1>2, <2>0 DEF One
  <2> QED
    BY <2>3, <2>4, <2>5, <2>6, <2>7 DEF One
<1>7. CountsExact'
  <2>1. \A s \in Slots : naming'[s] = {n \in tier' : s \in aggSlots'[n]}
    BY DEF Names, CountsExact
  <2> QED
    BY <1>5, <1>6, <2>1 DEF CountsExact, HeldBy, NamedBy
<1>8. NamesLive'
  BY <1>2, <1>3 DEF Names, NamesLive, Sound, Occupied
<1> QED
  BY <1>3, <1>4, <1>7, <1>8 DEF Names

-----------------------------------------------------------------------------
\* The verbs.

\* An entry that is there is found.
LEMMA Found ==
    ASSUME NEW table \in Seq(Masks), NEW mask, \E k \in DOMAIN table : table[k] = mask
    PROVE  /\ FirstHolding(table, mask) \in DOMAIN table
           /\ table[FirstHolding(table, mask)] = mask
<1> DEFINE K == {k \in DOMAIN table : table[k] = mask}
<1>1. K \in SUBSET Nat /\ K # {} /\ DOMAIN table = 1 .. Len(table) /\ Len(table) \in Nat
  OBVIOUS
<1>2. PICK k \in K : \A j \in K : k <= j
  BY <1>1, LeastNat
<1>3. k \in DOMAIN table /\ table[k] = mask /\ \A j \in 1 .. k - 1 : table[j] # mask
  BY <1>1, <1>2
<1> QED
  BY <1>3 DEF FirstHolding

\* A mask is interned: it is in the table, and what was there is where it was.
LEMMA Interns ==
    ASSUME NEW table \in Seq(Masks), NEW mask \in Masks, NEW new, new = Interned(table, mask)
    PROVE  /\ new \in Seq(Masks) /\ Len(new) >= Len(table)
           /\ \A k \in DOMAIN table : k \in DOMAIN new /\ new[k] = table[k]
           /\ \A k \in DOMAIN new : new[k] = mask \/ k \in DOMAIN table
           /\ FirstHolding(new, mask) \in DOMAIN new
<1>1. CASE \E k \in DOMAIN table : table[k] = mask
  <2>1. new = table
    BY <1>1 DEF Interned
  <2> QED
    BY <1>1, <2>1, Found
<1>2. CASE ~ \E k \in DOMAIN table : table[k] = mask
  <2>1. new = Append(table, mask)
    BY <1>2 DEF Interned
  <2>2. /\ new \in Seq(Masks) /\ Len(new) = Len(table) + 1 /\ new[Len(new)] = mask
        /\ \A k \in DOMAIN table : k \in DOMAIN new /\ new[k] = table[k]
        /\ \A k \in DOMAIN new : k = Len(new) \/ k \in DOMAIN table
        /\ Len(new) \in DOMAIN new
    BY <2>1
  <2>3. FirstHolding(new, mask) \in DOMAIN new
    BY <2>2, Found
  <2> QED
    BY <2>2, <2>3
<1> QED
  BY <1>1, <1>2

\* Where no cell comes or goes and nothing is forwarded, keys lead where they led.
LEMMA SamePlaces ==
    ASSUME \A s \in Slots : Occupied(s)' <=> Occupied(s), UNCHANGED <<gen, fate, first>>
    PROVE  /\ Born' = Born /\ Departed' = Departed
           /\ \A s \in Slots : Occupant(s)' = Occupant(s)
           /\ \A b \in Births : Locate(b)' = Locate(b) /\ FirstIndex(b)' = FirstIndex(b)
<1>1. \A s \in Slots : Occupant(s)' = Occupant(s)
  BY DEF Occupant
<1>2. Departed' = Departed
  BY DEF Departed
<1>3. \A b \in Births : b[1] \in Slots
  BY DEF Births
<1>4. Born' = Born
  BY <1>3 DEF Born
<1>5. \A b \in Births : Locate(b)' = Locate(b)
  BY <1>3 DEF Locate
<1>6. \A b \in Births : FirstIndex(b)' = FirstIndex(b)
  BY <1>5 DEF FirstIndex
<1> QED
  BY <1>1, <1>2, <1>4, <1>5, <1>6

\* Where tables grow, the keys kept still find their entries.
LEMMA GrownTables ==
    ASSUME Kinds, FatesOK, KeysFollowBytes, \A s \in Slots : Occupied(s)' <=> Occupied(s),
           UNCHANGED <<gen, fate, first, bundle, kept>>,
           reaches' \in [Slots -> Seq(Masks)],
           \A s \in Slots : Len(reaches'[s]) >= Len(reaches[s])
    PROVE  FatesOK' /\ KeysFollowBytes'
<1>1. FatesOK'
  BY SamePlaces DEF FatesOK
<1>2. ASSUME NEW v \in kept
      PROVE  LET place == Locate(v.home)'
             IN  /\ place = Nowhere <=> \A r \in Regions : v.home \notin bundle'[r]
                 /\ place # Nowhere => v.home \in bundle'[place]
                 /\ place \in Slots => FirstIndex(v.home)' + v.index \in DOMAIN reaches'[place]
  <2>1. v.home \in Births
    BY DEF Kinds, TypeOK, Carriers
  <2>2. Locate(v.home)' = Locate(v.home) /\ FirstIndex(v.home)' = FirstIndex(v.home)
    BY <2>1, SamePlaces
  <2>3. \A s \in Slots : DOMAIN reaches[s] \subseteq DOMAIN reaches'[s]
    BY DEF Kinds
  <2> QED
    BY <2>2, <2>3 DEF KeysFollowBytes
<1> QED
  BY <1>1, <1>2 DEF KeysFollowBytes

\* A carrier is kept: in a table of an occupied slot, where its key leads.
LEMMA KeepKeeps ==
    ASSUME IInv, NEW home \in Slots, Occupied(home), NEW mask \in Masks,
           NEW over \in SUBSET Births, Keep(home, mask, over),
           \A s \in Slots : Occupied(s)' <=> Occupied(s), UNCHANGED <<gen, fate, first, bundle>>,
           \A s \in Slots : pins[s] \subseteq pins'[s] /\ held[s] \subseteq held'[s],
           mask.slab \subseteq pins'[home] \cup {home}, mask.ids \subseteq held'[home]
    PROVE  /\ reaches' \in [Slots -> Seq(Masks)] /\ kept' \subseteq Carriers
           /\ FatesOK' /\ MasksCovered' /\ KeysFollowBytes'
<1> DEFINE table == Interned(reaches[home], mask)
           new == [home |-> Occupant(home), index |-> FirstHolding(table, mask), over |-> over]
<1>0. Kinds /\ FatesOK /\ BundlesOK /\ MasksCovered /\ KeysFollowBytes
  BY DEF IInv, MovesWhole
<1>1. reaches' = [reaches EXCEPT ![home] = table] /\ kept' = kept \cup {new}
  BY DEF Keep
<1>2. /\ table \in Seq(Masks) /\ Len(table) >= Len(reaches[home])
      /\ \A k \in DOMAIN reaches[home] : k \in DOMAIN table /\ table[k] = reaches[home][k]
      /\ \A k \in DOMAIN table : table[k] = mask \/ k \in DOMAIN reaches[home]
      /\ FirstHolding(table, mask) \in DOMAIN table
  BY <1>0, Interns DEF Kinds
<1>3. /\ Occupant(home) \in Births /\ Occupant(home) \in Born
      /\ Locate(Occupant(home)) = home /\ FirstIndex(Occupant(home)) = 0
  BY <1>0, SlabAssumption
     DEF Occupant, Births, Born, Kinds, TypeOK, Locate, FirstIndex, Occupied
<1>4. new \in Carriers
  BY <1>2, <1>3 DEF Carriers
<1> HIDE DEF table
<1>5. /\ reaches' \in [Slots -> Seq(Masks)] /\ kept' \subseteq Carriers
      /\ reaches'[home] = table /\ \A s \in Slots \ {home} : reaches'[s] = reaches[s]
      /\ \A s \in Slots : Len(reaches'[s]) >= Len(reaches[s])
  BY <1>0, <1>1, <1>2, <1>4 DEF Kinds, TypeOK
<1>6. MasksCovered'
  <2> SUFFICES ASSUME NEW s \in Slots, NEW k \in DOMAIN reaches'[s]
               PROVE  /\ reaches'[s][k].slab \subseteq pins'[s] \cup {s}
                      /\ reaches'[s][k].ids \subseteq held'[s]
    BY DEF MasksCovered
  <2>1. CASE k \in DOMAIN reaches[s] /\ reaches'[s][k] = reaches[s][k]
    BY <1>0, <2>1 DEF MasksCovered
  <2>2. CASE ~(k \in DOMAIN reaches[s] /\ reaches'[s][k] = reaches[s][k])
    <3>1. s = home /\ reaches'[s][k] = mask
      BY <1>2, <1>5, <2>2
    <3> QED
      BY <3>1
  <2> QED
    BY <2>1, <2>2
<1>7. FatesOK'
  BY <1>0, <1>1, <1>3, SamePlaces DEF FatesOK
<1>8. KeysFollowBytes'
  <2> SUFFICES ASSUME NEW v \in kept'
               PROVE  LET place == Locate(v.home)'
                      IN  /\ place = Nowhere <=> \A r \in Regions : v.home \notin bundle'[r]
                          /\ place # Nowhere => v.home \in bundle'[place]
                          /\ place \in Slots =>
                                FirstIndex(v.home)' + v.index \in DOMAIN reaches'[place]
    BY DEF KeysFollowBytes
  <2>1. v.home \in Births
    BY <1>5 DEF Carriers
  <2>2. Locate(v.home)' = Locate(v.home) /\ FirstIndex(v.home)' = FirstIndex(v.home)
    BY <2>1, SamePlaces
  <2>3. CASE v \in kept
    <3>1. \A s \in Slots : DOMAIN reaches[s] \subseteq DOMAIN reaches'[s]
      BY <1>0, <1>5 DEF Kinds
    <3> QED
      BY <1>0, <2>2, <2>3, <3>1 DEF KeysFollowBytes
  <2>4. CASE v = new
    <3>1. v.home = Occupant(home) /\ v.index = FirstHolding(table, mask)
      BY <2>4
    <3>2. FirstHolding(table, mask) \in Nat
      BY <1>2
    <3>3. v.home \in bundle[home] /\ home \in Regions /\ home # Nowhere
      BY <1>0, <3>1, Apart DEF BundlesOK, Regions
    <3>4. FirstIndex(v.home) + v.index = FirstHolding(table, mask)
      BY <1>3, <3>1, <3>2
    <3> QED
      BY <1>2, <1>3, <1>5, <2>2, <3>1, <3>3, <3>4
  <2> QED
    BY <1>1, <2>3, <2>4
<1> QED
  BY <1>5, <1>6, <1>7, <1>8

\* Where no slot is taken or left and no region comes or goes, names and bytes are as they were.
LEMMA StillState ==
    ASSUME IInv, \A s \in Slots : Occupied(s)' <=> Occupied(s),
           UNCHANGED <<gen, matrix, keys, sealed, bundle, kept>>
    PROVE  /\ SerialsOK' /\ NamesLive' /\ BundlesOK' /\ FatesOK' /\ MovesWhole'
           /\ \A s \in Slots : /\ tally'[s] = Cardinality(Holding(s)')
                               /\ naming'[s] = {n \in tier' : s \in aggSlots'[n]}
           /\ \A i \in Ids : HeldBy(i)' = HeldBy(i) /\ NamedBy(i)' = NamedBy(i)
<1>1. /\ UNCHANGED <<pins, tally, held, reaches, fate, first, naming, tier, serial>>
      /\ UNCHANGED <<aggSlots, aggIds, gen, bundle, kept>>
  BY DEF matrix, keys, sealed
<1>2. /\ Born' = Born /\ Departed' = Departed
      /\ \A s \in Slots : Occupant(s)' = Occupant(s)
  BY <1>1, SamePlaces
<1>3. SerialsOK'
  BY <1>1, <1>2 DEF IInv, SerialsOK
<1>4. \A s \in Slots : /\ tally'[s] = Cardinality(Holding(s)')
                       /\ naming'[s] = {n \in tier' : s \in aggSlots'[n]}
  <2>1. \A s \in Slots : Holding(s)' = Holding(s)
    BY <1>1 DEF Holding
  <2> QED
    BY <1>1, <2>1 DEF IInv, CountsExact
<1>5. NamesLive'
  <2>1. tier \subseteq Ids /\ pins \in [Slots -> SUBSET Slots] /\ aggSlots \in [Ids -> SUBSET Slots]
    BY DEF IInv, Kinds, TypeOK
  <2> QED
    BY <1>1, <2>1 DEF IInv, NamesLive
<1>6. BundlesOK'
  BY <1>1, <1>2 DEF IInv, BundlesOK
<1>7. FatesOK' /\ KeysFollowBytes'
  <2>1. \A s \in Slots : Len(reaches[s]) \in Nat
    BY DEF IInv, Kinds
  <2> QED
    BY <1>1, <2>1, GrownTables DEF IInv, MovesWhole, Kinds
<1>8. MasksCovered'
  BY <1>1 DEF IInv, MovesWhole, MasksCovered
<1>9. \A i \in Ids : HeldBy(i)' = HeldBy(i) /\ NamedBy(i)' = NamedBy(i)
  BY <1>1 DEF HeldBy, NamedBy
<1> QED
  BY <1>3, <1>4, <1>5, <1>6, <1>7, <1>8, <1>9 DEF MovesWhole

\* Where nothing is counted anew either, all but the disposal under way is as it was.
LEMMA StillCells ==
    ASSUME IInv, \A s \in Slots : Occupied(s)' <=> Occupied(s),
           UNCHANGED <<gen, matrix, keys, sealed, holders, bundle, target, merging, drops, kept>>
    PROVE  SerialsOK' /\ Names' /\ TargetOK' /\ BundlesOK' /\ FatesOK' /\ MovesWhole'
<1>1. /\ SerialsOK' /\ NamesLive' /\ BundlesOK' /\ FatesOK' /\ MovesWhole'
      /\ \A s \in Slots : /\ tally'[s] = Cardinality(Holding(s)')
                          /\ naming'[s] = {n \in tier' : s \in aggSlots'[n]}
      /\ \A i \in Ids : HeldBy(i)' = HeldBy(i) /\ NamedBy(i)' = NamedBy(i)
  BY StillState
<1>2. UNCHANGED <<tier, aggIds, holders, target, merging, drops>> /\ tier \subseteq Ids
  BY DEF sealed, IInv, Kinds, TypeOK
<1>3. CountsExact'
  <2>1. \A i \in tier :
          holders[i] = Cardinality(HeldBy(i)) + Cardinality(NamedBy(i)) + drops[i]
    BY CountsAre DEF IInv
  <2>2. \A i \in tier' :
          holders'[i] = Cardinality(HeldBy(i)') + Cardinality(NamedBy(i)') + drops'[i]
    BY <1>1, <1>2, <2>1
  <2> QED
    BY <1>1, <2>2 DEF CountsExact, HeldBy, NamedBy
<1>4. TargetOK'
  BY <1>2 DEF IInv, TargetOK
<1> QED
  BY <1>1, <1>3, <1>4 DEF Names

\* `release`.
LEMMA ReleaseIInv ==
    ASSUME IInv, NEW s \in Slots, Release(s)
    PROVE  IInv'
<1>1. /\ Idle /\ life[s] = "live" /\ life' = [life EXCEPT ![s] = "dead"]
      /\ dying' = IF below[s] = 0 THEN s ELSE NoSlot
      /\ UNCHANGED <<gen, below, matrix, keys, sealed, holders, bundle, target, merging, drops>>
      /\ UNCHANGED <<kept, reads>>
  BY DEF Release, Live, carried
<1>2. refused' \in [Slots -> BOOLEAN]
  BY DEF Release, IInv, Kinds, TypeOK
<1>3. life \in [Slots -> {"free", "live", "dead"}]
  BY DEF IInv, Kinds, TypeOK
<1>4. \A t \in Slots : Occupied(t)' <=> Occupied(t)
  BY <1>1, <1>3 DEF Occupied
<1>5. SerialsOK' /\ Names' /\ TargetOK' /\ BundlesOK' /\ FatesOK' /\ MovesWhole'
  BY <1>1, <1>4, StillCells
<1>6. DisposalOK'
  BY <1>1, <1>3, Apart DEF IInv, DisposalOK, Idle, Settled, sealed
<1>7. Kinds'
  BY <1>1, <1>2, <1>3, Apart DEF IInv, Kinds, TypeOK, matrix, keys, sealed
<1> QED
  BY <1>5, <1>6, <1>7 DEF IInv, Names

\* What is below a slot is no more than what is below them all.
LEMMA BelowSum ==
    ASSUME TypeOK, NEW s \in Slots
    PROVE  SumFunction(below) \in Nat /\ below[s] <= SumFunction(below)
<1>1. below \in [Slots -> Nat] /\ DOMAIN below = Slots
  BY SlabAssumption DEF TypeOK
<1>2. SumFunction(below) = LET f == CHOOSE g : g = [T \in SUBSET Slots |->
                                      IF T = {} THEN 0
                                      ELSE below[CHOOSE x \in T : TRUE]
                                             + g[T \ {CHOOSE x \in T : TRUE}]]
                           IN  f[Slots]
  BY <1>1 DEF SumFunction, SumFunctionOnSet, FoldFunctionOnSet, MapThenFoldSet
<1>3. SumFunction(below) = LET f == CHOOSE g : g = FoldStep(below, Slots, g) IN f[Slots]
  BY <1>2 DEF FoldStep
<1>4. SumFunction(below) = Sum(below, Slots)
  BY <1>1, <1>3, Apart, FoldSums
<1>5. /\ Sum(below, Slots) \in Nat /\ Sum(below, Slots \ {s}) \in Nat
      /\ Sum(below, Slots \ {s}) = Sum(below, Slots) - below[s]
  BY <1>1, Apart, SumAdd
<1> QED
  BY <1>1, <1>4, <1>5

\* What is below a slot comes.
LEMMA AttachIInv ==
    ASSUME IInv, NEW s \in Slots, Attach(s)
    PROVE  IInv'
<1>1. /\ Idle /\ below' = [below EXCEPT ![s] = @ + 1] /\ SumFunction(below) < MaxBelow
      /\ UNCHANGED <<life, gen, refused, matrix, keys, sealed, holders, bundle, cascade, carried>>
  BY DEF Attach
<1>2. TypeOK
  BY DEF IInv, Kinds
<1>3. below' \in [Slots -> 0 .. MaxBelow]
  <2>1. below[s] \in 0 .. MaxBelow /\ below[s] < MaxBelow /\ MaxBelow \in Nat
    BY <1>1, <1>2, BelowSum, SlabAssumption DEF TypeOK
  <2> QED
    BY <1>1, <1>2, <2>1 DEF TypeOK
<1>4. \A t \in Slots : Occupied(t)' <=> Occupied(t)
  BY <1>1 DEF Occupied
<1>5. SerialsOK' /\ Names' /\ TargetOK' /\ BundlesOK' /\ FatesOK' /\ MovesWhole'
  BY <1>1, <1>4, StillCells DEF cascade, carried
<1>6. DisposalOK'
  BY <1>1 DEF IInv, DisposalOK, Settled, cascade, sealed
<1>7. Kinds'
  BY <1>1, <1>3 DEF IInv, Kinds, TypeOK, matrix, keys, sealed, cascade, carried
<1> QED
  BY <1>5, <1>6, <1>7 DEF IInv, Names

\* What is below a slot goes, and its disposal may begin.
LEMMA DetachIInv ==
    ASSUME IInv, NEW s \in Slots, Detach(s)
    PROVE  IInv'
<1>1. /\ Idle /\ below[s] > 0 /\ below' = [below EXCEPT ![s] = @ - 1]
      /\ dying' = IF life[s] = "dead" /\ below[s] = 1 THEN s ELSE NoSlot
      /\ UNCHANGED <<life, gen, refused, matrix, keys, sealed, holders, bundle>>
      /\ UNCHANGED <<target, merging, drops, carried>>
  BY DEF Detach
<1>2. below \in [Slots -> 0 .. MaxBelow] /\ MaxBelow \in Nat
  BY SlabAssumption DEF IInv, Kinds, TypeOK
<1>3. below' \in [Slots -> 0 .. MaxBelow]
  <2>1. below[s] - 1 \in 0 .. MaxBelow
    BY <1>1, <1>2
  <2> QED
    BY <1>1, <1>2, <2>1
<1>4. \A t \in Slots : Occupied(t)' <=> Occupied(t)
  BY <1>1 DEF Occupied
<1>5. SerialsOK' /\ Names' /\ TargetOK' /\ BundlesOK' /\ FatesOK' /\ MovesWhole'
  BY <1>1, <1>4, StillCells DEF carried
<1>6. DisposalOK'
  BY <1>1, Apart DEF IInv, DisposalOK, Idle, Settled, sealed
<1>7. Kinds'
  BY <1>1, <1>3 DEF IInv, Kinds, TypeOK, matrix, keys, sealed, carried
<1> QED
  BY <1>5, <1>6, <1>7 DEF IInv, Names

\* Births can be counted, and those that left are among those born.
LEMMA BirthsFinite ==
    /\ IsFiniteSet(Births) /\ IsFiniteSet(Born) /\ IsFiniteSet(Departed)
    /\ Cardinality(Born) \in Nat /\ Cardinality(Departed) \in Nat
    /\ Departed \subseteq Born
<1>1. IsFiniteSet(0 .. MaxBirths)
  BY Apart, FS_Interval
<1>2. IsFiniteSet(Births)
  BY <1>1, Apart, FS_Product DEF Births
<1>3. Born \subseteq Births /\ Departed \subseteq Births /\ Departed \subseteq Born
  BY DEF Born, Departed
<1> QED
  BY <1>2, <1>3, FS_Subset, FS_CardinalityType

\* A slot's own birth counts among those born while it has the slot, and all before it do.
LEMMA OccupantBorn ==
    ASSUME TypeOK, NEW s \in Slots
    PROVE  /\ Occupant(s) \in Births /\ Occupant(s) \notin Departed
           /\ Occupant(s) \in Born <=> Occupied(s)
BY SlabAssumption DEF TypeOK, Occupant, Births, Born, Departed

\* `create`.
LEMMA CreateIInv ==
    ASSUME IInv, NEW s \in Slots, Create(s)
    PROVE  IInv'
<1>0. Kinds /\ TypeOK /\ NamesLive /\ CountsExact /\ BundlesOK /\ FatesOK /\ SerialsOK
  BY DEF IInv, Kinds
<1>1. /\ Idle /\ life[s] = "free" /\ Cardinality(Born) < MaxBirths
      /\ life' = [life EXCEPT ![s] = "live"]
      /\ bundle' = [bundle EXCEPT ![s] = {Occupant(s)}]
      /\ UNCHANGED <<gen, refused, below, pins, tally, held, reaches, fate, first, naming, tier>>
      /\ UNCHANGED <<serial, aggSlots, aggIds, holders, dying, target, merging, drops>>
      /\ UNCHANGED <<kept, reads>>
  BY DEF Create, Occupied, matrix, keys, sealed, cascade, carried
<1>2. /\ Occupied(s)' /\ ~Occupied(s)
      /\ \A t \in Slots \ {s} : Occupied(t)' <=> Occupied(t)
      /\ \A t \in Slots : Occupant(t)' = Occupant(t)
  BY <1>0, <1>1 DEF Occupied, Occupant, TypeOK
<1>3. Departed' = Departed
  BY <1>1 DEF Departed
<1>4. Occupant(s) \in Births /\ Occupant(s) \notin Born
  BY <1>0, <1>2, OccupantBorn
<1>5. Born' = Born \cup {Occupant(s)}
  <2>1. \A b \in Births : b[1] \in Slots /\ b = <<b[1], b[2]>>
    BY DEF Births
  <2>2. ASSUME NEW b \in Births PROVE b \in Born' <=> b \in Born \/ b = Occupant(s)
    <3>1. CASE b[1] = s
      BY <1>1, <1>2, <2>1, <3>1 DEF Born, Occupant
    <3>2. CASE b[1] # s
      BY <1>1, <1>2, <2>1, <3>2 DEF Born, Occupant
    <3> QED
      BY <3>1, <3>2
  <2>3. Born' \subseteq Births /\ Born \subseteq Births
    BY DEF Born
  <2> QED
    BY <1>4, <2>2, <2>3
<1>6. SerialsOK'
  <2>1. Cardinality(Born') = Cardinality(Born) + 1
    BY <1>4, <1>5, BirthsFinite, FS_AddElement
  <2>2. Cardinality(Born') <= MaxBirths
    BY <1>1, <2>1, Apart, BirthsFinite
  <2> QED
    BY <1>0, <1>1, <1>3, <2>2 DEF SerialsOK
<1>7. Names'
  <2>1. pins[s] = {} /\ held[s] = {}
    BY <1>0, <1>2 DEF NamesLive
  <2>2. \A t \in Slots : Holding(t)' = Holding(t)
    BY <1>1, <1>2, <2>1 DEF Holding
  <2>3. CountsExact'
    BY <1>0, <1>1, <2>2 DEF CountsExact
  <2>4. \A t \in Slots : Occupied(t) => Occupied(t)'
    BY <1>2
  <2>5. NamesLive'
    BY <1>0, <1>1, <2>1, <2>4 DEF NamesLive, TypeOK
  <2> QED
    BY <2>3, <2>5 DEF Names
<1>8. DisposalOK' /\ TargetOK'
  BY <1>1 DEF Idle, DisposalOK, TargetOK, Settled, IInv
<1>9. \A r \in Regions : bundle'[r] = IF r = s THEN {Occupant(s)} ELSE bundle[r]
  BY <1>0, <1>1 DEF TypeOK
<1>10. BundlesOK'
  <2>1. s \in Regions /\ \A i \in Ids : i # s
    BY Apart DEF Regions
  <2>2. \A r \in Regions : bundle'[r] \subseteq Born'
    BY <1>0, <1>5, <1>9 DEF BundlesOK
  <2>3. \A q, r \in Regions : q # r => bundle'[q] \cap bundle'[r] = {}
    BY <1>0, <1>4, <1>9 DEF BundlesOK
  <2>4. \A t \in Slots : IF Occupied(t)' THEN Occupant(t)' \in bundle'[t] ELSE bundle'[t] = {}
    BY <1>0, <1>2, <1>9 DEF BundlesOK, Regions
  <2>5. \A i \in Ids \ tier' : bundle'[i] = {}
    BY <1>0, <1>1, <1>9, <2>1 DEF BundlesOK, Regions
  <2> QED
    BY <2>2, <2>3, <2>4, <2>5 DEF BundlesOK
<1>11. FatesOK'
  <2>1. ASSUME NEW b \in Births, fate[b] # Nowhere PROVE b \in bundle'[fate[b]]
    <3>1. b \in bundle[fate[b]] /\ fate[b] \in Regions
      BY <1>0, <2>1 DEF FatesOK, TypeOK
    <3>2. fate[b] # s
      BY <1>0, <1>2, <3>1 DEF BundlesOK
    <3> QED
      BY <1>9, <3>1, <3>2
  <2> QED
    BY <1>0, <1>1, <1>3, <1>5, <2>1 DEF FatesOK
<1>12. MovesWhole'
  <2>1. MasksCovered'
    BY <1>1 DEF IInv, MovesWhole, MasksCovered
  <2>2. ASSUME NEW v \in kept
        PROVE  /\ v.home \in Births /\ v.home # Occupant(s)
               /\ Locate(v.home)' = Locate(v.home)
               /\ FirstIndex(v.home)' = FirstIndex(v.home)
    <3>1. v.home \in Births /\ v.home \in Born /\ v.home # Occupant(s)
      BY <1>0, <1>4 DEF FatesOK, TypeOK, Carriers
    <3>2. v.home[1] \in Slots /\ ~(v.home[1] = s /\ gen[s] = v.home[2])
      BY <3>1 DEF Births, Occupant
    <3>3. Locate(v.home)' = Locate(v.home)
      BY <1>1, <1>2, <3>2 DEF Locate
    <3> QED
      BY <1>1, <3>1, <3>3 DEF FirstIndex
  <2>3. KeysFollowBytes'
    <3> SUFFICES ASSUME NEW v \in kept
                 PROVE  LET place == Locate(v.home)'
                        IN  /\ place = Nowhere <=> \A r \in Regions : v.home \notin bundle'[r]
                            /\ place # Nowhere => v.home \in bundle'[place]
                            /\ place \in Slots =>
                                  FirstIndex(v.home)' + v.index \in DOMAIN reaches'[place]
      BY <1>1 DEF KeysFollowBytes
    <3> DEFINE p == Locate(v.home)
    <3>1. /\ p = Nowhere <=> \A r \in Regions : v.home \notin bundle[r]
          /\ p # Nowhere => v.home \in bundle[p]
          /\ p \in Slots => FirstIndex(v.home) + v.index \in DOMAIN reaches[p]
      BY DEF IInv, MovesWhole, KeysFollowBytes
    <3>2. p # Nowhere => p \in Regions
      BY <2>2, PlaceThere
    <3>3. bundle[s] = {} /\ s \in Regions
      BY <1>0, <1>2 DEF BundlesOK, Regions
    <3>4. \A r \in Regions : v.home \in bundle'[r] <=> v.home \in bundle[r]
      BY <1>9, <2>2, <3>3
    <3> HIDE DEF p
    <3>5. Locate(v.home)' = p /\ FirstIndex(v.home)' = FirstIndex(v.home)
      BY <2>2 DEF p
    <3> QED
      BY <1>1, <3>1, <3>2, <3>4, <3>5
  <2> QED
    BY <2>1, <2>3 DEF MovesWhole
<1>13. Kinds'
  <2>1. life' \in [Slots -> {"free", "live", "dead"}]
    BY <1>0, <1>1 DEF TypeOK
  <2>2. bundle' \in [Regions -> SUBSET Births]
    BY <1>0, <1>1, <1>4 DEF TypeOK, Regions
  <2> QED
    BY <1>0, <1>1, <2>1, <2>2 DEF Kinds, TypeOK
<1> QED
  BY <1>6, <1>7, <1>8, <1>10, <1>11, <1>12, <1>13 DEF IInv, Names

\* Where a verb takes and leaves no slot and frees nothing, births and bytes are as they were.
LEMMA StillBytes ==
    ASSUME IInv, Idle, UNCHANGED <<cells, fate, first, bundle, tier, serial, cascade>>
    PROVE  SerialsOK' /\ BundlesOK' /\ DisposalOK' /\ TargetOK'
<1>1. /\ UNCHANGED <<life, gen, fate, first, bundle, tier, serial, dying, target, merging, drops>>
      /\ \A s \in Slots : Occupied(s)' <=> Occupied(s)
  BY DEF cells, cascade, Occupied
<1>2. /\ Born' = Born /\ Departed' = Departed
      /\ \A s \in Slots : Occupant(s)' = Occupant(s)
  BY <1>1, SamePlaces
<1>3. SerialsOK' /\ BundlesOK'
  BY <1>1, <1>2 DEF IInv, SerialsOK, BundlesOK
<1>4. DisposalOK' /\ TargetOK'
  BY <1>1 DEF Idle, IInv, DisposalOK, TargetOK, Settled
<1> QED
  BY <1>3, <1>4

\* A step keeps a carrier.
LEMMA RestIInv ==
    ASSUME IInv, NEW e \in Slots, Rest(e)
    PROVE  IInv'
<1>1. /\ Idle /\ Live(e)
      /\ UNCHANGED <<cells, matrix, fate, first, sealed, holders, bundle, cascade, reads>>
  BY DEF Rest
<1>2. /\ UNCHANGED <<life, gen, refused, below, pins, tally, held, fate, first, naming, tier>>
      /\ UNCHANGED <<serial, aggSlots, aggIds, holders, bundle, dying, target, merging, drops>>
      /\ UNCHANGED reads
  BY <1>1 DEF cells, matrix, sealed, cascade
<1>3. PICK o \in Operands(e) : Keep(o.home, o.reach, o.over)
  BY DEF Rest
<1>4. /\ o.reach \in Masks /\ o.over \in SUBSET Births /\ o.home \in Slots /\ Occupied(o.home)
      /\ o.reach.slab \subseteq pins'[o.home] \cup {o.home} /\ o.reach.ids \subseteq held'[o.home]
  BY <1>1, <1>2, OperandOK DEF Sound
<1>5. \A s \in Slots : Occupied(s)' <=> Occupied(s)
  BY <1>2 DEF Occupied
<1>6. /\ reaches' \in [Slots -> Seq(Masks)] /\ kept' \subseteq Carriers
      /\ FatesOK' /\ MasksCovered' /\ KeysFollowBytes'
  BY <1>2, <1>3, <1>4, <1>5, KeepKeeps
<1>7. SerialsOK' /\ BundlesOK' /\ DisposalOK' /\ TargetOK'
  BY <1>1, StillBytes DEF sealed
<1>8. Names'
  <2>1. \A s \in Slots : Holding(s)' = Holding(s)
    BY <1>2, <1>5 DEF Holding
  <2>2. CountsExact'
    BY <1>2, <2>1 DEF IInv, CountsExact
  <2>3. NamesLive'
    BY <1>2, <1>5 DEF IInv, NamesLive, Kinds, TypeOK
  <2> QED
    BY <2>2, <2>3 DEF Names
<1>9. Kinds'
  <2>1. \A s \in Slots : \A k \in DOMAIN reaches'[s] : reaches'[s][k] \in Masks
    BY <1>6
  <2> QED
    BY <1>2, <1>6, <2>1 DEF IInv, Kinds, TypeOK
<1> QED
  BY <1>6, <1>7, <1>8, <1>9 DEF IInv, Names, MovesWhole

\* `hold`.
LEMMA HoldIInv ==
    ASSUME IInv, NEW e \in Slots, NEW other \in Slots, Hold(e, other)
    PROVE  IInv'
<1>1. /\ Idle /\ Live(e) /\ Live(other) /\ Mint(e, Single(other))
      /\ UNCHANGED <<cells, keys, sealed, bundle, cascade, carried>>
  BY DEF Hold
<1>2. /\ UNCHANGED <<life, gen, refused, below, reaches, fate, first, naming, tier>>
      /\ UNCHANGED <<serial, aggSlots, aggIds, bundle, dying, target, merging, drops>>
      /\ UNCHANGED <<kept, reads>>
  BY <1>1 DEF cells, keys, sealed, cascade, carried
<1>3. Sound(Single(other))
  BY <1>1 DEF Sound, Single, Masks, Live, Occupied
<1>4. /\ Names'
      /\ pins' \in [Slots -> SUBSET Slots] /\ tally' \in [Slots -> Nat]
      /\ held' \in [Slots -> SUBSET Ids] /\ holders' \in [Ids -> Nat]
      /\ pins'[e] = (pins[e] \cup Single(other).slab) \ {e}
      /\ held'[e] = held[e] \cup Single(other).ids
      /\ \A s \in Slots \ {e} : pins'[s] = pins[s] /\ held'[s] = held[s]
  BY <1>1, <1>2, <1>3, MintKeeps DEF IInv, Kinds, Names
<1>5. SerialsOK' /\ BundlesOK' /\ DisposalOK' /\ TargetOK'
  BY <1>1, StillBytes DEF sealed, keys
<1>6. MasksCovered'
  <2>1. \A s \in Slots : pins[s] \cup {s} \subseteq pins'[s] \cup {s} /\ held[s] \subseteq held'[s]
    BY <1>4
  <2> QED
    BY <1>2, <2>1 DEF IInv, MovesWhole, MasksCovered
<1>7. FatesOK' /\ KeysFollowBytes'
  <2>1. \A s \in Slots : Len(reaches[s]) \in Nat /\ (Occupied(s)' <=> Occupied(s))
    BY <1>2 DEF IInv, Kinds, Occupied
  <2> QED
    BY <1>2, <2>1, GrownTables DEF IInv, MovesWhole, Kinds
<1>8. Kinds'
  BY <1>2, <1>4 DEF IInv, Kinds, TypeOK
<1> QED
  BY <1>4, <1>5, <1>6, <1>7, <1>8 DEF IInv, Names, MovesWhole

\* `alloc_into`.
LEMMA AllocIntoIInv ==
    ASSUME IInv, NEW e \in Slots, NEW dest \in Slots, AllocInto(e, dest)
    PROVE  IInv'
<1>1. PICK o \in Operands(e) :
        /\ Mint(dest, o.reach)
        /\ reads' = reads \cup ({Occupant(dest)} \X (o.over \ {Occupant(dest)}))
        /\ \/ Keep(dest, [o.reach EXCEPT !.slab = @ \cup {dest}], o.over \cup {Occupant(dest)})
           \/ UNCHANGED <<reaches, kept>>
  BY DEF AllocInto
<1>2. Idle /\ Live(e) /\ Live(dest) /\ UNCHANGED <<cells, fate, first, sealed, bundle, cascade>>
  BY DEF AllocInto
<1>3. /\ UNCHANGED <<life, gen, refused, below, fate, first, naming, tier>>
      /\ UNCHANGED <<serial, aggSlots, aggIds, bundle, dying, target, merging, drops>>
  BY <1>2 DEF cells, sealed, cascade
<1>4. Sound(o.reach) /\ o.over \subseteq Births
  BY <1>2, OperandOK
<1>5. /\ Names'
      /\ pins' \in [Slots -> SUBSET Slots] /\ tally' \in [Slots -> Nat]
      /\ held' \in [Slots -> SUBSET Ids] /\ holders' \in [Ids -> Nat]
      /\ pins'[dest] = (pins[dest] \cup o.reach.slab) \ {dest}
      /\ held'[dest] = held[dest] \cup o.reach.ids
      /\ \A s \in Slots \ {dest} : pins'[s] = pins[s] /\ held'[s] = held[s]
  BY <1>1, <1>2, <1>3, <1>4, MintKeeps DEF IInv, Kinds, Names
<1>6. SerialsOK' /\ BundlesOK' /\ DisposalOK' /\ TargetOK'
  BY <1>2, StillBytes DEF sealed
<1>7. /\ \A s \in Slots : Occupied(s)' <=> Occupied(s)
      /\ \A s \in Slots : pins[s] \cup {s} \subseteq pins'[s] \cup {s} /\ held[s] \subseteq held'[s]
      /\ Occupied(dest) /\ Occupant(dest) \in Births
  BY <1>2, <1>3, <1>5, OccupantBorn DEF Occupied, Live, IInv, Kinds
<1>8. \A s \in Slots : pins[s] \subseteq pins'[s]
  BY <1>5 DEF IInv, NamesLive
<1>9. /\ reaches' \in [Slots -> Seq(Masks)] /\ kept' \subseteq Carriers
      /\ FatesOK' /\ MasksCovered' /\ KeysFollowBytes'
  <2>1. CASE UNCHANGED <<reaches, kept>>
    <3>1. \A s \in Slots : Len(reaches[s]) \in Nat
      BY DEF IInv, Kinds
    <3>2. FatesOK' /\ KeysFollowBytes'
      BY <1>3, <1>7, <2>1, <3>1, GrownTables DEF IInv, MovesWhole, Kinds
    <3>3. MasksCovered'
      BY <1>7, <2>1 DEF IInv, MovesWhole, MasksCovered
    <3> QED
      BY <2>1, <3>2, <3>3 DEF IInv, Kinds, TypeOK
  <2>2. CASE Keep(dest, [o.reach EXCEPT !.slab = @ \cup {dest}], o.over \cup {Occupant(dest)})
    <3> DEFINE mask == [o.reach EXCEPT !.slab = @ \cup {dest}]
               over == o.over \cup {Occupant(dest)}
    <3>1. mask \in Masks /\ mask.slab = o.reach.slab \cup {dest} /\ mask.ids = o.reach.ids
      BY <1>4 DEF Sound, Masks
    <3>2. mask.slab \subseteq pins'[dest] \cup {dest} /\ mask.ids \subseteq held'[dest]
      BY <1>5, <3>1
    <3>3. over \in SUBSET Births /\ Keep(dest, mask, over)
      BY <1>4, <1>7, <2>2
    <3> HIDE DEF mask, over
    <3> QED
      BY <1>3, <1>7, <1>8, <3>1, <3>2, <3>3, KeepKeeps
  <2> QED
    BY <1>1, <2>1, <2>2
<1>10. Kinds'
  <2>1. \A s \in Slots : \A k \in DOMAIN reaches'[s] : reaches'[s][k] \in Masks
    BY <1>9
  <2>2. reads' \subseteq Births \X Births
    BY <1>1, <1>4, <1>7 DEF IInv, Kinds, TypeOK
  <2> QED
    BY <1>3, <1>5, <1>9, <2>1, <2>2 DEF IInv, Kinds, TypeOK
<1> QED
  BY <1>5, <1>6, <1>9, <1>10 DEF IInv, Names, MovesWhole

-----------------------------------------------------------------------------
\* Where bytes go, and the keys with them.

\* A slot is left: its birth has departed, and one more serial may be minted.
LEMMA Vacated ==
    ASSUME IInv, NEW s \in Slots, dying = s, Vacate(s)
    PROVE  /\ Occupied(s) /\ ~Occupied(s)' /\ target = NoId /\ Settled
           /\ \A t \in Slots \ {s} : /\ Occupied(t)' <=> Occupied(t)
                                     /\ Occupant(t)' = Occupant(t)
           /\ Occupant(s) \in Born \ Departed
           /\ Born' = Born /\ Departed' = Departed \cup {Occupant(s)}
           /\ Cardinality(Departed') = Cardinality(Departed) + 1
           /\ serial + 1 <= MaxBirths
           /\ life' \in [Slots -> {"free", "live", "dead"}] /\ gen' \in [Slots -> 0 .. MaxBirths]
           /\ refused' \in [Slots -> BOOLEAN] /\ dying' = NoSlot
           /\ UNCHANGED <<below, kept>>
<1>0. TypeOK /\ SerialsOK /\ DisposalOK /\ MaxBirths \in Nat
  BY Apart DEF IInv, Kinds
<1>1. /\ life' = [life EXCEPT ![s] = "free"] /\ gen' = [gen EXCEPT ![s] = @ + 1]
      /\ refused' = [refused EXCEPT ![s] = FALSE] /\ dying' = NoSlot /\ UNCHANGED <<below, kept>>
  BY DEF Vacate
<1>2. Occupied(s) /\ target = NoId /\ Settled
  BY <1>0, Apart DEF DisposalOK, Occupied
<1>3. /\ ~Occupied(s)'
      /\ \A t \in Slots \ {s} : (Occupied(t)' <=> Occupied(t)) /\ Occupant(t)' = Occupant(t)
  BY <1>0, <1>1 DEF TypeOK, Occupied, Occupant
<1>4. Occupant(s) \in Born \ Departed
  BY <1>0, <1>2, OccupantBorn
<1>5. gen[s] \in Nat /\ gen'[s] = gen[s] + 1 /\ \A t \in Slots \ {s} : gen'[t] = gen[t]
  BY <1>0, <1>1 DEF TypeOK
<1>6. ASSUME NEW b \in Births
      PROVE  /\ b \in Born' <=> b \in Born
             /\ b \in Departed' <=> b \in Departed \/ b = Occupant(s)
  <2>1. b[1] \in Slots /\ b[2] \in Nat /\ b = <<b[1], b[2]>>
    BY <1>0 DEF Births
  <2>2. CASE b[1] = s
    BY <1>2, <1>3, <1>5, <2>1, <2>2 DEF Born, Departed, Occupant
  <2>3. CASE b[1] # s
    BY <1>3, <1>5, <2>1, <2>3 DEF Born, Departed, Occupant
  <2> QED
    BY <2>2, <2>3
<1>7. Born' = Born /\ Departed' = Departed \cup {Occupant(s)}
  BY <1>4, <1>6 DEF Born, Departed
<1>8. Cardinality(Departed') = Cardinality(Departed) + 1
  BY <1>4, <1>7, BirthsFinite, FS_AddElement
<1>9. serial + 1 <= MaxBirths
  <2>1. Departed \cup {Occupant(s)} \subseteq Born
    BY <1>4, BirthsFinite
  <2>2. Cardinality(Departed) + 1 <= Cardinality(Born)
    BY <1>7, <1>8, <2>1, BirthsFinite, FS_Subset
  <2> QED
    BY <1>0, <2>2, BirthsFinite DEF SerialsOK, TypeOK
<1>10. gen' \in [Slots -> 0 .. MaxBirths]
  <2> DEFINE P == {s} \X (0 .. gen[s])
  <2>1. ASSUME NEW n \in 0 .. gen[s] PROVE <<s, n>> \in Born
    <3>0. gen[s] \in 0 .. MaxBirths
      BY <1>0 DEF TypeOK
    <3>1. n \in 0 .. MaxBirths /\ (n < gen[s] \/ n = gen[s])
      BY <1>0, <1>5, <3>0
    <3>2. <<s, n>> \in Births /\ <<s, n>>[1] = s /\ <<s, n>>[2] = n
      BY <3>1 DEF Births
    <3> QED
      BY <1>2, <3>1, <3>2 DEF Born
  <2>2. IsFiniteSet(0 .. gen[s]) /\ Cardinality(0 .. gen[s]) = gen[s] + 1
    BY <1>5, FS_Interval
  <2>3. IsFiniteSet({s}) /\ Cardinality({s}) = 1
    BY FS_Singleton
  <2>4. Cardinality(P) = 1 * (gen[s] + 1)
    <3>1. Cardinality({s} \X (0 .. gen[s])) = Cardinality({s}) * Cardinality(0 .. gen[s])
      BY <2>2, <2>3, FS_Product, Zenon
    <3>2. Cardinality({s}) * Cardinality(0 .. gen[s]) = 1 * (gen[s] + 1)
      BY <2>2, <2>3, Zenon
    <3> QED
      BY <3>1, <3>2, Zenon DEF P
  <2>5. Cardinality(P) <= Cardinality(Born)
    <3>1. P \subseteq Born
      BY <2>1
    <3> QED
      BY <3>1, BirthsFinite, FS_Subset
  <2> HIDE DEF P
  <2>6. gen[s] + 1 <= MaxBirths
    BY <1>0, <1>5, <2>4, <2>5, BirthsFinite DEF SerialsOK
  <2> QED
    BY <1>0, <1>1, <1>5, <2>6 DEF TypeOK
<1>11. life' \in [Slots -> {"free", "live", "dead"}] /\ refused' \in [Slots -> BOOLEAN]
  BY <1>0, <1>1 DEF TypeOK
<1> QED
  BY <1>1, <1>2, <1>3, <1>4, <1>7, <1>8, <1>9, <1>10, <1>11

\* What is kept of a key: where its cell has left, where it leads to and at which entry.
KeysAt ==
    \A v \in kept :
        IF v.home \in Departed
        THEN /\ fate[v.home] = Nowhere => \A r \in Regions : v.home \notin bundle[r]
             /\ fate[v.home] \in Slots =>
                    first[v.home] + v.index \in DOMAIN reaches[fate[v.home]]
        ELSE v.index \in DOMAIN reaches[v.home[1]]

\* That is what keys promise.
LEMMA KeysAre == TypeOK /\ BundlesOK /\ FatesOK => (KeysFollowBytes <=> KeysAt)
<1> SUFFICES ASSUME TypeOK, BundlesOK, FatesOK PROVE KeysFollowBytes <=> KeysAt
  OBVIOUS
<1> DEFINE follows(v) ==
             LET place == Locate(v.home)
             IN  /\ place = Nowhere <=> \A r \in Regions : v.home \notin bundle[r]
                 /\ place # Nowhere => v.home \in bundle[place]
                 /\ place \in Slots => FirstIndex(v.home) + v.index \in DOMAIN reaches[place]
           at(v) ==
             IF v.home \in Departed
             THEN /\ fate[v.home] = Nowhere => \A r \in Regions : v.home \notin bundle[r]
                  /\ fate[v.home] \in Slots =>
                         first[v.home] + v.index \in DOMAIN reaches[fate[v.home]]
             ELSE v.index \in DOMAIN reaches[v.home[1]]
<1>1. ASSUME NEW v \in kept PROVE follows(v) <=> at(v)
  <2>1. /\ v.home \in Births /\ v.home \in Born /\ v.index \in Nat
        /\ v.home[1] \in Slots /\ v.home[2] \in Nat /\ v.home = <<v.home[1], v.home[2]>>
        /\ gen[v.home[1]] \in Nat
    BY SlabAssumption DEF TypeOK, Carriers, FatesOK, Births
  <2>2. CASE v.home \in Departed
    <3>1. gen[v.home[1]] # v.home[2]
      BY <2>1, <2>2 DEF Departed
    <3>2. Locate(v.home) = fate[v.home] /\ FirstIndex(v.home) = first[v.home]
      BY <3>1 DEF Locate, FirstIndex
    <3>3. fate[v.home] # Nowhere => fate[v.home] \in Regions /\ v.home \in bundle[fate[v.home]]
      BY <2>1 DEF TypeOK, FatesOK
    <3> QED
      BY <2>2, <3>2, <3>3
  <2>3. CASE v.home \notin Departed
    <3>1. gen[v.home[1]] = v.home[2] /\ Occupied(v.home[1])
      BY <2>1, <2>3 DEF Born, Departed
    <3>2. Locate(v.home) = v.home[1] /\ FirstIndex(v.home) = 0 /\ v.home = Occupant(v.home[1])
      BY <2>1, <3>1 DEF Locate, FirstIndex, Occupant
    <3>3. v.home \in bundle[v.home[1]] /\ v.home[1] \in Regions /\ v.home[1] # Nowhere
      BY <2>1, <3>1, <3>2, Apart DEF BundlesOK, Regions
    <3> QED
      BY <2>1, <2>3, <3>2, <3>3
  <2> QED
    BY <2>2, <2>3
<1> QED
  BY <1>1 DEF KeysFollowBytes, KeysAt

\* And in the next state.
LEMMA KeysAreNext == (TypeOK /\ BundlesOK /\ FatesOK => (KeysFollowBytes <=> KeysAt))'
BY KeysAre, PTL

\* A region is left: a slot, with its birth, or a sealed region.
Leaves(r, gone) ==
    /\ r \in Regions /\ kept' = kept
    /\ Born' = Born /\ Departed' = Departed \cup gone
    /\ \A t \in Slots : t # r => (Occupied(t)' <=> Occupied(t)) /\ Occupant(t)' = Occupant(t)
    /\ r \in Slots => Occupied(r) /\ ~Occupied(r)' /\ gone = {Occupant(r)}
    /\ r \in Ids => gone = {}
    /\ r \notin tier' /\ \A i \in tier : i = r \/ i \in tier'

\* What a step that leaves a region may rely on.
LEMMA LeavesFacts ==
    ASSUME IInv, NEW r, NEW gone, Leaves(r, gone)
    PROVE  /\ r \in Regions /\ bundle \in [Regions -> SUBSET Births]
           /\ fate \in [Births -> Regions \cup {Nowhere}]
           /\ gone \subseteq bundle[r] /\ gone \subseteq Births \ Departed /\ gone \subseteq Born
           /\ \A b \in gone : fate[b] = Nowhere
           /\ \A v \in kept : /\ v.home \in Born /\ v.home \in Births
                              /\ v.home \notin Departed => /\ v.home[1] \in Slots
                                                           /\ v.home[1] = r => v.home \in gone
           /\ KeysAt
<1>1. TypeOK /\ BundlesOK /\ FatesOK /\ KeysFollowBytes
  BY DEF IInv, Kinds, MovesWhole
<1>2. r \in Regions /\ (r \in Slots \/ r \in Ids)
  BY DEF Leaves, Regions
<1>3. gone \subseteq bundle[r] /\ gone \subseteq Births \ Departed /\ gone \subseteq Born
  <2>1. CASE r \in Slots
    BY <1>1, <2>1, OccupantBorn DEF Leaves, BundlesOK
  <2>2. CASE r \in Ids
    BY <2>2 DEF Leaves
  <2> QED
    BY <1>2, <2>1, <2>2
<1>4. \A b \in gone : fate[b] = Nowhere
  BY <1>1, <1>3 DEF FatesOK
<1>5. ASSUME NEW v \in kept
      PROVE  /\ v.home \in Born /\ v.home \in Births
             /\ v.home \notin Departed => /\ v.home[1] \in Slots
                                          /\ v.home[1] = r => v.home \in gone
  <2>1. v.home \in Born /\ v.home \in Births
    BY <1>1 DEF FatesOK, TypeOK, Carriers
  <2>2. v.home[1] \in Slots /\ v.home = <<v.home[1], v.home[2]>>
    BY <2>1 DEF Births
  <2>3. v.home \notin Departed => v.home = Occupant(v.home[1])
    BY <2>1, <2>2 DEF Born, Departed, Occupant
  <2> QED
    BY <2>1, <2>2, <2>3 DEF Leaves
<1>6. KeysAt
  BY <1>1, KeysAre
<1> QED
  BY <1>1, <1>2, <1>3, <1>4, <1>5, <1>6 DEF TypeOK

\* The bytes of a region left move to another, and its keys follow them.
LEMMA BytesMove ==
    ASSUME IInv, NEW r, NEW gone, Leaves(r, gone),
           NEW p \in Regions, p # r, p \in Slots => Occupied(p), p \in Ids => p \in tier',
           bundle' = Splice(r, p),
           NEW D \in SUBSET gone, \A v \in kept : v.home \in gone => v.home \in D,
           fate' = [b \in Births |-> IF b \in Lineage(r) \cup D THEN p ELSE fate[b]],
           \A b \in Births : b \notin Lineage(r) \cup D => first'[b] = first[b],
           \A t \in Slots : t # r => DOMAIN reaches[t] \subseteq DOMAIN reaches'[t],
           p \in Slots =>
             /\ r \in Slots
             /\ \E off \in Nat : /\ \A b \in Lineage(r) : first'[b] = off + first[b]
                                 /\ \A b \in D : first'[b] = off
                                 /\ \A k \in DOMAIN reaches[r] : off + k \in DOMAIN reaches'[p]
    PROVE  BundlesOK' /\ FatesOK' /\ KeysAt'
<1>0. /\ TypeOK /\ BundlesOK /\ FatesOK
      /\ r \in Regions /\ bundle \in [Regions -> SUBSET Births]
      /\ gone \subseteq bundle[r] /\ gone \subseteq Births \ Departed /\ gone \subseteq Born
      /\ KeysAt /\ kept' = kept
  BY LeavesFacts DEF IInv, Kinds, Leaves
<1>1. /\ bundle'[p] = bundle[p] \cup bundle[r] /\ bundle'[r] = {}
      /\ \A q \in Regions : q # p /\ q # r => bundle'[q] = bundle[q]
  BY <1>0 DEF Splice
<1>2. BundlesOK'
  <2>1. \A q \in Regions : bundle'[q] \subseteq Born'
    BY <1>0, <1>1 DEF BundlesOK, Leaves
  <2>2. \A q, t \in Regions : q # t => bundle'[q] \cap bundle'[t] = {}
    BY <1>0, <1>1 DEF BundlesOK
  <2>3. ASSUME NEW t \in Slots
        PROVE  IF Occupied(t)' THEN Occupant(t)' \in bundle'[t] ELSE bundle'[t] = {}
    <3>1. CASE t = r
      BY <1>1, <3>1 DEF Leaves
    <3>2. CASE t # r
      <4>1. (Occupied(t)' <=> Occupied(t)) /\ Occupant(t)' = Occupant(t) /\ t \in Regions
        BY <3>2 DEF Leaves, Regions
      <4> QED
        BY <1>0, <1>1, <3>2, <4>1 DEF BundlesOK
    <3> QED
      BY <3>1, <3>2
  <2>4. \A i \in Ids \ tier' : bundle'[i] = {}
    <3>1. \A i \in Ids \ tier' : i \in Regions /\ i # p /\ (i = r \/ i \notin tier)
      BY DEF Regions, Leaves
    <3> QED
      BY <1>0, <1>1, <3>1 DEF BundlesOK
  <2> QED
    BY <2>1, <2>2, <2>3, <2>4 DEF BundlesOK
<1>3. \A b \in Lineage(r) : b \in Departed /\ b \in bundle[r] /\ b \in Births /\ fate[b] = r
  BY <1>0, Apart DEF Lineage, FatesOK
<1>4. FatesOK'
  <2>1. ASSUME NEW b \in Births, fate'[b] # Nowhere
        PROVE  b \in Departed' /\ b \in bundle'[fate'[b]]
    <3>1. CASE b \in Lineage(r) \cup D
      BY <1>0, <1>1, <1>3, <3>1 DEF Leaves
    <3>2. CASE b \notin Lineage(r) \cup D
      <4>1. fate'[b] = fate[b] /\ fate[b] # r /\ fate[b] \in Regions
        BY <1>0, <2>1, <3>2 DEF Lineage, TypeOK
      <4>2. b \in Departed /\ b \in bundle[fate[b]]
        BY <1>0, <2>1, <4>1 DEF FatesOK
      <4> QED
        BY <1>1, <4>1, <4>2 DEF Leaves
    <3> QED
      BY <3>1, <3>2
  <2> QED
    BY <1>0, <2>1 DEF FatesOK, Leaves
<1>5. KeysAt'
  <2> SUFFICES ASSUME NEW v \in kept
               PROVE  IF v.home \in Departed'
                      THEN /\ fate'[v.home] = Nowhere =>
                                \A q \in Regions : v.home \notin bundle'[q]
                           /\ fate'[v.home] \in Slots =>
                                first'[v.home] + v.index \in DOMAIN reaches'[fate'[v.home]]
                      ELSE v.index \in DOMAIN reaches'[v.home[1]]
    BY <1>0 DEF KeysAt
  <2> DEFINE h == v.home
  <2>1. /\ h \in Births /\ h \in Born /\ v.index \in Nat /\ first[h] \in Nat
        /\ h \notin Departed => h[1] \in Slots /\ (h[1] = r => h \in gone)
    BY <1>0, LeavesFacts DEF TypeOK, Carriers
  <2>2. IF h \in Departed
        THEN /\ fate[h] = Nowhere => \A q \in Regions : h \notin bundle[q]
             /\ fate[h] \in Slots => first[h] + v.index \in DOMAIN reaches[fate[h]]
        ELSE v.index \in DOMAIN reaches[h[1]]
    BY <1>0 DEF KeysAt
  <2>3. Departed' = Departed \cup gone /\ (h \in gone => h \in D)
    BY DEF Leaves
  <2> HIDE DEF h
  <2>4. CASE h \in Lineage(r)
    <3>1. fate'[h] = p /\ p # Nowhere /\ h \in Departed /\ fate[h] = r
      BY <1>3, <2>1, <2>4, Apart
    <3>2. ASSUME p \in Slots PROVE first'[h] + v.index \in DOMAIN reaches'[p]
      <4>1. PICK off \in Nat : /\ \A b \in Lineage(r) : first'[b] = off + first[b]
                               /\ \A k \in DOMAIN reaches[r] : off + k \in DOMAIN reaches'[p]
        BY <3>2
      <4>2. first[h] + v.index \in DOMAIN reaches[r]
        BY <2>2, <3>1, <3>2
      <4>3. first'[h] + v.index = off + (first[h] + v.index)
        BY <2>1, <2>4, <4>1
      <4> QED
        BY <4>1, <4>2, <4>3
    <3> QED
      BY <2>3, <3>1, <3>2 DEF h
  <2>5. CASE h \in D
    <3>1. fate'[h] = p /\ p # Nowhere /\ h \notin Departed
      BY <1>0, <2>1, <2>5, Apart
    <3>2. ASSUME p \in Slots PROVE first'[h] + v.index \in DOMAIN reaches'[p]
      <4>1. PICK off \in Nat : /\ \A b \in D : first'[b] = off
                               /\ \A k \in DOMAIN reaches[r] : off + k \in DOMAIN reaches'[p]
        BY <3>2
      <4>2. h[1] = r
        BY <2>5, <3>2 DEF Leaves, Occupant
      <4> QED
        BY <2>2, <2>5, <3>1, <4>1, <4>2
    <3> QED
      BY <2>3, <2>5, <3>1, <3>2 DEF h
  <2>6. CASE h \in Departed /\ h \notin Lineage(r) \cup D
    <3>1. fate'[h] = fate[h] /\ fate[h] # r /\ first'[h] = first[h]
      BY <2>1, <2>6 DEF Lineage
    <3>2. fate[h] = Nowhere => \A q \in Regions : h \notin bundle'[q]
      BY <1>0, <1>1, <2>2, <2>6
    <3>3. fate[h] \in Slots => first'[h] + v.index \in DOMAIN reaches'[fate'[h]]
      BY <2>2, <2>6, <3>1
    <3> QED
      BY <2>3, <2>6, <3>1, <3>2, <3>3 DEF h
  <2>7. CASE h \notin Departed /\ h \notin gone
    BY <2>1, <2>2, <2>3, <2>7 DEF h
  <2> QED
    BY <2>3, <2>4, <2>5, <2>6, <2>7
<1> QED
  BY <1>2, <1>4, <1>5

\* To a sealed region, where no table is.
LEMMA BytesSeal ==
    ASSUME IInv, NEW r, NEW gone, Leaves(r, gone), NEW p \in Ids, p # r, p \in tier',
           bundle' = Splice(r, p),
           NEW D \in SUBSET gone, \A v \in kept : v.home \in gone => v.home \in D,
           fate' = [b \in Births |-> IF b \in Lineage(r) \cup D THEN p ELSE fate[b]],
           \A b \in Births : b \notin Lineage(r) \cup D => first'[b] = first[b],
           \A t \in Slots : t # r => DOMAIN reaches[t] \subseteq DOMAIN reaches'[t]
    PROVE  BundlesOK' /\ FatesOK' /\ KeysAt'
<1>1. p \in Regions /\ p \notin Slots
  BY Apart DEF Regions
<1> QED
  BY <1>1, BytesMove

\* The bytes of a region left are freed, and its keys lead nowhere.
LEMMA BytesFree ==
    ASSUME IInv, NEW r, NEW gone, Leaves(r, gone),
           bundle' = [bundle EXCEPT ![r] = {}],
           fate' = [b \in Births |-> IF b \in Lineage(r) THEN Nowhere ELSE fate[b]],
           \A b \in Births : b \notin Lineage(r) => first'[b] = first[b],
           \A t \in Slots : t # r => DOMAIN reaches[t] \subseteq DOMAIN reaches'[t]
    PROVE  BundlesOK' /\ FatesOK' /\ KeysAt'
<1>0. /\ TypeOK /\ BundlesOK /\ FatesOK
      /\ r \in Regions /\ bundle \in [Regions -> SUBSET Births]
      /\ gone \subseteq bundle[r] /\ gone \subseteq Births \ Departed /\ gone \subseteq Born
      /\ \A b \in gone : fate[b] = Nowhere
      /\ KeysAt /\ kept' = kept
  BY LeavesFacts DEF IInv, Kinds, Leaves
<1>1. bundle'[r] = {} /\ \A q \in Regions : q # r => bundle'[q] = bundle[q]
  BY <1>0
<1>2. BundlesOK'
  <2>1. \A q \in Regions : bundle'[q] \subseteq Born'
    BY <1>0, <1>1 DEF BundlesOK, Leaves
  <2>2. \A q, t \in Regions : q # t => bundle'[q] \cap bundle'[t] = {}
    BY <1>0, <1>1 DEF BundlesOK
  <2>3. ASSUME NEW t \in Slots
        PROVE  IF Occupied(t)' THEN Occupant(t)' \in bundle'[t] ELSE bundle'[t] = {}
    <3>1. CASE t = r
      BY <1>1, <3>1 DEF Leaves
    <3>2. CASE t # r
      <4>1. (Occupied(t)' <=> Occupied(t)) /\ Occupant(t)' = Occupant(t) /\ t \in Regions
        BY <3>2 DEF Leaves, Regions
      <4> QED
        BY <1>0, <1>1, <3>2, <4>1 DEF BundlesOK
    <3> QED
      BY <3>1, <3>2
  <2>4. \A i \in Ids \ tier' : bundle'[i] = {}
    <3>1. \A i \in Ids \ tier' : i \in Regions /\ (i = r \/ i \notin tier)
      BY DEF Regions, Leaves
    <3> QED
      BY <1>0, <1>1, <3>1 DEF BundlesOK
  <2> QED
    BY <2>1, <2>2, <2>3, <2>4 DEF BundlesOK
<1>4. FatesOK'
  <2>1. ASSUME NEW b \in Births, fate'[b] # Nowhere
        PROVE  b \in Departed' /\ b \in bundle'[fate'[b]]
    <3>1. fate'[b] = fate[b] /\ fate[b] # r /\ fate[b] \in Regions
      BY <1>0, <2>1 DEF Lineage, TypeOK
    <3>2. b \in Departed /\ b \in bundle[fate[b]]
      BY <1>0, <2>1, <3>1 DEF FatesOK
    <3> QED
      BY <1>1, <3>1, <3>2 DEF Leaves
  <2> QED
    BY <1>0, <2>1 DEF FatesOK, Leaves
<1>5. KeysAt'
  <2> SUFFICES ASSUME NEW v \in kept
               PROVE  IF v.home \in Departed'
                      THEN /\ fate'[v.home] = Nowhere =>
                                \A q \in Regions : v.home \notin bundle'[q]
                           /\ fate'[v.home] \in Slots =>
                                first'[v.home] + v.index \in DOMAIN reaches'[fate'[v.home]]
                      ELSE v.index \in DOMAIN reaches'[v.home[1]]
    BY <1>0 DEF KeysAt
  <2> DEFINE h == v.home
  <2>1. /\ h \in Births /\ h \in Born /\ v.index \in Nat /\ first[h] \in Nat
        /\ h \notin Departed => h[1] \in Slots /\ (h[1] = r => h \in gone)
    BY <1>0, LeavesFacts DEF TypeOK, Carriers
  <2>2. IF h \in Departed
        THEN /\ fate[h] = Nowhere => \A q \in Regions : h \notin bundle[q]
             /\ fate[h] \in Slots => first[h] + v.index \in DOMAIN reaches[fate[h]]
        ELSE v.index \in DOMAIN reaches[h[1]]
    BY <1>0 DEF KeysAt
  <2>3. Departed' = Departed \cup gone
    BY DEF Leaves
  <2> HIDE DEF h
  <2>4. CASE h \in bundle[r]
    <3>1. \A q \in Regions : h \notin bundle'[q]
      BY <1>0, <1>1, <2>4 DEF BundlesOK
    <3>2. h \in Departed => fate'[h] = Nowhere
      <4>1. ASSUME h \in Departed PROVE fate[h] = r
        <5>1. fate[h] # Nowhere
          BY <1>0, <2>2, <2>4, <4>1
        <5>2. fate[h] \in Regions /\ h \in bundle[fate[h]]
          BY <1>0, <2>1, <5>1 DEF TypeOK, FatesOK
        <5> QED
          BY <1>0, <2>4, <5>2 DEF BundlesOK
      <4> QED
        BY <2>1, <4>1 DEF Lineage
    <3>3. h \in gone => fate'[h] = Nowhere
      BY <1>0, <2>1 DEF Lineage
    <3>4. h \notin Departed' => v.index \in DOMAIN reaches'[h[1]]
      BY <2>1, <2>2, <2>3
    <3> QED
      BY <2>3, <3>1, <3>2, <3>3, <3>4, Apart DEF h, Regions
  <2>5. CASE h \notin bundle[r]
    <3>1. h \notin gone /\ h \notin Lineage(r)
      BY <1>0, <2>5, Apart DEF Lineage, FatesOK
    <3>2. fate'[h] = fate[h] /\ first'[h] = first[h] /\ fate[h] # r
      BY <2>1, <3>1 DEF Lineage
    <3>3. h \in Departed => (fate[h] = Nowhere => \A q \in Regions : h \notin bundle'[q])
      BY <1>0, <1>1, <2>2
    <3>4. h \in Departed => (fate[h] \in Slots => first'[h] + v.index \in DOMAIN reaches'[fate[h]])
      BY <2>2, <3>2
    <3>5. h \notin Departed => v.index \in DOMAIN reaches'[h[1]]
      BY <2>1, <2>2, <3>1
    <3> QED
      BY <2>3, <3>1, <3>2, <3>3, <3>4, <3>5 DEF h
  <2> QED
    BY <2>4, <2>5
<1> QED
  BY <1>2, <1>4, <1>5

-----------------------------------------------------------------------------
\* The disposals.

\* What a disposal finds.
LEMMA DyingFacts ==
    ASSUME IInv, NEW s \in Slots, dying = s
    PROVE  /\ TypeOK /\ Names /\ Occupied(s) /\ target = NoId
           /\ \A i \in Ids : drops[i] = 0
           /\ \A t \in Slots : /\ s \in Holding(t) <=> t \in pins[s]
                               /\ t \in Holding(s) <=> s \in pins[t]
           /\ pins[s] \subseteq Slots \ {s} /\ held[s] \subseteq tier /\ tier \subseteq Ids
           /\ s \notin Holding(s)
<1>1. TypeOK /\ Names /\ DisposalOK
  BY DEF IInv, Kinds, Names
<1>2. life[s] = "dead" /\ target = NoId /\ Settled
  BY <1>1, Apart DEF DisposalOK
<1>3. Occupied(s)
  BY <1>2 DEF Occupied
<1>4. \A t \in Slots : /\ s \in Holding(t) <=> t \in pins[s]
                       /\ t \in Holding(s) <=> s \in pins[t]
  BY <1>1, <1>3 DEF Holding, Names, NamesLive
<1>5. pins[s] \subseteq Slots \ {s} /\ held[s] \subseteq tier /\ tier \subseteq Ids
  BY <1>1, <1>3 DEF Names, NamesLive, TypeOK
<1> QED
  BY <1>1, <1>2, <1>3, <1>4, <1>5 DEF Settled

\* A row is cleared, and its slot's column with it: the tallies count the rows left.
LEMMA RowCleared ==
    ASSUME IInv, NEW s \in Slots, dying = s, Vacate(s),
           pins' \in [Slots -> SUBSET Slots], pins'[s] = {},
           \A o \in Slots : o # s => pins'[o] = pins[o] \ {s},
           \A t \in Slots : tally'[t] = IF t = s THEN 0 ELSE tally[t] - One(t \in pins[s])
    PROVE  /\ \A t \in Slots : /\ tally'[t] = Cardinality(Holding(t)') /\ tally'[t] \in Nat
                               /\ Holding(t)' = IF t = s THEN {} ELSE Holding(t) \ {s}
           /\ \A o \in Slots : \A t \in pins'[o] : Occupied(o)' /\ Occupied(t)' /\ o # t
<1>0. /\ TypeOK /\ Names /\ Occupied(s)
      /\ \A t \in Slots : /\ s \in Holding(t) <=> t \in pins[s]
                          /\ t \in Holding(s) <=> s \in pins[t]
      /\ ~Occupied(s)' /\ \A t \in Slots \ {s} : Occupied(t)' <=> Occupied(t)
  BY DyingFacts, Vacated
<1>1. ASSUME NEW t \in Slots
      PROVE  Holding(t)' = IF t = s THEN {} ELSE Holding(t) \ {s}
  BY <1>0 DEF Holding
<1>2. ASSUME NEW t \in Slots
      PROVE  tally'[t] = Cardinality(Holding(t)') /\ tally'[t] \in Nat
  <2>1. CASE t = s
    <3>1. Holding(t)' = {} /\ tally'[t] = 0
      BY <1>1, <2>1
    <3> QED
      BY <3>1, FS_EmptySet
  <2>2. CASE t # s
    <3>1. Holding(t) \in SUBSET Slots /\ Holding(t)' \in SUBSET Slots
      BY DEF Holding
    <3>2. Holding(t)' = Holding(t) \ {s} /\ tally[t] = Cardinality(Holding(t))
      BY <1>0, <1>1, <2>2 DEF Names, CountsExact
    <3>3. /\ Cardinality(Holding(t)) \in Nat /\ Cardinality(Holding(t)') \in Nat
          /\ (s \in Holding(t) <=> s \in Holding(t)') =>
                  Cardinality(Holding(t)') = Cardinality(Holding(t))
          /\ s \in Holding(t) /\ s \notin Holding(t)' =>
                  Cardinality(Holding(t)') = Cardinality(Holding(t)) - 1
      <4>1. Holding(t) \ {s} = Holding(t)' \ {s}
        BY <3>2
      <4> QED
        BY <3>1, <4>1, Apart, OneMoves
    <3>4. tally'[t] = tally[t] - One(t \in pins[s])
      BY <2>2
    <3>5. s \notin Holding(t)'
      BY <3>2
    <3> QED
      BY <1>0, <3>2, <3>3, <3>4, <3>5 DEF One
  <2> QED
    BY <2>1, <2>2
<1>3. \A o \in Slots : \A t \in pins'[o] : Occupied(o)' /\ Occupied(t)' /\ o # t
  BY <1>0 DEF Names, NamesLive
<1> QED
  BY <1>1, <1>2, <1>3

\* A slot lets go of what it held: each region it held has one holder less in the slab.
LEMMA HoldsCleared ==
    ASSUME TypeOK, NEW s \in Slots, held' = [held EXCEPT ![s] = {}], NEW i \in Ids
    PROVE  /\ Cardinality(HeldBy(i)) \in Nat /\ Cardinality(HeldBy(i)') \in Nat
           /\ Cardinality(HeldBy(i)) = Cardinality(HeldBy(i)') + One(i \in held[s])
<1>1. HeldBy(i) \in SUBSET Slots /\ HeldBy(i)' \in SUBSET Slots
  BY DEF HeldBy
<1>2. /\ HeldBy(i) \ {s} = HeldBy(i)' \ {s} /\ s \notin HeldBy(i)'
      /\ s \in HeldBy(i) <=> i \in held[s]
  BY DEF HeldBy, TypeOK
<1>3. /\ Cardinality(HeldBy(i)) \in Nat /\ Cardinality(HeldBy(i)') \in Nat
      /\ (s \in HeldBy(i) <=> s \in HeldBy(i)') => Cardinality(HeldBy(i)') = Cardinality(HeldBy(i))
      /\ s \in HeldBy(i) /\ s \notin HeldBy(i)' =>
              Cardinality(HeldBy(i)') = Cardinality(HeldBy(i)) - 1
  BY <1>1, <1>2, Apart, OneMoves
<1> QED
  BY <1>2, <1>3 DEF One

\* `reclaim`.
LEMMA ReclaimIInv ==
    ASSUME IInv, NEW s \in Slots, Reclaim(s)
    PROVE  IInv'
<1>1. /\ dying = s /\ tally[s] = 0 /\ naming[s] = {} /\ Vacate(s)
      /\ pins' = [pins EXCEPT ![s] = {}]
      /\ tally' = [t \in Slots |-> tally[t] - One(t \in pins[s])]
      /\ held' = [held EXCEPT ![s] = {}]
      /\ drops' = [i \in Ids |-> One(i \in held[s])]
      /\ reaches' = [reaches EXCEPT ![s] = <<>>]
      /\ fate' = [b \in Births |-> IF b \in Lineage(s) THEN Nowhere ELSE fate[b]]
      /\ first' = [b \in Births |-> IF b \in Lineage(s) THEN 0 ELSE first[b]]
      /\ bundle' = [bundle EXCEPT ![s] = {}]
      /\ reads' = {e \in reads : e[1] \notin bundle[s]}
      /\ UNCHANGED <<naming, serial, tier, aggSlots, aggIds, holders, target, merging>>
  BY DEF Reclaim, Unreached, Forward, Free
<1>2. /\ TypeOK /\ Names /\ Occupied(s) /\ target = NoId /\ \A i \in Ids : drops[i] = 0
      /\ \A t \in Slots : /\ s \in Holding(t) <=> t \in pins[s]
                          /\ t \in Holding(s) <=> s \in pins[t]
      /\ pins[s] \subseteq Slots \ {s} /\ held[s] \subseteq tier /\ tier \subseteq Ids
  BY <1>1, DyingFacts
<1>3. /\ Occupied(s) /\ ~Occupied(s)'
      /\ \A t \in Slots \ {s} : (Occupied(t)' <=> Occupied(t)) /\ Occupant(t)' = Occupant(t)
      /\ Born' = Born /\ Departed' = Departed \cup {Occupant(s)}
      /\ Cardinality(Departed') = Cardinality(Departed) + 1
      /\ life' \in [Slots -> {"free", "live", "dead"}] /\ gen' \in [Slots -> 0 .. MaxBirths]
      /\ refused' \in [Slots -> BOOLEAN] /\ dying' = NoSlot
      /\ UNCHANGED <<below, kept>>
  BY <1>1, Vacated
<1>4. Holding(s) = {}
  <2>1. Cardinality(Holding(s)) = 0 /\ Holding(s) \in SUBSET Slots
    BY <1>1, <1>2 DEF Names, CountsExact, Holding
  <2> QED
    BY <2>1, Apart, FS_Subset, FS_EmptySet
<1>5. \A o \in Slots : o # s => pins'[o] = pins[o] \ {s}
  BY <1>1, <1>2, <1>4 DEF TypeOK
<1>6. pins' \in [Slots -> SUBSET Slots] /\ pins'[s] = {}
  BY <1>1, <1>2 DEF TypeOK
<1>7. \A t \in Slots : tally'[t] = IF t = s THEN 0 ELSE tally[t] - One(t \in pins[s])
  BY <1>1, <1>2 DEF One
<1>8. /\ \A t \in Slots : tally'[t] = Cardinality(Holding(t)') /\ tally'[t] \in Nat
      /\ \A o \in Slots : \A t \in pins'[o] : Occupied(o)' /\ Occupied(t)' /\ o # t
  BY <1>1, <1>5, <1>6, <1>7, RowCleared
<1>9. CountsExact'
  <2>1. ASSUME NEW i \in tier
        PROVE  holders'[i] = Cardinality(HeldBy(i)') + Cardinality(NamedBy(i)') + drops'[i]
    <3>1. i \in Ids /\ holders[i] = Cardinality(HeldBy(i)) + Cardinality(NamedBy(i)) + drops[i]
      BY <1>2, CountsAre DEF Names
    <3>2. /\ Cardinality(HeldBy(i)) \in Nat /\ Cardinality(HeldBy(i)') \in Nat
          /\ Cardinality(HeldBy(i)) = Cardinality(HeldBy(i)') + One(i \in held[s])
      BY <1>1, <1>2, <3>1, HoldsCleared
    <3>3. NamedBy(i)' = NamedBy(i) /\ Cardinality(NamedBy(i)) \in Nat /\ drops[i] = 0
      BY <1>1, <1>2, <3>1, Sizes DEF NamedBy
    <3> QED
      BY <1>1, <3>1, <3>2, <3>3 DEF One
  <2>2. \A t \in Slots : naming'[t] = {n \in tier' : t \in aggSlots'[n]}
    BY <1>1, <1>2 DEF Names, CountsExact
  <2> QED
    BY <1>1, <1>8, <2>1, <2>2 DEF CountsExact, HeldBy, NamedBy
<1>10. NamesLive'
  <2>1. \A t \in Slots : held'[t] \subseteq (IF Occupied(t)' THEN tier' ELSE {})
    BY <1>1, <1>2, <1>3 DEF Names, NamesLive, TypeOK
  <2>2. ASSUME NEW n \in tier'
        PROVE  /\ \A t \in aggSlots'[n] : Occupied(t)'
               /\ aggIds'[n] \subseteq tier' \ {n}
    <3>1. s \notin aggSlots[n] /\ aggSlots[n] \in SUBSET Slots
      BY <1>1, <1>2 DEF Names, CountsExact, TypeOK
    <3> QED
      BY <1>1, <1>2, <1>3, <3>1 DEF Names, NamesLive
  <2> QED
    BY <1>8, <2>1, <2>2 DEF NamesLive
<1>11. Leaves(s, {Occupant(s)})
  BY <1>1, <1>2, <1>3, Apart DEF Leaves, Regions
<1>12. \A t \in Slots : t # s => reaches'[t] = reaches[t]
  BY <1>1, <1>2 DEF IInv, Kinds
<1>13. BundlesOK' /\ FatesOK' /\ KeysAt'
  BY <1>1, <1>11, <1>12, BytesFree
<1>14. MasksCovered'
  <2>1. ASSUME NEW t \in Slots, NEW k \in DOMAIN reaches'[t]
        PROVE  /\ reaches'[t][k].slab \subseteq pins'[t] \cup {t}
               /\ reaches'[t][k].ids \subseteq held'[t]
    <3>1. t # s
      BY <1>1, <2>1 DEF IInv, Kinds
    <3>2. pins'[t] = pins[t] /\ held'[t] = held[t] /\ reaches'[t] = reaches[t]
      BY <1>1, <1>2, <1>12, <3>1 DEF TypeOK
    <3> QED
      BY <2>1, <3>2 DEF IInv, MovesWhole, MasksCovered
  <2> QED
    BY <2>1 DEF MasksCovered
<1>15. SerialsOK'
  BY <1>1, <1>2, <1>3, BirthsFinite DEF IInv, SerialsOK, TypeOK
<1>16. DisposalOK' /\ TargetOK'
  BY <1>1, <1>2, <1>3 DEF DisposalOK, TargetOK, One
<1>17. Kinds'
  <2>1. tally' \in [Slots -> Nat] /\ held' \in [Slots -> SUBSET Ids] /\ drops' \in [Ids -> Nat]
    BY <1>1, <1>2, <1>8 DEF TypeOK, One
  <2>2. fate' \in [Births -> Regions \cup {Nowhere}] /\ first' \in [Births -> Nat]
    BY <1>1, <1>2 DEF TypeOK
  <2>3. bundle' \in [Regions -> SUBSET Births] /\ reads' \subseteq Births \X Births
    BY <1>1, <1>2 DEF TypeOK
  <2>4. reaches' \in [Slots -> Seq(Masks)]
    BY <1>1 DEF IInv, Kinds
  <2>5. \A t \in Slots : \A k \in DOMAIN reaches'[t] : reaches'[t][k] \in Masks
    BY <2>4
  <2> QED
    BY <1>1, <1>2, <1>3, <1>6, <2>1, <2>2, <2>3, <2>4, <2>5 DEF Kinds, TypeOK
<1>18. MovesWhole'
  BY <1>13, <1>14, <1>17, KeysAreNext DEF MovesWhole, Kinds
<1> QED
  BY <1>9, <1>10, <1>13, <1>15, <1>16, <1>17, <1>18 DEF IInv

\* The keys of a departing cell are forwarded where any was kept.
LEMMA DepartingKept ==
    ASSUME IInv, NEW s \in Slots
    PROVE  /\ Departing(s) \in SUBSET {Occupant(s)}
           /\ \A v \in kept : v.home \in {Occupant(s)} => v.home \in Departing(s)
<1>1. TypeOK /\ KeysAt
  BY KeysAre DEF IInv, Kinds, MovesWhole
<1>2. ASSUME NEW v \in kept, v.home = Occupant(s) PROVE v.home \in Departing(s)
  <2>1. v.home \notin Departed /\ v.home[1] = s
    BY <1>1, <1>2, OccupantBorn DEF Occupant
  <2>2. v.index \in DOMAIN reaches[s]
    BY <1>1, <2>1 DEF KeysAt
  <2>3. reaches[s] # <<>>
    BY <2>2
  <2> QED
    BY <1>2, <2>3 DEF Departing
<1> QED
  BY <1>2 DEF Departing

\* The masks of slots whose rows and holds a disposal leaves as they are.
LEMMA SameMasks ==
    ASSUME MasksCovered, NEW t \in Slots,
           pins[t] \subseteq pins'[t] \cup {t}, held[t] \subseteq held'[t], reaches'[t] = reaches[t]
    PROVE  \A k \in DOMAIN reaches'[t] : /\ reaches'[t][k].slab \subseteq pins'[t] \cup {t}
                                         /\ reaches'[t][k].ids \subseteq held'[t]
BY DEF MasksCovered

\* The one region that names a slot takes in what the slot held.
LEMMA FoldIntoNamerIInv ==
    ASSUME IInv, NEW s \in Slots, FoldIntoNamer(s)
    PROVE  IInv'
<1>0. PICK namer \in Ids :
        /\ naming[s] = {namer}
        /\ FoldIntoSealed(namer, pins[s], held[s], aggSlots[namer] \ {s}, aggIds[namer],
                          [naming EXCEPT ![s] = {}])
        /\ Forward(Lineage(s) \cup Departing(s), namer)
        /\ bundle' = Splice(s, namer)
        /\ target' = namer
        /\ merging' = aggIds'[namer]
  BY DEF FoldIntoNamer
<1>1. /\ dying = s /\ Holding(s) = {} /\ Vacate(s)
      /\ pins' = [pins EXCEPT ![s] = {}]
      /\ tally' = [t \in Slots |-> tally[t] - One(t \in pins[s])]
      /\ held' = [held EXCEPT ![s] = {}]
      /\ reaches' = [reaches EXCEPT ![s] = <<>>]
      /\ UNCHANGED <<tier, serial, reads>>
  BY DEF FoldIntoNamer
<1>2. /\ TypeOK /\ Names /\ Occupied(s) /\ target = NoId /\ \A i \in Ids : drops[i] = 0
      /\ \A t \in Slots : /\ s \in Holding(t) <=> t \in pins[s]
                          /\ t \in Holding(s) <=> s \in pins[t]
      /\ pins[s] \subseteq Slots \ {s} /\ held[s] \subseteq tier /\ tier \subseteq Ids
  BY <1>1, DyingFacts
<1>3. /\ Occupied(s) /\ ~Occupied(s)'
      /\ \A t \in Slots \ {s} : (Occupied(t)' <=> Occupied(t)) /\ Occupant(t)' = Occupant(t)
      /\ Born' = Born /\ Departed' = Departed \cup {Occupant(s)}
      /\ Cardinality(Departed') = Cardinality(Departed) + 1
      /\ life' \in [Slots -> {"free", "live", "dead"}] /\ gen' \in [Slots -> 0 .. MaxBirths]
      /\ refused' \in [Slots -> BOOLEAN] /\ dying' = NoSlot
      /\ UNCHANGED <<below, kept>>
  BY <1>1, Vacated
<1>4. /\ naming' = [t \in Slots |->
              IF t \in pins[s] \ (aggSlots[namer] \ {s})
              THEN [naming EXCEPT ![s] = {}][t] \cup {namer} ELSE [naming EXCEPT ![s] = {}][t]]
      /\ aggSlots' = [aggSlots EXCEPT ![namer] = (aggSlots[namer] \ {s}) \cup pins[s]]
      /\ aggIds' = [aggIds EXCEPT ![namer] = aggIds[namer] \cup (held[s] \ {namer})]
      /\ holders' = [holders EXCEPT ![namer] = @ - One(namer \in held[s])]
      /\ drops' = [i \in Ids |-> One(i \in (held[s] \ {namer}) \cap aggIds[namer])]
  BY <1>0 DEF FoldIntoSealed
<1>5. /\ naming'[s] = {}
      /\ \A t \in Slots : t # s =>
           naming'[t] = IF t \in pins[s] \ aggSlots[namer]
                        THEN naming[t] \cup {namer} ELSE naming[t]
      /\ aggSlots'[namer] = (aggSlots[namer] \ {s}) \cup pins[s]
      /\ aggIds'[namer] = aggIds[namer] \cup (held[s] \ {namer})
      /\ \A n \in Ids : n # namer => /\ aggSlots'[n] = aggSlots[n] /\ aggIds'[n] = aggIds[n]
                                     /\ holders'[n] = holders[n]
      /\ holders'[namer] = holders[namer] - One(namer \in held[s])
      /\ \A i \in Ids : drops'[i] = One(i \in held[s] /\ i # namer /\ i \in aggIds[namer])
  BY <1>2, <1>4 DEF TypeOK, One
<1>6. /\ namer \in tier /\ namer \notin aggIds[namer]
      /\ \A n \in tier : s \in aggSlots[n] => n = namer
  BY <1>0, <1>2 DEF Names, CountsExact, NamesLive
<1>7. /\ pins' \in [Slots -> SUBSET Slots] /\ pins'[s] = {}
      /\ \A o \in Slots : o # s => pins'[o] = pins[o] \ {s}
  BY <1>1, <1>2 DEF TypeOK
<1>8. /\ \A t \in Slots : tally'[t] = Cardinality(Holding(t)') /\ tally'[t] \in Nat
      /\ \A o \in Slots : \A t \in pins'[o] : Occupied(o)' /\ Occupied(t)' /\ o # t
  <2>1. tally[s] = 0
    BY <1>1, <1>2, FS_EmptySet DEF Names, CountsExact
  <2>2. \A t \in Slots : tally'[t] = IF t = s THEN 0 ELSE tally[t] - One(t \in pins[s])
    BY <1>1, <1>2, <2>1 DEF One
  <2> QED
    BY <1>1, <1>7, <2>2, RowCleared
<1>9. ASSUME NEW i \in tier
      PROVE  /\ holders'[i] = Cardinality(HeldBy(i)') + Cardinality(NamedBy(i)') + drops'[i]
             /\ holders'[i] \in Nat
  <2>1. i \in Ids /\ holders[i] = Cardinality(HeldBy(i)) + Cardinality(NamedBy(i)) + drops[i]
        /\ drops[i] = 0
    BY <1>2, CountsAre DEF Names
  <2>2. /\ Cardinality(HeldBy(i)) \in Nat /\ Cardinality(HeldBy(i)') \in Nat
        /\ Cardinality(HeldBy(i)) = Cardinality(HeldBy(i)') + One(i \in held[s])
    BY <1>1, <1>2, <2>1, HoldsCleared
  <2>3. NamedBy(i) \in SUBSET Ids /\ NamedBy(i)' \in SUBSET Ids
    BY <1>1, <1>2 DEF NamedBy
  <2>4. /\ NamedBy(i) \ {namer} = NamedBy(i)' \ {namer}
        /\ namer \in NamedBy(i) <=> i \in aggIds[namer]
        /\ namer \in NamedBy(i)' <=> i \in aggIds[namer] \/ (i \in held[s] /\ i # namer)
    BY <1>1, <1>2, <1>5, <1>6 DEF NamedBy
  <2>5. /\ Cardinality(NamedBy(i)) \in Nat /\ Cardinality(NamedBy(i)') \in Nat
        /\ (namer \in NamedBy(i) <=> namer \in NamedBy(i)') =>
                Cardinality(NamedBy(i)') = Cardinality(NamedBy(i))
        /\ namer \in NamedBy(i)' /\ namer \notin NamedBy(i) =>
                Cardinality(NamedBy(i)') = Cardinality(NamedBy(i)) + 1
    BY <2>3, <2>4, Apart, OneMoves
  <2>6. CASE i = namer
    BY <1>5, <1>6, <2>1, <2>2, <2>4, <2>5, <2>6 DEF One
  <2>7. CASE i # namer
    <3>1. holders'[i] = holders[i] /\ drops'[i] = One(i \in held[s] /\ i \in aggIds[namer])
      BY <1>5, <2>1, <2>7 DEF One
    <3> QED
      BY <2>1, <2>2, <2>4, <2>5, <2>7, <3>1 DEF One
  <2> QED
    BY <2>6, <2>7
<1>10. CountsExact'
  <2>1. ASSUME NEW t \in Slots PROVE naming'[t] = {n \in tier' : t \in aggSlots'[n]}
    <3>1. naming[t] = {n \in tier : t \in aggSlots[n]}
      BY <1>2 DEF Names, CountsExact
    <3>2. CASE t = s
      <4>1. s \notin aggSlots'[namer]
        BY <1>2, <1>5
      <4>2. \A n \in tier' : s \notin aggSlots'[n]
        BY <1>1, <1>2, <1>5, <1>6, <4>1
      <4> QED
        BY <1>5, <3>2, <4>2
    <3>3. CASE t # s
      <4>1. /\ t \in aggSlots'[namer] <=> t \in aggSlots[namer] \/ t \in pins[s]
            /\ \A n \in tier : n # namer => aggSlots'[n] = aggSlots[n]
            /\ tier' = tier /\ namer \in tier
        BY <1>1, <1>2, <1>5, <1>6, <3>3
      <4>2. CASE t \in pins[s] \ aggSlots[namer]
        <5>1. naming'[t] = naming[t] \cup {namer}
          BY <1>5, <3>3, <4>2
        <5> QED
          BY <3>1, <4>1, <4>2, <5>1
      <4>3. CASE t \notin pins[s] \ aggSlots[namer]
        <5>1. naming'[t] = naming[t]
          BY <1>5, <3>3, <4>3
        <5> QED
          BY <3>1, <4>1, <4>3, <5>1
      <4> QED
        BY <4>2, <4>3
    <3> QED
      BY <3>2, <3>3
  <2> QED
    BY <1>1, <1>8, <1>9, <2>1 DEF CountsExact, HeldBy, NamedBy
<1>11. NamesLive'
  <2>1. \A t \in Slots : held'[t] \subseteq (IF Occupied(t)' THEN tier' ELSE {})
    BY <1>1, <1>2, <1>3 DEF Names, NamesLive, TypeOK
  <2>2. ASSUME NEW n \in tier'
        PROVE  /\ \A t \in aggSlots'[n] : Occupied(t)'
               /\ aggIds'[n] \subseteq tier' \ {n}
    <3>1. /\ aggSlots[n] \in SUBSET Slots /\ \A t \in aggSlots[n] : Occupied(t)
          /\ aggIds[n] \subseteq tier \ {n} /\ n \in Ids /\ n \in tier
      BY <1>1, <1>2 DEF Names, NamesLive, TypeOK
    <3>2. \A t \in pins[s] : Occupied(t)
      BY <1>2 DEF Names, NamesLive
    <3>3. CASE n = namer
      BY <1>1, <1>2, <1>3, <1>5, <3>1, <3>2, <3>3
    <3>4. CASE n # namer
      BY <1>1, <1>2, <1>3, <1>5, <1>6, <3>1, <3>4
    <3> QED
      BY <3>3, <3>4
  <2> QED
    BY <1>8, <2>1, <2>2 DEF NamesLive
<1>12. Leaves(s, {Occupant(s)})
  BY <1>1, <1>2, <1>3, Apart DEF Leaves, Regions
<1>13. \A t \in Slots : t # s => reaches'[t] = reaches[t]
  BY <1>1, <1>2 DEF IInv, Kinds
<1>14. BundlesOK' /\ FatesOK' /\ KeysAt'
  <2>1. namer \in Regions /\ namer # s /\ namer \notin Slots /\ namer \in tier'
    BY <1>1, <1>6, Apart DEF Regions
  <2>2. PICK D \in SUBSET {Occupant(s)} :
          D = Departing(s) /\ \A v \in kept : v.home \in {Occupant(s)} => v.home \in D
    BY DepartingKept
  <2>3. /\ fate' = [b \in Births |-> IF b \in Lineage(s) \cup D THEN namer ELSE fate[b]]
        /\ \A b \in Births : b \notin Lineage(s) \cup D => first'[b] = first[b]
        /\ bundle' = Splice(s, namer)
    BY <1>0, <2>2 DEF Forward
  <2>4. \A t \in Slots : t # s => DOMAIN reaches[t] \subseteq DOMAIN reaches'[t]
    BY <1>13
  <2> QED
    BY <1>12, <2>1, <2>2, <2>3, <2>4, BytesSeal
<1>15. MasksCovered'
  <2>1. ASSUME NEW t \in Slots
        PROVE  \A k \in DOMAIN reaches'[t] : /\ reaches'[t][k].slab \subseteq pins'[t] \cup {t}
                                             /\ reaches'[t][k].ids \subseteq held'[t]
    <3>1. CASE t = s
      BY <1>1, <3>1 DEF IInv, Kinds
    <3>2. CASE t # s
      <4>1. pins'[t] = pins[t] /\ held'[t] = held[t] /\ reaches'[t] = reaches[t]
        BY <1>1, <1>2, <1>13, <3>2 DEF TypeOK
      <4> QED
        BY <4>1, SameMasks DEF IInv, MovesWhole
    <3> QED
      BY <3>1, <3>2
  <2> QED
    BY <2>1 DEF MasksCovered
<1>16. SerialsOK'
  BY <1>1, <1>2, <1>3, BirthsFinite DEF IInv, SerialsOK, TypeOK
<1>17. DisposalOK' /\ TargetOK'
  <2>1. /\ target' = namer /\ namer \in tier' /\ merging' = aggIds'[namer]
        /\ \A i \in Ids : drops'[i] > 0 => i \in held[s] /\ i \in aggIds[namer]
    BY <1>0, <1>1, <1>5, <1>6 DEF One
  <2>2. aggIds[namer] \subseteq aggIds'[namer]
    BY <1>5
  <2> QED
    BY <1>1, <1>2, <1>3, <2>1, <2>2 DEF DisposalOK, TargetOK
<1>18. Kinds'
  <2>1. tally' \in [Slots -> Nat] /\ held' \in [Slots -> SUBSET Ids] /\ drops' \in [Ids -> Nat]
    BY <1>1, <1>2, <1>4, <1>8 DEF TypeOK, One
  <2>2. fate' \in [Births -> Regions \cup {Nowhere}] /\ first' \in [Births -> Nat]
    BY <1>0, <1>2 DEF TypeOK, Forward, Regions
  <2>3. bundle' \in [Regions -> SUBSET Births]
    BY <1>0, <1>2, Apart DEF TypeOK, Splice, Regions
  <2>4. reaches' \in [Slots -> Seq(Masks)]
    BY <1>1 DEF IInv, Kinds
  <2>5. \A t \in Slots : \A k \in DOMAIN reaches'[t] : reaches'[t][k] \in Masks
    BY <2>4
  <2>6. /\ naming' \in [Slots -> SUBSET Ids] /\ aggSlots' \in [Ids -> SUBSET Slots]
        /\ aggIds' \in [Ids -> SUBSET Ids]
    BY <1>2, <1>4 DEF TypeOK
  <2>7. holders' \in [Ids -> Nat]
    BY <1>2, <1>4, <1>6, <1>9 DEF TypeOK
  <2>8. target' \in Ids \cup {NoId} /\ merging' \subseteq Ids
    BY <1>0, <2>6
  <2> QED
    BY <1>1, <1>2, <1>3, <1>7, <2>1, <2>2, <2>3, <2>4, <2>5, <2>6, <2>7, <2>8 DEF Kinds, TypeOK
<1>19. MovesWhole'
  BY <1>14, <1>15, <1>18, KeysAreNext DEF MovesWhole, Kinds
<1> QED
  BY <1>10, <1>11, <1>14, <1>16, <1>17, <1>18, <1>19 DEF IInv

\* A fresh serial is in no name.
LEMMA Fresh ==
    ASSUME IInv, serial + 1 <= MaxBirths, NEW id, id = serial + 1
    PROVE  /\ id \in Ids /\ id \notin tier
           /\ \A t \in Slots : id \notin held[t] /\ id \notin naming[t]
           /\ \A n \in tier : n # id /\ id \notin aggIds[n]
           /\ drops[id] = 0
<1>1. TypeOK /\ Names /\ SerialsOK /\ DisposalOK
  BY DEF IInv, Kinds, Names
<1>2. serial \in Nat /\ id \in Ids
  BY <1>1, Apart DEF TypeOK, Ids
<1>3. id \notin tier /\ \A n \in tier : n # id
  BY <1>1, <1>2 DEF SerialsOK
<1>4. \A t \in Slots : id \notin held[t] /\ id \notin naming[t]
  BY <1>1, <1>3 DEF Names, NamesLive, CountsExact
<1>5. \A n \in tier : id \notin aggIds[n]
  BY <1>1, <1>3 DEF Names, NamesLive
<1>6. drops[id] = 0
  BY <1>1, <1>2, <1>3 DEF DisposalOK, TypeOK
<1> QED
  BY <1>2, <1>3, <1>4, <1>5, <1>6

\* A slot's names become a fresh sealed region's.
LEMMA SealIInv ==
    ASSUME IInv, NEW s \in Slots, Seal(s)
    PROVE  IInv'
<1>a. dying = s /\ Vacate(s)
  BY DEF Seal
<1>2. /\ TypeOK /\ Names /\ Occupied(s) /\ target = NoId /\ \A i \in Ids : drops[i] = 0
      /\ \A t \in Slots : /\ s \in Holding(t) <=> t \in pins[s]
                          /\ t \in Holding(s) <=> s \in pins[t]
      /\ pins[s] \subseteq Slots \ {s} /\ held[s] \subseteq tier /\ tier \subseteq Ids
      /\ s \notin Holding(s)
  BY <1>a, DyingFacts
<1>3. /\ ~Occupied(s)'
      /\ \A t \in Slots \ {s} : (Occupied(t)' <=> Occupied(t)) /\ Occupant(t)' = Occupant(t)
      /\ Born' = Born /\ Departed' = Departed \cup {Occupant(s)}
      /\ Cardinality(Departed') = Cardinality(Departed) + 1
      /\ serial + 1 <= MaxBirths
      /\ life' \in [Slots -> {"free", "live", "dead"}] /\ gen' \in [Slots -> 0 .. MaxBirths]
      /\ refused' \in [Slots -> BOOLEAN] /\ dying' = NoSlot
      /\ UNCHANGED <<below, kept>>
  BY <1>a, Vacated
<1>4. PICK id : id = serial + 1
  OBVIOUS
<1>5. /\ id \in Ids /\ id \notin tier
      /\ \A t \in Slots : id \notin held[t] /\ id \notin naming[t]
      /\ \A n \in tier : n # id /\ id \notin aggIds[n]
      /\ drops[id] = 0
  BY <1>3, <1>4, Fresh
<1>6. PICK named : named = {n \in naming[s] \cap tier : s \in aggSlots[n]}
  OBVIOUS
<1>7. named = naming[s] /\ named \subseteq tier /\ \A n \in tier : n \in named <=> s \in aggSlots[n]
  BY <1>2, <1>6 DEF Names, CountsExact
<1>1. /\ pins' = [o \in Slots |-> IF o = s THEN {} ELSE pins[o] \ {s}]
      /\ tally' = [t \in Slots |-> IF t = s THEN tally[s] - Cardinality(Holding(s))
                                            ELSE tally[t] - One(t \in pins[s])]
      /\ held' = [o \in Slots |-> IF o = s THEN {}
                                  ELSE held[o] \cup (IF o \in Holding(s) THEN {id} ELSE {})]
      /\ reaches' = [o \in Slots |->
              IF o = s THEN <<>>
              ELSE IF o \in Holding(s) THEN Replaced(reaches[o], s, id) ELSE reaches[o]]
      /\ aggSlots' = [n \in Ids |->
              IF n = id THEN pins[s] ELSE IF n \in named THEN aggSlots[n] \ {s} ELSE aggSlots[n]]
      /\ aggIds' = [n \in Ids |->
              IF n = id THEN held[s] ELSE IF n \in named THEN aggIds[n] \cup {id} ELSE aggIds[n]]
      /\ naming' = [t \in Slots |->
              IF t = s THEN {} ELSE naming[t] \cup (IF t \in pins[s] THEN {id} ELSE {})]
      /\ holders' = [holders EXCEPT ![id] = Cardinality(Holding(s)) + Cardinality(naming[s])]
  BY <1>4, <1>6 DEF Seal
<1>8. /\ Forward(Lineage(s) \cup Departing(s), id)
      /\ bundle' = Splice(s, id)
      /\ tier' = tier \cup {id} /\ serial' = id
      /\ target' = id /\ merging' = held[s]
      /\ UNCHANGED <<drops, reads>>
  BY <1>4 DEF Seal
<1>9. /\ aggSlots'[id] = pins[s] /\ aggIds'[id] = held[s]
      /\ \A n \in tier : /\ aggSlots'[n] = aggSlots[n] \ {s} /\ aggSlots[n] \in SUBSET Slots
                         /\ aggIds'[n] = aggIds[n] \cup (IF n \in named THEN {id} ELSE {})
      /\ \A n \in tier : holders'[n] = holders[n]
      /\ holders'[id] = Cardinality(Holding(s)) + Cardinality(naming[s])
  BY <1>1, <1>2, <1>5, <1>7 DEF TypeOK
<1>10. /\ \A t \in Slots : tally'[t] = Cardinality(Holding(t)') /\ tally'[t] \in Nat
       /\ \A o \in Slots : \A t \in pins'[o] : Occupied(o)' /\ Occupied(t)' /\ o # t
  <2>1. tally[s] - Cardinality(Holding(s)) = 0
    BY <1>2, Sizes DEF Names, CountsExact
  <2>2. \A t \in Slots : tally'[t] = IF t = s THEN 0 ELSE tally[t] - One(t \in pins[s])
    BY <1>1, <2>1
  <2>3. /\ pins' \in [Slots -> SUBSET Slots] /\ pins'[s] = {}
        /\ \A o \in Slots : o # s => pins'[o] = pins[o] \ {s}
    BY <1>1, <1>2 DEF TypeOK
  <2> QED
    BY <1>a, <2>2, <2>3, RowCleared
<1>11. ASSUME NEW i \in tier
       PROVE  holders'[i] = Cardinality(HeldBy(i)') + Cardinality(NamedBy(i)') + drops'[i]
  <2>1. i \in Ids /\ holders[i] = Cardinality(HeldBy(i)) + Cardinality(NamedBy(i)) + drops[i]
        /\ drops[i] = 0 /\ i # id
    BY <1>2, <1>5, CountsAre DEF Names
  <2>2. /\ HeldBy(i) \in SUBSET Slots /\ HeldBy(i)' \in SUBSET Slots
        /\ NamedBy(i) \in SUBSET Ids /\ NamedBy(i)' \in SUBSET Ids
    BY <1>2, <1>5, <1>8 DEF HeldBy, NamedBy
  <2>3. /\ HeldBy(i) \ {s} = HeldBy(i)' \ {s} /\ s \notin HeldBy(i)'
        /\ s \in HeldBy(i) <=> i \in held[s]
    BY <1>1, <2>1 DEF HeldBy
  <2>4. /\ NamedBy(i) \ {id} = NamedBy(i)' \ {id} /\ id \notin NamedBy(i)
        /\ id \in NamedBy(i)' <=> i \in held[s]
    BY <1>5, <1>8, <1>9, <2>1 DEF NamedBy
  <2>5. /\ Cardinality(HeldBy(i)) \in Nat /\ Cardinality(HeldBy(i)') \in Nat
        /\ (s \in HeldBy(i) <=> s \in HeldBy(i)') =>
                Cardinality(HeldBy(i)') = Cardinality(HeldBy(i))
        /\ s \in HeldBy(i) /\ s \notin HeldBy(i)' =>
                Cardinality(HeldBy(i)') = Cardinality(HeldBy(i)) - 1
    BY <2>2, <2>3, Apart, OneMoves
  <2>6. /\ Cardinality(NamedBy(i)) \in Nat /\ Cardinality(NamedBy(i)') \in Nat
        /\ (id \in NamedBy(i) <=> id \in NamedBy(i)') =>
                Cardinality(NamedBy(i)') = Cardinality(NamedBy(i))
        /\ id \in NamedBy(i)' /\ id \notin NamedBy(i) =>
                Cardinality(NamedBy(i)') = Cardinality(NamedBy(i)) + 1
    BY <1>5, <2>2, <2>4, Apart, OneMoves
  <2>7. holders'[i] = holders[i] /\ drops'[i] = 0
    BY <1>8, <1>9, <2>1
  <2> QED
    BY <2>1, <2>3, <2>4, <2>5, <2>6, <2>7
<1>12. holders'[id] = Cardinality(HeldBy(id)') + Cardinality(NamedBy(id)') + drops'[id]
       /\ holders'[id] \in Nat
  <2>1. HeldBy(id)' = Holding(s)
    <3>1. \A o \in Slots : id \in held'[o] <=> o \in Holding(s)
      BY <1>1, <1>2, <1>5
    <3>2. Holding(s) \subseteq Slots
      BY DEF Holding
    <3> QED
      BY <3>1, <3>2 DEF HeldBy
  <2>2. NamedBy(id)' = naming[s]
    <3>1. \A n \in tier' : id \in aggIds'[n] <=> n \in named
      BY <1>2, <1>5, <1>7, <1>8, <1>9
    <3> QED
      BY <1>7, <1>8, <3>1 DEF NamedBy
  <2>3. Cardinality(Holding(s)) \in Nat /\ Cardinality(naming[s]) \in Nat
    <3>1. naming[s] \in SUBSET Ids
      BY <1>2 DEF TypeOK
    <3> QED
      BY <3>1, Sizes, Apart, FS_Subset, FS_CardinalityType
  <2> QED
    BY <1>5, <1>8, <1>9, <2>1, <2>2, <2>3
<1>13. CountsExact'
  <2>1. ASSUME NEW t \in Slots PROVE naming'[t] = {n \in tier' : t \in aggSlots'[n]}
    <3>1. naming[t] = {n \in tier : t \in aggSlots[n]}
      BY <1>2 DEF Names, CountsExact
    <3>2. CASE t = s
      <4>1. \A n \in tier' : s \notin aggSlots'[n]
        BY <1>2, <1>8, <1>9
      <4>2. naming'[s] = {}
        BY <1>1
      <4> QED
        BY <3>2, <4>1, <4>2
    <3>3. CASE t # s
      <4>1. /\ t \in aggSlots'[id] <=> t \in pins[s]
            /\ \A n \in tier : t \in aggSlots'[n] <=> t \in aggSlots[n]
        BY <1>9, <3>3
      <4>2. naming'[t] = naming[t] \cup (IF t \in pins[s] THEN {id} ELSE {})
        BY <1>1, <3>3
      <4> QED
        BY <1>8, <3>1, <4>1, <4>2
    <3> QED
      BY <3>2, <3>3
  <2>2. \A i \in tier' :
          holders'[i] = Cardinality(HeldBy(i)') + Cardinality(NamedBy(i)') + drops'[i]
    BY <1>8, <1>11, <1>12
  <2> QED
    BY <1>10, <2>1, <2>2 DEF CountsExact, HeldBy, NamedBy
<1>14. NamesLive'
  <2>1. ASSUME NEW t \in Slots PROVE held'[t] \subseteq (IF Occupied(t)' THEN tier' ELSE {})
    <3>1. CASE t = s
      BY <1>1, <3>1
    <3>2. CASE t # s
      <4>1. /\ held[t] \subseteq (IF Occupied(t) THEN tier ELSE {})
            /\ t \in Holding(s) => Occupied(t)
            /\ Occupied(t)' <=> Occupied(t)
        BY <1>2, <1>3, <3>2 DEF Names, NamesLive, Holding
      <4> QED
        BY <1>1, <1>8, <3>2, <4>1
    <3> QED
      BY <3>1, <3>2
  <2>2. ASSUME NEW n \in tier'
        PROVE  /\ \A t \in aggSlots'[n] : Occupied(t)'
               /\ aggIds'[n] \subseteq tier' \ {n}
    <3>1. CASE n = id
      <4>1. \A t \in pins[s] : Occupied(t) /\ t \in Slots \ {s}
        BY <1>2 DEF Names, NamesLive
      <4> QED
        BY <1>2, <1>3, <1>5, <1>8, <1>9, <3>1, <4>1
    <3>2. CASE n # id
      <4>1. n \in tier
        BY <1>8, <3>2
      <4>2. (\A t \in aggSlots[n] : Occupied(t)) /\ aggIds[n] \subseteq tier \ {n}
        BY <1>2, <4>1 DEF Names, NamesLive
      <4> QED
        BY <1>3, <1>8, <1>9, <3>2, <4>1, <4>2
    <3> QED
      BY <3>1, <3>2
  <2> QED
    BY <1>10, <2>1, <2>2 DEF NamesLive
<1>15. Leaves(s, {Occupant(s)})
  BY <1>2, <1>3, <1>5, <1>8, Apart DEF Leaves, Regions
<1>16. /\ reaches' \in [Slots -> Seq(Masks)]
       /\ \A t \in Slots : t # s => DOMAIN reaches'[t] = DOMAIN reaches[t]
  <2>1. ASSUME NEW t \in Slots
        PROVE  /\ Replaced(reaches[t], s, id) \in Seq(Masks)
               /\ DOMAIN Replaced(reaches[t], s, id) = DOMAIN reaches[t]
    <3>1. reaches[t] \in Seq(Masks) /\ Len(reaches[t]) \in Nat
          /\ DOMAIN reaches[t] = 1 .. Len(reaches[t])
      BY DEF IInv, Kinds
    <3>2. \A k \in 1 .. Len(reaches[t]) : /\ reaches[t][k] \in Masks
                                          /\ [slab |-> reaches[t][k].slab \ {s},
                                              ids |-> reaches[t][k].ids \cup {id}] \in Masks
      <4>1. ASSUME NEW k \in 1 .. Len(reaches[t]) PROVE reaches[t][k] \in Masks
        BY <3>1
      <4> QED
        BY <1>5, <4>1 DEF Masks
    <3>3. Replaced(reaches[t], s, id) \in [1 .. Len(reaches[t]) -> Masks]
      BY <3>2 DEF Replaced
    <3> QED
      BY <3>1, <3>3
  <2>2. \A t \in Slots : reaches[t] \in Seq(Masks)
    BY DEF IInv, Kinds
  <2> QED
    BY <1>1, <2>1, <2>2
<1>17. BundlesOK' /\ FatesOK' /\ KeysAt'
  <2>1. id \in Ids /\ id # s /\ id \in tier'
    BY <1>5, <1>8, Apart
  <2>2. PICK D \in SUBSET {Occupant(s)} :
          D = Departing(s) /\ \A v \in kept : v.home \in {Occupant(s)} => v.home \in D
    BY DepartingKept
  <2>3. /\ fate' = [b \in Births |-> IF b \in Lineage(s) \cup D THEN id ELSE fate[b]]
        /\ \A b \in Births : b \notin Lineage(s) \cup D => first'[b] = first[b]
        /\ bundle' = Splice(s, id)
    BY <1>8, <2>2 DEF Forward
  <2>4. \A t \in Slots : t # s => DOMAIN reaches[t] \subseteq DOMAIN reaches'[t]
    BY <1>16
  <2> QED
    BY <1>15, <2>1, <2>2, <2>3, <2>4, BytesSeal
<1>18. MasksCovered'
  <2> SUFFICES ASSUME NEW t \in Slots, NEW k \in DOMAIN reaches'[t]
               PROVE  /\ reaches'[t][k].slab \subseteq pins'[t] \cup {t}
                      /\ reaches'[t][k].ids \subseteq held'[t]
    BY DEF MasksCovered
  <2>1. t # s
    BY <1>1
  <2>2. /\ k \in DOMAIN reaches[t] /\ DOMAIN reaches[t] = 1 .. Len(reaches[t])
        /\ reaches[t][k] \in Masks
        /\ reaches[t][k].slab \subseteq pins[t] \cup {t} /\ reaches[t][k].ids \subseteq held[t]
    BY <1>16, <2>1 DEF IInv, MovesWhole, MasksCovered, Kinds
  <2>3. pins'[t] = pins[t] \ {s} /\ held[t] \subseteq held'[t]
    BY <1>1, <2>1
  <2>4. CASE t \notin Holding(s)
    <3>1. s \notin pins[t] /\ reaches'[t] = reaches[t]
      BY <1>1, <1>2, <2>1, <2>4
    <3> QED
      BY <2>2, <2>3, <3>1
  <2>5. CASE t \in Holding(s)
    <3>1. /\ held'[t] = held[t] \cup {id} /\ reaches'[t] = Replaced(reaches[t], s, id)
      BY <1>1, <2>1, <2>5
    <3>2. reaches'[t][k] = IF s \in reaches[t][k].slab
                           THEN [slab |-> reaches[t][k].slab \ {s},
                                 ids |-> reaches[t][k].ids \cup {id}]
                           ELSE reaches[t][k]
      BY <2>2, <3>1 DEF Replaced
    <3> QED
      BY <2>1, <2>2, <2>3, <3>1, <3>2
  <2> QED
    BY <2>4, <2>5
<1>19. SerialsOK'
  <2>1. serial \in Nat /\ serial <= Cardinality(Departed) /\ Cardinality(Departed) \in Nat
    BY <1>2, BirthsFinite DEF IInv, SerialsOK, TypeOK
  <2>2. \A i \in tier' : i <= serial'
    BY <1>2, <1>4, <1>8, <2>1, Apart DEF IInv, SerialsOK
  <2> QED
    BY <1>3, <1>4, <1>8, <2>1, <2>2 DEF IInv, SerialsOK
<1>20. DisposalOK' /\ TargetOK'
  BY <1>2, <1>3, <1>8, <1>9 DEF DisposalOK, TargetOK
<1>21. Kinds'
  <2>1. tally' \in [Slots -> Nat] /\ pins' \in [Slots -> SUBSET Slots]
    BY <1>1, <1>2, <1>10 DEF TypeOK
  <2>2. fate' \in [Births -> Regions \cup {Nowhere}] /\ first' \in [Births -> Nat]
    BY <1>2, <1>5, <1>8 DEF TypeOK, Forward, Regions
  <2>3. bundle' \in [Regions -> SUBSET Births]
    BY <1>2, <1>5, <1>8, Apart DEF TypeOK, Splice, Regions
  <2>5. \A t \in Slots : \A k \in DOMAIN reaches'[t] : reaches'[t][k] \in Masks
    BY <1>16
  <2>6. /\ naming' \in [Slots -> SUBSET Ids] /\ aggSlots' \in [Ids -> SUBSET Slots]
        /\ aggIds' \in [Ids -> SUBSET Ids] /\ held' \in [Slots -> SUBSET Ids]
    BY <1>1, <1>2, <1>5 DEF TypeOK
  <2>7. holders' \in [Ids -> Nat]
    <3>1. Cardinality(Holding(s)) + Cardinality(naming[s]) \in Nat
      BY <1>9, <1>12
    <3> QED
      BY <1>1, <1>2, <1>5, <3>1 DEF TypeOK
  <2>8. /\ target' \in Ids \cup {NoId} /\ merging' \subseteq Ids /\ tier' \subseteq Ids
        /\ serial' \in 0 .. MaxBirths /\ dying' \in Slots \cup {NoSlot}
    BY <1>2, <1>3, <1>4, <1>5, <1>8, Apart DEF TypeOK, Ids
  <2> QED
    BY <1>2, <1>3, <1>8, <1>16, <2>1, <2>2, <2>3, <2>5, <2>6, <2>7, <2>8 DEF Kinds, TypeOK
<1>22. MovesWhole'
  BY <1>17, <1>18, <1>21, KeysAreNext DEF MovesWhole, Kinds
<1> QED
  BY <1>13, <1>14, <1>17, <1>19, <1>20, <1>21, <1>22 DEF IInv

\* One table after another: the entries of each, in order.
InOrder(c, a, b, m, n) ==
    /\ c \in Seq(Masks) /\ DOMAIN c = 1 .. m + n
    /\ \A k \in 1 .. m : c[k] = a[k]
    /\ \A k \in 1 .. m + n : k > m => c[k] = b[k - m] /\ k - m \in 1 .. n

\* So a concatenation is.
LEMMA Joined ==
    ASSUME NEW a \in Seq(Masks), NEW b \in Seq(Masks), NEW m \in Nat, NEW n \in Nat,
           Len(a) = m, Len(b) = n, NEW c, c = a \o b
    PROVE  InOrder(c, a, b, m, n)
<1>1. c \in Seq(Masks) /\ Len(c) = m + n
  OBVIOUS
<1>2. DOMAIN c = 1 .. m + n
  BY <1>1
<1>3. \A k \in 1 .. m + n : c[k] = IF k <= Len(a) THEN a[k] ELSE b[k - Len(a)]
  OBVIOUS
<1>4. \A k \in 1 .. m : c[k] = a[k]
  BY <1>3
<1>5. \A k \in 1 .. m + n : k > m => c[k] = b[k - m] /\ k - m \in 1 .. n
  BY <1>3
<1> QED
  BY <1>1, <1>2, <1>4, <1>5 DEF InOrder

\* The moved tables: the absorber's masks without the dead slot, then the dead slot's, re-homed.
MovedIn(new, s, into) ==
    /\ new \in Seq(Masks)
    /\ \A k \in DOMAIN reaches[into] :
         /\ k \in DOMAIN new
         /\ new[k].slab = reaches[into][k].slab \ {s}
         /\ new[k].ids = reaches[into][k].ids
    /\ \A j \in DOMAIN reaches[s] :
         /\ Len(reaches[into]) + j \in DOMAIN new
         /\ new[Len(reaches[into]) + j].slab = (reaches[s][j].slab \ {s}) \cup {into}
         /\ new[Len(reaches[into]) + j].ids = reaches[s][j].ids
    /\ \A k \in DOMAIN new :
         k \in DOMAIN reaches[into] \/ \E j \in DOMAIN reaches[s] : k = Len(reaches[into]) + j

\* That is what the migration makes.
LEMMA Migrates ==
    ASSUME IInv, NEW s \in Slots, NEW into \in Slots, into # s,
           NEW new, new = Stripped(reaches[into], s) \o Rehomed(reaches[s], s, into)
    PROVE  MovedIn(new, s, into)
<1> DEFINE a == Stripped(reaches[into], s)
           b == Rehomed(reaches[s], s, into)
           m == Len(reaches[into])
           n == Len(reaches[s])
<1>1. /\ m \in Nat /\ n \in Nat /\ DOMAIN reaches[into] = 1 .. m /\ DOMAIN reaches[s] = 1 .. n
      /\ \A k \in 1 .. m : reaches[into][k] \in Masks
      /\ \A k \in 1 .. n : reaches[s][k] \in Masks
  BY DEF IInv, Kinds
<1>2. ASSUME NEW k \in 1 .. m
      PROVE  /\ a[k].slab = reaches[into][k].slab \ {s} /\ a[k].ids = reaches[into][k].ids
             /\ a[k] \in Masks
  <2>1. a[k] = [reaches[into][k] EXCEPT !.slab = @ \ {s}] /\ reaches[into][k] \in Masks
    BY <1>1 DEF Stripped
  <2> HIDE DEF a
  <2> QED
    BY <2>1 DEF Masks
<1>3. ASSUME NEW k \in 1 .. n
      PROVE  /\ b[k].slab = (reaches[s][k].slab \ {s}) \cup {into}
             /\ b[k].ids = reaches[s][k].ids /\ b[k] \in Masks
  <2>1. b[k] = [reaches[s][k] EXCEPT !.slab = (@ \ {s}) \cup {into}] /\ reaches[s][k] \in Masks
    BY <1>1 DEF Rehomed
  <2> HIDE DEF b
  <2> QED
    BY <2>1 DEF Masks
<1>4. a \in Seq(Masks) /\ Len(a) = m /\ b \in Seq(Masks) /\ Len(b) = n
  <2>1. a = [k \in 1 .. m |-> a[k]] /\ b = [k \in 1 .. n |-> b[k]]
    BY DEF Stripped, Rehomed
  <2> HIDE DEF a, b, m, n
  <2>2. a \in [1 .. m -> Masks] /\ b \in [1 .. n -> Masks]
    BY <1>2, <1>3, <2>1
  <2> QED
    BY <1>1, <2>2
<1>5. new = a \o b
  OBVIOUS
<1> HIDE DEF a, b
<1>6. /\ new \in Seq(Masks) /\ DOMAIN new = 1 .. m + n
      /\ \A k \in 1 .. m : new[k] = a[k]
      /\ \A k \in 1 .. m + n : k > m => new[k] = b[k - m] /\ k - m \in 1 .. n
  <2> HIDE DEF m, n
  <2>1. m \in Nat /\ n \in Nat
    BY <1>1
  <2>2. InOrder(new, a, b, m, n)
    BY <1>4, <1>5, <2>1, Joined
  <2> QED
    BY <2>2 DEF InOrder
<1> HIDE DEF m, n
<1>7. ASSUME NEW k \in DOMAIN new
      PROVE  k \in DOMAIN reaches[into] \/ \E j \in DOMAIN reaches[s] : k = m + j
  <2>1. CASE k \in 1 .. m
    BY <1>1, <2>1
  <2>2. CASE k \notin 1 .. m
    <3>1. PICK j : j = k - m
      OBVIOUS
    <3>2. k \in 1 .. m + n /\ k > m
      BY <1>1, <1>6, <2>2
    <3>3. j \in 1 .. n /\ k = m + j
      BY <1>1, <1>6, <3>1, <3>2
    <3> QED
      BY <1>1, <3>3
  <2> QED
    BY <2>1, <2>2
<1>8. ASSUME NEW k \in DOMAIN reaches[into]
      PROVE  /\ k \in DOMAIN new
             /\ new[k].slab = reaches[into][k].slab \ {s}
             /\ new[k].ids = reaches[into][k].ids
  <2>1. k \in 1 .. m /\ k \in 1 .. m + n
    BY <1>1
  <2>2. new[k] = a[k]
    BY <1>6, <2>1
  <2> QED
    BY <1>2, <1>6, <2>1, <2>2
<1>9. ASSUME NEW j \in DOMAIN reaches[s]
      PROVE  /\ m + j \in DOMAIN new
             /\ new[m + j].slab = (reaches[s][j].slab \ {s}) \cup {into}
             /\ new[m + j].ids = reaches[s][j].ids
  <2>1. j \in 1 .. n /\ m + j \in 1 .. m + n /\ m + j > m /\ (m + j) - m = j
    BY <1>1
  <2>2. new[m + j] = b[j]
    BY <1>6, <2>1
  <2> QED
    BY <1>3, <1>6, <2>1, <2>2
<1> QED
  BY <1>6, <1>7, <1>8, <1>9 DEF MovedIn, m

\* A slot one cell holds becomes part of that cell.
LEMMA AbsorbIntoCellIInv ==
    ASSUME IInv, NEW s \in Slots, AbsorbIntoCell(s)
    PROVE  IInv'
<1>0. PICK into \in Slots :
        /\ Holding(s) = {into}
        /\ pins' = [pins EXCEPT ![s] = {}, ![into] = (@ \cup pins[s]) \ {s, into}]
        /\ tally' = [t \in Slots |->
                tally[t] + One(t \in pins[s] \ (pins[into] \cup {into})) - One(t \in pins[s])
                         - One(t = s)]
        /\ held' = [held EXCEPT ![s] = {}, ![into] = @ \cup held[s]]
        /\ drops' = [i \in Ids |-> One(i \in held[s] \cap held[into])]
        /\ MigrateReaches(s, into)
        /\ bundle' = Splice(s, into)
  BY DEF AbsorbIntoCell
<1>1. /\ dying = s /\ naming[s] = {} /\ Vacate(s)
      /\ UNCHANGED <<naming, tier, serial, aggSlots, aggIds, holders, target, merging, reads>>
  BY DEF AbsorbIntoCell, sealed
<1>2. /\ TypeOK /\ Names /\ Occupied(s) /\ target = NoId /\ \A i \in Ids : drops[i] = 0
      /\ \A t \in Slots : /\ s \in Holding(t) <=> t \in pins[s]
                          /\ t \in Holding(s) <=> s \in pins[t]
      /\ pins[s] \subseteq Slots \ {s} /\ held[s] \subseteq tier /\ tier \subseteq Ids
      /\ s \notin Holding(s)
  BY <1>1, DyingFacts
<1>3. /\ ~Occupied(s)'
      /\ \A t \in Slots \ {s} : (Occupied(t)' <=> Occupied(t)) /\ Occupant(t)' = Occupant(t)
      /\ Born' = Born /\ Departed' = Departed \cup {Occupant(s)}
      /\ Cardinality(Departed') = Cardinality(Departed) + 1
      /\ life' \in [Slots -> {"free", "live", "dead"}] /\ gen' \in [Slots -> 0 .. MaxBirths]
      /\ refused' \in [Slots -> BOOLEAN] /\ dying' = NoSlot
      /\ UNCHANGED <<below, kept>>
  BY <1>1, Vacated
<1>4. into # s /\ Occupied(into) /\ \A t \in Slots : s \in pins[t] <=> t = into
  <2>1. into \in Holding(s)
    BY <1>0
  <2> QED
    BY <1>0, <1>2, <2>1 DEF Holding
<1>5. /\ pins'[s] = {} /\ pins'[into] = (pins[into] \cup pins[s]) \ {s, into}
      /\ held'[s] = {} /\ held'[into] = held[into] \cup held[s]
      /\ \A t \in Slots : t # s /\ t # into => pins'[t] = pins[t] /\ held'[t] = held[t]
      /\ pins' \in [Slots -> SUBSET Slots] /\ held' \in [Slots -> SUBSET Ids]
  BY <1>0, <1>2, <1>4 DEF TypeOK
<1>6. ASSUME NEW t \in Slots
      PROVE  tally'[t] = Cardinality(Holding(t)') /\ tally'[t] \in Nat
  <2>1. /\ Holding(t) \in SUBSET Slots /\ Holding(t)' \in SUBSET Slots /\ s \notin Holding(t)'
        /\ Holding(t) \ {s, into} = Holding(t)' \ {s, into}
        /\ into \in Holding(t) <=> t \in pins[into]
        /\ into \in Holding(t)' <=> t \in pins'[into]
        /\ s \in Holding(t) <=> t \in pins[s]
    BY <1>2, <1>3, <1>4, <1>5 DEF Holding
  <2>2. tally[t] = Cardinality(Holding(t)) /\ Cardinality(Holding(t)) \in Nat
    BY <1>2, Sizes DEF Names, CountsExact
  <2>3. CASE t = s
    <3>1. Holding(s)' = {}
      BY <1>0, <1>5, <2>1, <2>3
    <3>2. Cardinality(Holding(s)) = 1
      BY <1>0, FS_Singleton
    <3>3. tally'[s] = tally[s] - 1
      <4>1. s \notin pins[s]
        BY <1>2
      <4>2. tally'[s] = tally[s] + 0 - 0 - 1
        BY <1>0, <4>1 DEF One
      <4> QED
        BY <2>2, <2>3, <4>2
    <3> QED
      BY <2>2, <2>3, <3>1, <3>2, <3>3, FS_EmptySet
  <2>4. CASE t = into
    <3>1. into \notin Holding(t) /\ into \notin Holding(t)'
      BY <1>2, <1>5, <2>1, <2>4 DEF Names, NamesLive
    <3>2. Holding(t) \ {s} = Holding(t)' \ {s}
      BY <2>1, <3>1
    <3>3. /\ Cardinality(Holding(t)') \in Nat
          /\ (s \in Holding(t) <=> s \in Holding(t)') =>
                  Cardinality(Holding(t)') = Cardinality(Holding(t))
          /\ s \in Holding(t) /\ s \notin Holding(t)' =>
                  Cardinality(Holding(t)') = Cardinality(Holding(t)) - 1
      BY <2>1, <3>2, Apart, OneMoves
    <3>4. tally'[t] = tally[t] - One(t \in pins[s])
      <4>1. tally'[t] = tally[t] + 0 - One(t \in pins[s]) - 0
        BY <1>0, <1>4, <2>4 DEF One
      <4> QED
        BY <2>2, <4>1 DEF One
    <3> QED
      BY <2>1, <2>2, <3>3, <3>4 DEF One
  <2>5. CASE t # s /\ t # into
    <3>1. into \in Holding(t)' <=> s \in Holding(t) \/ into \in Holding(t)
      BY <1>5, <2>1, <2>5
    <3>2. /\ Cardinality(Holding(t)') \in Nat
          /\ Cardinality(Holding(t)) = Cardinality(Holding(t)')
                                         + One(s \in Holding(t) /\ into \in Holding(t))
      BY <1>4, <2>1, <3>1, Apart, Replaces
    <3>3. tally'[t] = tally[t] + One(t \in pins[s] /\ t \notin pins[into]) - One(t \in pins[s])
      <4>1. /\ t \in pins[s] \ (pins[into] \cup {into}) <=> t \in pins[s] /\ t \notin pins[into]
            /\ tally'[t] = tally[t] + One(t \in pins[s] \ (pins[into] \cup {into}))
                             - One(t \in pins[s]) - One(t = s)
        BY <1>0, <2>5
      <4> QED
        BY <2>2, <2>5, <4>1 DEF One
    <3> QED
      BY <2>1, <2>2, <3>2, <3>3 DEF One
  <2> QED
    BY <2>3, <2>4, <2>5
<1>7. ASSUME NEW i \in tier
      PROVE  holders'[i] = Cardinality(HeldBy(i)') + Cardinality(NamedBy(i)') + drops'[i]
  <2>1. i \in Ids /\ holders[i] = Cardinality(HeldBy(i)) + Cardinality(NamedBy(i)) + drops[i]
        /\ drops[i] = 0
    BY <1>2, CountsAre DEF Names
  <2>2. /\ HeldBy(i) \in SUBSET Slots /\ HeldBy(i)' \in SUBSET Slots /\ s \notin HeldBy(i)'
        /\ HeldBy(i) \ {s, into} = HeldBy(i)' \ {s, into}
        /\ into \in HeldBy(i)' <=> s \in HeldBy(i) \/ into \in HeldBy(i)
        /\ s \in HeldBy(i) <=> i \in held[s]
        /\ into \in HeldBy(i) <=> i \in held[into]
    BY <1>5 DEF HeldBy
  <2>3. /\ Cardinality(HeldBy(i)) \in Nat /\ Cardinality(HeldBy(i)') \in Nat
        /\ Cardinality(HeldBy(i)) = Cardinality(HeldBy(i)')
                                      + One(s \in HeldBy(i) /\ into \in HeldBy(i))
    BY <1>4, <2>2, Apart, Replaces
  <2>4. NamedBy(i)' = NamedBy(i) /\ Cardinality(NamedBy(i)) \in Nat /\ holders'[i] = holders[i]
    BY <1>1, <1>2, <2>1, Sizes DEF NamedBy
  <2>5. drops'[i] = One(s \in HeldBy(i) /\ into \in HeldBy(i))
    BY <1>0, <2>1, <2>2 DEF One
  <2> QED
    BY <2>1, <2>3, <2>4, <2>5 DEF One
<1>8. CountsExact'
  <2>1. \A t \in Slots : naming'[t] = {n \in tier' : t \in aggSlots'[n]}
    BY <1>1, <1>2 DEF Names, CountsExact
  <2> QED
    BY <1>1, <1>6, <1>7, <2>1 DEF CountsExact, HeldBy, NamedBy
<1>9. NamesLive'
  <2>1. ASSUME NEW o \in Slots, NEW t \in pins'[o] PROVE Occupied(o)' /\ Occupied(t)' /\ o # t
    <3>1. t \in Slots /\ o # s
      BY <1>5, <2>1
    <3>2. CASE o = into
      BY <1>2, <1>3, <1>4, <1>5, <2>1, <3>1, <3>2 DEF Names, NamesLive
    <3>3. CASE o # into
      <4>1. t \in pins[o] /\ t # s
        BY <1>4, <1>5, <2>1, <3>1, <3>3
      <4> QED
        BY <1>2, <1>3, <3>1, <4>1 DEF Names, NamesLive
    <3> QED
      BY <3>2, <3>3
  <2>2. ASSUME NEW t \in Slots PROVE held'[t] \subseteq (IF Occupied(t)' THEN tier' ELSE {})
    <3>1. held[t] \subseteq (IF Occupied(t) THEN tier ELSE {})
      BY <1>2 DEF Names, NamesLive
    <3> QED
      BY <1>1, <1>2, <1>3, <1>4, <1>5, <3>1
  <2>3. ASSUME NEW n \in tier'
        PROVE  /\ \A t \in aggSlots'[n] : Occupied(t)'
               /\ aggIds'[n] \subseteq tier' \ {n}
    <3>1. s \notin aggSlots[n] /\ aggSlots[n] \in SUBSET Slots
      BY <1>1, <1>2, <2>3 DEF Names, CountsExact, TypeOK
    <3> QED
      BY <1>1, <1>2, <1>3, <2>3, <3>1 DEF Names, NamesLive
  <2> QED
    BY <2>1, <2>2, <2>3 DEF NamesLive
<1>10. Leaves(s, {Occupant(s)})
  BY <1>1, <1>2, <1>3, Apart DEF Leaves, Regions
<1>11. PICK new : new = Stripped(reaches[into], s) \o Rehomed(reaches[s], s, into)
  OBVIOUS
<1>12. /\ new \in Seq(Masks)
       /\ \A k \in DOMAIN reaches[into] : k \in DOMAIN new
       /\ \A k \in DOMAIN reaches[s] : Len(reaches[into]) + k \in DOMAIN new
       /\ \A k \in DOMAIN new :
            \/ /\ k \in DOMAIN reaches[into]
               /\ new[k].slab = reaches[into][k].slab \ {s}
               /\ new[k].ids = reaches[into][k].ids
            \/ \E j \in DOMAIN reaches[s] :
                 /\ new[k].slab = (reaches[s][j].slab \ {s}) \cup {into}
                 /\ new[k].ids = reaches[s][j].ids
  <2>1. into # s
    BY <1>4
  <2>2. MovedIn(new, s, into)
    BY <1>11, <2>1, Migrates
  <2>3. /\ \A k \in DOMAIN reaches[into] :
             /\ new[k].slab = reaches[into][k].slab \ {s}
             /\ new[k].ids = reaches[into][k].ids
        /\ \A j \in DOMAIN reaches[s] :
             /\ new[Len(reaches[into]) + j].slab = (reaches[s][j].slab \ {s}) \cup {into}
             /\ new[Len(reaches[into]) + j].ids = reaches[s][j].ids
        /\ \A k \in DOMAIN new :
             k \in DOMAIN reaches[into] \/ \E j \in DOMAIN reaches[s] : k = Len(reaches[into]) + j
    BY <2>2 DEF MovedIn
  <2>4. \A k \in DOMAIN new :
            \/ /\ k \in DOMAIN reaches[into]
               /\ new[k].slab = reaches[into][k].slab \ {s}
               /\ new[k].ids = reaches[into][k].ids
            \/ \E j \in DOMAIN reaches[s] :
                 /\ new[k].slab = (reaches[s][j].slab \ {s}) \cup {into}
                 /\ new[k].ids = reaches[s][j].ids
    BY <2>3
  <2> QED
    BY <2>2, <2>4 DEF MovedIn
<1>13. /\ reaches'[s] = <<>> /\ reaches'[into] = new /\ reaches' \in [Slots -> Seq(Masks)]
       /\ \A t \in Slots : t # s /\ t # into => reaches'[t] = reaches[t]
  <2>1. reaches' = [reaches EXCEPT ![s] = <<>>,
                        ![into] = Stripped(@, s) \o Rehomed(reaches[s], s, into)]
    BY <1>0 DEF MigrateReaches
  <2>2. reaches \in [Slots -> Seq(Masks)] /\ <<>> \in Seq(Masks)
    BY DEF IInv, Kinds
  <2>3. reaches' = [reaches EXCEPT ![s] = <<>>, ![into] = new]
    BY <1>4, <1>11, <2>1, <2>2
  <2> QED
    BY <1>4, <1>12, <2>2, <2>3
<1>14. BundlesOK' /\ FatesOK' /\ KeysAt' /\ first' \in [Births -> Nat]
       /\ fate' \in [Births -> Regions \cup {Nowhere}]
  <2>1. into \in Regions /\ into \notin Ids
    BY Apart DEF Regions
  <2>2. PICK D \in SUBSET {Occupant(s)} :
          D = Departing(s) /\ \A v \in kept : v.home \in {Occupant(s)} => v.home \in D
    BY DepartingKept
  <2>3. PICK off : off = Len(reaches[into])
    OBVIOUS
  <2>4. off \in Nat
    BY <2>3 DEF IInv, Kinds
  <2>5. /\ fate' = [b \in Births |-> IF b \in Lineage(s) \cup D THEN into ELSE fate[b]]
        /\ first' = [b \in Births |-> CASE b \in D -> off
                                        [] b \in Lineage(s) -> off + first[b]
                                        [] OTHER -> first[b]]
    BY <1>0, <2>2, <2>3 DEF MigrateReaches, FirstMoved
  <2>6. \A b \in D : b \in Births /\ b \notin Lineage(s)
    <3>1. \A b \in D : b \in Births /\ fate[b] = Nowhere
      BY <1>10, <2>2, LeavesFacts
    <3> QED
      BY <3>1, Apart DEF Lineage
  <2>7. \A b \in Lineage(s) : b \in Births
    BY DEF Lineage
  <2>8. ASSUME NEW b \in Births
        PROVE  /\ b \in D => first'[b] = off
               /\ b \in Lineage(s) => first'[b] = off + first[b]
               /\ b \notin Lineage(s) \cup D => first'[b] = first[b]
    BY <2>5, <2>6
  <2>9. first' \in [Births -> Nat]
    BY <1>2, <2>4, <2>5 DEF TypeOK
  <2>10. fate' \in [Births -> Regions \cup {Nowhere}]
    BY <1>2, <2>1, <2>5 DEF TypeOK
  <2>11. \A t \in Slots : t # s => DOMAIN reaches[t] \subseteq DOMAIN reaches'[t]
    BY <1>12, <1>13
  <2>12. /\ s \in Slots
         /\ \E x \in Nat : /\ \A b \in Lineage(s) : first'[b] = x + first[b]
                           /\ \A b \in D : first'[b] = x
                           /\ \A k \in DOMAIN reaches[s] : x + k \in DOMAIN reaches'[into]
    BY <1>12, <1>13, <2>3, <2>4, <2>6, <2>7, <2>8
  <2>13. \A b \in Births : b \notin Lineage(s) \cup D => first'[b] = first[b]
    BY <2>8
  <2>14. BundlesOK' /\ FatesOK' /\ KeysAt'
    <3>1. bundle' = Splice(s, into)
      BY <1>0
    <3>2. fate' = [b \in Births |-> IF b \in Lineage(s) \cup D THEN into ELSE fate[b]]
      BY <2>5
    <3> QED
      BY <1>4, <1>10, <2>1, <2>2, <2>11, <2>12, <2>13, <3>1, <3>2, BytesMove
  <2> QED
    BY <2>9, <2>10, <2>14
<1>15. MasksCovered'
  <2> SUFFICES ASSUME NEW t \in Slots, NEW k \in DOMAIN reaches'[t]
               PROVE  /\ reaches'[t][k].slab \subseteq pins'[t] \cup {t}
                      /\ reaches'[t][k].ids \subseteq held'[t]
    BY DEF MasksCovered
  <2>1. t # s
    BY <1>13
  <2>2. CASE t = into
    <3>1. k \in DOMAIN new /\ reaches'[t] = new
      BY <1>13, <2>2
    <3>2. \A j \in DOMAIN reaches[into] : /\ reaches[into][j].slab \subseteq pins[into] \cup {into}
                                          /\ reaches[into][j].ids \subseteq held[into]
      BY DEF IInv, MovesWhole, MasksCovered
    <3>3. \A j \in DOMAIN reaches[s] : /\ reaches[s][j].slab \subseteq pins[s] \cup {s}
                                       /\ reaches[s][j].ids \subseteq held[s]
      BY DEF IInv, MovesWhole, MasksCovered
    <3>4. CASE /\ k \in DOMAIN reaches[into]
               /\ new[k].slab = reaches[into][k].slab \ {s}
               /\ new[k].ids = reaches[into][k].ids
      BY <1>5, <2>2, <3>1, <3>2, <3>4
    <3>5. CASE \E j \in DOMAIN reaches[s] :
                 /\ new[k].slab = (reaches[s][j].slab \ {s}) \cup {into}
                 /\ new[k].ids = reaches[s][j].ids
      BY <1>5, <2>2, <3>1, <3>3, <3>5
    <3> QED
      BY <1>12, <3>1, <3>4, <3>5
  <2>3. CASE t # into
    BY <1>5, <1>13, <2>1, <2>3, SameMasks DEF IInv, MovesWhole
  <2> QED
    BY <2>2, <2>3
<1>16. SerialsOK'
  BY <1>1, <1>2, <1>3, BirthsFinite DEF IInv, SerialsOK, TypeOK
<1>17. DisposalOK' /\ TargetOK'
  <2>1. \A i \in Ids : drops'[i] > 0 => i \in held[s]
    BY <1>0 DEF One
  <2> QED
    BY <1>1, <1>2, <1>3, <2>1 DEF DisposalOK, TargetOK
<1>18. Kinds'
  <2>1. tally' \in [Slots -> Nat] /\ drops' \in [Ids -> Nat]
    BY <1>0, <1>6 DEF One
  <2>2. bundle' \in [Regions -> SUBSET Births]
    BY <1>0, <1>2, Apart DEF TypeOK, Splice, Regions
  <2>3. \A t \in Slots : \A k \in DOMAIN reaches'[t] : reaches'[t][k] \in Masks
    BY <1>13
  <2> QED
    BY <1>1, <1>2, <1>3, <1>5, <1>13, <1>14, <2>1, <2>2, <2>3 DEF Kinds, TypeOK
<1>19. MovesWhole'
  BY <1>14, <1>15, <1>18, KeysAreNext DEF MovesWhole, Kinds
<1> QED
  BY <1>8, <1>9, <1>14, <1>16, <1>17, <1>18, <1>19 DEF IInv

-----------------------------------------------------------------------------
\* The cascade.

\* A region that nothing names but what is to be released: no slot and no region does.
LEMMA Unnamed ==
    ASSUME IInv, NEW id \in tier, holders[id] = drops[id]
    PROVE  HeldBy(id) = {} /\ NamedBy(id) = {}
<1>1. TypeOK /\ CountsExact /\ id \in Ids
  BY DEF IInv, Kinds, TypeOK
<1>2. /\ holders[id] = Cardinality(HeldBy(id)) + Cardinality(NamedBy(id)) + drops[id]
      /\ drops[id] \in Nat
  BY <1>1, CountsAre DEF TypeOK
<1>3. Cardinality(HeldBy(id)) = 0 /\ Cardinality(NamedBy(id)) = 0
  BY <1>1, <1>2, Sizes
<1>4. HeldBy(id) \subseteq Slots /\ NamedBy(id) \subseteq Ids
  BY <1>1 DEF HeldBy, NamedBy, TypeOK
<1>5. IsFiniteSet(HeldBy(id)) /\ IsFiniteSet(NamedBy(id))
  BY <1>4, Apart, FS_Subset
<1> QED
  BY <1>3, <1>5, FS_EmptySet

\* A region nothing names is retired: what it held is to be released once more.
LEMMA RetireKeeps ==
    ASSUME IInv, NEW id \in tier, HeldBy(id) = {}, NamedBy(id) = {}, Retire(id),
           UNCHANGED <<cells, matrix, reaches, serial, dying, kept>>,
           holders' \in [Ids -> Nat], drops' \in [Ids -> Nat],
           target' \in Ids \cup {NoId}, merging' \subseteq Ids,
           \A i \in tier : i # id => /\ holders'[i] = holders[i]
                                     /\ drops'[i] = drops[i] + One(i \in aggIds[id])
    PROVE  Kinds' /\ SerialsOK' /\ Names' /\ BundlesOK' /\ FatesOK' /\ MovesWhole'
<1>1. /\ tier' = tier \ {id} /\ naming' = [t \in Slots |-> naming[t] \ {id}]
      /\ aggSlots' = [aggSlots EXCEPT ![id] = {}] /\ aggIds' = [aggIds EXCEPT ![id] = {}]
      /\ bundle' = [bundle EXCEPT ![id] = {}] /\ reads' = {e \in reads : e[1] \notin bundle[id]}
      /\ fate' = [b \in Births |-> IF b \in Lineage(id) THEN Nowhere ELSE fate[b]]
      /\ first' = [b \in Births |-> IF b \in Lineage(id) THEN 0 ELSE first[b]]
  BY DEF Retire, Free, Forward
<1>2. /\ UNCHANGED <<life, gen, refused, below, pins, tally, held, reaches, serial, dying, kept>>
      /\ \A s \in Slots : Occupied(s)' <=> Occupied(s)
      /\ Born' = Born /\ Departed' = Departed /\ \A s \in Slots : Occupant(s)' = Occupant(s)
  <2>1. UNCHANGED <<life, gen, refused, below, pins, tally, held, reaches, serial, dying, kept>>
    BY DEF cells, matrix
  <2>2. \A s \in Slots : (Occupied(s)' <=> Occupied(s)) /\ Occupant(s)' = Occupant(s)
    BY <2>1 DEF Occupied, Occupant
  <2>3. \A b \in Births : b[1] \in Slots
    BY DEF Births
  <2> QED
    BY <2>1, <2>2, <2>3 DEF Born, Departed
<1>3. TypeOK /\ Names /\ id \in Ids /\ tier \subseteq Ids
  BY DEF IInv, Kinds, Names, TypeOK
<1>4. (\A t \in Slots : id \notin held[t]) /\ (\A n \in tier : id \notin aggIds[n])
  BY DEF HeldBy, NamedBy
<1>5. \A n \in tier' : n \in tier /\ n # id /\ aggSlots'[n] = aggSlots[n] /\ aggIds'[n] = aggIds[n]
  BY <1>1, <1>3 DEF TypeOK
<1>6. CountsExact'
  <2>1. \A t \in Slots : tally'[t] = Cardinality(Holding(t)')
    <3>1. \A t \in Slots : Holding(t)' = Holding(t)
      BY <1>2 DEF Holding
    <3> QED
      BY <1>2, <1>3, <3>1 DEF Names, CountsExact
  <2>2. ASSUME NEW t \in Slots PROVE naming'[t] = {n \in tier' : t \in aggSlots'[n]}
    <3>1. naming[t] = {n \in tier : t \in aggSlots[n]} /\ naming'[t] = naming[t] \ {id}
      BY <1>1, <1>3 DEF Names, CountsExact
    <3> QED
      BY <1>1, <1>5, <3>1
  <2>3. ASSUME NEW i \in tier'
        PROVE  holders'[i] = Cardinality(HeldBy(i)') + Cardinality(NamedBy(i)') + drops'[i]
    <3>1. i \in Ids /\ i \in tier /\ i # id
      BY <1>3, <1>5
    <3>2. holders[i] = Cardinality(HeldBy(i)) + Cardinality(NamedBy(i)) + drops[i]
          /\ drops[i] \in Nat
      BY <1>3, <3>1, CountsAre DEF Names, TypeOK
    <3>3. HeldBy(i)' = HeldBy(i) /\ Cardinality(HeldBy(i)) \in Nat
      BY <1>2, <1>3, <3>1, Sizes DEF HeldBy
    <3>4. /\ NamedBy(i) \in SUBSET Ids /\ NamedBy(i)' \in SUBSET Ids
          /\ NamedBy(i) \ {id} = NamedBy(i)' \ {id} /\ id \notin NamedBy(i)'
          /\ id \in NamedBy(i) <=> i \in aggIds[id]
      BY <1>1, <1>3, <1>5 DEF NamedBy
    <3>5. /\ Cardinality(NamedBy(i)) \in Nat /\ Cardinality(NamedBy(i)') \in Nat
          /\ (id \in NamedBy(i) <=> id \in NamedBy(i)') =>
                  Cardinality(NamedBy(i)') = Cardinality(NamedBy(i))
          /\ id \in NamedBy(i) /\ id \notin NamedBy(i)' =>
                  Cardinality(NamedBy(i)') = Cardinality(NamedBy(i)) - 1
      BY <1>3, <3>4, Apart, OneMoves
    <3>6. holders'[i] = holders[i] /\ drops'[i] = drops[i] + One(i \in aggIds[id])
      BY <3>1
    <3> QED
      BY <3>2, <3>3, <3>4, <3>5, <3>6 DEF One
  <2> QED
    BY <2>1, <2>2, <2>3 DEF CountsExact, HeldBy, NamedBy
<1>7. NamesLive'
  <2>1. \A s \in Slots : \A t \in pins'[s] : Occupied(s)' /\ Occupied(t)' /\ s # t
    BY <1>2, <1>3 DEF Names, NamesLive, TypeOK
  <2>2. \A s \in Slots : held'[s] \subseteq (IF Occupied(s)' THEN tier' ELSE {})
    BY <1>1, <1>2, <1>3, <1>4 DEF Names, NamesLive
  <2>3. ASSUME NEW n \in tier'
        PROVE  /\ \A t \in aggSlots'[n] : Occupied(t)'
               /\ aggIds'[n] \subseteq tier' \ {n}
    <3>1. (\A t \in aggSlots[n] : t \in Slots /\ Occupied(t)) /\ aggIds[n] \subseteq tier \ {n}
      BY <1>3, <1>5 DEF Names, NamesLive, TypeOK
    <3> QED
      BY <1>1, <1>2, <1>4, <1>5, <3>1
  <2> QED
    BY <2>1, <2>2, <2>3 DEF NamesLive
<1>8. Leaves(id, {})
  BY <1>1, <1>2, <1>3, Apart DEF Leaves, Regions
<1>9. BundlesOK' /\ FatesOK' /\ KeysAt'
  <2>1. \A b \in Births : b \notin Lineage(id) => first'[b] = first[b]
    BY <1>1
  <2>2. \A t \in Slots : t # id => DOMAIN reaches[t] \subseteq DOMAIN reaches'[t]
    BY <1>2
  <2> QED
    BY <1>1, <1>8, <2>1, <2>2, BytesFree
<1>10. SerialsOK'
  BY <1>1, <1>2 DEF IInv, SerialsOK
<1>11. Kinds'
  <2>1. fate' \in [Births -> Regions \cup {Nowhere}] /\ first' \in [Births -> Nat]
    BY <1>1, <1>3 DEF TypeOK
  <2>2. bundle' \in [Regions -> SUBSET Births] /\ reads' \subseteq Births \X Births
    BY <1>1, <1>3 DEF TypeOK
  <2>3. /\ naming' \in [Slots -> SUBSET Ids] /\ aggSlots' \in [Ids -> SUBSET Slots]
        /\ aggIds' \in [Ids -> SUBSET Ids] /\ tier' \subseteq Ids
    BY <1>1, <1>3 DEF TypeOK
  <2> QED
    BY <1>2, <1>3, <2>1, <2>2, <2>3 DEF IInv, Kinds, TypeOK
<1>12. MasksCovered'
  BY <1>2 DEF IInv, MovesWhole, MasksCovered
<1>13. MovesWhole'
  BY <1>9, <1>11, <1>12, KeysAreNext DEF MovesWhole, Kinds
<1> QED
  BY <1>6, <1>7, <1>9, <1>10, <1>11, <1>13 DEF Names

\* A hold is released.
LEMMA ReleaseSealedHoldIInv ==
    ASSUME IInv, NEW id \in Ids, ReleaseSealedHold(id)
    PROVE  IInv'
<1>1. /\ dying = NoSlot /\ drops[id] > 0
      /\ holders' = [holders EXCEPT ![id] = IF id \in tier THEN @ - 1 ELSE @]
      /\ UNCHANGED <<cells, matrix, reaches, serial, dying, target, merging, kept>>
  BY DEF ReleaseSealedHold
<1>2. TypeOK /\ Names /\ DisposalOK /\ TargetOK /\ tier \subseteq Ids
  BY DEF IInv, Kinds, Names, TypeOK
<1>3. id \in tier
  BY <1>1, <1>2 DEF DisposalOK
<1>4. /\ holders[id] = Cardinality(HeldBy(id)) + Cardinality(NamedBy(id)) + drops[id]
      /\ Cardinality(HeldBy(id)) \in Nat /\ Cardinality(NamedBy(id)) \in Nat /\ drops[id] \in Nat
      /\ holders[id] \in Nat
  BY <1>2, <1>3, CountsAre, Sizes DEF Names, TypeOK
<1>5. /\ holders'[id] = holders[id] - 1 /\ \A i \in Ids : i # id => holders'[i] = holders[i]
      /\ holders' \in [Ids -> Nat]
  <2>1. holders[id] - 1 \in Nat
    BY <1>1, <1>4
  <2>2. holders' = [holders EXCEPT ![id] = holders[id] - 1]
    BY <1>1, <1>3
  <2> QED
    BY <1>2, <2>1, <2>2 DEF TypeOK
<1>6. CASE holders[id] = 1
  <2>1. Retire(id) /\ drops' = [i \in Ids |-> drops[i] - One(i = id) + One(i \in aggIds[id])]
    BY <1>3, <1>6 DEF ReleaseSealedHold
  <2>2. drops[id] = 1 /\ HeldBy(id) = {} /\ NamedBy(id) = {}
    <3>1. drops[id] = 1
      BY <1>1, <1>4, <1>6
    <3> QED
      BY <1>3, <1>6, <3>1, Unnamed
  <2>3. target = NoId
    BY <1>1, <1>2, <2>2 DEF TargetOK, NamedBy
  <2>4. id \notin aggIds[id] /\ aggIds[id] \subseteq tier
    BY <1>2, <1>3 DEF Names, NamesLive
  <2>5. /\ drops'[id] = 0
        /\ \A i \in Ids : i # id => drops'[i] = drops[i] + One(i \in aggIds[id])
        /\ drops' \in [Ids -> Nat]
    <3>1. ASSUME NEW i \in Ids
          PROVE  /\ drops'[i] \in Nat /\ (i = id => drops'[i] = 0)
                 /\ i # id => drops'[i] = drops[i] + One(i \in aggIds[id])
      <4>1. /\ drops'[i] = drops[i] - One(i = id) + One(i \in aggIds[id])
            /\ drops[i] \in Nat
        BY <1>2, <2>1 DEF TypeOK
      <4> QED
        BY <2>2, <2>4, <4>1 DEF One
    <3> QED
      BY <2>1, <3>1
  <2>6. Kinds' /\ SerialsOK' /\ Names' /\ BundlesOK' /\ FatesOK' /\ MovesWhole'
    <3>1. \A i \in tier : i # id => /\ holders'[i] = holders[i]
                                    /\ drops'[i] = drops[i] + One(i \in aggIds[id])
      BY <1>2, <1>5, <2>5
    <3>2. target' \in Ids \cup {NoId} /\ merging' \subseteq Ids
      BY <1>1, <1>2 DEF TypeOK
    <3> QED
      BY <1>1, <1>3, <1>5, <2>1, <2>2, <2>5, <3>1, <3>2, RetireKeeps
  <2>7. DisposalOK' /\ TargetOK'
    <3>1. ASSUME NEW i \in Ids, drops'[i] > 0 PROVE i \in tier'
      <4>1. i # id
        BY <2>5, <3>1
      <4>3. drops[i] > 0 \/ i \in aggIds[id]
        <5>1. drops[i] \in Nat /\ drops'[i] = drops[i] + One(i \in aggIds[id])
          BY <1>2, <2>5, <4>1 DEF TypeOK
        <5> QED
          BY <3>1, <5>1 DEF One
      <4>2. tier' = tier \ {id}
        BY <2>1 DEF Retire
      <4> QED
        BY <1>2, <2>4, <4>1, <4>2, <4>3 DEF DisposalOK
    <3> QED
      BY <1>1, <2>3, <3>1 DEF DisposalOK, TargetOK
  <2> QED
    BY <2>6, <2>7 DEF IInv, Names
<1>7. CASE holders[id] # 1
  <2>1. /\ drops' = [drops EXCEPT ![id] = @ - 1]
        /\ UNCHANGED <<fate, first, naming, tier, aggSlots, aggIds, bundle, reads>>
    BY <1>7 DEF ReleaseSealedHold
  <2>2. /\ drops'[id] = drops[id] - 1 /\ \A i \in Ids : i # id => drops'[i] = drops[i]
        /\ drops' \in [Ids -> Nat]
    <3>1. drops[id] - 1 \in Nat
      BY <1>1, <1>4
    <3> QED
      BY <1>2, <2>1, <3>1 DEF TypeOK
  <2>3. /\ SerialsOK' /\ NamesLive' /\ BundlesOK' /\ FatesOK' /\ MovesWhole'
        /\ \A s \in Slots : /\ tally'[s] = Cardinality(Holding(s)')
                            /\ naming'[s] = {n \in tier' : s \in aggSlots'[n]}
        /\ \A i \in Ids : HeldBy(i)' = HeldBy(i) /\ NamedBy(i)' = NamedBy(i)
    <3>1. /\ \A s \in Slots : Occupied(s)' <=> Occupied(s)
          /\ UNCHANGED <<gen, matrix, keys, sealed, bundle, kept>>
      BY <1>1, <2>1 DEF cells, keys, sealed, Occupied
    <3> QED
      BY <3>1, StillState
  <2>4. CountsExact'
    <3>1. ASSUME NEW i \in tier'
          PROVE  holders'[i] = Cardinality(HeldBy(i)') + Cardinality(NamedBy(i)') + drops'[i]
      <4>1. i \in Ids /\ holders[i] = Cardinality(HeldBy(i)) + Cardinality(NamedBy(i)) + drops[i]
        BY <1>2, <2>1, CountsAre DEF Names
      <4>2. HeldBy(i)' = HeldBy(i) /\ NamedBy(i)' = NamedBy(i)
        BY <2>3, <4>1
      <4>3. CASE i = id
        BY <1>4, <1>5, <2>2, <4>2, <4>3
      <4>4. CASE i # id
        BY <1>5, <2>2, <4>1, <4>2, <4>4
      <4> QED
        BY <4>3, <4>4
    <3> QED
      BY <2>3, <3>1 DEF CountsExact, HeldBy, NamedBy
  <2>5. DisposalOK'
    <3>1. \A i \in Ids : drops'[i] > 0 => drops[i] > 0
      BY <1>1, <2>2
    <3> QED
      BY <1>1, <1>2, <2>1, <3>1 DEF DisposalOK
  <2>6. TargetOK'
    <3>1. \A i \in Ids : drops'[i] > 0 => drops[i] > 0
      BY <1>1, <2>2
    <3>2. ASSUME NEW i \in Ids, holders[i] > drops[i] + 1 PROVE holders'[i] > drops'[i] + 1
      <4>1. CASE i = id
        BY <1>4, <1>5, <2>2, <3>2, <4>1
      <4>2. CASE i # id
        BY <1>5, <2>2, <3>2, <4>2
      <4> QED
        BY <4>1, <4>2
    <3>3. \A n \in Ids : aggIds[n] \subseteq Ids
      BY <1>2 DEF TypeOK
    <3> QED
      BY <1>1, <1>2, <2>1, <3>1, <3>2, <3>3 DEF TargetOK
  <2>7. Kinds'
    BY <1>1, <1>2, <1>5, <2>1, <2>2 DEF IInv, Kinds, TypeOK, cells, matrix
  <2> QED
    BY <2>3, <2>4, <2>5, <2>6, <2>7 DEF IInv
<1> QED
  BY <1>6, <1>7

\* The target lost its last holder to a fold, itself.
LEMMA ReclaimUnheldIInv ==
    ASSUME IInv, ReclaimUnheld
    PROVE  IInv'
<1>1. /\ target # NoId /\ Settled /\ target \in tier /\ holders[target] = 0 /\ Retire(target)
      /\ drops' = [i \in Ids |-> One(i \in aggIds[target])]
      /\ target' = NoId /\ merging' = {}
      /\ UNCHANGED <<cells, matrix, reaches, serial, holders, dying, kept>>
  BY DEF ReclaimUnheld
<1>2. TypeOK /\ Names /\ DisposalOK /\ tier \subseteq Ids
  BY DEF IInv, Kinds, Names, TypeOK
<1>3. HeldBy(target) = {} /\ NamedBy(target) = {}
  BY <1>1, <1>2, Unnamed DEF Settled
<1>4. target \notin aggIds[target] /\ aggIds[target] \subseteq tier
  BY <1>1, <1>2 DEF Names, NamesLive
<1>5. /\ drops' \in [Ids -> Nat]
      /\ \A i \in Ids : drops'[i] = drops[i] + One(i \in aggIds[target])
      /\ \A i \in Ids : drops'[i] > 0 => i \in aggIds[target]
  BY <1>1 DEF One, Settled
<1>6. Kinds' /\ SerialsOK' /\ Names' /\ BundlesOK' /\ FatesOK' /\ MovesWhole'
  <2>1. holders' \in [Ids -> Nat] /\ target' \in Ids \cup {NoId} /\ merging' \subseteq Ids
    BY <1>1, <1>2 DEF TypeOK
  <2>2. \A i \in tier : i # target => /\ holders'[i] = holders[i]
                                      /\ drops'[i] = drops[i] + One(i \in aggIds[target])
    BY <1>1, <1>2, <1>5
  <2>3. UNCHANGED <<cells, matrix, reaches, serial, dying, kept>>
    BY <1>1
  <2> QED
    BY <1>1, <1>3, <1>5, <2>1, <2>2, <2>3, RetireKeeps
<1>7. DisposalOK' /\ TargetOK'
  <2>1. dying' = NoSlot
    BY <1>1, <1>2 DEF DisposalOK
  <2>2. tier' = tier \ {target}
    BY <1>1 DEF Retire
  <2> QED
    BY <1>1, <1>4, <1>5, <2>1, <2>2 DEF DisposalOK, TargetOK
<1> QED
  BY <1>6, <1>7 DEF IInv, Names

\* A region leaves the target's worklist: the target alone held it, and takes it in, or not.
LEMMA AbsorbSingletonIInv ==
    ASSUME IInv, NEW source \in Ids, AbsorbSingleton(source)
    PROVE  IInv'
<1>1. /\ target # NoId /\ Settled /\ holders[target] > 0 /\ source \in merging
      /\ UNCHANGED <<cells, matrix, reaches, serial, dying, target, carried>>
  BY DEF AbsorbSingleton
<1>2. TypeOK /\ Names /\ DisposalOK /\ TargetOK /\ tier \subseteq Ids
  BY DEF IInv, Kinds, Names, TypeOK
<1>3. /\ target \in tier /\ target \in Ids /\ source \in aggIds[target]
      /\ merging \subseteq aggIds[target] /\ aggIds[target] \subseteq tier \ {target}
      /\ source # target /\ source \in tier /\ dying = NoSlot /\ \A i \in Ids : drops[i] = 0
      /\ \A i \in aggIds[target] \ merging : holders[i] > drops[i] + 1
  <2>1. /\ target \in tier /\ merging \subseteq aggIds[target] /\ dying = NoSlot
        /\ \A i \in aggIds[target] \ merging : holders[i] > drops[i] + 1
    BY <1>1, <1>2 DEF TargetOK, DisposalOK
  <2>2. aggIds[target] \subseteq tier \ {target}
    BY <1>2, <2>1 DEF Names, NamesLive
  <2> QED
    BY <1>1, <1>2, <2>1, <2>2 DEF Settled
<1>4. /\ holders[source] = Cardinality(HeldBy(source)) + Cardinality(NamedBy(source))
      /\ Cardinality(HeldBy(source)) \in Nat /\ Cardinality(NamedBy(source)) \in Nat
      /\ target \in NamedBy(source) /\ IsFiniteSet(NamedBy(source)) /\ IsFiniteSet(HeldBy(source))
  <2>1. /\ holders[source] = Cardinality(HeldBy(source)) + Cardinality(NamedBy(source)) + 0
        /\ Cardinality(HeldBy(source)) \in Nat /\ Cardinality(NamedBy(source)) \in Nat
    BY <1>2, <1>3, CountsAre, Sizes DEF Names
  <2>2. HeldBy(source) \subseteq Slots /\ NamedBy(source) \subseteq Ids
    BY <1>2 DEF HeldBy, NamedBy
  <2> QED
    BY <1>3, <2>1, <2>2, Apart, FS_Subset DEF NamedBy
<1>5. holders[source] \in Nat /\ holders[source] >= 1
  <2>1. NamedBy(source) # {}
    BY <1>4
  <2>2. Cardinality(NamedBy(source)) # 0
    BY <1>4, <2>1, FS_EmptySet
  <2> QED
    BY <1>4, <2>2
<1>6. /\ UNCHANGED <<life, gen, refused, below, pins, tally, held, reaches, serial, dying>>
      /\ UNCHANGED <<target, kept, reads>>
      /\ \A s \in Slots : Occupied(s)' <=> Occupied(s)
  BY <1>1 DEF cells, matrix, carried, Occupied
<1>7. CASE holders[source] # 1
  <2>1. /\ merging' = merging \ {source}
        /\ UNCHANGED <<fate, first, naming, tier, aggSlots, aggIds, holders, bundle, drops>>
    BY <1>7 DEF AbsorbSingleton, Popped
  <2>2. /\ SerialsOK' /\ NamesLive' /\ BundlesOK' /\ FatesOK' /\ MovesWhole'
        /\ \A s \in Slots : /\ tally'[s] = Cardinality(Holding(s)')
                            /\ naming'[s] = {n \in tier' : s \in aggSlots'[n]}
        /\ \A i \in Ids : HeldBy(i)' = HeldBy(i) /\ NamedBy(i)' = NamedBy(i)
    <3>1. UNCHANGED <<gen, matrix, keys, sealed, bundle, kept>>
      BY <1>1, <1>6, <2>1 DEF keys, sealed
    <3> QED
      BY <1>6, <3>1, StillState
  <2>3. CountsExact'
    <3>1. \A i \in tier :
            holders[i] = Cardinality(HeldBy(i)) + Cardinality(NamedBy(i)) + drops[i]
      BY <1>2, CountsAre DEF Names
    <3>2. \A i \in tier' :
            holders'[i] = Cardinality(HeldBy(i)') + Cardinality(NamedBy(i)') + drops'[i]
      BY <1>2, <2>1, <2>2, <3>1
    <3> QED
      BY <2>2, <3>2 DEF CountsExact, HeldBy, NamedBy
  <2>4. DisposalOK'
    BY <1>2, <1>3, <1>6, <2>1 DEF DisposalOK
  <2>5. TargetOK'
    <3>1. holders[source] > drops[source] + 1
      BY <1>3, <1>5, <1>7
    <3>2. \A i \in aggIds[target] \ (merging \ {source}) : holders[i] > drops[i] + 1
      BY <1>3, <3>1
    <3> QED
      BY <1>2, <1>6, <2>1, <3>2 DEF TargetOK
  <2>6. Kinds'
    BY <1>2, <1>6, <2>1 DEF IInv, Kinds, TypeOK
  <2> QED
    BY <2>2, <2>3, <2>4, <2>5, <2>6 DEF IInv
<1>8. CASE holders[source] = 1
  <2>1. /\ FoldIntoSealed(target, aggSlots[source], aggIds[source], aggSlots[target],
                          aggIds[target] \ {source}, [t \in Slots |-> naming[t] \ {source}])
        /\ tier' = tier \ {source}
        /\ Forward(Lineage(source), target)
        /\ bundle' = Splice(source, target)
        /\ merging' = (merging \ {source}) \cup (aggIds[source] \ {target})
    BY <1>3, <1>8 DEF AbsorbSingleton, Popped, Requeued
  <2>2. /\ naming' = [t \in Slots |->
                IF t \in aggSlots[source] \ aggSlots[target]
                THEN [u \in Slots |-> naming[u] \ {source}][t] \cup {target}
                ELSE [u \in Slots |-> naming[u] \ {source}][t]]
        /\ aggSlots' = [aggSlots EXCEPT ![target] = aggSlots[target] \cup aggSlots[source]]
        /\ aggIds' = [aggIds EXCEPT ![target] =
                (aggIds[target] \ {source}) \cup (aggIds[source] \ {target})]
        /\ holders' = [holders EXCEPT ![target] = @ - One(target \in aggIds[source])]
        /\ drops' = [i \in Ids |-> One(i \in (aggIds[source] \ {target})
                                                \cap (aggIds[target] \ {source}))]
    BY <2>1 DEF FoldIntoSealed
  <2>3. /\ \A t \in Slots :
             naming'[t] = IF t \in aggSlots[source] \ aggSlots[target]
                          THEN (naming[t] \ {source}) \cup {target} ELSE naming[t] \ {source}
        /\ aggSlots'[target] = aggSlots[target] \cup aggSlots[source]
        /\ aggIds'[target] = (aggIds[target] \ {source}) \cup (aggIds[source] \ {target})
        /\ \A n \in Ids : n # target => /\ aggSlots'[n] = aggSlots[n] /\ aggIds'[n] = aggIds[n]
                                        /\ holders'[n] = holders[n]
        /\ holders'[target] = holders[target] - One(target \in aggIds[source])
    BY <1>2, <1>3, <2>2 DEF TypeOK
  <2>4. /\ \A i \in Ids : drops'[i] = One(/\ i \in aggIds[source] /\ i # target
                                         /\ i \in aggIds[target] /\ i # source)
        /\ drops' \in [Ids -> Nat]
    BY <2>2 DEF One
  <2>5. HeldBy(source) = {} /\ NamedBy(source) = {target}
    <3>1. Cardinality(NamedBy(source)) = 1 /\ Cardinality(HeldBy(source)) = 0
      <4>1. Cardinality(NamedBy(source)) # 0
        BY <1>4, FS_EmptySet
      <4> QED
        BY <1>4, <1>8, <4>1
    <3>2. PICK x : NamedBy(source) = {x}
      BY <1>4, <3>1, FS_Singleton
    <3> QED
      BY <1>4, <3>1, <3>2, FS_EmptySet
  <2>6. /\ \A t \in Slots : source \notin held[t]
        /\ \A n \in tier : n # target => source \notin aggIds[n]
        /\ aggIds[source] \subseteq tier \ {source}
        /\ \A n \in tier' : n \in tier /\ n \in Ids /\ n # source
    BY <1>2, <1>3, <2>1, <2>5 DEF HeldBy, NamedBy, Names, NamesLive
  <2>7. ASSUME NEW i \in tier'
        PROVE  holders'[i] = Cardinality(HeldBy(i)') + Cardinality(NamedBy(i)') + drops'[i]
    <3>1. /\ i \in Ids /\ i \in tier /\ i # source
          /\ holders[i] = Cardinality(HeldBy(i)) + Cardinality(NamedBy(i)) + 0
          /\ Cardinality(HeldBy(i)) \in Nat /\ Cardinality(NamedBy(i)) \in Nat
      BY <1>2, <1>3, <2>6, CountsAre, Sizes DEF Names
    <3>2. HeldBy(i)' = HeldBy(i)
      BY <1>6 DEF HeldBy
    <3>3. /\ NamedBy(i) \in SUBSET Ids /\ NamedBy(i)' \in SUBSET Ids /\ source \notin NamedBy(i)'
          /\ NamedBy(i) \ {source, target} = NamedBy(i)' \ {source, target}
          /\ source \in NamedBy(i) <=> i \in aggIds[source]
          /\ target \in NamedBy(i) <=> i \in aggIds[target]
          /\ target \in NamedBy(i)' <=> i \in aggIds'[target]
      <4>1. tier' = tier \ {source} /\ target \in tier'
        BY <1>3, <2>1
      <4> QED
        BY <1>2, <1>3, <2>3, <4>1 DEF NamedBy
    <3>4. CASE i = target
      <4>1. target \notin NamedBy(i) /\ target \notin NamedBy(i)'
        BY <1>3, <2>3, <3>3, <3>4
      <4>2. NamedBy(i) \ {source} = NamedBy(i)' \ {source}
        BY <3>3, <4>1
      <4>3. /\ Cardinality(NamedBy(i)') \in Nat
            /\ (source \in NamedBy(i) <=> source \in NamedBy(i)') =>
                    Cardinality(NamedBy(i)') = Cardinality(NamedBy(i))
            /\ source \in NamedBy(i) /\ source \notin NamedBy(i)' =>
                    Cardinality(NamedBy(i)') = Cardinality(NamedBy(i)) - 1
        BY <3>3, <4>2, Apart, OneMoves
      <4>4. drops'[i] = 0
        BY <2>4, <3>1, <3>4 DEF One
      <4> QED
        BY <2>3, <3>1, <3>2, <3>3, <3>4, <4>3, <4>4 DEF One
    <3>5. CASE i # target
      <4>1. target \in NamedBy(i)' <=> source \in NamedBy(i) \/ target \in NamedBy(i)
        BY <2>3, <3>1, <3>3, <3>5
      <4>2. /\ Cardinality(NamedBy(i)') \in Nat
            /\ Cardinality(NamedBy(i)) = Cardinality(NamedBy(i)')
                                           + One(source \in NamedBy(i) /\ target \in NamedBy(i))
        BY <1>3, <3>3, <4>1, Apart, Replaces
      <4>3. drops'[i] = One(source \in NamedBy(i) /\ target \in NamedBy(i))
        BY <2>4, <3>1, <3>3, <3>5 DEF One
      <4>4. holders'[i] = holders[i]
        BY <2>3, <3>1, <3>5
      <4> QED
        BY <3>1, <3>2, <4>2, <4>3, <4>4 DEF One
    <3> QED
      BY <3>4, <3>5
  <2>8. CountsExact'
    <3>1. \A t \in Slots : tally'[t] = Cardinality(Holding(t)')
      <4>1. \A t \in Slots : Holding(t)' = Holding(t)
        BY <1>6 DEF Holding
      <4> QED
        BY <1>2, <1>6, <4>1 DEF Names, CountsExact
    <3>2. ASSUME NEW t \in Slots PROVE naming'[t] = {n \in tier' : t \in aggSlots'[n]}
      <4>1. naming[t] = {n \in tier : t \in aggSlots[n]}
        BY <1>2 DEF Names, CountsExact
      <4>2. /\ target \in tier' /\ tier' = tier \ {source}
            /\ t \in aggSlots'[target] <=> t \in aggSlots[target] \/ t \in aggSlots[source]
            /\ \A n \in tier : n # target => aggSlots'[n] = aggSlots[n]
        BY <1>2, <1>3, <2>1, <2>3
      <4>3. CASE t \in aggSlots[source] \ aggSlots[target]
        <5>1. naming'[t] = (naming[t] \ {source}) \cup {target}
          BY <2>3, <4>3
        <5> QED
          BY <4>1, <4>2, <4>3, <5>1
      <4>4. CASE t \notin aggSlots[source] \ aggSlots[target]
        <5>1. naming'[t] = naming[t] \ {source}
          BY <2>3, <4>4
        <5> QED
          BY <4>1, <4>2, <4>4, <5>1
      <4> QED
        BY <4>3, <4>4
    <3> QED
      BY <2>7, <3>1, <3>2 DEF CountsExact, HeldBy, NamedBy
  <2>9. NamesLive'
    <3>1. \A s \in Slots : \A t \in pins'[s] : Occupied(s)' /\ Occupied(t)' /\ s # t
      BY <1>2, <1>6 DEF Names, NamesLive, TypeOK
    <3>2. \A s \in Slots : held'[s] \subseteq (IF Occupied(s)' THEN tier' ELSE {})
      BY <1>2, <1>6, <2>1, <2>6 DEF Names, NamesLive
    <3>3. ASSUME NEW n \in tier'
          PROVE  /\ \A t \in aggSlots'[n] : Occupied(t)'
                 /\ aggIds'[n] \subseteq tier' \ {n}
      <4>1. ASSUME NEW m \in tier
            PROVE  (\A t \in aggSlots[m] : Occupied(t)') /\ aggIds[m] \subseteq tier \ {m}
        <5>1. (\A t \in aggSlots[m] : t \in Slots /\ Occupied(t)) /\ aggIds[m] \subseteq tier \ {m}
          BY <1>2 DEF Names, NamesLive, TypeOK
        <5> QED
          BY <1>6, <5>1
      <4>2. n \in tier /\ n \in Ids /\ n # source
        BY <2>6
      <4>3. CASE n = target
        BY <1>3, <2>1, <2>3, <4>1, <4>3
      <4>4. CASE n # target
        BY <2>1, <2>3, <2>6, <4>1, <4>2, <4>4
      <4> QED
        BY <4>3, <4>4
    <3> QED
      BY <3>1, <3>2, <3>3 DEF NamesLive
  <2>10. /\ Born' = Born /\ Departed' = Departed
         /\ \A s \in Slots : Occupant(s)' = Occupant(s)
    <3>1. \A b \in Births : b[1] \in Slots
      BY DEF Births
    <3> QED
      BY <1>6, <3>1 DEF Born, Departed, Occupant
  <2>11. Leaves(source, {})
    BY <1>2, <1>3, <1>6, <2>1, <2>10, Apart DEF Leaves, Regions
  <2>12. BundlesOK' /\ FatesOK' /\ KeysAt'
    <3>1. PICK D \in SUBSET {} : D = {}
      OBVIOUS
    <3>2. \A v \in kept : v.home \in {} => v.home \in D
      OBVIOUS
    <3>3. /\ fate' = [b \in Births |-> IF b \in Lineage(source) \cup D THEN target ELSE fate[b]]
          /\ \A b \in Births : b \notin Lineage(source) \cup D => first'[b] = first[b]
          /\ bundle' = Splice(source, target)
      BY <2>1, <3>1 DEF Forward
    <3>4. \A t \in Slots : t # source => DOMAIN reaches[t] \subseteq DOMAIN reaches'[t]
      BY <1>6
    <3>5. target \in Ids /\ target # source /\ target \in tier'
      BY <1>3, <2>1
    <3> QED
      BY <2>11, <3>2, <3>3, <3>4, <3>5, BytesSeal
  <2>13. SerialsOK'
    BY <1>6, <2>1, <2>10 DEF IInv, SerialsOK
  <2>14. \A i \in Ids : drops'[i] > 0 => i \in aggIds[source] /\ i \in aggIds[target] /\ i # source
    BY <2>4 DEF One
  <2>15. DisposalOK'
    BY <1>3, <1>6, <2>1, <2>6, <2>14 DEF DisposalOK
  <2>16. TargetOK'
    <3>1. merging' \subseteq aggIds'[target] /\ target \in tier'
      BY <1>3, <2>1, <2>3
    <3>2. \A i \in Ids : drops'[i] > 0 => i \in aggIds'[target]
      BY <2>3, <2>14
    <3>3. ASSUME NEW i \in aggIds'[target] \ merging' PROVE holders'[i] > drops'[i] + 1
      <4>1. /\ i \in aggIds[target] \ {source} /\ i \notin merging
            /\ i \notin aggIds[source] \ {target}
        BY <2>1, <2>3, <3>3
      <4>2. i # target /\ i \in Ids /\ drops[i] = 0 /\ holders[i] > drops[i] + 1
        BY <1>2, <1>3, <4>1
      <4>3. drops'[i] = 0 /\ holders'[i] = holders[i]
        BY <2>3, <2>4, <4>1, <4>2 DEF One
      <4> QED
        BY <4>2, <4>3
    <3> QED
      BY <1>6, <3>1, <3>2, <3>3 DEF TargetOK
  <2>17. Kinds'
    <3>1. fate' \in [Births -> Regions \cup {Nowhere}] /\ first' \in [Births -> Nat]
      BY <1>2, <1>3, <2>1 DEF TypeOK, Forward, Regions
    <3>2. bundle' \in [Regions -> SUBSET Births]
      BY <1>2, <1>3, <2>1, Apart DEF TypeOK, Splice, Regions
    <3>3. /\ naming' \in [Slots -> SUBSET Ids] /\ aggSlots' \in [Ids -> SUBSET Slots]
          /\ aggIds' \in [Ids -> SUBSET Ids] /\ tier' \subseteq Ids
      BY <1>2, <1>3, <2>1, <2>2 DEF TypeOK
    <3>4. holders' \in [Ids -> Nat]
      <4>1. holders[target] - One(target \in aggIds[source]) \in Nat
        BY <1>1, <1>2, <1>3 DEF TypeOK, One
      <4> QED
        BY <1>2, <1>3, <2>2, <4>1 DEF TypeOK
    <3>5. merging' \subseteq Ids
      BY <1>2, <2>1 DEF TypeOK
    <3> QED
      BY <1>2, <1>6, <2>4, <3>1, <3>2, <3>3, <3>4, <3>5 DEF IInv, Kinds, TypeOK
  <2>18. MasksCovered'
    BY <1>6 DEF IInv, MovesWhole, MasksCovered
  <2>19. MovesWhole'
    BY <2>12, <2>17, <2>18, KeysAreNext DEF MovesWhole, Kinds
  <2> QED
    BY <2>8, <2>9, <2>12, <2>13, <2>15, <2>16, <2>17, <2>19 DEF IInv
<1> QED
  BY <1>7, <1>8

\* The worklist is empty.
LEMMA FlatIInv ==
    ASSUME IInv, Flat
    PROVE  IInv'
<1>1. /\ target' = NoId
      /\ UNCHANGED <<cells, matrix, keys, sealed, holders, bundle, dying, merging, drops, carried>>
  BY DEF Flat
<1>2. TypeOK /\ Names /\ DisposalOK /\ tier \subseteq Ids
  BY DEF IInv, Kinds, Names, TypeOK
<1>3. /\ UNCHANGED <<life, gen, refused, below, kept, reads, tier, aggIds>>
      /\ \A s \in Slots : Occupied(s)' <=> Occupied(s)
  BY <1>1 DEF cells, carried, sealed, Occupied
<1>4. /\ SerialsOK' /\ NamesLive' /\ BundlesOK' /\ FatesOK' /\ MovesWhole'
      /\ \A s \in Slots : /\ tally'[s] = Cardinality(Holding(s)')
                          /\ naming'[s] = {n \in tier' : s \in aggSlots'[n]}
      /\ \A i \in Ids : HeldBy(i)' = HeldBy(i) /\ NamedBy(i)' = NamedBy(i)
  BY <1>1, <1>3, StillState
<1>5. CountsExact'
  <2>1. \A i \in tier :
          holders[i] = Cardinality(HeldBy(i)) + Cardinality(NamedBy(i)) + drops[i]
    BY <1>2, CountsAre DEF Names
  <2>2. \A i \in tier' :
          holders'[i] = Cardinality(HeldBy(i)') + Cardinality(NamedBy(i)') + drops'[i]
    BY <1>1, <1>2, <1>3, <1>4, <2>1
  <2> QED
    BY <1>4, <2>2 DEF CountsExact, HeldBy, NamedBy
<1>6. DisposalOK' /\ TargetOK'
  BY <1>1, <1>2, <1>3 DEF DisposalOK, TargetOK, Settled
<1>7. Kinds'
  BY <1>1, <1>2, <1>3 DEF IInv, Kinds, TypeOK, matrix, keys, sealed
<1> QED
  BY <1>4, <1>5, <1>6, <1>7 DEF IInv

-----------------------------------------------------------------------------
\* The specification.

\* Every slot is free, and nothing was ever born.
LEMMA InitIInv == Init => IInv
<1> SUFFICES ASSUME Init PROVE IInv
  OBVIOUS
<1> USE DEF Init
<1>1. Kinds
  <2>1. /\ Nowhere \in Regions \cup {Nowhere} /\ 0 \in 0 .. MaxBirths /\ 0 \in 0 .. MaxBelow
        /\ "free" \in {"free", "live", "dead"} /\ <<>> \in Seq(Masks)
    BY SlabAssumption
  <2>2. /\ life \in [Slots -> {"free", "live", "dead"}] /\ gen \in [Slots -> 0 .. MaxBirths]
        /\ refused \in [Slots -> BOOLEAN] /\ below \in [Slots -> 0 .. MaxBelow]
        /\ pins \in [Slots -> SUBSET Slots] /\ tally \in [Slots -> Nat]
        /\ held \in [Slots -> SUBSET Ids] /\ naming \in [Slots -> SUBSET Ids]
    BY <2>1
  <2>3. /\ fate \in [Births -> Regions \cup {Nowhere}] /\ first \in [Births -> Nat]
        /\ tier \subseteq Ids /\ serial \in 0 .. MaxBirths
        /\ aggSlots \in [Ids -> SUBSET Slots] /\ aggIds \in [Ids -> SUBSET Ids]
        /\ holders \in [Ids -> Nat] /\ bundle \in [Regions -> SUBSET Births]
        /\ dying \in Slots \cup {NoSlot} /\ target \in Ids \cup {NoId}
        /\ merging \subseteq Ids /\ drops \in [Ids -> Nat]
        /\ kept \subseteq Carriers /\ reads \subseteq Births \X Births
    BY <2>1
  <2>4. /\ reaches \in [Slots -> Seq(Masks)]
        /\ \A s \in Slots : \A k \in DOMAIN reaches[s] : reaches[s][k] \in Masks
    BY <2>1
  <2> QED
    BY <2>2, <2>3, <2>4 DEF Kinds, TypeOK
<1>2. \A s \in Slots : ~Occupied(s) /\ Holding(s) = {}
  BY DEF Occupied, Holding
<1>3. Born = {}
  <2>1. \A b \in Births : b[1] \in Slots /\ b[2] \in Nat
    BY SlabAssumption DEF Births
  <2> QED
    BY <1>2, <2>1 DEF Born
<1>4. SerialsOK
  <2>1. Cardinality(Born) = 0 /\ Cardinality(Departed) \in Nat /\ MaxBirths \in Nat
    BY <1>3, Apart, BirthsFinite, FS_EmptySet
  <2> QED
    BY <2>1 DEF SerialsOK
<1>5. CountsExact /\ NamesLive
  <2>1. \A s \in Slots : tally[s] = Cardinality(Holding(s))
    BY <1>2, FS_EmptySet
  <2> QED
    BY <2>1 DEF CountsExact, NamesLive
<1>6. DisposalOK /\ TargetOK
  BY DEF DisposalOK, TargetOK
<1>7. BundlesOK /\ FatesOK
  BY <1>2 DEF BundlesOK, FatesOK, Regions
<1>8. MovesWhole
  BY DEF MovesWhole, MasksCovered, KeysFollowBytes
<1> QED
  BY <1>1, <1>4, <1>5, <1>6, <1>7, <1>8 DEF IInv

\* Where nothing happens, nothing changes.
LEMMA StutterIInv == IInv /\ UNCHANGED vars => IInv'
<1> SUFFICES ASSUME IInv, UNCHANGED vars PROVE IInv'
  OBVIOUS
<1>1. /\ UNCHANGED <<life, gen, refused, below, matrix, keys, sealed, holders, bundle>>
      /\ UNCHANGED <<dying, target, merging, drops, kept, reads>>
  BY DEF vars, cells, cascade, carried
<1>2. \A s \in Slots : Occupied(s)' <=> Occupied(s)
  BY <1>1 DEF Occupied
<1>3. SerialsOK' /\ Names' /\ TargetOK' /\ BundlesOK' /\ FatesOK' /\ MovesWhole'
  BY <1>1, <1>2, StillCells
<1>4. DisposalOK'
  BY <1>1 DEF IInv, DisposalOK, Settled, sealed
<1>5. Kinds'
  BY <1>1 DEF IInv, Kinds, TypeOK, matrix, keys, sealed
<1> QED
  BY <1>3, <1>4, <1>5 DEF IInv, Names

\* Every verb, every disposal and every step of a cascade keeps it.
LEMMA NextIInv == IInv /\ [Next]_vars => IInv'
<1> SUFFICES ASSUME IInv, [Next]_vars PROVE IInv'
  OBVIOUS
<1>1. CASE UNCHANGED vars
  BY <1>1, StutterIInv
<1>2. ASSUME NEW s \in Slots, Create(s) \/ Rest(s) \/ Attach(s) \/ Detach(s) \/ Release(s)
      PROVE  IInv'
  BY <1>2, CreateIInv, RestIInv, AttachIInv, DetachIInv, ReleaseIInv
<1>3. ASSUME NEW e \in Slots, NEW s \in Slots, Hold(e, s) \/ AllocInto(e, s)
      PROVE  IInv'
  BY <1>3, HoldIInv, AllocIntoIInv
<1>4. ASSUME NEW s \in Slots, Dispose(s)
      PROVE  IInv'
  BY <1>4, ReclaimIInv, AbsorbIntoCellIInv, FoldIntoNamerIInv, SealIInv DEF Dispose
<1>5. ASSUME NEW id \in Ids, ReleaseSealedHold(id) \/ AbsorbSingleton(id)
      PROVE  IInv'
  BY <1>5, ReleaseSealedHoldIInv, AbsorbSingletonIInv
<1>6. CASE ReclaimUnheld \/ Flat
  BY <1>6, ReclaimUnheldIInv, FlatIInv
<1> QED
  BY <1>1, <1>2, <1>3, <1>4, <1>5, <1>6 DEF Next, Cascade

\* The invariant holds of every reachable state of the slab and its sealed tier.
LEMMA SlabInv == Spec => []IInv
<1>1. Init => IInv
  BY InitIInv
<1>2. IInv /\ [Next]_vars => IInv'
  BY NextIInv
<1> QED
  BY <1>1, <1>2, PTL DEF Spec

\* Every variable keeps its kind, for any slots and any number of births: generations and
\* serials stay within what was born.
THEOREM TypeCorrect == Spec => []TypeOK
<1>1. IInv => TypeOK
  BY DEF IInv, Kinds
<1> QED
  BY <1>1, SlabInv, PTL

\* A hold to be released of what a target names is one of several.
LEMMA DuplicatesCounted == IInv => DuplicatesSurvive
<1> SUFFICES ASSUME IInv, target # NoId
             PROVE  target \in tier /\ \A i \in Ids : drops[i] > 0 => drops[i] < holders[i]
  BY DEF DuplicatesSurvive
<1>1. TypeOK /\ CountsExact /\ DisposalOK /\ TargetOK
  BY DEF IInv, Kinds
<1>2. target \in tier
  BY <1>1 DEF TargetOK
<1>3. ASSUME NEW i \in Ids, drops[i] > 0 PROVE drops[i] < holders[i]
  <2>1. i \in tier /\ i \in aggIds[target]
    BY <1>1, <1>3 DEF DisposalOK, TargetOK
  <2>2. /\ holders[i] = Cardinality(HeldBy(i)) + Cardinality(NamedBy(i)) + drops[i]
        /\ Cardinality(HeldBy(i)) \in Nat /\ Cardinality(NamedBy(i)) \in Nat /\ drops[i] \in Nat
    BY <1>1, <2>1, CountsAre, Sizes DEF TypeOK
  <2>3. NamedBy(i) # {} /\ IsFiniteSet(NamedBy(i))
    <3>1. NamedBy(i) \subseteq Ids
      BY <1>1 DEF NamedBy, TypeOK
    <3> QED
      BY <1>2, <2>1, <3>1, Apart, FS_Subset DEF NamedBy
  <2>4. Cardinality(NamedBy(i)) # 0
    BY <2>3, FS_EmptySet
  <2> QED
    BY <2>2, <2>4
<1> QED
  BY <1>2, <1>3

\* `NamesCounted`: the pin tally, every sealed region's count and the reverse naming index are
\* the sets they stand for in every step of every disposal and cascade, no bit or id names what
\* has gone, and the hold a fold finds twice is never the last.
THEOREM NamesHold == Spec => []NamesCounted
<1>1. IInv => NamesCounted
  BY DuplicatesCounted DEF IInv, NamesCounted
<1> QED
  BY <1>1, SlabInv, PTL

\* `MovesWhole`: however many cells a value's storage is absorbed into, sealed or folded under,
\* the masks at rest are covered by the holds they rest in, and a key leads to where its home's
\* bytes are now and to an entry of the table they landed with, or nowhere once they are gone.
THEOREM MovesHold == Spec => []MovesWhole
<1>1. IInv => MovesWhole
  BY DEF IInv
<1> QED
  BY <1>1, SlabInv, PTL

\* `Flattened`: when the worklist of a region that takes others in is empty, it holds no region
\* alone, whatever the folds on the way brought in or gave back.
THEOREM FlatHolds == Spec => Flattened
<1>1. IInv /\ [Next]_vars => [Flat => \A i \in aggIds[target] : holders[i] > 1]_vars
  <2> SUFFICES ASSUME IInv, Flat, NEW i \in aggIds[target]
               PROVE  holders[i] > 1
    OBVIOUS
  <2>1. TypeOK /\ TargetOK /\ target # NoId /\ merging = {} /\ Settled
    BY DEF IInv, Kinds, Flat
  <2>2. target \in Ids /\ i \in Ids
    BY <2>1 DEF TypeOK
  <2>3. holders[i] > drops[i] + 1 /\ drops[i] = 0
    BY <2>1, <2>2 DEF TargetOK, Settled
  <2> QED
    BY <2>3
<1> QED
  BY <1>1, SlabInv, PTL DEF Spec, Flattened

-----------------------------------------------------------------------------
(* Retention.  What the slab and its sealed tier keep, proved from the        *)
(* invariant above: no storage goes that can be read, and what is kept for    *)
(* nothing is kept by a ring.                                                 *)
(*                                                                            *)
(* The idea is Keeping: a set of regions keeps some bytes when they lie in    *)
(* every set of regions that includes it and is closed under the holds of the *)
(* sealed regions.  RInv says that a region's own holds keep what its values  *)
(* read, and the reach of a carrier what its value reads.  A disposal changes *)
(* holds, masks, keys and bytes at once; the closed sets of the state after   *)
(* are those of the state before with the region that moved traded for the    *)
(* one it moved to, so what was kept is (KeepingMoves, AllMoves).             *)

\* What a region's own values may name: the region, and what is held on its behalf.
Under(r) == {r} \cup (IF r \in Slots THEN pins[r] \cup held[r]
                      ELSE IF r \in tier THEN aggSlots[r] \cup aggIds[r] ELSE {})

\* Regions closed under what the sealed ones among them hold.
Closed(K) == \A i \in K \cap Ids : Under(i) \subseteq K

\* Whatever holds on to the regions `S`, and to all that these hold, keeps the bytes of `c`.
Keeping(S, c) ==
    \A K \in SUBSET Regions : S \subseteq K /\ Closed(K) => \E r \in K : c \in bundle[r]

\* The regions a mask names.
Named(mask) == mask.slab \cup mask.ids

\* What a region's values read, the region keeps.
ReadKept(e) ==
    /\ \E r \in Regions : e[1] \in bundle[r]
    /\ \A r \in Regions : e[1] \in bundle[r] => Keeping(Under(r), e[2])

\* What a carrier's value reads, the reach that a redeem hands back with it keeps.
ValueKept(v) ==
    Locate(v.home) # Nowhere => \A c \in v.over : Keeping(Named(RedeemedReach(v)), c)

\* A mask that names a slot names its own.
HomesNamed ==
    \A s \in Slots : \A k \in DOMAIN reaches[s] :
        reaches[s][k].slab # {} => s \in reaches[s][k].slab

\* A sealed region is held, but for one that a fold has just taken in.
HeldOn == \A i \in tier : i # target => holders[i] > 0

\* The invariant.
RInv ==
    /\ IInv /\ HomesNamed /\ HeldOn
    /\ \A e \in reads : ReadKept(e)
    /\ \A v \in kept : ValueKept(v)

-----------------------------------------------------------------------------
\* Of what is kept, from one state to the next.

\* `under` names what is under a region; a region goes and another takes its place.
Follows(S, T, r, p) == S \ {r} \subseteq T /\ (r \in S => p \in T)

\* The regions are the slots and the ids.
LEMMA RegionKinds ==
    /\ \A r \in Regions : r \in Slots <=> r \notin Ids
    /\ Slots \subseteq Regions /\ Ids \subseteq Regions /\ Nowhere \notin Regions
BY Apart DEF Regions

\* What is under a region are regions.
LEMMA UnderRegions ==
    ASSUME TypeOK, NEW r \in Regions
    PROVE  Under(r) \in SUBSET Regions /\ r \in Under(r)
BY DEF TypeOK, Under, Regions

\* More regions keep what some keep.
LEMMA KeepingMore ==
    ASSUME NEW S, NEW T, NEW c, S \subseteq T, Keeping(S, c)
    PROVE  Keeping(T, c)
BY DEF Keeping

\* What is kept under a sealed region is kept by it.
LEMMA KeepingById ==
    \A i \in Ids : \A c \in Births : Keeping(Under(i), c) => Keeping({i}, c)
<1> SUFFICES ASSUME NEW i \in Ids, NEW c \in Births, Keeping(Under(i), c) PROVE Keeping({i}, c)
  OBVIOUS
<1>1. \A K \in SUBSET Regions : {i} \subseteq K /\ Closed(K) => Under(i) \subseteq K
  BY DEF Closed
<1> QED
  BY <1>1 DEF Keeping

\* And in the next state.
LEMMA KeepingByIdNext ==
    (\A i \in Ids : \A c \in Births : Keeping(Under(i), c) => Keeping({i}, c))'
BY KeepingById, PTL

\* Holds and bytes only come: what was kept is.
LEMMA KeepingStays ==
    ASSUME \A i \in Ids : Under(i) \subseteq Under(i)',
           \A r \in Regions : bundle[r] \subseteq bundle'[r],
           NEW S, NEW T, S \subseteq T, NEW c, Keeping(S, c)
    PROVE  Keeping(T, c)'
<1> SUFFICES ASSUME NEW K \in SUBSET Regions, T \subseteq K, Closed(K)'
             PROVE  \E r \in K : c \in bundle'[r]
  BY DEF Keeping
<1>1. Closed(K)
  BY DEF Closed
<1> QED
  BY <1>1 DEF Keeping

\* A region's bytes move to another, and every name of it with them: what was kept is.
LEMMA KeepingMoves ==
    ASSUME NEW r \in Regions, NEW p \in Regions, p # r, r \in Ids => p \in Ids,
           \A q \in Regions \ {r} : Follows(Under(q), Under(q)', r, p),
           Under(r) \ {r} \subseteq Under(p)',
           bundle \in [Regions -> SUBSET Births], bundle' = Splice(r, p),
           NEW S, NEW T, Follows(S, T, r, p), NEW c, Keeping(S, c)
    PROVE  Keeping(T, c)'
<1> SUFFICES ASSUME NEW K \in SUBSET Regions, T \subseteq K, Closed(K)'
             PROVE  \E q \in K : c \in bundle'[q]
  BY DEF Keeping
<1> DEFINE B == (K \ {r}) \cup (IF p \in K THEN {r} ELSE {})
<1>1. B \in SUBSET Regions /\ S \subseteq B
  BY DEF Follows
<1>2. Closed(B)
  <2> SUFFICES ASSUME NEW i \in B, i \in Ids PROVE Under(i) \subseteq B
    BY DEF Closed
  <2>1. CASE i = r
    <3>1. p \in K /\ Under(p)' \subseteq K
      BY <2>1 DEF Closed
    <3> QED
      BY <2>1, <3>1
  <2>2. CASE i # r
    <3>1. i \in K /\ Under(i)' \subseteq K
      BY <2>2 DEF Closed
    <3>2. Follows(Under(i), Under(i)', r, p)
      BY <2>2, RegionKinds
    <3> QED
      BY <3>1, <3>2 DEF Follows
  <2> QED
    BY <2>1, <2>2
<1>3. PICK q \in B : c \in bundle[q]
  BY <1>1, <1>2 DEF Keeping
<1>4. /\ bundle'[p] = bundle[p] \cup bundle[r]
      /\ \A t \in Regions : t # p /\ t # r => bundle'[t] = bundle[t]
  BY DEF Splice
<1> QED
  BY <1>1, <1>3, <1>4

\* A region that nothing names goes, with its bytes: what others kept is.
LEMMA KeepingGoes ==
    ASSUME NEW r \in Regions,
           \A q \in Regions \ {r} : Under(q) \subseteq Under(q)' /\ r \notin Under(q),
           bundle \in [Regions -> SUBSET Births], bundle' = [bundle EXCEPT ![r] = {}],
           NEW S, NEW T, S \subseteq T, r \notin S, NEW c, Keeping(S, c)
    PROVE  Keeping(T, c)'
<1> SUFFICES ASSUME NEW K \in SUBSET Regions, T \subseteq K, Closed(K)'
             PROVE  \E q \in K : c \in bundle'[q]
  BY DEF Keeping
<1>1. Closed(K \ {r})
  <2> SUFFICES ASSUME NEW i \in K, i # r, i \in Ids PROVE Under(i) \subseteq K \ {r}
    BY DEF Closed
  <2>1. Under(i)' \subseteq K
    BY DEF Closed
  <2> QED
    BY <2>1, RegionKinds
<1>2. PICK q \in K \ {r} : c \in bundle[q]
  BY <1>1 DEF Keeping
<1> QED
  BY <1>2

-----------------------------------------------------------------------------
\* Where keys lead, and the reach that is handed back there.

\* A key leads to its own slot until its cell leaves, and from then where it is forwarded.
LEMMA LeadsTo ==
    TypeOK => \A h \in Born :
        /\ Locate(h) = IF h \in Departed THEN fate[h] ELSE h[1]
        /\ FirstIndex(h) = IF h \in Departed THEN first[h] ELSE 0
<1> SUFFICES ASSUME TypeOK, NEW h \in Born
             PROVE  /\ Locate(h) = IF h \in Departed THEN fate[h] ELSE h[1]
                    /\ FirstIndex(h) = IF h \in Departed THEN first[h] ELSE 0
  OBVIOUS
<1>1. h \in Births /\ h[1] \in Slots /\ h[2] \in Nat /\ gen[h[1]] \in Nat
  BY SlabAssumption DEF Born, Births, TypeOK
<1>2. CASE h \in Departed
  <2>1. gen[h[1]] # h[2]
    BY <1>1, <1>2 DEF Departed
  <2> QED
    BY <1>2, <2>1 DEF Locate, FirstIndex
<1>3. CASE h \notin Departed
  <2>1. gen[h[1]] = h[2] /\ Occupied(h[1])
    BY <1>1, <1>3 DEF Departed, Born
  <2> QED
    BY <1>3, <2>1 DEF Locate, FirstIndex
<1> QED
  BY <1>2, <1>3

\* And in the next state.
LEMMA LeadsToNext ==
    (TypeOK => \A h \in Born :
        /\ Locate(h) = IF h \in Departed THEN fate[h] ELSE h[1]
        /\ FirstIndex(h) = IF h \in Departed THEN first[h] ELSE 0)'
BY LeadsTo, PTL

\* A key that led to `r` leads to `p`, its entries so much further on; another as it did.
Led(h, r, p, off) ==
    IF Locate(h) = r
    THEN Locate(h)' = p /\ (p \in Slots => FirstIndex(h)' = off + FirstIndex(h))
    ELSE Locate(h)' = Locate(h) /\ FirstIndex(h)' = FirstIndex(h)

\* A region is left for another, or for nowhere: the keys that led there are led on, the others
\* are as they were.
LEMMA KeysGo ==
    ASSUME IInv, TypeOK', NEW r, NEW gone, Leaves(r, gone), NEW p, NEW off \in Nat,
           NEW D \in SUBSET gone, p # Nowhere => \A v \in kept : v.home \in gone => v.home \in D,
           fate' = [b \in Births |-> IF b \in Lineage(r) \cup D THEN p ELSE fate[b]],
           \A b \in Births : b \notin Lineage(r) \cup D => first'[b] = first[b],
           p \in Slots => /\ \A b \in Lineage(r) : first'[b] = off + first[b]
                          /\ \A b \in D : first'[b] = off,
           NEW v \in kept
    PROVE  Led(v.home, r, p, off)
<1> DEFINE h == v.home
<1>0. /\ TypeOK /\ r \in Regions /\ gone \subseteq Births \ Departed
      /\ \A b \in gone : fate[b] = Nowhere
      /\ h \in Born /\ h \in Births
      /\ h \notin Departed => h[1] \in Slots /\ (h[1] = r => h \in gone)
  BY LeavesFacts DEF IInv, Kinds
<1>1. Born' = Born /\ Departed' = Departed \cup gone
  BY DEF Leaves
<1>2. /\ Locate(h) = IF h \in Departed THEN fate[h] ELSE h[1]
      /\ FirstIndex(h) = IF h \in Departed THEN first[h] ELSE 0
  BY <1>0, LeadsTo
<1>3. /\ Locate(h)' = IF h \in Departed' THEN fate'[h] ELSE h[1]
      /\ FirstIndex(h)' = IF h \in Departed' THEN first'[h] ELSE 0
  BY <1>0, <1>1, LeadsToNext
<1>4. h \in gone => h \in D \/ p = Nowhere
  OBVIOUS
<1>5. first[h] \in Nat /\ (h \in Lineage(r) <=> fate[h] = r)
  BY <1>0 DEF TypeOK, Lineage
<1> HIDE DEF h
<1>6. CASE h \in Departed /\ fate[h] = r
  BY <1>0, <1>1, <1>2, <1>3, <1>5, <1>6 DEF h, Led
<1>7. CASE h \in Departed /\ fate[h] # r
  BY <1>0, <1>1, <1>2, <1>3, <1>5, <1>7 DEF h, Led
<1>8. CASE h \notin Departed /\ h \notin gone
  BY <1>0, <1>1, <1>2, <1>3, <1>8 DEF h, Led
<1>9. CASE h \in gone
  <2>1. h \notin Departed /\ h \in Departed' /\ fate[h] = Nowhere /\ fate[h] # r
    BY <1>0, <1>1, <1>9, Apart
  <2>2. h[1] = r
    BY <1>9 DEF Leaves, Regions, Occupant
  <2>3. CASE h \in D
    BY <1>0, <1>2, <1>3, <2>1, <2>2, <2>3 DEF h, Led
  <2>4. CASE h \notin D
    BY <1>0, <1>2, <1>3, <1>4, <1>5, <2>1, <2>2, <2>4, Apart DEF h, Led
  <2> QED
    BY <2>3, <2>4
<1> QED
  BY <1>6, <1>7, <1>8, <1>9

\* What is under a region are regions, in the next state.
LEMMA UnderNext == (TypeOK => \A r \in Regions : Under(r) \in SUBSET Regions)'
<1>1. TypeOK => \A r \in Regions : Under(r) \in SUBSET Regions
  BY UnderRegions
<1> QED
  BY <1>1, PTL

\* The reach handed back is at rest in a table, or names a sealed region; it is kept within what
\* is under its place.
LEMMA ReachIs ==
    ASSUME IInv, NEW v \in kept, Locate(v.home) # Nowhere
    PROVE  /\ Locate(v.home) \in Regions /\ v.index \in Nat /\ v.over \in SUBSET Births
           /\ Locate(v.home) \in Slots =>
                /\ FirstIndex(v.home) + v.index \in DOMAIN reaches[Locate(v.home)]
                /\ RedeemedReach(v) = reaches[Locate(v.home)][FirstIndex(v.home) + v.index]
           /\ Locate(v.home) \in Ids =>
                /\ RedeemedReach(v) = [slab |-> {}, ids |-> {Locate(v.home)}]
                /\ Named(RedeemedReach(v)) = {Locate(v.home)}
           /\ Named(RedeemedReach(v)) \subseteq Under(Locate(v.home))
<1>1. TypeOK /\ KeysFollowBytes /\ MasksCovered
  BY DEF IInv, Kinds, MovesWhole
<1>2. v.home \in Births /\ v.index \in Nat /\ v.over \in SUBSET Births
  BY <1>1 DEF TypeOK, Carriers
<1>3. Locate(v.home) \in Regions
  BY <1>2, PlaceThere
<1>4. ASSUME Locate(v.home) \in Slots
      PROVE  /\ FirstIndex(v.home) + v.index \in DOMAIN reaches[Locate(v.home)]
             /\ RedeemedReach(v) = reaches[Locate(v.home)][FirstIndex(v.home) + v.index]
             /\ Named(RedeemedReach(v)) \subseteq Under(Locate(v.home))
  <2>1. FirstIndex(v.home) + v.index \in DOMAIN reaches[Locate(v.home)]
    BY <1>1, <1>4 DEF KeysFollowBytes
  <2>2. RedeemedReach(v) = reaches[Locate(v.home)][FirstIndex(v.home) + v.index]
    BY <1>4 DEF RedeemedReach
  <2> QED
    BY <1>1, <1>4, <2>1, <2>2 DEF MasksCovered, Named, Under
<1>5. ASSUME Locate(v.home) \in Ids
      PROVE  /\ RedeemedReach(v) = [slab |-> {}, ids |-> {Locate(v.home)}]
             /\ Named(RedeemedReach(v)) = {Locate(v.home)}
  <2>1. Locate(v.home) \notin Slots
    BY <1>5, Apart
  <2> QED
    BY <2>1 DEF RedeemedReach, Named
<1> QED
  BY <1>2, <1>3, <1>4, <1>5, RegionKinds DEF Under

\* Holds and bytes only come, and keys lead where they led: all is kept that was.
LEMMA AllStays ==
    ASSUME RInv, \A r \in Regions : Under(r) \subseteq Under(r)',
           \A r \in Regions : bundle[r] \subseteq bundle'[r],
           \A r \in Regions : \A e \in reads : e[1] \in bundle'[r] => e[1] \in bundle[r],
           \A v \in kept : /\ Locate(v.home)' = Locate(v.home)
                           /\ FirstIndex(v.home)' = FirstIndex(v.home),
           \A s \in Slots : \A k \in DOMAIN reaches[s] : reaches'[s][k] = reaches[s][k]
    PROVE  (\A e \in reads : ReadKept(e)') /\ (\A v \in kept : ValueKept(v)')
<1>1. \A i \in Ids : Under(i) \subseteq Under(i)'
  BY RegionKinds
<1>2. ASSUME NEW e \in reads PROVE ReadKept(e)'
  <2>1. ReadKept(e)
    BY DEF RInv
  <2>2. \E r \in Regions : e[1] \in bundle'[r]
    BY <2>1 DEF ReadKept
  <2>3. ASSUME NEW r \in Regions, e[1] \in bundle'[r] PROVE Keeping(Under(r), e[2])'
    <3>1. Keeping(Under(r), e[2]) /\ Under(r) \subseteq Under(r)'
      BY <2>1, <2>3 DEF ReadKept
    <3> QED
      BY <1>1, <3>1, KeepingStays
  <2> QED
    BY <2>2, <2>3 DEF ReadKept
<1>3. ASSUME NEW v \in kept PROVE ValueKept(v)'
  <2> SUFFICES ASSUME Locate(v.home)' # Nowhere, NEW c \in v.over
               PROVE  Keeping(Named(RedeemedReach(v)), c)'
    BY DEF ValueKept
  <2>1. Locate(v.home) # Nowhere /\ Keeping(Named(RedeemedReach(v)), c)
    BY DEF RInv, ValueKept
  <2>2. RedeemedReach(v)' = RedeemedReach(v)
    BY <2>1, ReachIs DEF RedeemedReach, RInv
  <2>3. Named(RedeemedReach(v))' = Named(RedeemedReach(v))
    BY <2>2 DEF Named
  <2> QED
    BY <1>1, <2>1, <2>3, KeepingStays
<1> QED
  BY <1>2, <1>3

\* The region `r` is left by the cells `gone`: its bytes, its names and its keys, with those of
\* `D`, move to `p`, its table to the entries of `p` after the first `off`.
Moved(r, p, gone, off, D) ==
    /\ Leaves(r, gone) /\ bundle' = Splice(r, p)
    /\ \A q \in Regions \ {r} : Follows(Under(q), Under(q)', r, p)
    /\ Under(r) \ {r} \subseteq Under(p)'
    /\ \A v \in kept : v.home \in gone => v.home \in D
    /\ fate' = [b \in Births |-> IF b \in Lineage(r) \cup D THEN p ELSE fate[b]]
    /\ \A b \in Births : b \notin Lineage(r) \cup D => first'[b] = first[b]
    /\ p \in Slots => /\ \A b \in Lineage(r) : first'[b] = off + first[b]
                      /\ \A b \in D : first'[b] = off
                      /\ \A k \in DOMAIN reaches[r] :
                            Follows(Named(reaches[r][k]), Named(reaches'[p][off + k]), r, p)
    /\ \A t \in Slots \ {r} : \A k \in DOMAIN reaches[t] :
            Follows(Named(reaches[t][k]), Named(reaches'[t][k]), r, p)

\* A region's bytes, names and keys move to another: all is kept that was.
LEMMA AllMoves ==
    ASSUME RInv, IInv', NEW r \in Regions, NEW p \in Regions, p # r, r \in Ids => p \in Ids,
           NEW gone, NEW off \in Nat, NEW D \in SUBSET gone, Moved(r, p, gone, off, D)
    PROVE  (\A e \in reads : ReadKept(e)') /\ (\A v \in kept : ValueKept(v)')
<1>0. /\ IInv /\ bundle \in [Regions -> SUBSET Births] /\ reads \subseteq Births \X Births
      /\ TypeOK'
  BY DEF RInv, IInv, Kinds, TypeOK
<1>a. /\ bundle' = Splice(r, p) /\ Under(r) \ {r} \subseteq Under(p)'
      /\ \A q \in Regions \ {r} : Follows(Under(q), Under(q)', r, p)
  BY DEF Moved
<1>b. \A t \in Slots \ {r} : \A k \in DOMAIN reaches[t] :
         Follows(Named(reaches[t][k]), Named(reaches'[t][k]), r, p)
  BY DEF Moved
<1>1. ASSUME NEW S, NEW T, Follows(S, T, r, p), NEW c, Keeping(S, c)
      PROVE  Keeping(T, c)'
  BY <1>0, <1>1, <1>a, KeepingMoves
<1>2. Follows(Under(r), Under(p)', r, p)
  BY <1>a DEF Follows, Under
<1>3. /\ bundle'[p] = bundle[p] \cup bundle[r] /\ bundle'[r] = {}
      /\ \A t \in Regions : t # p /\ t # r => bundle'[t] = bundle[t]
  BY <1>0, <1>a DEF Splice
<1>4. ASSUME NEW e \in reads PROVE ReadKept(e)'
  <2>1. ReadKept(e)
    BY DEF RInv
  <2>2. \E q \in Regions : e[1] \in bundle'[q]
    BY <1>3, <2>1 DEF ReadKept
  <2>3. ASSUME NEW q \in Regions, e[1] \in bundle'[q] PROVE Keeping(Under(q), e[2])'
    <3>1. q # r
      BY <1>3, <2>3
    <3>2. CASE e[1] \in bundle[q]
      <4>1. Keeping(Under(q), e[2]) /\ Follows(Under(q), Under(q)', r, p)
        BY <1>a, <2>1, <3>1, <3>2 DEF ReadKept
      <4> QED
        BY <1>1, <4>1
    <3>3. CASE e[1] \notin bundle[q]
      <4>1. q = p /\ e[1] \in bundle[r]
        BY <1>3, <2>3, <3>1, <3>3
      <4>2. Keeping(Under(r), e[2])
        BY <2>1, <4>1 DEF ReadKept
      <4> QED
        BY <1>1, <1>2, <4>1, <4>2
    <3> QED
      BY <3>2, <3>3
  <2> QED
    BY <2>2, <2>3 DEF ReadKept
<1>5. ASSUME NEW v \in kept PROVE ValueKept(v)'
  <2> SUFFICES ASSUME Locate(v.home)' # Nowhere, NEW c \in v.over
               PROVE  Keeping(Named(RedeemedReach(v)), c)'
    BY DEF ValueKept
  <2>1. IF Locate(v.home) = r
        THEN Locate(v.home)' = p /\ (p \in Slots => FirstIndex(v.home)' = off + FirstIndex(v.home))
        ELSE Locate(v.home)' = Locate(v.home) /\ FirstIndex(v.home)' = FirstIndex(v.home)
    <3>1. Led(v.home, r, p, off)
      BY <1>0, KeysGo DEF Moved
    <3> QED
      BY <3>1 DEF Led
  <2>2. Locate(v.home) # Nowhere
    BY <2>1, RegionKinds
  <2>3. Keeping(Named(RedeemedReach(v)), c)
    BY <2>2 DEF RInv, ValueKept
  <2>4. CASE Locate(v.home) = r /\ p \in Ids
    <3>1. Keeping(Under(p), c)'
      <4>1. Keeping(Under(r), c)
        BY <1>0, <2>2, <2>3, <2>4, ReachIs, KeepingMore
      <4> QED
        BY <1>1, <1>2, <4>1
    <3>2. c \in Births
      BY <1>0, <2>2, ReachIs
    <3>3. Keeping({p}, c)'
      BY <2>4, <3>1, <3>2, KeepingByIdNext
    <3>4. Named(RedeemedReach(v))' = {p}
      BY <2>1, <2>4, RegionKinds DEF Named, RedeemedReach
    <3> QED
      BY <3>3, <3>4
  <2>5. CASE Locate(v.home) = r /\ p \in Slots
    <3>1. r \in Slots
      BY <2>5, RegionKinds
    <3> DEFINE k == FirstIndex(v.home) + v.index
    <3>2. k \in DOMAIN reaches[r] /\ RedeemedReach(v) = reaches[r][k] /\ v.index \in Nat
      BY <1>0, <2>2, <2>5, <3>1, ReachIs
    <3>3. RedeemedReach(v)' = reaches'[p][off + k]
      <4>1. FirstIndex(v.home) \in Nat
        <5>1. TypeOK /\ v.home \in Born /\ v.home \in Births
          BY <1>0 DEF IInv, Kinds, FatesOK, Born
        <5>2. first[v.home] \in Nat
          BY <5>1 DEF TypeOK
        <5> QED
          BY <5>1, <5>2, LeadsTo
      <4>2. FirstIndex(v.home)' + v.index = off + k
        BY <2>1, <2>5, <3>2, <4>1
      <4> QED
        BY <2>1, <2>5, <4>2 DEF RedeemedReach
    <3>4. Follows(Named(RedeemedReach(v)), Named(RedeemedReach(v))', r, p)
      <4>1. Follows(Named(reaches[r][k]), Named(reaches'[p][off + k]), r, p)
        BY <2>5, <3>2 DEF Moved
      <4> QED
        BY <3>2, <3>3, <4>1 DEF Named
    <3> QED
      BY <1>1, <2>3, <3>4
  <2>6. CASE Locate(v.home) # r
    <3>1. Locate(v.home)' = Locate(v.home) /\ FirstIndex(v.home)' = FirstIndex(v.home)
      BY <2>1, <2>6
    <3>2. CASE Locate(v.home) \in Slots
      <4>1. /\ FirstIndex(v.home) + v.index \in DOMAIN reaches[Locate(v.home)]
            /\ RedeemedReach(v) = reaches[Locate(v.home)][FirstIndex(v.home) + v.index]
        BY <1>0, <2>2, <3>2, ReachIs
      <4>2. RedeemedReach(v)' = reaches'[Locate(v.home)][FirstIndex(v.home) + v.index]
        BY <3>1, <3>2 DEF RedeemedReach
      <4>3. Follows(Named(RedeemedReach(v)), Named(RedeemedReach(v))', r, p)
        <5>1. Locate(v.home) \in Slots \ {r}
          BY <2>6, <3>2
        <5> QED
          BY <1>b, <4>1, <4>2, <5>1 DEF Named
      <4> QED
        BY <1>1, <2>3, <4>3
    <3>3. CASE Locate(v.home) \in Ids
      <4>1. Named(RedeemedReach(v)) = {Locate(v.home)}
        BY <1>0, <2>2, <3>3, ReachIs
      <4>2. Named(RedeemedReach(v))' = {Locate(v.home)}
        BY <3>1, <3>3, RegionKinds DEF Named, RedeemedReach
      <4>3. Follows({Locate(v.home)}, {Locate(v.home)}, r, p)
        BY <2>6 DEF Follows
      <4> QED
        BY <1>1, <2>3, <4>1, <4>2, <4>3
    <3> QED
      BY <1>0, <2>2, <3>2, <3>3, ReachIs, RegionKinds
  <2> QED
    BY <2>4, <2>5, <2>6, RegionKinds
<1> QED
  BY <1>4, <1>5

\* A slot's bytes, names and keys move to a sealed region: all is kept that was.
LEMMA AllSeals ==
    ASSUME RInv, IInv', NEW s \in Slots, NEW id \in Ids,
           \A q \in Regions \ {s} : Follows(Under(q), Under(q)', s, id),
           Under(s) \ {s} \subseteq Under(id)', bundle' = Splice(s, id),
           Leaves(s, {Occupant(s)}), Forward(Lineage(s) \cup Departing(s), id),
           \A t \in Slots \ {s} : \A k \in DOMAIN reaches[t] :
                Follows(Named(reaches[t][k]), Named(reaches'[t][k]), s, id)
    PROVE  (\A e \in reads : ReadKept(e)') /\ (\A v \in kept : ValueKept(v)')
<1>1. PICK gone : gone = {Occupant(s)}
  OBVIOUS
<1>2. PICK D \in SUBSET gone : D = Departing(s) /\ \A v \in kept : v.home \in gone => v.home \in D
  BY <1>1, DepartingKept DEF RInv, IInv
<1>3. /\ fate' = [b \in Births |-> IF b \in Lineage(s) \cup D THEN id ELSE fate[b]]
      /\ \A b \in Births : b \notin Lineage(s) \cup D => first'[b] = first[b]
  <2>1. first \in [Births -> Nat]
    BY DEF RInv, IInv, Kinds, TypeOK
  <2> QED
    BY <1>2, <2>1 DEF Forward
<1>4. id \in Regions /\ s \in Regions /\ id # s /\ id \notin Slots /\ s \notin Ids
  BY Apart DEF Regions
<1>5. Moved(s, id, gone, 0, D)
  BY <1>1, <1>2, <1>3, <1>4 DEF Moved
<1>6. s \in Ids => id \in Ids
  OBVIOUS
<1>7. 0 \in Nat
  OBVIOUS
<1> QED
  BY <1>4, <1>5, <1>6, <1>7, AllMoves

\* A region that nothing names is left, and its bytes freed: what is still there is kept, and
\* what was freed nothing else reads.
LEMMA AllGoes ==
    ASSUME RInv, IInv', NEW r \in Regions,
           \A q \in Regions \ {r} : Under(q) \subseteq Under(q)' /\ r \notin Under(q),
           bundle' = [bundle EXCEPT ![r] = {}],
           NEW gone, Leaves(r, gone),
           fate' = [b \in Births |-> IF b \in Lineage(r) THEN Nowhere ELSE fate[b]],
           \A b \in Births : b \notin Lineage(r) => first'[b] = first[b],
           \A t \in Slots \ {r} : reaches'[t] = reaches[t]
    PROVE  /\ \A e \in reads : e[1] \notin bundle[r] => ReadKept(e)'
           /\ \A v \in kept : ValueKept(v)'
           /\ \A e \in reads : e[2] \in bundle[r] => e[1] \in bundle[r]
<1>0. /\ IInv /\ bundle \in [Regions -> SUBSET Births] /\ TypeOK'
  BY DEF RInv, IInv, Kinds, TypeOK
<1>1. ASSUME NEW S, NEW T, S \subseteq T, r \notin S, NEW c, Keeping(S, c)
      PROVE  Keeping(T, c)'
  BY <1>0, <1>1, KeepingGoes
<1>2. bundle'[r] = {} /\ \A q \in Regions : q # r => bundle'[q] = bundle[q]
  BY <1>0
<1>3. ASSUME NEW e \in reads, NEW q \in Regions, q # r, e[1] \in bundle[q]
      PROVE  Keeping(Under(q), e[2])'
  BY <1>1, <1>3 DEF RInv, ReadKept
<1>4. ASSUME NEW e \in reads, e[1] \notin bundle[r] PROVE ReadKept(e)'
  <2>1. \E q \in Regions : e[1] \in bundle'[q]
    BY <1>2, <1>4 DEF RInv, ReadKept
  <2>2. \A q \in Regions : e[1] \in bundle'[q] => q # r /\ e[1] \in bundle[q]
    BY <1>2
  <2>3. ASSUME NEW q \in Regions, e[1] \in bundle'[q] PROVE Keeping(Under(q), e[2])'
    BY <1>3, <2>2, <2>3
  <2> QED
    BY <2>1, <2>3 DEF ReadKept
<1>5. ASSUME NEW e \in reads, e[2] \in bundle[r] PROVE e[1] \in bundle[r]
  <2> SUFFICES ASSUME e[1] \notin bundle[r] PROVE FALSE
    OBVIOUS
  <2>1. PICK q \in Regions : e[1] \in bundle[q]
    BY DEF RInv, ReadKept
  <2>2. Keeping(Under(q), e[2])'
    BY <1>3, <2>1
  <2>3. Closed(Regions)' /\ Under(q)' \subseteq Regions
    BY <1>0, UnderNext DEF Closed
  <2>4. PICK t \in Regions : e[2] \in bundle'[t]
    BY <2>2, <2>3 DEF Keeping
  <2>5. t # r /\ e[2] \in bundle[t]
    BY <1>2, <2>4
  <2> QED
    BY <1>0, <1>5, <2>5 DEF IInv, BundlesOK
<1>7. ASSUME NEW v \in kept PROVE ValueKept(v)'
  <2> SUFFICES ASSUME Locate(v.home)' # Nowhere, NEW c \in v.over
               PROVE  Keeping(Named(RedeemedReach(v)), c)'
    BY DEF ValueKept
  <2>1. IF Locate(v.home) = r THEN Locate(v.home)' = Nowhere
                              ELSE /\ Locate(v.home)' = Locate(v.home)
                                   /\ FirstIndex(v.home)' = FirstIndex(v.home)
    <3>1. /\ {} \in SUBSET gone /\ Lineage(r) \cup {} = Lineage(r)
          /\ Nowhere \notin Slots /\ 0 \in Nat
      BY RegionKinds
    <3>2. Led(v.home, r, Nowhere, 0)
      BY <1>0, <3>1, KeysGo
    <3> QED
      BY <3>2 DEF Led
  <2>2. Locate(v.home) # r /\ Locate(v.home) # Nowhere
    BY <2>1
  <2>3. Keeping(Named(RedeemedReach(v)), c) /\ Locate(v.home) \in Regions
        /\ Named(RedeemedReach(v)) \subseteq Under(Locate(v.home))
    BY <1>0, <2>2, ReachIs DEF RInv, ValueKept
  <2>4. RedeemedReach(v)' = RedeemedReach(v)
    BY <2>1, <2>2 DEF RedeemedReach
  <2>5. Named(RedeemedReach(v))' = Named(RedeemedReach(v)) /\ r \notin Named(RedeemedReach(v))
    BY <2>2, <2>3, <2>4 DEF Named
  <2> QED
    BY <1>1, <2>3, <2>5
<1> QED
  BY <1>4, <1>5, <1>7

-----------------------------------------------------------------------------
\* Where nothing moves.

\* Where no name, no byte and no key changes, all is as it was.
LEMMA StillRInv ==
    ASSUME RInv, IInv', HeldOn', \A s \in Slots : Occupied(s)' <=> Occupied(s),
           UNCHANGED <<gen, pins, held, reaches, fate, first, tier, aggSlots, aggIds, bundle>>,
           UNCHANGED <<kept, reads>>
    PROVE  RInv'
<1>1. HomesNamed'
  BY DEF RInv, HomesNamed
<1>2. \A r \in Regions : Under(r)' = Under(r)
  BY DEF Under
<1>3. \A v \in kept : Locate(v.home)' = Locate(v.home) /\ FirstIndex(v.home)' = FirstIndex(v.home)
  BY SamePlaces DEF RInv, IInv, Kinds, TypeOK, Carriers
<1>4. (\A e \in reads : ReadKept(e)') /\ (\A v \in kept : ValueKept(v)')
  BY <1>2, <1>3, AllStays
<1> QED
  BY <1>1, <1>4 DEF RInv

\* `release`, and what comes and goes below a slot.
LEMMA BelowRInv ==
    ASSUME RInv, IInv', NEW s \in Slots, Attach(s) \/ Detach(s) \/ Release(s)
    PROVE  RInv'
<1>1. /\ UNCHANGED <<gen, pins, held, reaches, fate, first, tier, aggSlots, aggIds, bundle>>
      /\ UNCHANGED <<kept, reads, holders, target>>
  BY DEF Attach, Detach, Release, matrix, keys, sealed, cascade, carried
<1>2. life' = life \/ (life[s] = "live" /\ life' = [life EXCEPT ![s] = "dead"])
  BY DEF Attach, Detach, Release, Live
<1>3. \A t \in Slots : Occupied(t)' <=> Occupied(t)
  BY <1>2 DEF Occupied, RInv, IInv, Kinds, TypeOK
<1>4. HeldOn'
  BY <1>1 DEF RInv, HeldOn
<1> QED
  BY <1>1, <1>3, <1>4, StillRInv

\* The worklist is empty.
LEMMA FlatRInv ==
    ASSUME RInv, IInv', Flat
    PROVE  RInv'
<1>1. /\ UNCHANGED <<gen, life, pins, held, reaches, fate, first, tier, aggSlots, aggIds, bundle>>
      /\ UNCHANGED <<kept, reads, holders>> /\ holders[target] > 0
  BY DEF Flat, cells, matrix, keys, sealed, carried
<1>2. HeldOn'
  BY <1>1 DEF RInv, HeldOn
<1> QED
  BY <1>1, <1>2, StillRInv DEF Occupied

\* Nothing happens.
LEMMA StutterRInv ==
    ASSUME RInv, IInv', UNCHANGED vars
    PROVE  RInv'
<1>1. /\ UNCHANGED <<gen, life, pins, held, reaches, fate, first, tier, aggSlots, aggIds, bundle>>
      /\ UNCHANGED <<kept, reads, holders, target>>
  BY DEF vars, cells, matrix, keys, sealed, cascade, carried
<1>2. HeldOn'
  BY <1>1 DEF RInv, HeldOn
<1> QED
  BY <1>1, <1>2, StillRInv DEF Occupied

\* A birth's bytes are in one region: its own slot while it has it.
LEMMA OwnBytes ==
    ASSUME IInv, NEW s \in Slots, Occupied(s), NEW r \in Regions, Occupant(s) \in bundle[r]
    PROVE  r = s
BY Apart DEF IInv, BundlesOK, Regions

\* `create`.
LEMMA CreateRInv ==
    ASSUME RInv, IInv', NEW s \in Slots, Create(s)
    PROVE  RInv'
<1>1. /\ UNCHANGED <<gen, pins, held, reaches, fate, first, tier, aggSlots, aggIds>>
      /\ UNCHANGED <<kept, reads, holders, target>>
      /\ ~Occupied(s) /\ life' = [life EXCEPT ![s] = "live"]
      /\ bundle' = [bundle EXCEPT ![s] = {Occupant(s)}]
  BY DEF Create, matrix, keys, sealed, cascade, carried
<1>2. /\ IInv /\ TypeOK /\ HeldOn /\ HomesNamed
      /\ Occupied(s)' /\ \A t \in Slots \ {s} : Occupied(t)' <=> Occupied(t)
  BY <1>1 DEF RInv, IInv, Kinds, Occupied, TypeOK
<1>3. HomesNamed' /\ HeldOn'
  BY <1>1, <1>2 DEF HomesNamed, HeldOn
<1>4. \A r \in Regions : Under(r)' = Under(r)
  BY <1>1 DEF Under
<1>5. /\ bundle[s] = {} /\ bundle'[s] = {Occupant(s)}
      /\ \A r \in Regions : r # s => bundle'[r] = bundle[r]
  BY <1>1, <1>2, RegionKinds DEF IInv, BundlesOK, TypeOK
<1>6. Occupant(s) \notin Born
  BY <1>1, <1>2, SlabAssumption DEF Born, Occupant, Births, TypeOK
<1>7. ASSUME NEW e \in reads, NEW r \in Regions, e[1] \in bundle'[r] PROVE e[1] \in bundle[r]
  <2>1. e[1] \in Born
    BY <1>2 DEF RInv, ReadKept, IInv, BundlesOK
  <2> QED
    BY <1>5, <1>6, <1>7, <2>1
<1>8. ASSUME NEW v \in kept
      PROVE  Locate(v.home)' = Locate(v.home) /\ FirstIndex(v.home)' = FirstIndex(v.home)
  <2>1. v.home \in Born /\ v.home \in Births /\ v.home[1] \in Slots
    BY <1>2 DEF IInv, FatesOK, Born, Births
  <2>2. v.home = <<v.home[1], v.home[2]>>
    BY <2>1 DEF Births
  <2>3. v.home[1] = s => v.home[2] # gen[s]
    BY <1>6, <2>1, <2>2 DEF Occupant
  <2>4. Locate(v.home)' = Locate(v.home)
    BY <1>1, <1>2, <2>1, <2>3 DEF Locate
  <2> QED
    BY <1>1, <2>4 DEF FirstIndex
<1>9. \A r \in Regions : bundle[r] \subseteq bundle'[r]
  BY <1>5
<1>10. (\A e \in reads : ReadKept(e)') /\ (\A v \in kept : ValueKept(v)')
  BY <1>1, <1>4, <1>7, <1>8, <1>9, AllStays
<1> QED
  BY <1>1, <1>3, <1>10 DEF RInv

\* What a step can build over is kept by the reach it has for it, and a mask of it that names a
\* slot names its home.
LEMMA OperandKept ==
    ASSUME RInv, NEW e \in Slots, Live(e), NEW o \in Operands(e)
    PROVE  /\ \A c \in o.over : Keeping(Named(o.reach), c)
           /\ o.reach.slab # {} => o.home \in o.reach.slab
<1>0. IInv /\ TypeOK /\ HomesNamed
  BY DEF RInv, IInv, Kinds
<1>1. CASE o = [reach |-> Single(e), home |-> e, over |-> bundle[e]]
  <2>1. o.reach = Single(e) /\ o.home = e /\ o.over = bundle[e]
    BY <1>1
  <2>2. Named(o.reach) = {e}
    BY <2>1 DEF Named, Single
  <2>3. \A c \in o.over : Keeping({e}, c)
    BY <2>1 DEF Keeping
  <2> QED
    BY <2>1, <2>2, <2>3 DEF Single
<1>2. ASSUME NEW v \in kept, Entitled(e, v.home),
             o = [reach |-> RedeemedReach(v), home |-> RedeemedHome(e, v), over |-> v.over]
      PROVE  /\ \A c \in o.over : Keeping(Named(o.reach), c)
             /\ o.reach.slab # {} => o.home \in o.reach.slab
  <2>0. o.reach = RedeemedReach(v) /\ o.home = RedeemedHome(e, v) /\ o.over = v.over
    BY <1>2
  <2>1. Locate(v.home) \in Regions /\ Locate(v.home) # Nowhere
    BY <1>2, RegionKinds DEF Entitled
  <2>2. \A c \in o.over : Keeping(Named(o.reach), c)
    BY <2>0, <2>1 DEF RInv, ValueKept
  <2>3. CASE Locate(v.home) \in Slots
    <3>1. o.home = Locate(v.home)
      BY <2>0, <2>3 DEF RedeemedHome
    <3> QED
      BY <1>0, <2>0, <2>1, <2>2, <2>3, <3>1, ReachIs DEF HomesNamed
  <2>4. CASE Locate(v.home) \in Ids
    <3>1. o.reach = [slab |-> {}, ids |-> {Locate(v.home)}]
      BY <1>0, <2>0, <2>1, <2>4, ReachIs
    <3> QED
      BY <2>2, <3>1
  <2> QED
    BY <2>1, <2>3, <2>4, RegionKinds
<1> QED
  BY <1>1, <1>2 DEF Operands

\* A carrier is kept where its mask is found again, and no mask at rest is disturbed.
LEMMA KeepRests ==
    ASSUME IInv, NEW home \in Slots, Occupied(home), NEW mask \in Masks, NEW over,
           Keep(home, mask, over),
           \A s \in Slots : Occupied(s)' <=> Occupied(s), UNCHANGED <<gen, fate, first>>
    PROVE  /\ \A v \in kept' : v \in kept \/ (v.over = over /\ RedeemedReach(v)' = mask)
           /\ \A s \in Slots : \A k \in DOMAIN reaches[s] : reaches'[s][k] = reaches[s][k]
           /\ \A s \in Slots : \A k \in DOMAIN reaches'[s] :
                \/ k \in DOMAIN reaches[s] /\ reaches'[s][k] = reaches[s][k]
                \/ s = home /\ reaches'[s][k] = mask
<1>a. PICK table : table = Interned(reaches[home], mask)
  OBVIOUS
<1>b. PICK new : new = [home |-> Occupant(home), index |-> FirstHolding(table, mask),
                        over |-> over]
  OBVIOUS
<1>0. TypeOK /\ reaches \in [Slots -> Seq(Masks)] /\ reaches[home] \in Seq(Masks)
  BY DEF IInv, Kinds
<1>1. reaches' = [reaches EXCEPT ![home] = table] /\ kept' = kept \cup {new}
  BY <1>a, <1>b DEF Keep
<1>2. /\ table \in Seq(Masks) /\ Len(table) >= Len(reaches[home])
      /\ \A k \in DOMAIN reaches[home] : k \in DOMAIN table /\ table[k] = reaches[home][k]
      /\ \A k \in DOMAIN table : table[k] = mask \/ k \in DOMAIN reaches[home]
      /\ FirstHolding(table, mask) \in DOMAIN table
  <2>1. PICK old \in Seq(Masks) : old = reaches[home]
    BY <1>0
  <2>2. table = Interned(old, mask)
    BY <1>a, <2>1
  <2>3. /\ table \in Seq(Masks) /\ Len(table) >= Len(old)
        /\ \A k \in DOMAIN old : k \in DOMAIN table /\ table[k] = old[k]
        /\ \A k \in DOMAIN table : table[k] = mask \/ k \in DOMAIN old
        /\ FirstHolding(table, mask) \in DOMAIN table
    BY <2>2, Interns
  <2> QED
    BY <2>1, <2>3
<1>3. \E k \in DOMAIN table : table[k] = mask
  <2>1. CASE \E k \in DOMAIN reaches[home] : reaches[home][k] = mask
    BY <1>a, <2>1 DEF Interned
  <2>2. CASE ~ \E k \in DOMAIN reaches[home] : reaches[home][k] = mask
    <3>1. table = Append(reaches[home], mask) /\ reaches[home] \in Seq(Masks)
      BY <1>0, <1>a, <2>2 DEF Interned
    <3>2. Len(table) \in DOMAIN table /\ table[Len(table)] = mask
      BY <3>1
    <3> QED
      BY <3>2
  <2> QED
    BY <2>1, <2>2
<1>4. FirstHolding(table, mask) \in DOMAIN table /\ table[FirstHolding(table, mask)] = mask
  BY <1>2, <1>3, Found
<1>5. reaches'[home] = table /\ \A s \in Slots \ {home} : reaches'[s] = reaches[s]
  BY <1>0, <1>1
<1>6. RedeemedReach(new)' = mask
  <2>0. PICK h : h = Occupant(home)
    OBVIOUS
  <2>1. new.home = h /\ new.index = FirstHolding(table, mask)
    BY <1>b, <2>0
  <2>2. Locate(h)' = home /\ FirstIndex(h)' = 0
    BY <2>0 DEF Locate, FirstIndex, Occupant
  <2>3. FirstHolding(table, mask) \in Nat
    BY <1>2, <1>4
  <2>4. Locate(new.home)' = home /\ FirstIndex(new.home)' + new.index = FirstHolding(table, mask)
    BY <2>1, <2>2, <2>3
  <2> QED
    BY <1>4, <1>5, <2>4 DEF RedeemedReach
<1>7. \A s \in Slots : \A k \in DOMAIN reaches[s] : reaches'[s][k] = reaches[s][k]
  BY <1>2, <1>5
<1>8. \A s \in Slots : \A k \in DOMAIN reaches'[s] :
        \/ k \in DOMAIN reaches[s] /\ reaches'[s][k] = reaches[s][k]
        \/ s = home /\ reaches'[s][k] = mask
  BY <1>2, <1>5
<1>9. new.over = over
  BY <1>b
<1> QED
  BY <1>1, <1>6, <1>7, <1>8, <1>9

\* A step keeps a carrier.
LEMMA RestRInv ==
    ASSUME RInv, IInv', NEW e \in Slots, Rest(e)
    PROVE  RInv'
<1>0. PICK o \in Operands(e) : Keep(o.home, o.reach, o.over)
  BY DEF Rest
<1>1. /\ UNCHANGED <<gen, life, pins, held, fate, first, tier, aggSlots, aggIds, bundle>>
      /\ UNCHANGED <<reads, holders, target>> /\ Live(e)
  BY DEF Rest, cells, matrix, sealed, cascade
<1>2. /\ o.reach \in Masks /\ o.home \in Slots /\ Occupied(o.home) /\ IInv
      /\ \A c \in o.over : Keeping(Named(o.reach), c)
      /\ o.reach.slab # {} => o.home \in o.reach.slab
  BY <1>1, OperandOK, OperandKept DEF Sound, RInv
<1>3. \A s \in Slots : Occupied(s)' <=> Occupied(s)
  BY <1>1 DEF Occupied
<1>4. /\ \A v \in kept' : v \in kept \/ (v.over = o.over /\ RedeemedReach(v)' = o.reach)
      /\ \A s \in Slots : \A k \in DOMAIN reaches[s] : reaches'[s][k] = reaches[s][k]
      /\ \A s \in Slots : \A k \in DOMAIN reaches'[s] :
           \/ k \in DOMAIN reaches[s] /\ reaches'[s][k] = reaches[s][k]
           \/ s = o.home /\ reaches'[s][k] = o.reach
  BY <1>0, <1>1, <1>2, <1>3, KeepRests
<1>5. HomesNamed' /\ HeldOn'
  BY <1>1, <1>2, <1>4 DEF RInv, HomesNamed, HeldOn
<1>6. \A r \in Regions : Under(r)' = Under(r)
  BY <1>1 DEF Under
<1>7. \A v \in kept : Locate(v.home)' = Locate(v.home) /\ FirstIndex(v.home)' = FirstIndex(v.home)
  BY <1>1, <1>3, SamePlaces DEF RInv, IInv, Kinds, TypeOK, Carriers
<1>8. (\A e2 \in reads : ReadKept(e2)') /\ (\A v \in kept : ValueKept(v)')
  BY <1>1, <1>4, <1>6, <1>7, AllStays
<1>9. ASSUME NEW v \in kept', v \notin kept PROVE ValueKept(v)'
  <2> SUFFICES ASSUME NEW c \in v.over PROVE Keeping(Named(RedeemedReach(v)), c)'
    BY DEF ValueKept
  <2>1. Keeping(Named(o.reach), c) /\ Named(RedeemedReach(v))' = Named(o.reach)
    BY <1>2, <1>4, <1>9 DEF Named
  <2>2. /\ \A i \in Ids : Under(i) \subseteq Under(i)'
        /\ \A r \in Regions : bundle[r] \subseteq bundle'[r]
    BY <1>1, <1>6, RegionKinds
  <2> QED
    BY <2>1, <2>2, KeepingStays
<1> QED
  BY <1>1, <1>5, <1>8, <1>9 DEF RInv

\* A slot's holds only come, and masks and keys stay: all is kept that was.
LEMMA MintRests ==
    ASSUME RInv, NEW into \in Slots, NEW mask, Sound(mask), Mint(into, mask),
           UNCHANGED <<gen, life, fate, first, tier, aggSlots, aggIds, bundle>>,
           \A s \in Slots : \A k \in DOMAIN reaches[s] : reaches'[s][k] = reaches[s][k]
    PROVE  /\ (\A e \in reads : ReadKept(e)') /\ (\A v \in kept : ValueKept(v)')
           /\ \A r \in Regions : Under(r) \subseteq Under(r)'
           /\ Under(into)' = Under(into) \cup Named(mask)
           /\ UNCHANGED target => HeldOn'
<1>0. TypeOK /\ NamesLive /\ IInv
  BY DEF RInv, IInv, Kinds
<1>1. /\ pins' = [pins EXCEPT ![into] = (@ \cup mask.slab) \ {into}]
      /\ held' = [held EXCEPT ![into] = @ \cup mask.ids]
      /\ holders' = [i \in Ids |-> holders[i] + One(i \in (mask.ids \cap tier) \ held[into])]
  BY DEF Mint
<1>2. /\ \A s \in Slots : pins[s] \cup {s} \subseteq pins'[s] \cup {s} /\ held[s] \subseteq held'[s]
      /\ pins'[into] = (pins[into] \cup mask.slab) \ {into}
      /\ held'[into] = held[into] \cup mask.ids
  BY <1>0, <1>1 DEF TypeOK
<1>3. Under(into)' = Under(into) \cup Named(mask)
  BY <1>2 DEF Under, Named
<1>4. \A r \in Regions : Under(r) \subseteq Under(r)'
  BY <1>2 DEF Under
<1>5. \A v \in kept : Locate(v.home)' = Locate(v.home) /\ FirstIndex(v.home)' = FirstIndex(v.home)
  BY <1>0, SamePlaces DEF TypeOK, Carriers, Occupied
<1>6. (\A e \in reads : ReadKept(e)') /\ (\A v \in kept : ValueKept(v)')
  BY <1>4, <1>5, AllStays
<1>7. ASSUME UNCHANGED target PROVE HeldOn'
  <2>1. \A i \in tier : holders'[i] >= holders[i] /\ holders[i] \in Nat /\ holders'[i] \in Nat
    BY <1>0, <1>1 DEF TypeOK, One
  <2> QED
    BY <1>7, <2>1 DEF HeldOn, RInv
<1> QED
  BY <1>3, <1>4, <1>6, <1>7

\* `hold`.
LEMMA HoldRInv ==
    ASSUME RInv, IInv', NEW e \in Slots, NEW other \in Slots, Hold(e, other)
    PROVE  RInv'
<1>1. /\ UNCHANGED <<gen, life, reaches, fate, first, tier, aggSlots, aggIds, bundle>>
      /\ UNCHANGED <<kept, reads, target>> /\ Live(other) /\ Mint(e, Single(other))
  BY DEF Hold, cells, keys, sealed, cascade, carried
<1>2. Sound(Single(other))
  BY <1>1 DEF Sound, Single, Masks, Live, Occupied
<1>3. (\A e2 \in reads : ReadKept(e2)') /\ (\A v \in kept : ValueKept(v)') /\ HeldOn'
  BY <1>1, <1>2, MintRests
<1>4. HomesNamed'
  BY <1>1 DEF RInv, HomesNamed
<1> QED
  BY <1>1, <1>3, <1>4 DEF RInv

\* `alloc_into`.
LEMMA AllocIntoRInv ==
    ASSUME RInv, IInv', NEW e \in Slots, NEW dest \in Slots, AllocInto(e, dest)
    PROVE  RInv'
<1>0. PICK o \in Operands(e) :
        /\ Mint(dest, o.reach)
        /\ reads' = reads \cup ({Occupant(dest)} \X (o.over \ {Occupant(dest)}))
        /\ \/ Keep(dest, [o.reach EXCEPT !.slab = @ \cup {dest}], o.over \cup {Occupant(dest)})
           \/ UNCHANGED <<reaches, kept>>
  BY DEF AllocInto
<1>1. /\ UNCHANGED <<gen, life, fate, first, tier, aggSlots, aggIds, bundle, target>>
      /\ Live(e) /\ Live(dest) /\ Occupied(dest)
  BY DEF AllocInto, cells, sealed, cascade, Live, Occupied
<1>2. /\ Sound(o.reach) /\ o.reach \in Masks /\ IInv
      /\ \A c \in o.over : Keeping(Named(o.reach), c)
  BY <1>1, OperandOK, OperandKept DEF Sound, RInv
<1> DEFINE mask == [o.reach EXCEPT !.slab = @ \cup {dest}]
           over == o.over \cup {Occupant(dest)}
<1>3. mask \in Masks /\ mask.slab = o.reach.slab \cup {dest} /\ mask.ids = o.reach.ids
  BY <1>2 DEF Masks
<1> HIDE DEF mask, over
<1>4. /\ \A v \in kept' : v \in kept \/ (v.over = over /\ RedeemedReach(v)' = mask)
      /\ \A s \in Slots : \A k \in DOMAIN reaches[s] : reaches'[s][k] = reaches[s][k]
      /\ \A s \in Slots : \A k \in DOMAIN reaches'[s] :
           \/ k \in DOMAIN reaches[s] /\ reaches'[s][k] = reaches[s][k]
           \/ s = dest /\ reaches'[s][k] = mask
  <2>1. CASE UNCHANGED <<reaches, kept>>
    BY <2>1
  <2>2. CASE Keep(dest, mask, over)
    <3>1. \A s \in Slots : Occupied(s)' <=> Occupied(s)
      BY <1>1 DEF Occupied
    <3> QED
      BY <1>1, <1>2, <1>3, <2>2, <3>1, KeepRests
  <2> QED
    BY <1>0, <2>1, <2>2 DEF mask, over
<1>5. /\ (\A e2 \in reads : ReadKept(e2)') /\ (\A v \in kept : ValueKept(v)')
      /\ \A r \in Regions : Under(r) \subseteq Under(r)'
      /\ Under(dest)' = Under(dest) \cup Named(o.reach)
      /\ HeldOn'
  BY <1>0, <1>1, <1>2, <1>4, MintRests
<1>6. HomesNamed'
  BY <1>3, <1>4 DEF RInv, HomesNamed
<1>7. ASSUME NEW S, NEW T, S \subseteq T, NEW c, Keeping(S, c) PROVE Keeping(T, c)'
  <2>1. /\ \A i \in Ids : Under(i) \subseteq Under(i)'
        /\ \A r \in Regions : bundle[r] \subseteq bundle'[r]
    BY <1>1, <1>5, RegionKinds
  <2> QED
    BY <1>7, <2>1, KeepingStays
<1>8. Occupant(dest) \in bundle[dest] /\ dest \in Regions
  BY <1>1, <1>2, RegionKinds DEF IInv, BundlesOK
<1>9. ASSUME NEW e2 \in reads', e2 \notin reads PROVE ReadKept(e2)'
  <2>1. e2[1] = Occupant(dest) /\ e2[2] \in o.over
    BY <1>0, <1>9
  <2>2. \E r \in Regions : e2[1] \in bundle'[r]
    BY <1>1, <1>8, <2>1
  <2>3. ASSUME NEW r \in Regions, e2[1] \in bundle'[r] PROVE Keeping(Under(r), e2[2])'
    <3>1. r = dest
      BY <1>1, <1>2, <2>1, <2>3, OwnBytes
    <3>2. Keeping(Named(o.reach), e2[2])
      BY <1>2, <2>1
    <3>3. Keeping(Under(dest) \cup Named(o.reach), e2[2])'
      BY <1>7, <3>2
    <3> QED
      BY <1>5, <3>1, <3>3
  <2> QED
    BY <2>2, <2>3 DEF ReadKept
<1>10. ASSUME NEW v \in kept', v \notin kept PROVE ValueKept(v)'
  <2> SUFFICES ASSUME NEW c \in v.over PROVE Keeping(Named(RedeemedReach(v)), c)'
    BY DEF ValueKept
  <2>1. c \in over /\ Named(RedeemedReach(v))' = Named(mask)
    BY <1>4, <1>10 DEF Named
  <2>2. Named(o.reach) \subseteq Named(mask) /\ dest \in Named(mask)
    BY <1>3 DEF Named
  <2>3. Keeping(Named(o.reach), c) \/ Keeping({dest}, c)
    <3>1. Keeping({dest}, Occupant(dest))
      BY <1>8 DEF Keeping
    <3> QED
      BY <1>2, <2>1, <3>1 DEF over
  <2> QED
    BY <1>7, <2>1, <2>2, <2>3
<1> QED
  BY <1>2, <1>5, <1>6, <1>9, <1>10 DEF RInv

-----------------------------------------------------------------------------
\* Where storage is freed.

\* Nothing that stays reads what is freed with a region.
Unread(r) == \A e \in reads : e[2] \in bundle[r] => e[1] \in bundle[r]

\* Nothing reaches the cell's storage.
LEMMA ReclaimRInv ==
    ASSUME RInv, IInv', NEW s \in Slots, Reclaim(s)
    PROVE  RInv' /\ Unread(s)
<1>1. /\ dying = s /\ tally[s] = 0 /\ naming[s] = {} /\ Vacate(s)
      /\ pins' = [pins EXCEPT ![s] = {}] /\ held' = [held EXCEPT ![s] = {}]
      /\ reaches' = [reaches EXCEPT ![s] = <<>>]
      /\ bundle' = [bundle EXCEPT ![s] = {}]
      /\ reads' = {e \in reads : e[1] \notin bundle[s]}
      /\ UNCHANGED <<tier, aggSlots, aggIds, holders, target>>
  BY DEF Reclaim, Unreached, Free
<1>2. /\ fate' = [b \in Births |-> IF b \in Lineage(s) THEN Nowhere ELSE fate[b]]
      /\ \A b \in Births : b \notin Lineage(s) => first'[b] = first[b]
  BY DEF Reclaim, Forward
<1>3. IInv /\ TypeOK /\ Names /\ HomesNamed /\ reaches \in [Slots -> Seq(Masks)]
  BY DEF RInv, IInv, Kinds, Names
<1>4. /\ Occupied(s) /\ ~Occupied(s)'
      /\ \A t \in Slots \ {s} : (Occupied(t)' <=> Occupied(t)) /\ Occupant(t)' = Occupant(t)
      /\ Born' = Born /\ Departed' = Departed \cup {Occupant(s)} /\ UNCHANGED kept
  BY <1>1, <1>3, Vacated
<1>5. Leaves(s, {Occupant(s)})
  BY <1>1, <1>3, <1>4, Apart DEF Leaves, Regions, TypeOK
<1>6. /\ \A t \in Slots : s \notin pins[t]
      /\ \A n \in tier : s \notin aggSlots[n]
  <2>1. Holding(s) = {}
    <3>1. Holding(s) \subseteq Slots /\ Cardinality(Holding(s)) = 0
      BY <1>1, <1>3 DEF Holding, Names, CountsExact
    <3> QED
      BY <3>1, Apart, FS_Subset, FS_EmptySet
  <2> QED
    BY <1>1, <1>3, <2>1 DEF Holding, Names, NamesLive, CountsExact
<1>7. ASSUME NEW q \in Regions \ {s} PROVE Under(q) \subseteq Under(q)' /\ s \notin Under(q)
  <2>1. CASE q \in Slots
    <3>1. pins'[q] = pins[q] /\ held'[q] = held[q] /\ held[q] \subseteq Ids
      BY <1>1, <1>3, <2>1 DEF TypeOK
    <3> QED
      BY <1>6, <2>1, <3>1, Apart DEF Under
  <2>2. CASE q \in tier
    <3>1. q \notin Slots /\ aggIds[q] \subseteq Ids
      BY <1>3, <2>2, Apart DEF TypeOK
    <3> QED
      BY <1>1, <1>6, <2>2, <3>1, Apart DEF Under
  <2>3. CASE q \notin Slots /\ q \notin tier
    BY <2>3 DEF Under
  <2> QED
    BY <2>1, <2>2, <2>3
<1>8. \A t \in Slots \ {s} : reaches'[t] = reaches[t]
  BY <1>1, <1>3
<1>9. /\ \A e \in reads : e[1] \notin bundle[s] => ReadKept(e)'
      /\ \A v \in kept : ValueKept(v)'
      /\ Unread(s)
  BY <1>1, <1>2, <1>5, <1>7, <1>8, AllGoes, RegionKinds DEF Unread
<1>10. HomesNamed'
  <2>1. reaches'[s] = <<>>
    BY <1>1, <1>3
  <2> QED
    BY <1>3, <1>8, <2>1 DEF HomesNamed
<1>11. HeldOn'
  BY <1>1 DEF RInv, HeldOn
<1> QED
  BY <1>1, <1>4, <1>9, <1>10, <1>11 DEF RInv

\* A region nothing names is retired.
LEMMA RetireRInv ==
    ASSUME RInv, IInv', HeldOn', NEW id \in tier, HeldBy(id) = {}, NamedBy(id) = {}, Retire(id),
           UNCHANGED <<cells, matrix, reaches, kept>>
    PROVE  RInv' /\ Unread(id)
<1>1. /\ tier' = tier \ {id}
      /\ aggSlots' = [aggSlots EXCEPT ![id] = {}] /\ aggIds' = [aggIds EXCEPT ![id] = {}]
      /\ bundle' = [bundle EXCEPT ![id] = {}] /\ reads' = {e \in reads : e[1] \notin bundle[id]}
      /\ fate' = [b \in Births |-> IF b \in Lineage(id) THEN Nowhere ELSE fate[b]]
      /\ \A b \in Births : b \notin Lineage(id) => first'[b] = first[b]
  BY DEF Retire, Free, Forward
<1>2. /\ UNCHANGED <<life, gen, pins, held, reaches, kept>>
      /\ \A s \in Slots : Occupied(s)' <=> Occupied(s)
      /\ Born' = Born /\ Departed' = Departed /\ \A s \in Slots : Occupant(s)' = Occupant(s)
  <2>1. UNCHANGED <<life, gen, pins, held, reaches, kept>>
    BY DEF cells, matrix
  <2>2. \A s \in Slots : (Occupied(s)' <=> Occupied(s)) /\ Occupant(s)' = Occupant(s)
    BY <2>1 DEF Occupied, Occupant
  <2>3. \A b \in Births : b[1] \in Slots
    BY DEF Births
  <2> QED
    BY <2>1, <2>2, <2>3 DEF Born, Departed
<1>3. IInv /\ TypeOK /\ id \in Ids /\ id \in Regions /\ id \notin Slots
  BY Apart DEF RInv, IInv, Kinds, TypeOK, Regions
<1>4. (\A t \in Slots : id \notin held[t]) /\ (\A n \in tier : id \notin aggIds[n])
  BY DEF HeldBy, NamedBy
<1>5. Leaves(id, {})
  BY <1>1, <1>2, <1>3, Apart DEF Leaves, Regions
<1>6. ASSUME NEW q \in Regions \ {id} PROVE Under(q) \subseteq Under(q)' /\ id \notin Under(q)
  <2>1. CASE q \in Slots
    <3>1. pins[q] \subseteq Slots
      BY <1>3, <2>1 DEF TypeOK
    <3> QED
      BY <1>2, <1>3, <1>4, <2>1, <3>1 DEF Under
  <2>2. CASE q \in tier
    <3>1. q \notin Slots /\ aggSlots[q] \subseteq Slots /\ q \in tier'
          /\ aggSlots'[q] = aggSlots[q] /\ aggIds'[q] = aggIds[q]
      BY <1>1, <1>3, <2>2, Apart DEF TypeOK
    <3> QED
      BY <1>3, <1>4, <2>2, <3>1 DEF Under
  <2>3. CASE q \notin Slots /\ q \notin tier
    BY <2>3 DEF Under
  <2> QED
    BY <2>1, <2>2, <2>3
<1>7. /\ \A e \in reads : e[1] \notin bundle[id] => ReadKept(e)'
      /\ \A v \in kept : ValueKept(v)'
      /\ Unread(id)
  <2>1. \A t \in Slots \ {id} : reaches'[t] = reaches[t]
    BY <1>2
  <2> QED
    BY <1>1, <1>3, <1>5, <1>6, <2>1, AllGoes DEF Unread
<1>8. HomesNamed'
  BY <1>2 DEF RInv, HomesNamed
<1> QED
  BY <1>1, <1>2, <1>7, <1>8 DEF RInv

\* A hold is released, and with the last one the region.
LEMMA ReleaseSealedHoldRInv ==
    ASSUME RInv, IInv', NEW id \in Ids, ReleaseSealedHold(id)
    PROVE  RInv' /\ ((Retire(id) /\ Unread(id)) \/ UNCHANGED <<bundle, reads>>)
<1>1. /\ drops[id] > 0
      /\ holders' = [holders EXCEPT ![id] = IF id \in tier THEN @ - 1 ELSE @]
      /\ UNCHANGED <<cells, matrix, reaches, target, kept>>
  BY DEF ReleaseSealedHold
<1>2. IInv /\ TypeOK /\ HeldOn /\ id \in tier
  BY <1>1 DEF RInv, IInv, Kinds, DisposalOK
<1>3. /\ holders[id] = Cardinality(HeldBy(id)) + Cardinality(NamedBy(id)) + drops[id]
      /\ Cardinality(HeldBy(id)) \in Nat /\ Cardinality(NamedBy(id)) \in Nat /\ drops[id] \in Nat
      /\ holders[id] \in Nat
  BY <1>2, CountsAre, Sizes DEF IInv, TypeOK
<1>4. \A i \in Ids : i # id => holders'[i] = holders[i]
  BY <1>1, <1>2 DEF TypeOK
<1>5. holders'[id] = holders[id] - 1
  BY <1>1, <1>2 DEF TypeOK
<1>6. CASE holders[id] = 1
  <2>1. Retire(id)
    BY <1>2, <1>6 DEF ReleaseSealedHold
  <2>2. HeldBy(id) = {} /\ NamedBy(id) = {}
    <3>1. holders[id] = drops[id]
      BY <1>1, <1>3, <1>6
    <3> QED
      BY <1>2, <3>1, Unnamed
  <2>3. HeldOn'
    <3>1. tier' = tier \ {id} /\ tier \subseteq Ids
      BY <1>2, <2>1 DEF Retire, TypeOK
    <3> QED
      BY <1>1, <1>2, <1>4, <3>1 DEF HeldOn
  <2> QED
    BY <1>1, <1>2, <2>1, <2>2, <2>3, RetireRInv
<1>7. CASE holders[id] # 1
  <2>1. UNCHANGED <<fate, first, naming, tier, aggSlots, aggIds, bundle, reads>>
    BY <1>7 DEF ReleaseSealedHold
  <2>2. HeldOn'
    <3>1. holders[id] > 1
      BY <1>1, <1>3, <1>7
    <3>2. tier \subseteq Ids
      BY <1>2 DEF TypeOK
    <3> QED
      BY <1>1, <1>2, <1>3, <1>4, <1>5, <2>1, <3>1, <3>2 DEF HeldOn
  <2>3. UNCHANGED <<gen, life, pins, held>>
    BY <1>1 DEF cells, matrix
  <2> QED
    BY <1>1, <2>1, <2>2, <2>3, StillRInv DEF Occupied
<1> QED
  BY <1>6, <1>7

\* A fold took the target's last holder, itself.
LEMMA ReclaimUnheldRInv ==
    ASSUME RInv, IInv', ReclaimUnheld
    PROVE  RInv' /\ target \in Ids /\ Retire(target) /\ Unread(target)
<1>1. /\ target # NoId /\ Settled /\ target \in tier /\ holders[target] = 0
      /\ Retire(target) /\ target' = NoId
      /\ UNCHANGED <<cells, matrix, reaches, serial, holders, dying, kept>>
  BY DEF ReclaimUnheld
<1>2. IInv /\ TypeOK /\ HeldOn /\ target \in Ids /\ drops[target] = 0
  BY <1>1 DEF RInv, IInv, Kinds, TypeOK, Settled
<1>3. HeldBy(target) = {} /\ NamedBy(target) = {}
  BY <1>1, <1>2, Unnamed
<1>4. HeldOn'
  BY <1>1, <1>2 DEF HeldOn, Retire
<1>5. UNCHANGED <<cells, matrix, reaches, kept>>
  BY <1>1
<1>6. PICK id \in tier : id = target
  BY <1>1
<1>7. RInv' /\ Unread(id)
  <2>1. HeldBy(id) = {} /\ NamedBy(id) = {} /\ Retire(id)
    BY <1>1, <1>3, <1>6
  <2> QED
    BY <1>4, <1>5, <2>1, RetireRInv
<1> QED
  BY <1>1, <1>2, <1>6, <1>7

-----------------------------------------------------------------------------
\* Where storage moves.

\* The one region that names a slot takes in what the slot held.
LEMMA FoldIntoNamerRInv ==
    ASSUME RInv, IInv', NEW s \in Slots, FoldIntoNamer(s)
    PROVE  RInv' /\ \E p \in Regions \ {s} : bundle' = Splice(s, p)
<1>0. PICK namer \in Ids :
        /\ naming[s] = {namer}
        /\ FoldIntoSealed(namer, pins[s], held[s], aggSlots[namer] \ {s}, aggIds[namer],
                          [naming EXCEPT ![s] = {}])
        /\ Forward(Lineage(s) \cup Departing(s), namer)
        /\ bundle' = Splice(s, namer)
        /\ target' = namer
  BY DEF FoldIntoNamer
<1>1. /\ dying = s /\ Holding(s) = {} /\ Vacate(s)
      /\ pins' = [pins EXCEPT ![s] = {}] /\ held' = [held EXCEPT ![s] = {}]
      /\ reaches' = [reaches EXCEPT ![s] = <<>>]
      /\ UNCHANGED <<tier, reads>>
  BY DEF FoldIntoNamer
<1>2. /\ IInv /\ TypeOK /\ Names /\ HomesNamed /\ HeldOn /\ reaches \in [Slots -> Seq(Masks)]
      /\ target = NoId /\ held[s] \subseteq Ids /\ pins[s] \subseteq Slots
      /\ \A t \in Slots : t \in Holding(s) <=> s \in pins[t]
  BY <1>1, DyingFacts DEF RInv, IInv, Kinds, TypeOK
<1>3. /\ Occupied(s) /\ ~Occupied(s)'
      /\ \A t \in Slots \ {s} : (Occupied(t)' <=> Occupied(t)) /\ Occupant(t)' = Occupant(t)
      /\ Born' = Born /\ Departed' = Departed \cup {Occupant(s)} /\ UNCHANGED kept
  BY <1>1, <1>2, Vacated
<1>4. /\ aggSlots'[namer] = (aggSlots[namer] \ {s}) \cup pins[s]
      /\ aggIds'[namer] = aggIds[namer] \cup (held[s] \ {namer})
      /\ \A n \in Ids : n # namer => /\ aggSlots'[n] = aggSlots[n] /\ aggIds'[n] = aggIds[n]
                                     /\ holders'[n] = holders[n]
  BY <1>0, <1>2 DEF FoldIntoSealed, TypeOK
<1>5. namer \in tier /\ \A n \in tier : s \in aggSlots[n] => n = namer
  BY <1>0, <1>2 DEF Names, CountsExact
<1>6. Leaves(s, {Occupant(s)})
  BY <1>1, <1>2, <1>3, Apart DEF Leaves, Regions, TypeOK
<1>7. namer \in Regions /\ namer # s /\ namer \notin Slots /\ s \in Regions /\ s \notin Ids
  BY Apart DEF Regions
<1>8. ASSUME NEW q \in Regions \ {s} PROVE Follows(Under(q), Under(q)', s, namer)
  <2>1. CASE q \in Slots
    <3>1. pins'[q] = pins[q] /\ held'[q] = held[q] /\ held[q] \subseteq Ids /\ s \notin pins[q]
      BY <1>1, <1>2, <2>1 DEF TypeOK
    <3> QED
      BY <1>7, <2>1, <3>1 DEF Under, Follows
  <2>2. CASE q = namer
    BY <1>1, <1>4, <1>5, <1>7, <2>2 DEF Under, Follows
  <2>3. CASE q \in tier /\ q # namer
    <3>1. q \notin Slots /\ s \notin aggIds[q] /\ q \in Ids
      BY <1>2, <2>3, Apart DEF TypeOK
    <3> QED
      BY <1>1, <1>4, <1>5, <2>3, <3>1 DEF Under, Follows
  <2>4. CASE q \notin Slots /\ q \notin tier
    BY <2>4 DEF Under, Follows
  <2> QED
    BY <2>1, <2>2, <2>3, <2>4
<1>9. Under(s) \ {s} \subseteq Under(namer)'
  BY <1>1, <1>4, <1>5, <1>7 DEF Under
<1>10. \A t \in Slots \ {s} : reaches'[t] = reaches[t]
  BY <1>1, <1>2
<1>11. ASSUME NEW t \in Slots \ {s}, NEW k \in DOMAIN reaches[t]
       PROVE  Follows(Named(reaches[t][k]), Named(reaches'[t][k]), s, namer)
  <2>1. s \notin Named(reaches[t][k])
    <3>1. reaches[t][k].slab \subseteq pins[t] \cup {t} /\ reaches[t][k].ids \subseteq Ids
      BY <1>2 DEF IInv, MovesWhole, MasksCovered, TypeOK
    <3> QED
      BY <1>1, <1>2, <1>7, <3>1 DEF Named
  <2> QED
    BY <1>10, <2>1 DEF Follows
<1>12. (\A e \in reads : ReadKept(e)') /\ (\A v \in kept : ValueKept(v)')
  BY <1>0, <1>6, <1>8, <1>9, <1>11, AllSeals
<1>13. HomesNamed'
  <2>1. reaches'[s] = <<>>
    BY <1>1, <1>2
  <2> QED
    BY <1>2, <1>10, <2>1 DEF HomesNamed
<1>14. HeldOn'
  <2>1. tier \subseteq Ids /\ NoId \notin Ids
    BY <1>2, Apart DEF TypeOK
  <2> QED
    BY <1>0, <1>1, <1>2, <1>4, <2>1 DEF HeldOn
<1> QED
  BY <1>0, <1>1, <1>3, <1>7, <1>12, <1>13, <1>14 DEF RInv

\* A slot's names become a fresh sealed region's.
LEMMA SealRInv ==
    ASSUME RInv, IInv', NEW s \in Slots, Seal(s)
    PROVE  RInv' /\ \E p \in Regions \ {s} : bundle' = Splice(s, p)
<1>a. dying = s /\ Vacate(s) /\ ~Unreached(s)
  BY DEF Seal
<1>2. /\ IInv /\ TypeOK /\ Names /\ HomesNamed /\ HeldOn /\ reaches \in [Slots -> Seq(Masks)]
      /\ target = NoId /\ held[s] \subseteq tier /\ tier \subseteq Ids /\ pins[s] \subseteq Slots
      /\ \A t \in Slots : t \in Holding(s) <=> s \in pins[t]
  BY <1>a, DyingFacts DEF RInv, IInv, Kinds, TypeOK
<1>3. /\ Occupied(s) /\ ~Occupied(s)'
      /\ \A t \in Slots \ {s} : (Occupied(t)' <=> Occupied(t)) /\ Occupant(t)' = Occupant(t)
      /\ Born' = Born /\ Departed' = Departed \cup {Occupant(s)} /\ UNCHANGED kept
      /\ serial + 1 <= MaxBirths
  BY <1>a, <1>2, Vacated
<1>4. PICK id : id = serial + 1
  OBVIOUS
<1>5. /\ id \in Ids /\ id \notin tier
      /\ \A n \in tier : n # id
  BY <1>2, <1>3, <1>4, Fresh
<1>6. PICK named : named = {n \in naming[s] \cap tier : s \in aggSlots[n]}
  OBVIOUS
<1>7. \A n \in tier : n \in named <=> s \in aggSlots[n]
  BY <1>2, <1>6 DEF Names, CountsExact
<1>1. /\ pins' = [o \in Slots |-> IF o = s THEN {} ELSE pins[o] \ {s}]
      /\ held' = [o \in Slots |-> IF o = s THEN {}
                                  ELSE held[o] \cup (IF o \in Holding(s) THEN {id} ELSE {})]
      /\ reaches' = [o \in Slots |->
              IF o = s THEN <<>>
              ELSE IF o \in Holding(s) THEN Replaced(reaches[o], s, id) ELSE reaches[o]]
      /\ aggSlots' = [n \in Ids |->
              IF n = id THEN pins[s] ELSE IF n \in named THEN aggSlots[n] \ {s} ELSE aggSlots[n]]
      /\ aggIds' = [n \in Ids |->
              IF n = id THEN held[s] ELSE IF n \in named THEN aggIds[n] \cup {id} ELSE aggIds[n]]
      /\ holders' = [holders EXCEPT ![id] = Cardinality(Holding(s)) + Cardinality(naming[s])]
  BY <1>4, <1>6 DEF Seal
<1>8. /\ Forward(Lineage(s) \cup Departing(s), id)
      /\ bundle' = Splice(s, id)
      /\ tier' = tier \cup {id}
      /\ target' = id /\ UNCHANGED reads
  BY <1>4 DEF Seal
<1>9. /\ aggSlots'[id] = pins[s] /\ aggIds'[id] = held[s]
      /\ \A n \in tier : /\ aggSlots'[n] = aggSlots[n] \ {s} /\ aggSlots[n] \in SUBSET Slots
                         /\ aggIds'[n] = aggIds[n] \cup (IF n \in named THEN {id} ELSE {})
                         /\ holders'[n] = holders[n]
  BY <1>1, <1>2, <1>5, <1>7 DEF TypeOK
<1>10. Leaves(s, {Occupant(s)})
  BY <1>2, <1>3, <1>5, <1>8, Apart DEF Leaves, Regions
<1>11. id \in Regions /\ id # s /\ id \notin Slots /\ s \in Regions /\ s \notin Ids
  BY <1>5, Apart DEF Regions
<1>12. ASSUME NEW q \in Regions \ {s} PROVE Follows(Under(q), Under(q)', s, id)
  <2>1. CASE q \in Slots
    <3>1. /\ pins'[q] = pins[q] \ {s} /\ held[q] \subseteq held'[q] /\ held[q] \subseteq Ids
          /\ s \in pins[q] => id \in held'[q]
      BY <1>1, <1>2, <2>1 DEF TypeOK
    <3> QED
      BY <1>11, <2>1, <3>1 DEF Under, Follows
  <2>2. CASE q = id
    BY <1>5, <1>11, <2>2 DEF Under, Follows
  <2>3. CASE q \in tier
    <3>1. q \notin Slots /\ s \notin aggIds[q] /\ q \in tier'
      BY <1>2, <1>8, <2>3, Apart DEF TypeOK
    <3> QED
      BY <1>7, <1>9, <2>3, <3>1 DEF Under, Follows
  <2>4. CASE q \notin Slots /\ q \notin tier
    BY <2>4 DEF Under, Follows
  <2> QED
    BY <2>1, <2>2, <2>3, <2>4
<1>13. Under(s) \ {s} \subseteq Under(id)'
  BY <1>8, <1>9, <1>11 DEF Under
<1>14. ASSUME NEW t \in Slots \ {s}, NEW k \in DOMAIN reaches[t]
       PROVE  /\ Follows(Named(reaches[t][k]), Named(reaches'[t][k]), s, id)
              /\ DOMAIN reaches'[t] = DOMAIN reaches[t]
              /\ reaches'[t][k].slab = reaches[t][k].slab \ {s}
  <2>1. /\ reaches[t][k].slab \subseteq pins[t] \cup {t} /\ reaches[t][k].ids \subseteq Ids
        /\ DOMAIN reaches[t] = 1 .. Len(reaches[t])
    BY <1>2 DEF IInv, MovesWhole, MasksCovered, TypeOK
  <2>2. CASE t \notin Holding(s)
    <3>1. s \notin pins[t] /\ reaches'[t] = reaches[t]
      BY <1>1, <1>2, <2>2
    <3>2. s \notin Named(reaches[t][k]) /\ s \notin reaches[t][k].slab
      BY <1>11, <2>1, <3>1 DEF Named
    <3> QED
      BY <3>1, <3>2 DEF Follows
  <2>3. CASE t \in Holding(s)
    <3>1. reaches'[t] = Replaced(reaches[t], s, id)
      BY <1>1, <2>3
    <3>2. /\ DOMAIN reaches'[t] = DOMAIN reaches[t]
          /\ reaches'[t][k] = IF s \in reaches[t][k].slab
                              THEN [slab |-> reaches[t][k].slab \ {s},
                                    ids |-> reaches[t][k].ids \cup {id}]
                              ELSE reaches[t][k]
      BY <2>1, <3>1 DEF Replaced
    <3>3. CASE s \in reaches[t][k].slab
      <4>1. /\ reaches'[t][k].slab = reaches[t][k].slab \ {s}
            /\ reaches'[t][k].ids = reaches[t][k].ids \cup {id}
        BY <3>2, <3>3
      <4> QED
        BY <3>2, <4>1 DEF Named, Follows
    <3>4. CASE s \notin reaches[t][k].slab
      BY <1>11, <2>1, <3>2, <3>4 DEF Named, Follows
    <3> QED
      BY <3>3, <3>4
  <2> QED
    BY <2>2, <2>3
<1>15. (\A e \in reads : ReadKept(e)') /\ (\A v \in kept : ValueKept(v)')
  <2>1. ASSUME NEW t \in Slots \ {s}, NEW k \in DOMAIN reaches[t]
        PROVE  Follows(Named(reaches[t][k]), Named(reaches'[t][k]), s, id)
    BY <1>14
  <2> QED
    BY <1>5, <1>8, <1>10, <1>12, <1>13, <2>1, AllSeals
<1>16. HomesNamed'
  <2> SUFFICES ASSUME NEW t \in Slots, NEW k \in DOMAIN reaches'[t], reaches'[t][k].slab # {}
               PROVE  t \in reaches'[t][k].slab
    BY DEF HomesNamed
  <2>1. t # s
    BY <1>1
  <2>2. k \in DOMAIN reaches[t]
    <3>1. reaches[t] \in Seq(Masks)
      BY <1>2
    <3>2. DOMAIN reaches'[t] = DOMAIN reaches[t]
      BY <1>1, <2>1, <3>1 DEF Replaced
    <3> QED
      BY <3>2
  <2> QED
    BY <1>2, <1>14, <2>1, <2>2 DEF HomesNamed
<1>17. HeldOn'
  <2>1. NoId \notin Ids
    BY Apart
  <2> QED
    BY <1>2, <1>8, <1>9, <2>1 DEF HeldOn
<1> QED
  BY <1>3, <1>8, <1>11, <1>15, <1>16, <1>17 DEF RInv

\* The one cell that holds a slot takes in its storage, its holds, its tables and its keys.
LEMMA AbsorbIntoCellRInv ==
    ASSUME RInv, IInv', NEW s \in Slots, AbsorbIntoCell(s)
    PROVE  RInv' /\ \E p \in Regions \ {s} : bundle' = Splice(s, p)
<1>0. PICK into \in Slots :
        /\ Holding(s) = {into}
        /\ pins' = [pins EXCEPT ![s] = {}, ![into] = (@ \cup pins[s]) \ {s, into}]
        /\ held' = [held EXCEPT ![s] = {}, ![into] = @ \cup held[s]]
        /\ MigrateReaches(s, into)
        /\ bundle' = Splice(s, into)
  BY DEF AbsorbIntoCell
<1>1. /\ dying = s /\ naming[s] = {} /\ Vacate(s)
      /\ UNCHANGED <<naming, tier, serial, aggSlots, aggIds, holders, target, reads>>
  BY DEF AbsorbIntoCell, sealed
<1>2. /\ IInv /\ TypeOK /\ Names /\ HomesNamed /\ HeldOn /\ reaches \in [Slots -> Seq(Masks)]
      /\ Occupied(s) /\ held[s] \subseteq Ids /\ pins[s] \subseteq Slots \ {s}
      /\ \A t \in Slots : t \in Holding(s) <=> s \in pins[t]
  BY <1>1, DyingFacts DEF RInv, IInv, Kinds, TypeOK
<1>3. /\ ~Occupied(s)' /\ UNCHANGED kept
      /\ \A t \in Slots \ {s} : (Occupied(t)' <=> Occupied(t)) /\ Occupant(t)' = Occupant(t)
      /\ Born' = Born /\ Departed' = Departed \cup {Occupant(s)}
  BY <1>1, <1>2, Vacated
<1>4. into # s /\ Occupied(into) /\ \A t \in Slots : s \in pins[t] <=> t = into
  <2>1. into \in Holding(s)
    BY <1>0
  <2> QED
    BY <1>0, <1>2, <2>1 DEF Holding
<1>5. /\ pins'[into] = (pins[into] \cup pins[s]) \ {s, into}
      /\ held'[into] = held[into] \cup held[s]
      /\ \A t \in Slots : t # s /\ t # into => pins'[t] = pins[t] /\ held'[t] = held[t]
  BY <1>0, <1>2, <1>4 DEF TypeOK
<1>6. Leaves(s, {Occupant(s)})
  <2>1. tier' = tier /\ s \notin tier /\ s \notin Ids
    BY <1>1, <1>2, Apart DEF TypeOK
  <2> QED
    BY <1>2, <1>3, <2>1 DEF Leaves, Regions
<1>7. PICK new : new = Stripped(reaches[into], s) \o Rehomed(reaches[s], s, into)
  OBVIOUS
<1>8. MovedIn(new, s, into)
  BY <1>2, <1>4, <1>7, Migrates
<1>9. /\ reaches'[s] = <<>> /\ reaches'[into] = new
      /\ \A t \in Slots : t # s /\ t # into => reaches'[t] = reaches[t]
  <2>1. reaches' = [reaches EXCEPT ![s] = <<>>, ![into] = new]
    BY <1>0, <1>2, <1>4, <1>7 DEF MigrateReaches
  <2> QED
    BY <1>2, <1>4, <2>1
<1>10. into \in Regions /\ into \notin Ids /\ s \in Regions /\ s \notin Ids /\ s \notin tier
  BY <1>2, Apart DEF Regions, TypeOK
<1>11. ASSUME NEW q \in Regions \ {s} PROVE Follows(Under(q), Under(q)', s, into)
  <2>1. CASE q = into
    BY <1>4, <1>5, <1>10, <2>1 DEF Under, Follows
  <2>2. CASE q \in Slots /\ q # into
    <3>1. pins'[q] = pins[q] /\ held'[q] = held[q] /\ held[q] \subseteq Ids /\ s \notin pins[q]
      BY <1>2, <1>4, <1>5, <2>2 DEF TypeOK
    <3> QED
      BY <1>10, <2>2, <3>1 DEF Under, Follows
  <2>3. CASE q \in tier
    <3>1. q \in Ids /\ q \notin Slots /\ s \notin aggIds[q]
      BY <1>2, <1>10, <2>3, Apart DEF TypeOK
    <3>2. s \notin aggSlots[q]
      BY <1>1, <1>2, <2>3 DEF Names, CountsExact
    <3> QED
      BY <1>1, <2>3, <3>1, <3>2 DEF Under, Follows
  <2>4. CASE q \notin Slots /\ q \notin tier
    BY <1>1, <2>4 DEF Under, Follows
  <2> QED
    BY <2>1, <2>2, <2>3, <2>4
<1>12. Under(s) \ {s} \subseteq Under(into)'
  BY <1>2, <1>4, <1>5, <1>10 DEF Under
<1>13. ASSUME NEW t \in Slots \ {s}, NEW k \in DOMAIN reaches[t]
       PROVE  Follows(Named(reaches[t][k]), Named(reaches'[t][k]), s, into)
  <2>1. /\ reaches[t][k].slab \subseteq pins[t] \cup {t} /\ s \notin reaches[t][k].ids
        /\ reaches[t][k].slab # {} => t \in reaches[t][k].slab
    BY <1>2, <1>10 DEF IInv, MovesWhole, MasksCovered, TypeOK, HomesNamed, Masks
  <2>2. CASE t = into
    <3>1. /\ reaches'[t][k].slab = reaches[t][k].slab \ {s}
          /\ reaches'[t][k].ids = reaches[t][k].ids
      BY <1>8, <1>9, <2>2 DEF MovedIn
    <3> QED
      BY <1>4, <2>1, <2>2, <3>1 DEF Named, Follows
  <2>3. CASE t # into
    <3>1. reaches'[t] = reaches[t] /\ s \notin Named(reaches[t][k])
      BY <1>4, <1>9, <2>1, <2>3 DEF Named
    <3> QED
      BY <3>1 DEF Follows
  <2> QED
    BY <2>2, <2>3
<1>14. ASSUME NEW k \in DOMAIN reaches[s]
       PROVE  Follows(Named(reaches[s][k]), Named(reaches'[into][Len(reaches[into]) + k]), s, into)
  <2>1. /\ reaches'[into][Len(reaches[into]) + k].slab = (reaches[s][k].slab \ {s}) \cup {into}
        /\ reaches'[into][Len(reaches[into]) + k].ids = reaches[s][k].ids
    BY <1>8, <1>9 DEF MovedIn
  <2> QED
    BY <2>1 DEF Named, Follows
<1>15. (\A e \in reads : ReadKept(e)') /\ (\A v \in kept : ValueKept(v)')
  <2>1. PICK gone : gone = {Occupant(s)}
    OBVIOUS
  <2>2. PICK D \in SUBSET gone : D = Departing(s) /\ \A v \in kept : v.home \in gone => v.home \in D
    BY <1>2, <2>1, DepartingKept
  <2>3. PICK off \in Nat : off = Len(reaches[into])
    BY <1>2
  <2>4. \A b \in D : b \in Births /\ b \notin Lineage(s)
    <3>1. \A b \in D : b \in Births /\ fate[b] = Nowhere
      BY <1>2, <1>6, <2>1, LeavesFacts
    <3> QED
      BY <3>1, Apart DEF Lineage
  <2>5. /\ fate' = [b \in Births |-> IF b \in Lineage(s) \cup D THEN into ELSE fate[b]]
        /\ first' = [b \in Births |-> CASE b \in D -> off
                                        [] b \in Lineage(s) -> off + first[b]
                                        [] OTHER -> first[b]]
    BY <1>0, <2>2, <2>3 DEF MigrateReaches, FirstMoved
  <2>6. /\ \A b \in Births : b \notin Lineage(s) \cup D => first'[b] = first[b]
        /\ \A b \in Lineage(s) : first'[b] = off + first[b]
        /\ \A b \in D : first'[b] = off
    BY <2>4, <2>5 DEF Lineage
  <2>7. \A k \in DOMAIN reaches[s] :
            Follows(Named(reaches[s][k]), Named(reaches'[into][off + k]), s, into)
    BY <1>14, <2>3
  <2>8. Leaves(s, gone) /\ bundle' = Splice(s, into)
    BY <1>0, <1>6, <2>1
  <2>9. Moved(s, into, gone, off, D)
    <3>1. fate' = [b \in Births |-> IF b \in Lineage(s) \cup D THEN into ELSE fate[b]]
      BY <2>5
    <3> QED
      BY <1>11, <1>12, <1>13, <2>2, <2>6, <2>7, <2>8, <3>1 DEF Moved
  <2> QED
    BY <1>4, <1>10, <2>9, AllMoves
<1>16. HomesNamed'
  <2> SUFFICES ASSUME NEW t \in Slots, NEW k \in DOMAIN reaches'[t], reaches'[t][k].slab # {}
               PROVE  t \in reaches'[t][k].slab
    BY DEF HomesNamed
  <2>1. t # s
    BY <1>9
  <2>2. CASE t = into
    <3>1. k \in DOMAIN new
      BY <1>9, <2>2
    <3>2. CASE k \in DOMAIN reaches[into]
      <4>1. new[k].slab = reaches[into][k].slab \ {s}
        BY <1>8, <3>2 DEF MovedIn
      <4>2. reaches[into][k].slab # {} => into \in reaches[into][k].slab
        BY <1>2, <3>2 DEF HomesNamed
      <4> QED
        BY <1>4, <1>9, <2>2, <4>1, <4>2
    <3>3. CASE k \notin DOMAIN reaches[into]
      <4>1. PICK j \in DOMAIN reaches[s] : k = Len(reaches[into]) + j
        BY <1>8, <3>1, <3>3 DEF MovedIn
      <4>2. new[k].slab = (reaches[s][j].slab \ {s}) \cup {into}
        BY <1>8, <4>1 DEF MovedIn
      <4> QED
        BY <1>9, <2>2, <4>2
    <3> QED
      BY <3>2, <3>3
  <2>3. CASE t # into
    BY <1>2, <1>9, <2>1, <2>3 DEF HomesNamed
  <2> QED
    BY <2>2, <2>3
<1>17. HeldOn'
  BY <1>1, <1>2 DEF HeldOn
<1> QED
  BY <1>0, <1>1, <1>3, <1>4, <1>10, <1>15, <1>16, <1>17 DEF RInv

\* What is held once and by the target, the target alone holds.
LEMMA NamedOnce ==
    ASSUME IInv, target \in tier, NEW source \in tier, source \in aggIds[target],
           holders[source] = 1, drops[source] = 0
    PROVE  HeldBy(source) = {} /\ NamedBy(source) = {target}
<1>1. TypeOK /\ CountsExact /\ source \in Ids
  BY DEF IInv, Kinds, TypeOK
<1>2. /\ holders[source] = Cardinality(HeldBy(source)) + Cardinality(NamedBy(source)) + 0
      /\ Cardinality(HeldBy(source)) \in Nat /\ Cardinality(NamedBy(source)) \in Nat
  BY <1>1, CountsAre, Sizes
<1>3. /\ target \in NamedBy(source)
      /\ IsFiniteSet(NamedBy(source)) /\ IsFiniteSet(HeldBy(source))
  <2>1. HeldBy(source) \subseteq Slots /\ NamedBy(source) \subseteq Ids
    BY <1>1 DEF HeldBy, NamedBy, TypeOK
  <2> QED
    BY <2>1, Apart, FS_Subset DEF NamedBy
<1>4. Cardinality(NamedBy(source)) = 1 /\ Cardinality(HeldBy(source)) = 0
  <2>1. Cardinality(NamedBy(source)) # 0
    BY <1>3, FS_EmptySet
  <2> QED
    BY <1>2, <2>1
<1>5. PICK x : NamedBy(source) = {x}
  BY <1>3, <1>4, FS_Singleton
<1> QED
  BY <1>3, <1>4, <1>5, FS_EmptySet

\* A region that only the target holds folds into it.
LEMMA AbsorbSingletonRInv ==
    ASSUME RInv, IInv', NEW source \in Ids, AbsorbSingleton(source)
    PROVE  RInv' /\ (UNCHANGED bundle \/ \E p \in Regions \ {source} : bundle' = Splice(source, p))
<1>1. /\ target # NoId /\ Settled /\ holders[target] > 0 /\ source \in merging
      /\ UNCHANGED <<cells, matrix, reaches, serial, dying, target, carried>>
  BY DEF AbsorbSingleton
<1>2. /\ IInv /\ TypeOK /\ Names /\ TargetOK /\ HomesNamed /\ HeldOn /\ tier \subseteq Ids
      /\ target \in Ids
  BY <1>1 DEF RInv, IInv, Kinds, Names, TypeOK
<1>3. /\ target \in tier /\ source \in aggIds[target] /\ source # target /\ source \in tier
      /\ drops[source] = 0
  <2>1. target \in tier /\ merging \subseteq aggIds[target]
    BY <1>1, <1>2 DEF TargetOK
  <2>2. aggIds[target] \subseteq tier \ {target}
    BY <1>2, <2>1 DEF Names, NamesLive
  <2> QED
    BY <1>1, <2>1, <2>2 DEF Settled
<1>4. /\ UNCHANGED <<gen, life, pins, tally, held, reaches, target, kept, reads>>
      /\ \A s \in Slots : (Occupied(s)' <=> Occupied(s)) /\ Occupant(s)' = Occupant(s)
  BY <1>1 DEF cells, matrix, carried, Occupied, Occupant
<1>5. HomesNamed'
  BY <1>2, <1>4 DEF HomesNamed
<1>6. CASE holders[source] # 1
  <2>1. UNCHANGED <<fate, first, naming, tier, aggSlots, aggIds, holders, bundle, drops>>
    BY <1>6 DEF AbsorbSingleton
  <2>2. HeldOn'
    BY <1>2, <1>4, <2>1 DEF HeldOn
  <2>3. /\ UNCHANGED <<gen, pins, held, reaches, fate, first, tier, aggSlots, aggIds, bundle>>
        /\ UNCHANGED <<kept, reads>>
    BY <1>4, <2>1
  <2> QED
    BY <1>4, <2>1, <2>2, <2>3, StillRInv
<1>7. CASE holders[source] = 1
  <2>1. /\ FoldIntoSealed(target, aggSlots[source], aggIds[source], aggSlots[target],
                          aggIds[target] \ {source}, [t \in Slots |-> naming[t] \ {source}])
        /\ tier' = tier \ {source}
        /\ Forward(Lineage(source), target)
        /\ bundle' = Splice(source, target)
    BY <1>3, <1>7 DEF AbsorbSingleton
  <2>2. /\ aggSlots'[target] = aggSlots[target] \cup aggSlots[source]
        /\ aggIds'[target] = (aggIds[target] \ {source}) \cup (aggIds[source] \ {target})
        /\ \A n \in Ids : n # target => /\ aggSlots'[n] = aggSlots[n] /\ aggIds'[n] = aggIds[n]
                                        /\ holders'[n] = holders[n]
    BY <1>2, <1>3, <2>1 DEF FoldIntoSealed, TypeOK
  <2>3. HeldBy(source) = {} /\ NamedBy(source) = {target}
    BY <1>2, <1>3, <1>7, NamedOnce
  <2>4. /\ \A t \in Slots : source \notin held[t]
        /\ \A n \in tier : n # target => source \notin aggIds[n]
    BY <2>3 DEF HeldBy, NamedBy
  <2>5. /\ Born' = Born /\ Departed' = Departed
    <3>1. \A b \in Births : b[1] \in Slots
      BY DEF Births
    <3> QED
      BY <1>4, <3>1 DEF Born, Departed
  <2>6. Leaves(source, {})
    BY <1>2, <1>3, <1>4, <2>1, <2>5, Apart DEF Leaves, Regions
  <2>7. /\ source \in Regions /\ target \in Regions /\ target # source
        /\ source \notin Slots /\ target \notin Slots
    BY <1>2, <1>3, Apart DEF Regions
  <2>8. ASSUME NEW q \in Regions \ {source} PROVE Follows(Under(q), Under(q)', source, target)
    <3>1. CASE q \in Slots
      <4>1. source \notin pins[q] /\ source \notin held[q]
        BY <1>2, <2>4, <2>7, <3>1 DEF TypeOK
      <4> QED
        BY <1>4, <3>1, <4>1 DEF Under, Follows
    <3>2. CASE q = target
      BY <1>3, <2>1, <2>2, <2>7, <3>2 DEF Under, Follows
    <3>3. CASE q \in tier /\ q # target
      <4>1. /\ q \in tier' /\ q \in Ids /\ source \notin aggIds[q] /\ source \notin aggSlots[q]
            /\ q \notin Slots /\ source # q
        BY <1>2, <2>1, <2>4, <2>7, <3>3, Apart DEF TypeOK
      <4> QED
        BY <2>2, <3>3, <4>1 DEF Under, Follows
    <3>4. CASE q \notin Slots /\ q \notin tier
      BY <2>1, <3>4 DEF Under, Follows
    <3> QED
      BY <3>1, <3>2, <3>3, <3>4
  <2>9. Under(source) \ {source} \subseteq Under(target)'
    BY <1>3, <1>4, <2>1, <2>2, <2>7 DEF Under
  <2>10. ASSUME NEW t \in Slots \ {source}, NEW k \in DOMAIN reaches[t]
         PROVE  Follows(Named(reaches[t][k]), Named(reaches'[t][k]), source, target)
    <3>1. source \notin Named(reaches[t][k])
      <4>1. /\ reaches[t][k].slab \subseteq Slots /\ reaches[t][k].ids \subseteq held[t]
        BY <1>2 DEF IInv, MovesWhole, MasksCovered, TypeOK, Masks
      <4> QED
        BY <2>4, <2>7, <4>1 DEF Named
    <3> QED
      BY <1>4, <3>1 DEF Follows
  <2>11. (\A e \in reads : ReadKept(e)') /\ (\A v \in kept : ValueKept(v)')
    <3>1. PICK D : D = {}
      OBVIOUS
    <3>2. /\ fate' = [b \in Births |-> IF b \in Lineage(source) \cup D THEN target ELSE fate[b]]
          /\ \A b \in Births : b \notin Lineage(source) \cup D => first'[b] = first[b]
          /\ Leaves(source, D)
      <4>1. first \in [Births -> Nat]
        BY <1>2 DEF TypeOK
      <4> QED
        BY <2>1, <2>6, <3>1, <4>1 DEF Forward
    <3>3. Moved(source, target, D, 0, D)
      BY <2>1, <2>7, <2>8, <2>9, <2>10, <3>2 DEF Moved
    <3>4. D \in SUBSET D /\ 0 \in Nat /\ (source \in Ids => target \in Ids)
      BY <1>2
    <3> QED
      BY <2>7, <3>3, <3>4, AllMoves
  <2>12. HeldOn'
    BY <1>2, <1>4, <2>1, <2>2 DEF HeldOn
  <2> QED
    BY <1>4, <1>5, <2>1, <2>7, <2>11, <2>12 DEF RInv
<1> QED
  BY <1>6, <1>7

-----------------------------------------------------------------------------
\* The specification.

\* Nothing is read and nothing kept.
LEMMA InitRInv == Init => RInv
<1> SUFFICES ASSUME Init PROVE RInv
  OBVIOUS
<1>1. IInv
  BY InitIInv
<1>2. HomesNamed /\ HeldOn
  BY DEF Init, HomesNamed, HeldOn
<1> QED
  BY <1>1, <1>2 DEF Init, RInv

\* Every verb, every disposal and every step of a cascade keeps what is read.
LEMMA NextRInv == RInv /\ [Next]_vars => RInv'
<1> SUFFICES ASSUME RInv, [Next]_vars PROVE RInv'
  OBVIOUS
<1>0. IInv'
  BY NextIInv DEF RInv
<1>1. CASE UNCHANGED vars
  BY <1>0, <1>1, StutterRInv
<1>2. ASSUME NEW s \in Slots, Create(s) \/ Rest(s) \/ Attach(s) \/ Detach(s) \/ Release(s)
      PROVE  RInv'
  BY <1>0, <1>2, CreateRInv, RestRInv, BelowRInv
<1>3. ASSUME NEW e \in Slots, NEW s \in Slots, Hold(e, s) \/ AllocInto(e, s)
      PROVE  RInv'
  BY <1>0, <1>3, HoldRInv, AllocIntoRInv
<1>4. ASSUME NEW s \in Slots, Dispose(s)
      PROVE  RInv'
  BY <1>0, <1>4, ReclaimRInv, AbsorbIntoCellRInv, FoldIntoNamerRInv, SealRInv DEF Dispose
<1>5. ASSUME NEW id \in Ids, ReleaseSealedHold(id) \/ AbsorbSingleton(id)
      PROVE  RInv'
  BY <1>0, <1>5, ReleaseSealedHoldRInv, AbsorbSingletonRInv
<1>6. CASE ReclaimUnheld \/ Flat
  BY <1>0, <1>6, ReclaimUnheldRInv, FlatRInv
<1> QED
  BY <1>1, <1>2, <1>3, <1>4, <1>5, <1>6 DEF Next, Cascade

\* What is read is kept, in every reachable state.
LEMMA SlabKeeps == Spec => []RInv
<1>1. Init => RInv
  BY InitRInv
<1>2. RInv /\ [Next]_vars => RInv'
  BY NextRInv
<1> QED
  BY <1>1, <1>2, PTL DEF Spec

-----------------------------------------------------------------------------
\* The promise: each step is one of the abstract specification's.

\* The cells that have a slot, and the bytes there are.
Alive == {Occupant(s) : s \in {t \in Slots : Occupied(t)}}
There == Bytes(Regions)

\* Those are births, and the slot's own bytes lie in its region.
LEMMA AliveThere ==
    IInv => /\ Alive \subseteq Births /\ There \subseteq Born /\ Born \subseteq Births
            /\ \A s \in Slots : Occupied(s) =>
                    Occupant(s) \in bundle[s] /\ bundle[s] \subseteq There
            /\ \A r \in Regions : bundle[r] \subseteq There
<1> SUFFICES ASSUME IInv
             PROVE  /\ Alive \subseteq Births /\ There \subseteq Born /\ Born \subseteq Births
                    /\ \A s \in Slots : Occupied(s) =>
                            Occupant(s) \in bundle[s] /\ bundle[s] \subseteq There
                    /\ \A r \in Regions : bundle[r] \subseteq There
  OBVIOUS
<1>1. TypeOK /\ BundlesOK
  BY DEF IInv, Kinds
<1>2. \A r \in Regions : bundle[r] \subseteq There
  BY DEF There, Bytes
<1>3. \A s \in Slots : Occupied(s) => Occupant(s) \in Born
  BY <1>1, OccupantBorn
<1>4. There \subseteq Born /\ Born \subseteq Births
  BY <1>1 DEF There, Bytes, BundlesOK, Born
<1>5. Alive \subseteq Births
  BY <1>3, <1>4 DEF Alive
<1> QED
  BY <1>1, <1>2, <1>4, <1>5, RegionKinds DEF BundlesOK

\* Where no slot is taken or left, no bytes come or go and nothing crosses, the promise stutters.
LEMMA Stutters ==
    ASSUME \A s \in Slots : (Occupied(s)' <=> Occupied(s)) /\ Occupant(s)' = Occupant(s),
           There' = There, UNCHANGED reads
    PROVE  UNCHANGED Promise!vars
<1>1. Alive' = Alive
  BY DEF Alive
<1> QED
  BY <1>1 DEF Alive, There, Promise!vars

\* A slot is left and its storage spliced into another region, or a sealed region's is.
LEMMA SpliceKeeps ==
    ASSUME IInv, NEW r \in Regions, NEW p \in Regions \ {r}, bundle' = Splice(r, p)
    PROVE  There' = There
<1>1. bundle \in [Regions -> SUBSET Births]
  BY DEF IInv, Kinds, TypeOK
<1>2. /\ bundle'[p] = bundle[p] \cup bundle[r] /\ bundle'[r] = {}
      /\ \A q \in Regions : q # p /\ q # r => bundle'[q] = bundle[q]
  BY <1>1 DEF Splice
<1> QED
  BY <1>2 DEF There, Bytes

\* A region's storage is freed.
LEMMA FreeTakes ==
    ASSUME IInv, NEW r \in Regions, bundle' = [bundle EXCEPT ![r] = {}]
    PROVE  There' = There \ bundle[r]
<1>1. bundle \in [Regions -> SUBSET Births]
  BY DEF IInv, Kinds, TypeOK
<1>2. bundle'[r] = {} /\ \A q \in Regions : q # r => bundle'[q] = bundle[q]
  BY <1>1
<1>3. \A q \in Regions : q # r => bundle[q] \cap bundle[r] = {}
  BY DEF IInv, BundlesOK
<1> QED
  BY <1>2, <1>3 DEF There, Bytes

\* A slot is left.
LEMMA AliveLoses ==
    ASSUME NEW s \in Slots, ~Occupied(s)',
           \A t \in Slots \ {s} : (Occupied(t)' <=> Occupied(t)) /\ Occupant(t)' = Occupant(t)
    PROVE  Alive' = Alive \ {Occupant(s)}
<1>1. \A t \in Slots : t # s => Occupant(t) # Occupant(s)
  BY DEF Occupant
<1> QED
  BY <1>1 DEF Alive

\* A cell leaves its slot and its storage goes on elsewhere: the abstract cell leaves, and
\* nothing is freed.
LEMMA MovesLeave ==
    ASSUME IInv, NEW s \in Slots, dying = s, Vacate(s), UNCHANGED reads,
           NEW p \in Regions \ {s}, bundle' = Splice(s, p)
    PROVE  Promise!Next
<1>1. /\ Occupied(s) /\ ~Occupied(s)'
      /\ \A t \in Slots \ {s} : (Occupied(t)' <=> Occupied(t)) /\ Occupant(t)' = Occupant(t)
  <2>1. Occupied(s) /\ TypeOK
    BY DyingFacts DEF IInv, Kinds
  <2> QED
    BY <2>1, Vacated
<1>2. Alive' = Alive \ {Occupant(s)} /\ Occupant(s) \in Alive
  BY <1>1, AliveLoses DEF Alive
<1>3. There' = There
  BY RegionKinds, SpliceKeeps
<1>4. Promise!Leave({Occupant(s)}, {})
  BY <1>2, <1>3 DEF Promise!Leave, Alive, There
<1>5. {Occupant(s)} \in SUBSET Alive /\ {} \in SUBSET There
  BY <1>2
<1> QED
  BY <1>4, <1>5 DEF Promise!Next, Alive, There

\* A sealed region is retired: its storage is freed, and no cell leaves a slot.
LEMMA RetireLeaves ==
    ASSUME IInv, NEW id \in Ids, Retire(id), Unread(id),
           \A s \in Slots : (Occupied(s)' <=> Occupied(s)) /\ Occupant(s)' = Occupant(s)
    PROVE  Promise!Next
<1>1. bundle' = [bundle EXCEPT ![id] = {}] /\ reads' = {e \in reads : e[1] \notin bundle[id]}
  BY DEF Retire, Free
<1>2. Alive' = Alive
  BY DEF Alive
<1>3. There' = There \ bundle[id] /\ bundle[id] \subseteq There
  BY <1>1, RegionKinds, FreeTakes, AliveThere
<1>4. bundle[id] \cap (Alive \ {}) = {}
  <2>1. ASSUME NEW s \in Slots, Occupied(s) PROVE Occupant(s) \notin bundle[id]
    BY <2>1, RegionKinds, OwnBytes
  <2> QED
    BY <2>1 DEF Alive
<1>5. Promise!Leave({}, bundle[id])
  <2>1. Alive' = Alive \ {}
    BY <1>2
  <2> QED
    BY <1>1, <1>3, <1>4, <2>1 DEF Promise!Leave, Alive, There, Unread
<1> QED
  BY <1>3, <1>5 DEF Promise!Next, Alive, There

\* A cell is reclaimed: it leaves its slot, and its storage is freed.
LEMMA ReclaimLeaves ==
    ASSUME IInv, NEW s \in Slots, Reclaim(s), Unread(s)
    PROVE  Promise!Next
<1>0. /\ dying = s /\ Vacate(s) /\ bundle' = [bundle EXCEPT ![s] = {}]
      /\ reads' = {e \in reads : e[1] \notin bundle[s]}
  BY DEF Reclaim, Free
<1>1. /\ Occupied(s) /\ ~Occupied(s)'
      /\ \A t \in Slots \ {s} : (Occupied(t)' <=> Occupied(t)) /\ Occupant(t)' = Occupant(t)
  <2>1. Occupied(s) /\ TypeOK
    BY <1>0, DyingFacts DEF IInv, Kinds
  <2> QED
    BY <1>0, <2>1, Vacated
<1>2. Alive' = Alive \ {Occupant(s)} /\ Occupant(s) \in Alive
  BY <1>1, AliveLoses DEF Alive
<1>3. There' = There \ bundle[s] /\ bundle[s] \subseteq There
  BY <1>0, RegionKinds, FreeTakes, AliveThere
<1>4. bundle[s] \cap (Alive \ {Occupant(s)}) = {}
  <2>1. ASSUME NEW t \in Slots, Occupied(t), Occupant(t) \in bundle[s] PROVE t = s
    BY <2>1, RegionKinds, OwnBytes
  <2> QED
    BY <2>1 DEF Alive
<1>5. Promise!Leave({Occupant(s)}, bundle[s])
  BY <1>0, <1>2, <1>3, <1>4 DEF Promise!Leave, Alive, There, Unread
<1> QED
  BY <1>2, <1>3, <1>5 DEF Promise!Next, Alive, There

\* A cell is created: a birth, of a cell that never was.
LEMMA CreateBirth ==
    ASSUME IInv, IInv', NEW s \in Slots, Create(s)
    PROVE  Promise!Next
<1>1. /\ ~Occupied(s) /\ life' = [life EXCEPT ![s] = "live"] /\ UNCHANGED <<gen, reads>>
      /\ bundle' = [bundle EXCEPT ![s] = {Occupant(s)}]
  BY DEF Create, carried
<1>2. TypeOK /\ BundlesOK /\ bundle[s] = {}
  BY <1>1 DEF IInv, Kinds, BundlesOK
<1>3. Occupied(s)' /\ \A t \in Slots \ {s} : Occupied(t)' <=> Occupied(t)
  BY <1>1, <1>2 DEF Occupied, TypeOK
<1>4. \A t \in Slots : Occupant(t)' = Occupant(t)
  BY <1>1 DEF Occupant
<1>5. Alive' = Alive \cup {Occupant(s)}
  BY <1>3, <1>4 DEF Alive
<1>6. There' = There \cup {Occupant(s)}
  <2>1. bundle'[s] = {Occupant(s)} /\ \A r \in Regions : r # s => bundle'[r] = bundle[r]
    BY <1>1, <1>2, RegionKinds DEF TypeOK
  <2> QED
    BY <1>2, <2>1, RegionKinds DEF There, Bytes
<1>7. Occupant(s) \notin There
  <2>1. Occupant(s) \notin Born
    <3>1. gen[s] \in Nat
      BY <1>2, SlabAssumption DEF TypeOK
    <3> QED
      BY <1>1, <3>1 DEF Born, Occupant
  <2> QED
    BY <2>1, AliveThere
<1>8. Occupant(s) \in Births
  BY <1>2 DEF Occupant, Births, TypeOK
<1>9. Promise!Birth(Occupant(s))
  BY <1>1, <1>5, <1>6, <1>7 DEF Promise!Birth, Alive, There
<1> QED
  BY <1>8, <1>9 DEF Promise!Next

\* A value is built in a live cell: what it reads is there.
LEMMA AllocCrosses ==
    ASSUME RInv, NEW e \in Slots, NEW dest \in Slots, AllocInto(e, dest)
    PROVE  Promise!Next
<1>1. PICK o \in Operands(e) :
        reads' = reads \cup ({Occupant(dest)} \X (o.over \ {Occupant(dest)}))
  BY DEF AllocInto
<1>2. Live(e) /\ Live(dest) /\ UNCHANGED <<gen, life, bundle>>
  BY DEF AllocInto, cells
<1>3. IInv /\ TypeOK
  BY DEF RInv, IInv, Kinds
<1>4. o.over \subseteq There
  <2>1. Closed(Regions) /\ Named(o.reach) \subseteq Regions
    <3>1. Closed(Regions)
      BY <1>3, RegionKinds, UnderRegions DEF Closed
    <3>2. o.reach \in Masks
      BY <1>2, <1>3, OperandOK DEF Sound
    <3> QED
      BY <3>1, <3>2, RegionKinds DEF Named, Masks
  <2>2. \A c \in o.over : Keeping(Named(o.reach), c)
    BY <1>2, OperandKept
  <2> QED
    BY <2>1, <2>2 DEF Keeping, There, Bytes
<1>5. Occupied(dest) /\ Occupant(dest) \in Alive /\ Alive' = Alive /\ There' = There
  BY <1>2 DEF Live, Occupied, Occupant, Alive, There, Bytes
<1>6. PICK storage \in SUBSET There : storage = o.over \ {Occupant(dest)}
  BY <1>4
<1>7. Promise!Cross(Occupant(dest), storage)
  BY <1>1, <1>5, <1>6 DEF Promise!Cross, Alive, There
<1> QED
  BY <1>3, <1>5, <1>6, <1>7, AliveThere DEF Promise!Next, There

\* Every other verb, and a cascade that retires nothing, takes no slot, no byte and no read.
LEMMA StillStutters ==
    ASSUME IInv, \/ \E s \in Slots : Rest(s) \/ Attach(s) \/ Detach(s) \/ Release(s)
                 \/ \E e, s \in Slots : Hold(e, s)
                 \/ Flat \/ UNCHANGED vars
    PROVE  UNCHANGED Promise!vars
<1>1. UNCHANGED <<gen, bundle, reads>>
  BY DEF Rest, Attach, Detach, Release, Hold, Flat, vars, cells, carried
<1>2. UNCHANGED life \/ \E s \in Slots : Live(s) /\ life' = [life EXCEPT ![s] = "dead"]
  BY DEF Rest, Attach, Detach, Release, Hold, Flat, vars, cells
<1>3. \A s \in Slots : (Occupied(s)' <=> Occupied(s)) /\ Occupant(s)' = Occupant(s)
  BY <1>1, <1>2 DEF IInv, Kinds, TypeOK, Occupied, Occupant, Live
<1>4. There' = There
  BY <1>1 DEF There, Bytes
<1> QED
  BY <1>1, <1>3, <1>4, Stutters

\* A step of the slab is a step of the promise, or none.
LEMMA StepsPromised ==
    ASSUME RInv, [Next]_vars
    PROVE  [Promise!Next]_(Promise!vars)
<1>0. IInv /\ IInv'
  BY NextIInv DEF RInv
<1>1. CASE \/ \E s \in Slots : Rest(s) \/ Attach(s) \/ Detach(s) \/ Release(s)
           \/ \E e, s \in Slots : Hold(e, s)
           \/ Flat \/ UNCHANGED vars
  <2>1. UNCHANGED Promise!vars
    BY <1>0, <1>1, StillStutters
  <2> QED
    BY <2>1
<1>2. ASSUME NEW s \in Slots, Create(s) PROVE Promise!Next
  BY <1>0, <1>2, CreateBirth
<1>3. ASSUME NEW e \in Slots, NEW s \in Slots, AllocInto(e, s) PROVE Promise!Next
  BY <1>3, AllocCrosses
<1>4. ASSUME NEW s \in Slots, Reclaim(s) PROVE Promise!Next
  BY <1>0, <1>4, ReclaimRInv, ReclaimLeaves
<1>5. ASSUME NEW s \in Slots, AbsorbIntoCell(s) \/ FoldIntoNamer(s) \/ Seal(s) PROVE Promise!Next
  <2>1. dying = s /\ Vacate(s) /\ UNCHANGED reads
    BY <1>5 DEF AbsorbIntoCell, FoldIntoNamer, Seal
  <2>2. PICK p \in Regions \ {s} : bundle' = Splice(s, p)
    BY <1>0, <1>5, AbsorbIntoCellRInv, FoldIntoNamerRInv, SealRInv
  <2> QED
    BY <1>0, <2>1, <2>2, MovesLeave
<1>6. ASSUME NEW id \in Ids, ReleaseSealedHold(id) PROVE [Promise!Next]_(Promise!vars)
  <2>1. \A s \in Slots : (Occupied(s)' <=> Occupied(s)) /\ Occupant(s)' = Occupant(s)
    BY <1>6 DEF ReleaseSealedHold, cells, Occupied, Occupant
  <2>2. CASE Retire(id) /\ Unread(id)
    BY <1>0, <2>1, <2>2, RetireLeaves
  <2>3. CASE UNCHANGED <<bundle, reads>>
    <3>1. There' = There
      BY <2>3 DEF There, Bytes
    <3> QED
      BY <2>1, <2>3, <3>1, Stutters
  <2> QED
    BY <1>0, <1>6, <2>2, <2>3, ReleaseSealedHoldRInv
<1>7. CASE ReclaimUnheld
  <2>1. \A s \in Slots : (Occupied(s)' <=> Occupied(s)) /\ Occupant(s)' = Occupant(s)
    BY <1>7 DEF ReclaimUnheld, cells, Occupied, Occupant
  <2>2. PICK id \in Ids : id = target
    BY <1>0, <1>7, ReclaimUnheldRInv
  <2>3. Retire(id) /\ Unread(id)
    BY <1>0, <1>7, <2>2, ReclaimUnheldRInv
  <2> QED
    BY <1>0, <2>1, <2>3, RetireLeaves
<1>8. ASSUME NEW id \in Ids, AbsorbSingleton(id) PROVE UNCHANGED Promise!vars
  <2>1. /\ \A s \in Slots : (Occupied(s)' <=> Occupied(s)) /\ Occupant(s)' = Occupant(s)
        /\ UNCHANGED reads
    BY <1>8 DEF AbsorbSingleton, cells, carried, Occupied, Occupant
  <2>2. UNCHANGED bundle \/ \E p \in Regions \ {id} : bundle' = Splice(id, p)
    BY <1>0, <1>8, AbsorbSingletonRInv
  <2>3. There' = There
    <3>1. CASE UNCHANGED bundle
      BY <3>1 DEF There, Bytes
    <3>2. CASE \E p \in Regions \ {id} : bundle' = Splice(id, p)
      BY <1>0, <3>2, RegionKinds, SpliceKeeps
    <3> QED
      BY <2>2, <3>1, <3>2
  <2> QED
    BY <2>1, <2>3, Stutters
<1> QED
  BY <1>1, <1>2, <1>3, <1>4, <1>5, <1>6, <1>7, <1>8 DEF Next, Cascade, Dispose

\* `ImplementsRetention`: every step of the slab and its sealed tier, for any slots, births and
\* carriers, is one of the abstract specification's: no storage is freed that a cell still in
\* its slot, or storage that stays, can read, over any chain of holds and after any number of
\* cells absorbed, sealed or folded on the way.
THEOREM RetentionHolds == Spec => ImplementsRetention
<1>1. Init => Promise!Init
  BY DEF Init, Promise!Init, Bytes, Occupied
<1>2. RInv /\ [Next]_vars => [Promise!Next]_(Promise!vars)
  BY StepsPromised
<1> QED
  BY <1>1, <1>2, SlabKeeps, PTL DEF Spec, ImplementsRetention, Promise!Spec

-----------------------------------------------------------------------------
\* What a reach keeps, as the walk along the holds finds it.

\* The holds, as a relation between regions.
HoldsOf == [r \in Regions |-> HeldThrough(r)]

\* The least set of regions closed under the holds that holds `B`.
Closure(B) == LeastClosed(Regions, B, HoldsOf)

\* There are finitely many regions.
LEMMA RegionsFinite == IsFiniteSet(Regions)
BY Apart, FS_Union DEF Regions

\* The holds lead from regions to regions.
LEMMA HoldsAre ==
    ASSUME TypeOK
    PROVE  HoldsOf \in [Regions -> SUBSET Regions]
BY DEF HoldsOf, HeldThrough, TypeOK, Regions

\* The least closed set: it is closed, and within every closed one.
LEMMA ClosureIs ==
    ASSUME TypeOK, NEW B \in SUBSET Regions
    PROVE  /\ Closure(B) \in SUBSET Regions /\ B \subseteq Closure(B)
           /\ \A r \in Closure(B) : HeldThrough(r) \subseteq Closure(B)
           /\ \A S \in SUBSET Regions :
                B \subseteq S /\ (\A r \in S : HeldThrough(r) \subseteq S) => Closure(B) \subseteq S
<1>1. \A r \in Regions : HoldsOf[r] = HeldThrough(r) /\ HeldThrough(r) \in SUBSET Regions
  BY HoldsAre DEF HoldsOf
<1> QED
  BY <1>1 DEF Closure, LeastClosed

\* As many steps as there are regions reach it.
LEMMA KeepsIs ==
    ASSUME TypeOK, NEW mask \in Masks
    PROVE  Keeps(mask) = Closure(Named(mask))
<1> DEFINE B == mask.slab \cup mask.ids
           N == Cardinality(Regions)
           r == HoldsOf
           Step(S) == UNION {{q} \cup HeldThrough(q) : q \in S}
           f == CHOOSE g : g = [n \in 0 .. N |-> IF n = 0 THEN B ELSE Step(g[n - 1])]
<1>1. Keeps(mask) = f[N]
  BY DEF Keeps
<1>2. B \in SUBSET Regions /\ B = Named(mask) /\ r \in [Regions -> SUBSET Regions]
  BY HoldsAre DEF Named, Masks, Regions
<1> HIDE DEF f, N
<1>3. /\ N \in Nat
      /\ \E h \in [0 .. N -> SUBSET Regions] :
           /\ h[0] = B
           /\ \A n \in 1 .. N : h[n] = Grow(r, h[n - 1])
           /\ h[N] = LeastClosed(Regions, B, r)
  <2> HIDE DEF B, r
  <2> QED
    BY <1>2, RegionsFinite, Reach DEF N
<1>4. PICK h \in [0 .. N -> SUBSET Regions] :
           /\ h[0] = B
           /\ \A n \in 1 .. N : h[n] = Grow(r, h[n - 1])
           /\ h[N] = LeastClosed(Regions, B, r)
  BY <1>3
<1>5. \A S \in SUBSET Regions : Step(S) = Grow(r, S)
  BY DEF Grow, HoldsOf
<1> HIDE DEF B, r, Step
<1>6. h = [n \in 0 .. N |-> IF n = 0 THEN B ELSE Step(h[n - 1])]
  <2>1. \A n \in 0 .. N : n # 0 => n \in 1 .. N /\ n - 1 \in 0 .. N
    BY <1>3
  <2> QED
    BY <1>4, <1>5, <2>1
<1>7. f = [n \in 0 .. N |-> IF n = 0 THEN B ELSE Step(f[n - 1])]
  BY <1>6 DEF f
<1>8. f[N] = h[N]
  <2> DEFINE Bad == {n \in 0 .. N : f[n] # h[n]}
  <2>1. ASSUME Bad # {} PROVE FALSE
    <3>1. PICK n \in Bad : \A m \in Bad : n <= m
      <4>1. Bad \in SUBSET Nat
        BY <1>3
      <4> QED
        BY <2>1, <4>1, LeastNat
    <3>2. n # 0 /\ n - 1 \in 0 .. N /\ n \in 0 .. N /\ n - 1 < n
      BY <1>3, <1>6, <1>7
    <3>3. n - 1 \notin Bad
      BY <1>3, <3>1, <3>2
    <3> QED
      BY <1>6, <1>7, <3>1, <3>2, <3>3
  <2> QED
    BY <1>3, <2>1
<1> QED
  BY <1>1, <1>2, <1>4, <1>8 DEF Closure, r

\* `RedeemCovers`: the reach that a redeem hands back covers all that the carrier's value may
\* read, wherever the carrier's home has been moved: its bits name cells directly, and its ids
\* the sealed regions that keep the rest, over any chain of holds.
THEOREM RedeemHolds == Spec => []RedeemCovers
<1>1. RInv => RedeemCovers
  <2> SUFFICES ASSUME RInv, NEW e \in Slots, NEW v \in kept, Entitled(e, v.home)
               PROVE  LET reach == RedeemedReach(v)
                      IN  v.over \subseteq Bytes(reach.slab \cup Keeps([reach EXCEPT !.slab = {}]))
    BY DEF RedeemCovers
  <2>1. IInv /\ TypeOK
    BY DEF RInv, IInv, Kinds
  <2>2. Locate(v.home) # Nowhere
    BY RegionKinds DEF Entitled
  <2>3. PICK reach : reach = RedeemedReach(v)
    OBVIOUS
  <2>4. reach \in Masks
    <3>1. CASE Locate(v.home) \in Slots
      BY <2>1, <2>2, <2>3, <3>1, ReachIs DEF TypeOK
    <3>2. CASE Locate(v.home) \in Ids
      BY <2>1, <2>2, <2>3, <3>2, ReachIs DEF Masks
    <3> QED
      BY <2>1, <2>2, <3>1, <3>2, ReachIs, RegionKinds
  <2>5. PICK mask : mask = [reach EXCEPT !.slab = {}]
    OBVIOUS
  <2>6. mask \in Masks /\ Named(mask) = reach.ids /\ Named(mask) \in SUBSET Regions
        /\ Named(reach) = reach.slab \cup Named(mask) /\ reach.slab \subseteq Slots
    BY <2>4, <2>5, RegionKinds DEF Masks, Named
  <2>7. PICK K : K = reach.slab \cup Keeps(mask)
    OBVIOUS
  <2>8. K \in SUBSET Regions /\ Named(reach) \subseteq K /\ Closed(K)
    <3>1. Keeps(mask) = Closure(Named(mask))
      BY <2>1, <2>6, KeepsIs
    <3>2. /\ Keeps(mask) \in SUBSET Regions /\ Named(mask) \subseteq Keeps(mask)
          /\ \A r \in Keeps(mask) : HeldThrough(r) \subseteq Keeps(mask)
      BY <2>1, <2>6, <3>1, ClosureIs
    <3>3. ASSUME NEW i \in K \cap Ids PROVE Under(i) \subseteq K
      <4>1. i \in Keeps(mask) /\ i \notin Slots
        BY <2>6, <2>7, <3>2, <3>3, RegionKinds
      <4> QED
        BY <2>7, <3>2, <3>3, <4>1 DEF Under, HeldThrough
    <3> QED
      BY <2>6, <2>7, <3>2, <3>3, RegionKinds DEF Closed
  <2>9. v.over \subseteq Bytes(K)
    <3>1. \A c \in v.over : Keeping(Named(reach), c)
      BY <2>2, <2>3 DEF RInv, ValueKept
    <3> QED
      BY <2>8, <3>1 DEF Keeping, Bytes
  <2> QED
    BY <2>3, <2>5, <2>7, <2>9
<1> QED
  BY <1>1, SlabKeeps, PTL

\* A region holds what the regions it holds hold: the closures are as nested as the holds.
LEMMA ClosureNests ==
    ASSUME TypeOK, NEW n \in Regions, NEW j \in HeldThrough(n)
    PROVE  /\ j \in Regions /\ Closure({j}) \subseteq Closure(HeldThrough(n))
           /\ Closure(HeldThrough(n)) \subseteq Closure({n})
           /\ j \in Closure({j}) /\ n \in Closure({n}) /\ j \in Closure({n})
<1>1. HeldThrough(n) \in SUBSET Regions /\ j \in Regions
  BY HoldsAre DEF HoldsOf
<1>2. /\ HeldThrough(n) \subseteq Closure(HeldThrough(n))
      /\ \A r \in Closure(HeldThrough(n)) : HeldThrough(r) \subseteq Closure(HeldThrough(n))
      /\ Closure(HeldThrough(n)) \in SUBSET Regions
  BY <1>1, ClosureIs
<1>3. /\ n \in Closure({n}) /\ Closure({n}) \in SUBSET Regions
      /\ \A r \in Closure({n}) : HeldThrough(r) \subseteq Closure({n})
  <2>1. {n} \in SUBSET Regions
    OBVIOUS
  <2> QED
    BY <2>1, ClosureIs
<1>4. {j} \in SUBSET Regions /\ {j} \subseteq Closure(HeldThrough(n))
  BY <1>1, <1>2
<1>5. Closure({j}) \subseteq Closure(HeldThrough(n)) /\ j \in Closure({j})
  BY <1>2, <1>4, ClosureIs
<1>6. Closure(HeldThrough(n)) \subseteq Closure({n})
  <2>1. HeldThrough(n) \subseteq Closure({n})
    BY <1>3
  <2> QED
    BY <1>1, <1>3, <2>1, ClosureIs
<1> QED
  BY <1>1, <1>3, <1>5, <1>6

\* Some member of a finite family of regions holds most.
LEMMA Fullest ==
    ASSUME TypeOK, NEW A \in SUBSET Regions, A # {}
    PROVE  \E r \in A : \A n \in A :
              ~(Closure({r}) \subseteq Closure({n}) /\ Closure({r}) # Closure({n}))
<1>1. \A r \in A : /\ Closure({r}) \in SUBSET Regions /\ IsFiniteSet(Closure({r}))
                   /\ Cardinality(Closure({r})) \in Nat
                   /\ Cardinality(Closure({r})) <= Cardinality(Regions)
  <2>1. \A r \in A : {r} \in SUBSET Regions
    OBVIOUS
  <2> QED
    BY <2>1, ClosureIs, RegionsFinite, FS_Subset, FS_CardinalityType
<1>2. Cardinality(Regions) \in Nat
  BY RegionsFinite, FS_CardinalityType
<1> DEFINE left == {Cardinality(Regions) - Cardinality(Closure({r})) : r \in A}
<1>3. left \in SUBSET Nat /\ left # {}
  <2>1. ASSUME NEW r \in A
        PROVE  Cardinality(Regions) - Cardinality(Closure({r})) \in Nat
    <3>1. \A m, n \in Nat : m <= n => n - m \in Nat
      OBVIOUS
    <3> QED
      BY <1>1, <1>2, <3>1
  <2> QED
    BY <2>1
<1>4. PICK x \in left : \A y \in left : x <= y
  BY <1>3, LeastNat
<1>5. PICK r \in A : x = Cardinality(Regions) - Cardinality(Closure({r}))
  BY <1>4
<1>6. ASSUME NEW n \in A, Closure({r}) \subseteq Closure({n}), Closure({r}) # Closure({n})
      PROVE  FALSE
  <2>1. Cardinality(Closure({r})) < Cardinality(Closure({n}))
    <3>1. /\ Cardinality(Closure({r})) <= Cardinality(Closure({n}))
          /\ Cardinality(Closure({n})) = Cardinality(Closure({r})) => Closure({n}) = Closure({r})
      BY <1>1, <1>6, FS_Subset
    <3> QED
      BY <1>1, <1>6, <3>1
  <2>2. x <= Cardinality(Regions) - Cardinality(Closure({n}))
    BY <1>4
  <2> QED
    BY <1>1, <1>2, <1>5, <2>1, <2>2
<1> QED
  BY <1>6

\* `OnlyRingsStay`: between verbs, a sealed region that no cell in a slot keeps is kept by a ring
\* of sealed regions.  Were there no ring, some region under it would have lost its last holder,
\* and a region that did is retired before the cascade ends.
THEOREM RingsHold == Spec => []OnlyRingsStay
<1>1. RInv => OnlyRingsStay
  <2> SUFFICES ASSUME RInv, Idle PROVE OnlyRingsStay
    BY DEF OnlyRingsStay
  <2> DEFINE inSlots == [slab |-> {s \in Slots : Occupied(s)}, ids |-> {}]
             cellsKeep == Keeps(inSlots)
             aggregate(r) == [slab |-> aggSlots[r], ids |-> aggIds[r]]
             single(r) == [slab |-> {}, ids |-> {r}]
  <2>1. /\ IInv /\ TypeOK /\ Names /\ HeldOn /\ tier \subseteq Ids
        /\ target = NoId /\ \A i \in Ids : drops[i] = 0
    BY DEF RInv, IInv, Kinds, Names, TypeOK, Idle, Settled
  <2>2. /\ {s \in Slots : Occupied(s)} \subseteq cellsKeep /\ cellsKeep \in SUBSET Regions
        /\ \A r \in cellsKeep : HeldThrough(r) \subseteq cellsKeep
    <3>1. inSlots \in Masks /\ Named(inSlots) = {s \in Slots : Occupied(s)}
      BY DEF Masks, Named
    <3> HIDE DEF inSlots
    <3>2. cellsKeep = Closure(Named(inSlots)) /\ Named(inSlots) \in SUBSET Regions
      BY <2>1, <3>1, KeepsIs, RegionKinds
    <3>3. /\ Closure(Named(inSlots)) \in SUBSET Regions
          /\ Named(inSlots) \subseteq Closure(Named(inSlots))
          /\ \A r \in Closure(Named(inSlots)) : HeldThrough(r) \subseteq Closure(Named(inSlots))
      BY <2>1, <3>2, ClosureIs
    <3> HIDE DEF cellsKeep
    <3> QED
      BY <3>1, <3>2, <3>3
  <2>3. \A r \in tier : /\ r \in Regions /\ HeldThrough(r) = aggSlots[r] \cup aggIds[r]
                        /\ Keeps(aggregate(r)) = Closure(HeldThrough(r))
                        /\ Keeps(single(r)) = Closure({r})
    <3> SUFFICES ASSUME NEW r \in tier
                 PROVE  /\ r \in Regions /\ HeldThrough(r) = aggSlots[r] \cup aggIds[r]
                        /\ Keeps(aggregate(r)) = Closure(HeldThrough(r))
                        /\ Keeps(single(r)) = Closure({r})
      OBVIOUS
    <3>1. r \in Ids /\ r \in Regions /\ HeldThrough(r) = aggSlots[r] \cup aggIds[r]
      BY <2>1, RegionKinds DEF HeldThrough
    <3>2. aggregate(r) \in Masks /\ Named(aggregate(r)) = HeldThrough(r)
      BY <2>1, <3>1 DEF Masks, Named, TypeOK
    <3>3. single(r) \in Masks /\ Named(single(r)) = {r}
      BY <3>1 DEF Masks, Named
    <3>4. Keeps(aggregate(r)) = Closure(HeldThrough(r)) /\ Keeps(single(r)) = Closure({r})
      <4> HIDE DEF aggregate, single
      <4> QED
        BY <2>1, <3>2, <3>3, KeepsIs
    <3> QED
      BY <3>1, <3>4
  <2> HIDE DEF cellsKeep
  <2>4. ASSUME NEW j \in tier, j \notin cellsKeep
        PROVE  \E n \in tier : n \notin cellsKeep /\ j \in HeldThrough(n)
    <3>1. HeldBy(j) = {}
      <4> SUFFICES ASSUME NEW s \in Slots, j \in held[s] PROVE FALSE
        BY DEF HeldBy
      <4>1. Occupied(s)
        BY <2>1 DEF Names, NamesLive
      <4>2. s \in cellsKeep /\ j \in HeldThrough(s)
        BY <2>2, <4>1 DEF HeldThrough
      <4> QED
        BY <2>2, <2>4, <4>2
    <3>2. NamedBy(j) # {}
      <4>1. j \in Ids /\ j # target /\ holders[j] > 0 /\ drops[j] = 0 /\ holders[j] \in Nat
        BY <2>1, Apart DEF HeldOn, TypeOK
      <4>2. holders[j] = Cardinality(HeldBy(j)) + Cardinality(NamedBy(j)) + drops[j]
        BY <2>1, CountsAre DEF Names
      <4>3. Cardinality(HeldBy(j)) = 0 /\ (NamedBy(j) = {} => Cardinality(NamedBy(j)) = 0)
        BY <3>1, FS_EmptySet
      <4> QED
        BY <4>1, <4>2, <4>3
    <3>3. PICK n \in tier : j \in aggIds[n]
      BY <3>2 DEF NamedBy
    <3>4. j \in HeldThrough(n)
      BY <2>3, <3>3
    <3> QED
      BY <2>2, <2>4, <3>4
  <2>5. ASSUME NEW i \in tier, i \notin cellsKeep
        PROVE  \E r \in tier : r \in Closure(HeldThrough(r)) /\ i \in Closure({r})
    <3> DEFINE A == {j \in tier : j \notin cellsKeep /\ i \in Closure({j})}
    <3>1. i \in A
      <4>1. {i} \in SUBSET Regions
        BY <2>3
      <4> QED
        BY <2>1, <2>5, <4>1, ClosureIs
    <3>2. A \in SUBSET Regions /\ A # {}
      BY <2>3, <3>1
    <3>3. PICK r \in A : \A n \in A :
              ~(Closure({r}) \subseteq Closure({n}) /\ Closure({r}) # Closure({n}))
      <4> HIDE DEF A
      <4> QED
        BY <2>1, <3>2, Fullest
    <3>4. PICK n \in tier : n \notin cellsKeep /\ r \in HeldThrough(n)
      BY <2>4
    <3>5. /\ Closure({r}) \subseteq Closure(HeldThrough(n))
          /\ Closure(HeldThrough(n)) \subseteq Closure({n}) /\ n \in Closure({n})
      BY <2>1, <2>3, <3>4, ClosureNests
    <3>6. n \in A
      BY <3>4, <3>5
    <3>7. Closure({r}) = Closure({n})
      BY <3>3, <3>5, <3>6
    <3>8. n \in Closure(HeldThrough(n))
      BY <3>5, <3>7
    <3> QED
      BY <3>4, <3>6, <3>8
  <2>6. ASSUME NEW i \in tier
        PROVE  \/ i \in cellsKeep
               \/ \E r \in tier : r \in Keeps(aggregate(r)) /\ i \in Keeps(single(r))
    BY <2>3, <2>5
  <2> QED
    BY <2>6 DEF OnlyRingsStay, cellsKeep
<1> QED
  BY <1>1, SlabKeeps, PTL
=============================================================================
