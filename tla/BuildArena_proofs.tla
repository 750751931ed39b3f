-------------------------- MODULE BuildArena_proofs --------------------------
(* What the books of the build arena promise for every number of slots, keys, *)
(* digests and owners: no reference that is counted ever dangles, because     *)
(* each count is exactly the cardinality of what it counts, so an evicted     *)
(* node, whose counts are zero, is named by nothing; between verbs the held   *)
(* counts are exact too, a node is held when some borrow reads through it and *)
(* not otherwise, and the running totals are those bytes.  So an eviction     *)
(* ends within the budget, and the arena stands for a store that keeps no     *)
(* books.                                                                     *)
(*                                                                            *)
(* While `turned` loops, the counts above a node lag behind it.  The second   *)
(* invariant says by how much: the node being told of counts, to whoever is   *)
(* still to be told, as it was before it turned.                              *)
EXTENDS BuildArena, Counting_proofs

\* A loop of `turned` runs alone, at a live node, with only that node's own pins to tell.
TurnOK ==
    turn # None => /\ ~evicting
                   /\ Live(turn.at)
                   /\ turn.pins \subseteq node[turn.at.slot].pins

\* The inductive invariant: NoDangling alone is not inductive, since an eviction must know that
\* zero counts mean no referrer, and a turn must know the nodes it is about to tell.
IInv == TypeOK /\ NoDangling /\ LinksCounted /\ TurnOK

\* The arena begins with nothing in it, so with nothing to keep.
LEMMA InitIInv == Init => IInv
<1> SUFFICES ASSUME Init PROVE IInv
  OBVIOUS
<1>1. TypeOK
  <2>1. /\ node \in [Slots -> Node \cup {None}]
        /\ borrowers \in [Slots -> Int] /\ children \in [Slots -> Int]
        /\ heldChildren \in [Slots -> Int]
        /\ pinners \in [Slots -> Int] /\ heldPinners \in [Slots -> Int]
    BY DEF Init, Zero
  <2>2. gen \in [Slots -> 0 .. GenWidth - 1]
    BY ArenaAssumption DEF Init, Zero
  <2>3. older \subseteq Refs \X Refs
    BY DEF Init
  <2>4. index \in [Handles \X Names -> Refs \cup {None}]
    BY DEF Init
  <2>5. borrowed \in [Owners -> Handles \cup {None}]
    BY DEF Init
  <2>6. total \in Int /\ held \in Int /\ turn \in Turn \cup {None}
    BY DEF Init
  <2>7. evicting \in BOOLEAN
    BY DEF Init
  <2> QED
    BY <2>1, <2>2, <2>3, <2>4, <2>5, <2>6, <2>7 DEF TypeOK
<1>2. NoDangling
  BY ArenaAssumption DEF Init, NoDangling, Occupied
<1>3. LinksCounted
  BY DEF Init, LinksCounted, Occupied
<1>4. TurnOK
  BY DEF Init, TurnOK
<1> QED
  BY <1>1, <1>2, <1>3, <1>4 DEF IInv

-----------------------------------------------------------------------------
\* A handle is live exactly when it is the present handle of an occupied slot.
LEMMA LiveAt ==
    ASSUME TypeOK
    PROVE  /\ \A s \in Slots : At(s) \in Refs /\ At(s) \in Handles /\ At(s) # Root
           /\ \A s, t \in Slots : At(s) = At(t) => s = t
           /\ \A s \in Slots : Occupied(s) => Live(At(s)) /\ node[s] \in Node
           /\ \A r \in Handles : Live(r) => /\ r \in Refs
                                            /\ r.slot \in Slots
                                            /\ r = At(r.slot)
                                            /\ Occupied(r.slot)
BY ArenaAssumption DEF TypeOK, At, Refs, Handles, Live, Occupied

\* Where a step changes neither a generation nor which slots hold what links, the same handles
\* are live and the same nodes are children and pinners.
LEMMA SameLinks ==
    ASSUME TypeOK, gen' = gen,
           \A s \in Slots : node'[s] = None <=> node[s] = None,
           \A s \in Slots : Occupied(s) => /\ node'[s].parent = node[s].parent
                                           /\ node'[s].pins = node[s].pins
    PROVE  /\ \A r \in Handles : Live(r)' <=> Live(r)
           /\ \A r \in Handles : IsLive(r)' <=> IsLive(r)
           /\ \A s \in Slots : At(s)' = At(s)
           /\ \A s \in Slots : Occupied(s)' <=> Occupied(s)
           /\ \A s \in Slots : Children(s)' = Children(s)
           /\ \A s \in Slots : Pinners(s)' = Pinners(s)
<1>1. \A s \in Slots : At(s)' = At(s)
  BY DEF At
<1>2. \A s \in Slots : Occupied(s)' <=> Occupied(s)
  BY DEF Occupied
<1>3. \A r \in Handles : Live(r)' <=> Live(r)
  BY DEF Live, Occupied, Handles, Refs
<1>4. \A r \in Handles : IsLive(r)' <=> IsLive(r)
  BY <1>3 DEF IsLive
<1>5. \A s \in Slots : Children(s)' = Children(s)
  BY <1>1, <1>2 DEF Children
<1>6. \A s \in Slots : Pinners(s)' = Pinners(s)
  BY <1>1, <1>2 DEF Pinners
<1> QED
  BY <1>1, <1>2, <1>3, <1>4, <1>5, <1>6

\* What a miss may pin is live, and a composition.
LEMMA MayPinLive ==
    ASSUME TypeOK, NEW parent \in Handles, NEW p \in MayPin(parent)
    PROVE  p \in Refs /\ Live(p)
BY LiveAt DEF MayPin, LiveRefs

-----------------------------------------------------------------------------
\* What laying a node does: a vacant slot takes it, unheld, and everything live stays so.  Nothing
\* can already name the slot's handle; only the parent and the pins gain a child and a pinner.
LaidAt(s, parent, name, base, pins) ==
    /\ ~Occupied(s)
    /\ node' = [node EXCEPT ![s] =
                  [name |-> name, parent |-> parent, base |-> base, pins |-> pins]]
    /\ borrowers' = [borrowers EXCEPT ![s] = 0]
    /\ heldChildren' = [heldChildren EXCEPT ![s] = 0]
    /\ heldPinners' = [heldPinners EXCEPT ![s] = 0]
    /\ children' = [t \in Slots |-> IF t = s THEN 0
                      ELSE IF At(t) = parent THEN children[t] + 1 ELSE children[t]]
    /\ pinners' = [t \in Slots |-> IF t = s THEN 0
                     ELSE IF At(t) \in pins THEN pinners[t] + 1 ELSE pinners[t]]
    /\ older' = UsedNow(At(s))
    /\ index' = [index EXCEPT ![<<parent, name>>] = At(s)]
    /\ total' = total + Weight[name]
    /\ UNCHANGED <<gen, held, turn, evicting, borrowed>>
    /\ LiveRefs \subseteq Refs /\ \A r \in LiveRefs : Live(r)
    /\ [name |-> name, parent |-> parent, base |-> base, pins |-> pins] \in Node
    /\ \A t \in Slots : At(t)' = At(t)
    /\ \A t \in Slots : t # s => node'[t] = node[t]
    /\ node'[s] = [name |-> name, parent |-> parent, base |-> base, pins |-> pins]
    /\ \A t \in Slots : Occupied(t)' <=> (t = s \/ Occupied(t))
    /\ \A r \in Handles : Live(r) => Live(r)'
    /\ ~Live(At(s)) /\ At(s) # Root /\ At(s) \in Handles
    /\ Borrowers(s) = {} /\ Children(s)' = {} /\ Pinners(s)' = {}
    /\ \A t \in Slots : t # s =>
         /\ Children(t)' = IF At(t) = parent THEN Children(t) \cup {s} ELSE Children(t)
         /\ Pinners(t)' = IF At(t) \in pins THEN Pinners(t) \cup {s} ELSE Pinners(t)
         /\ s \notin Children(t) /\ s \notin Pinners(t)

\* What `lay_child` leaves changed when it lays node `i` under `parent`, naming `pins`.
LEMMA LaidFacts ==
    ASSUME IInv, NEW parent \in Handles, IsLive(parent),
           NEW name \in Names, NEW base \in Digests \cup {None},
           NEW pins \in SUBSET LiveRefs,
           Laid(parent, name, base, pins)
    PROVE  \E s \in Slots : LaidAt(s, parent, name, base, pins)
<1>0. TypeOK /\ NoDangling /\ LinksCounted /\ TurnOK
  BY DEF IInv
<1>1. PICK s \in Slots :
        /\ ~Occupied(s)
        /\ node' = [node EXCEPT ![s] =
                      [name |-> name, parent |-> parent, base |-> base, pins |-> pins]]
        /\ borrowers' = [borrowers EXCEPT ![s] = 0]
        /\ heldChildren' = [heldChildren EXCEPT ![s] = 0]
        /\ heldPinners' = [heldPinners EXCEPT ![s] = 0]
        /\ children' = [t \in Slots |-> IF t = s THEN 0
                          ELSE IF At(t) = parent THEN children[t] + 1 ELSE children[t]]
        /\ pinners' = [t \in Slots |-> IF t = s THEN 0
                         ELSE IF At(t) \in pins THEN pinners[t] + 1 ELSE pinners[t]]
        /\ older' = UsedNow(At(s))
        /\ index' = [index EXCEPT ![<<parent, name>>] = At(s)]
        /\ total' = total + Weight[name]
        /\ UNCHANGED <<gen, held, turn, evicting, borrowed>>
  BY DEF Laid, More
<1>2. LiveRefs \subseteq Refs /\ \A r \in LiveRefs : Live(r)
  BY <1>0, LiveAt DEF LiveRefs
<1>3. [name |-> name, parent |-> parent, base |-> base, pins |-> pins] \in Node
  BY <1>2 DEF Node
<1>4. \A t \in Slots : At(t)' = At(t)
  BY <1>1 DEF At
<1>5. /\ \A t \in Slots : t # s => node'[t] = node[t]
      /\ node'[s] = [name |-> name, parent |-> parent, base |-> base, pins |-> pins]
      /\ \A t \in Slots : Occupied(t)' <=> (t = s \/ Occupied(t))
  BY <1>0, <1>1, <1>3, ArenaAssumption DEF Occupied, TypeOK
<1>6. \A r \in Handles : Live(r) => Live(r)'
  BY <1>1, <1>5 DEF Live, Handles, Refs
<1>7. ~Live(At(s)) /\ At(s) # Root /\ At(s) \in Handles
  BY <1>0, <1>1, LiveAt DEF Live, At
<1>8. Borrowers(s) = {} /\ Children(s)' = {} /\ Pinners(s)' = {}
  <2>1. Borrowers(s) = {}
    BY <1>0, <1>7, ArenaAssumption DEF NoDangling, Borrowers, IsLive, Handles
  <2>2. Children(s)' = {}
    <3> SUFFICES ASSUME NEW t \in Slots, Occupied(t)', node'[t].parent = At(s)' PROVE FALSE
      BY DEF Children
    <3>1. t # s
      BY <1>4, <1>5, <1>7 DEF IsLive
    <3> QED
      BY <1>0, <1>4, <1>5, <1>7, <3>1 DEF NoDangling, IsLive
  <2>3. Pinners(s)' = {}
    <3> SUFFICES ASSUME NEW t \in Slots, Occupied(t)', At(s)' \in node'[t].pins PROVE FALSE
      BY DEF Pinners
    <3>1. t # s
      BY <1>2, <1>4, <1>5, <1>7
    <3> QED
      BY <1>0, <1>4, <1>5, <1>7, <3>1 DEF NoDangling
  <2> QED
    BY <2>1, <2>2, <2>3
<1>9. ASSUME NEW t \in Slots, t # s
      PROVE  /\ Children(t)' = IF At(t) = parent THEN Children(t) \cup {s} ELSE Children(t)
             /\ Pinners(t)' = IF At(t) \in pins THEN Pinners(t) \cup {s} ELSE Pinners(t)
             /\ s \notin Children(t) /\ s \notin Pinners(t)
  BY <1>1, <1>4, <1>5 DEF Children, Pinners
<1> QED
  BY <1>1, <1>2, <1>3, <1>4, <1>5, <1>6, <1>7, <1>8, <1>9 DEF LaidAt

\* A node laid under a live parent, pinning live compositions, keeps the invariant: nothing can
\* already name the vacant slot's handle, so its counts start at zero, and the parent's and the
\* pins' go up by the one node that now names them.
LEMMA LaidIInv ==
    ASSUME IInv, Idle, NEW parent \in Handles, IsLive(parent),
           NEW name \in Names, NEW base \in Digests \cup {None},
           NEW pins \in SUBSET LiveRefs,
           Laid(parent, name, base, pins)
    PROVE  IInv'
<1>0. TypeOK /\ NoDangling /\ LinksCounted /\ TurnOK
  BY DEF IInv
<1>1. PICK s \in Slots : LaidAt(s, parent, name, base, pins)
  BY LaidFacts
<1>2. TypeOK'
  <2>1. node' \in [Slots -> Node \cup {None}]
    BY <1>0, <1>1 DEF TypeOK, LaidAt
  <2>2. /\ borrowers' \in [Slots -> Int] /\ children' \in [Slots -> Int]
        /\ heldChildren' \in [Slots -> Int]
        /\ pinners' \in [Slots -> Int] /\ heldPinners' \in [Slots -> Int]
    BY <1>0, <1>1 DEF TypeOK, LaidAt
  <2>3. older' \subseteq Refs \X Refs
    BY <1>0, <1>1, LiveAt DEF TypeOK, UsedNow, LaidAt
  <2>4. index' \in [Handles \X Names -> Refs \cup {None}]
    BY <1>0, <1>1, LiveAt DEF TypeOK, LaidAt
  <2>5. total' \in Int
    BY <1>0, <1>1, ArenaAssumption DEF TypeOK, LaidAt
  <2>6. /\ gen' = gen /\ held' = held /\ turn' = turn /\ borrowed' = borrowed
        /\ UNCHANGED evicting
    BY <1>1 DEF LaidAt
  <2> QED
    BY <1>0, <2>1, <2>2, <2>3, <2>4, <2>5, <2>6 DEF TypeOK
<1>3. NoDangling'
  <2>1. \A o \in Owners : borrowed'[o] # None => IsLive(borrowed[o])'
    BY <1>0, <1>1 DEF NoDangling, TypeOK, IsLive, LaidAt
  <2>2. ASSUME NEW t \in Slots, Occupied(t)'
        PROVE  IsLive(node[t].parent)' /\ \A p \in node'[t].pins : Live(p)'
    <3>1. CASE t = s
      BY <1>1, <3>1 DEF IsLive, Handles, LaidAt
    <3>2. CASE t # s
      <4>1. Occupied(t) /\ node[t] \in Node
        BY <1>1, <1>0, <2>2, <3>2, LiveAt DEF LaidAt
      <4>2. IsLive(node[t].parent) /\ \A p \in node[t].pins : Live(p)
        BY <1>0, <4>1 DEF NoDangling
      <4> QED
        BY <1>1, <3>2, <4>1, <4>2 DEF Node, IsLive, Handles, LaidAt
    <3> QED
      BY <3>1, <3>2
  <2> QED
    BY <2>1, <2>2 DEF NoDangling
<1>4. LinksCounted'
  <2>1. ASSUME NEW t \in Slots PROVE Borrowers(t)' = Borrowers(t)
    BY <1>1 DEF Borrowers, LaidAt
  <2>2. ASSUME NEW t \in Slots, t # s, Occupied(t)
        PROVE  /\ children'[t] = Cardinality(Children(t)')
               /\ pinners'[t] = Cardinality(Pinners(t)')
    <3>1. Children(t) \in SUBSET Slots /\ Pinners(t) \in SUBSET Slots
      BY DEF Children, Pinners
    <3>2. /\ Cardinality(Children(t) \cup {s}) = Cardinality(Children(t)) + 1
          /\ Cardinality(Pinners(t) \cup {s}) = Cardinality(Pinners(t)) + 1
      BY <1>1, <2>2, <3>1, CountUp, ArenaAssumption DEF LaidAt
    <3>3. /\ children[t] = Cardinality(Children(t)) /\ pinners[t] = Cardinality(Pinners(t))
      BY <1>0, <2>2 DEF LinksCounted
    <3>4. /\ children'[t] = IF At(t) = parent THEN children[t] + 1 ELSE children[t]
          /\ pinners'[t] = IF At(t) \in pins THEN pinners[t] + 1 ELSE pinners[t]
      BY <1>1, <2>2 DEF LaidAt
    <3> QED
      BY <1>1, <2>2, <3>2, <3>3, <3>4 DEF LaidAt
  <2>3. ASSUME NEW t \in Slots, Occupied(t)'
        PROVE  /\ borrowers'[t] = Cardinality(Borrowers(t)')
               /\ children'[t] = Cardinality(Children(t)')
               /\ pinners'[t] = Cardinality(Pinners(t)')
    <3>1. CASE t = s
      <4>1. borrowers'[s] = 0 /\ children'[s] = 0 /\ pinners'[s] = 0
        BY <1>0, <1>1 DEF TypeOK, LaidAt
      <4> QED
        BY <1>1, <2>1, <3>1, <4>1, FS_EmptySet DEF LaidAt
    <3>2. CASE t # s
      <4>1. Occupied(t) /\ borrowers'[t] = borrowers[t]
        BY <1>0, <1>1, <2>3, <3>2 DEF TypeOK, LaidAt
      <4> QED
        BY <1>0, <2>1, <2>2, <3>2, <4>1 DEF LinksCounted
    <3> QED
      BY <3>1, <3>2
  <2> QED
    BY <2>3 DEF LinksCounted
<1>5. TurnOK'
  BY <1>1 DEF Idle, TurnOK, LaidAt
<1> QED
  BY <1>2, <1>3, <1>4, <1>5 DEF IInv

-----------------------------------------------------------------------------
\* A turn that starts, or goes on, at a live node is at that node with its own pins to tell.
LEMMA TurnedAt ==
    ASSUME TypeOK, NEW s \in Slots, Occupied(s), NEW up \in BOOLEAN, Turned(s, up)
    PROVE  /\ turn' \in Turn /\ turn' # None
           /\ turn'.at = At(s) /\ turn'.pins = node[s].pins
           /\ held' \in Int
<1>1. node[s] \in Node /\ At(s) \in Refs
  BY LiveAt
<1>2. turn' = [at |-> At(s), held |-> up, pins |-> node[s].pins]
  BY DEF Turned
<1>3. turn' \in Turn
  BY <1>1, <1>2 DEF Turn, Node
<1>4. WeightOf(s) \in Int
  BY <1>1, ArenaAssumption DEF WeightOf, Node
<1>5. held' \in Int
  BY <1>4 DEF Turned, TypeOK
<1> QED
  BY <1>2, <1>3, <1>5, ArenaAssumption

\* A step that leaves the nodes and their links alone keeps the invariant where it keeps the
\* types and leaves no turn, or one at a live node with only that node's pins to tell.
LEMMA SameNodes ==
    ASSUME IInv, UNCHANGED <<nodes, links, borrowed>>,
           held' \in Int, heldChildren' \in [Slots -> Int], heldPinners' \in [Slots -> Int],
           evicting' \in BOOLEAN, turn' \in Turn \cup {None},
           turn' # None => /\ ~evicting'
                           /\ Live(turn'.at)
                           /\ turn'.pins \subseteq node[turn'.at.slot].pins
    PROVE  IInv'
<1>0. TypeOK /\ NoDangling /\ LinksCounted
  BY DEF IInv
<1>1. /\ \A r \in Handles : Live(r)' <=> Live(r)
      /\ \A r \in Handles : IsLive(r)' <=> IsLive(r)
      /\ \A s \in Slots : At(s)' = At(s)
      /\ \A s \in Slots : Occupied(s)' <=> Occupied(s)
      /\ \A s \in Slots : Children(s)' = Children(s)
      /\ \A s \in Slots : Pinners(s)' = Pinners(s)
  BY <1>0, SameLinks DEF nodes
<1>2. TypeOK'
  BY <1>0 DEF TypeOK, nodes, links
<1>3. NoDangling'
  BY <1>0 DEF NoDangling, nodes, IsLive, Live, Occupied
<1>4. \A s \in Slots : Borrowers(s)' = Borrowers(s)
  BY <1>1 DEF Borrowers
<1>5. LinksCounted'
  BY <1>0, <1>1, <1>4 DEF LinksCounted, links
<1>6. TurnOK'
  BY DEF TurnOK, nodes, Live, Occupied
<1> QED
  BY <1>2, <1>3, <1>5, <1>6 DEF IInv

\* A stamp moves the order of use alone.
LEMMA StampIInv ==
    ASSUME IInv, NEW r \in Refs, Stamp(r)
    PROVE  IInv'
<1>0. TypeOK /\ NoDangling /\ LinksCounted /\ TurnOK
  BY DEF IInv
<1>1. /\ UNCHANGED <<node, gen, index, total, links, holds, held, turn, evicting, borrowed>>
      /\ older' = UsedNow(r)
  BY DEF Stamp
<1>2. TypeOK'
  <2>1. older' \subseteq Refs \X Refs
    BY <1>0, <1>1, LiveAt DEF TypeOK, UsedNow, LiveRefs
  <2> QED
    BY <1>0, <1>1, <2>1 DEF TypeOK, links, holds
<1>3. NoDangling'
  BY <1>0, <1>1 DEF NoDangling, IsLive, Live, Occupied
<1>4. LinksCounted'
  BY <1>0, <1>1 DEF LinksCounted, Occupied, Borrowers, Children, Pinners, At, links
<1>5. TurnOK'
  BY <1>0, <1>1 DEF TurnOK, Live, Occupied
<1> QED
  BY <1>2, <1>3, <1>4, <1>5 DEF IInv

\* A borrow or a release keeps the invariant where its count of borrowers is exact: only the
\* borrows, and the counts of borrowers, move.
LEMMA Reborrowed ==
    ASSUME IInv, Idle, UNCHANGED <<nodes, children, pinners, holds, evicting>>,
           NEW o \in Owners, NEW x \in Handles \cup {None},
           x # None => IsLive(x),
           borrowed' = [borrowed EXCEPT ![o] = x],
           borrowers' \in [Slots -> Int],
           \A s \in Slots : Occupied(s) => borrowers'[s] = Cardinality(Borrowers(s)'),
           \/ UNCHANGED <<held, turn>>
           \/ \E s \in Slots, up \in BOOLEAN : Occupied(s) /\ Turned(s, up)
    PROVE  IInv'
<1>0. TypeOK /\ NoDangling /\ LinksCounted /\ turn = None /\ ~evicting
  BY DEF IInv, Idle
<1>1. /\ \A r \in Handles : Live(r)' <=> Live(r)
      /\ \A r \in Handles : IsLive(r)' <=> IsLive(r)
      /\ \A s \in Slots : At(s)' = At(s)
      /\ \A s \in Slots : Occupied(s)' <=> Occupied(s)
      /\ \A s \in Slots : Children(s)' = Children(s)
      /\ \A s \in Slots : Pinners(s)' = Pinners(s)
  BY <1>0, SameLinks DEF nodes
<1>2. /\ held' \in Int /\ turn' \in Turn \cup {None}
      /\ turn' # None => /\ Live(turn'.at)
                         /\ turn'.pins \subseteq node[turn'.at.slot].pins
  <2>1. CASE UNCHANGED <<held, turn>>
    BY <1>0, <2>1 DEF TypeOK
  <2>2. ASSUME NEW s \in Slots, NEW up \in BOOLEAN, Occupied(s), Turned(s, up)
        PROVE  /\ held' \in Int /\ turn' \in Turn
               /\ Live(turn'.at) /\ turn'.pins \subseteq node[turn'.at.slot].pins
    <3>1. /\ turn' \in Turn /\ turn'.at = At(s) /\ turn'.pins = node[s].pins /\ held' \in Int
      BY <1>0, <2>2, TurnedAt
    <3>2. At(s).slot = s /\ Live(At(s))
      BY <1>0, <2>2, LiveAt DEF At
    <3> QED
      BY <3>1, <3>2
  <2> QED
    BY <2>1, <2>2
<1>3. TypeOK'
  <2>1. borrowed' \in [Owners -> Handles \cup {None}]
    BY <1>0 DEF TypeOK
  <2> QED
    BY <1>0, <1>2, <2>1 DEF TypeOK, nodes, holds
<1>4. NoDangling'
  <2>1. \A p \in Owners : borrowed'[p] # None => IsLive(borrowed[p])'
    BY <1>0, <1>1 DEF NoDangling, TypeOK
  <2>2. ASSUME NEW s \in Slots, Occupied(s)'
        PROVE  IsLive(node[s].parent)' /\ \A p \in node'[s].pins : Live(p)'
    BY <1>0, <1>1, <2>2 DEF NoDangling, nodes, IsLive, Live, Occupied
  <2> QED
    BY <2>1, <2>2 DEF NoDangling
<1>5. LinksCounted'
  BY <1>0, <1>1 DEF LinksCounted
<1>6. TurnOK'
  BY <1>0, <1>2 DEF TurnOK, nodes, Live, Occupied
<1> QED
  BY <1>3, <1>4, <1>5, <1>6 DEF IInv

\* A borrow claims a live node (`borrow`).
LEMMA BorrowIInv ==
    ASSUME IInv, NEW o \in Owners, NEW r \in Handles, Borrow(o, r)
    PROVE  IInv'
<1>0. /\ TypeOK /\ LinksCounted /\ Idle
      /\ borrowed[o] = None /\ IsLive(r) /\ borrowed' = [borrowed EXCEPT ![o] = r]
      /\ UNCHANGED <<nodes, children, pinners, holds, evicting>>
  BY DEF IInv, Borrow
<1>1. \A s \in Slots : At(s)' = At(s) /\ At(s) # None /\ At(s) # Root
  BY <1>0, ArenaAssumption, LiveAt DEF nodes, At
<1>2. CASE r = Root
  <2>1. \A s \in Slots : Borrowers(s)' = Borrowers(s)
    BY <1>0, <1>1, <1>2 DEF Borrowers, TypeOK
  <2>2. UNCHANGED <<borrowers, held, turn>>
    BY <1>2 DEF Borrow
  <2>3. \A s \in Slots : Occupied(s) => borrowers'[s] = Cardinality(Borrowers(s)')
    BY <1>0, <2>1, <2>2 DEF LinksCounted
  <2>4. borrowers' \in [Slots -> Int]
    <3>1. borrowers \in [Slots -> Int]
      BY <1>0 DEF TypeOK
    <3>2. borrowers' = borrowers
      BY <2>2
    <3> QED
      BY <3>1, <3>2, Zenon
  <2> QED
    BY <1>0, <2>2, <2>3, <2>4, Reborrowed
<1>3. CASE r # Root
  <2>1. r.slot \in Slots /\ r = At(r.slot) /\ Occupied(r.slot)
    BY <1>0, <1>3, LiveAt DEF IsLive
  <2>2. /\ borrowers' = [borrowers EXCEPT ![r.slot] = @ + 1]
        /\ \/ UNCHANGED <<held, turn>>
           \/ Turned(r.slot, TRUE)
    BY <1>3 DEF Borrow
  <2>3. borrowers' \in [Slots -> Int]
    BY <1>0, <2>1, <2>2 DEF TypeOK
  <2>4. ASSUME NEW s \in Slots, Occupied(s) PROVE borrowers'[s] = Cardinality(Borrowers(s)')
    <3>1. /\ Borrowers(s)' = IF s = r.slot THEN Borrowers(s) \cup {o} ELSE Borrowers(s)
          /\ o \notin Borrowers(s) /\ Borrowers(s) \in SUBSET Owners
      BY <1>0, <1>1, <2>1, LiveAt DEF Borrowers, TypeOK
    <3>2. Cardinality(Borrowers(s) \cup {o}) = Cardinality(Borrowers(s)) + 1
      BY <3>1, CountUp, ArenaAssumption
    <3>3. borrowers[s] = Cardinality(Borrowers(s))
      BY <1>0, <2>4 DEF LinksCounted
    <3>4. borrowers'[s] = IF s = r.slot THEN borrowers[s] + 1 ELSE borrowers[s]
      BY <1>0, <2>2 DEF TypeOK
    <3> QED
      BY <3>1, <3>2, <3>3, <3>4
  <2> QED
    BY <1>0, <2>1, <2>2, <2>3, <2>4, Reborrowed
<1> QED
  BY <1>2, <1>3

\* An owner drops its borrow (`Drop for NodeBorrow`).
LEMMA ReleaseIInv ==
    ASSUME IInv, NEW o \in Owners, NEW r \in Handles, Release(o, r)
    PROVE  IInv'
<1>0. /\ TypeOK /\ NoDangling /\ LinksCounted /\ Idle
      /\ borrowed[o] = r /\ borrowed' = [borrowed EXCEPT ![o] = None]
      /\ UNCHANGED <<nodes, children, pinners, holds, evicting>>
  BY DEF IInv, Release
<1>1. \A s \in Slots : At(s)' = At(s) /\ At(s) # None /\ At(s) # Root
  BY <1>0, ArenaAssumption, LiveAt DEF nodes, At
<1>2. IsLive(r)
  BY <1>0, ArenaAssumption DEF NoDangling
<1>3. CASE r = Root
  <2>1. \A s \in Slots : Borrowers(s)' = Borrowers(s)
    BY <1>0, <1>1, <1>3 DEF Borrowers, TypeOK
  <2>2. UNCHANGED <<borrowers, held, turn>>
    BY <1>3 DEF Release
  <2>3. \A s \in Slots : Occupied(s) => borrowers'[s] = Cardinality(Borrowers(s)')
    BY <1>0, <2>1, <2>2 DEF LinksCounted
  <2>4. borrowers' \in [Slots -> Int]
    <3>1. borrowers \in [Slots -> Int]
      BY <1>0 DEF TypeOK
    <3>2. borrowers' = borrowers
      BY <2>2
    <3> QED
      BY <3>1, <3>2, Zenon
  <2> QED
    BY <1>0, <2>2, <2>3, <2>4, Reborrowed
<1>4. CASE r # Root
  <2>1. r.slot \in Slots /\ r = At(r.slot) /\ Occupied(r.slot)
    BY <1>0, <1>2, <1>4, LiveAt DEF IsLive
  <2>2. /\ borrowers' = [borrowers EXCEPT ![r.slot] = @ - 1]
        /\ \/ UNCHANGED <<held, turn>>
           \/ Turned(r.slot, FALSE)
    BY <1>4 DEF Release
  <2>3. borrowers' \in [Slots -> Int]
    BY <1>0, <2>1, <2>2 DEF TypeOK
  <2>4. ASSUME NEW s \in Slots, Occupied(s) PROVE borrowers'[s] = Cardinality(Borrowers(s)')
    <3>1. /\ Borrowers(s)' = IF s = r.slot THEN Borrowers(s) \ {o} ELSE Borrowers(s)
          /\ s = r.slot => o \in Borrowers(s)
          /\ Borrowers(s) \in SUBSET Owners
      BY <1>0, <1>1, <2>1, LiveAt DEF Borrowers, TypeOK
    <3>2. s = r.slot => Cardinality(Borrowers(s) \ {o}) = Cardinality(Borrowers(s)) - 1
      BY <3>1, CountDown, ArenaAssumption
    <3>3. borrowers[s] = Cardinality(Borrowers(s))
      BY <1>0, <2>4 DEF LinksCounted
    <3>4. borrowers'[s] = IF s = r.slot THEN borrowers[s] - 1 ELSE borrowers[s]
      BY <1>0, <2>2 DEF TypeOK
    <3> QED
      BY <3>1, <3>2, <3>3, <3>4
  <2> QED
    BY <1>0, <2>1, <2>2, <2>3, <2>4, Reborrowed
<1> QED
  BY <1>3, <1>4

\* A step of `turned` tells a pin, or the parent, of the node that turned: live nodes both, and
\* where the parent turns in its turn, the loop is at the parent.
LEMMA TurnPinIInv ==
    ASSUME IInv, NEW p \in Refs, TurnPin(p)
    PROVE  IInv'
<1>0. /\ TypeOK /\ NoDangling /\ TurnOK /\ turn # None /\ p \in turn.pins
      /\ UNCHANGED <<nodes, links, heldChildren, evicting, borrowed>>
      /\ turn' = [turn EXCEPT !.pins = @ \ {p}]
  BY DEF IInv, TurnPin
<1>1. turn \in Turn /\ ~evicting /\ Live(turn.at) /\ turn.pins \subseteq node[turn.at.slot].pins
  BY <1>0 DEF TypeOK, TurnOK
<1>2. turn.at.slot \in Slots /\ Occupied(turn.at.slot)
  BY <1>0, <1>1, LiveAt DEF Turn, Handles
<1>3. Live(p) /\ p.slot \in Slots /\ node[p.slot] \in Node
  BY <1>0, <1>1, <1>2, LiveAt DEF NoDangling, Handles
<1>4. turn' \in Turn /\ turn'.at = turn.at /\ turn'.pins = turn.pins \ {p}
  BY <1>0, <1>1 DEF Turn
<1>5. WeightOf(p.slot) \in Int
  BY <1>3, ArenaAssumption DEF WeightOf, Node
<1>6. heldPinners' \in [Slots -> Int]
  <2>1. heldPinners \in [Slots -> Int]
    BY <1>0 DEF TypeOK
  <2>2. CASE turn.held
    <3>1. heldPinners' = [heldPinners EXCEPT ![p.slot] = @ + 1]
      BY <2>2 DEF TurnPin, Told
    <3> QED
      BY <1>3, <2>1, <3>1
  <2>3. CASE ~turn.held
    <3>1. heldPinners' = [heldPinners EXCEPT ![p.slot] = @ - 1]
      BY <2>3 DEF TurnPin, Told
    <3> QED
      BY <1>3, <2>1, <3>1
  <2> QED
    BY <2>2, <2>3
<1>7. held' \in Int
  BY <1>0, <1>5 DEF TypeOK, TurnPin
<1>8. heldChildren' \in [Slots -> Int] /\ evicting' \in BOOLEAN
  BY <1>0 DEF TypeOK
<1> QED
  BY <1>0, <1>1, <1>4, <1>6, <1>7, <1>8, SameNodes

\* The loop of `turned` reaches its parent.
LEMMA TurnParentIInv ==
    ASSUME IInv, NEW parent \in Handles, TurnParent(parent)
    PROVE  IInv'
<1>0. /\ TypeOK /\ NoDangling /\ TurnOK /\ turn # None
      /\ UNCHANGED <<nodes, links, heldPinners, evicting, borrowed>>
      /\ parent = node[turn.at.slot].parent
  BY DEF IInv, TurnParent
<1>1. turn \in Turn /\ ~evicting /\ Live(turn.at)
  BY <1>0 DEF TypeOK, TurnOK
<1>2. turn.at.slot \in Slots /\ Occupied(turn.at.slot)
  BY <1>0, <1>1, LiveAt DEF Turn, Handles
<1>3. heldPinners' \in [Slots -> Int] /\ evicting' \in BOOLEAN
  BY <1>0 DEF TypeOK
<1>4. CASE parent = Root
  <2>1. turn' = None /\ UNCHANGED <<heldChildren, held>>
    BY <1>4 DEF TurnParent
  <2>2. held' \in Int /\ heldChildren' \in [Slots -> Int]
    BY <1>0, <2>1 DEF TypeOK
  <2> QED
    BY <1>0, <1>3, <2>1, <2>2, SameNodes
<1>5. CASE parent # Root
  <2>1. parent.slot \in Slots /\ Occupied(parent.slot) /\ parent = At(parent.slot)
    BY <1>0, <1>2, <1>5, LiveAt DEF NoDangling, IsLive
  <2>2. heldChildren' \in [Slots -> Int]
    BY <1>0, <1>5 DEF TypeOK, TurnParent, Told
  <2>3. /\ held' \in Int /\ turn' \in Turn \cup {None}
        /\ turn' # None => /\ Live(turn'.at)
                           /\ turn'.pins \subseteq node[turn'.at.slot].pins
    <3>1. CASE turn' = None /\ UNCHANGED held
      BY <1>0, <3>1 DEF TypeOK
    <3>2. CASE Turned(parent.slot, turn.held)
      <4>1. turn.held \in BOOLEAN
        BY <1>1 DEF Turn
      <4>2. /\ turn' \in Turn /\ turn'.at = At(parent.slot)
            /\ turn'.pins = node[parent.slot].pins /\ held' \in Int
        BY <1>0, <2>1, <3>2, <4>1, TurnedAt
      <4>3. Live(parent)
        BY <1>0, <2>1, LiveAt
      <4> QED
        BY <2>1, <4>2, <4>3
    <3> QED
      BY <1>5, <3>1, <3>2 DEF TurnParent
  <2> QED
    BY <1>0, <1>1, <1>3, <2>2, <2>3, SameNodes
<1> QED
  BY <1>4, <1>5

\* The loop of `evict_to_budget` takes a turn.
LEMMA EvictLoopIInv ==
    ASSUME IInv, EvictToBudget \/ EvictDone
    PROVE  IInv'
<1>1. /\ UNCHANGED <<nodes, links, holds, held, turn, borrowed>>
      /\ evicting' \in BOOLEAN
  BY DEF EvictToBudget, EvictDone
<1>2. turn = None
  BY DEF EvictToBudget, EvictDone, Idle, IInv, TurnOK
<1>3. TypeOK
  BY DEF IInv
<1>4. held' \in Int /\ heldChildren' \in [Slots -> Int] /\ heldPinners' \in [Slots -> Int]
  BY <1>1, <1>3 DEF TypeOK, holds
<1>5. turn' = None
  BY <1>1, <1>2
<1> QED
  BY <1>1, <1>4, <1>5, SameNodes

\* What an eviction does: its victim's counts are zero, so nothing borrows it, lies under it or
\* pins it, and every other handle opens what it opened; only its parent and its pins lose a child
\* and a pinner.
EvictedAt(s) ==
    /\ evicting /\ Unheld > Budget /\ Victim(s) /\ turn = None
    /\ Occupied(s) /\ ~IsHeld(s) /\ node[s] \in Node
    /\ children[s] = 0 /\ pinners[s] = 0
    /\ Borrowers(s) = {} /\ Children(s) = {} /\ Pinners(s) = {}
    /\ gen' = [gen EXCEPT ![s] = NextGen(@)]
    /\ node' = [node EXCEPT ![s] = None]
    /\ children' = [t \in Slots |->
         IF At(t) = node[s].parent THEN children[t] - 1 ELSE children[t]]
    /\ pinners' = [t \in Slots |->
         IF At(t) \in node[s].pins THEN pinners[t] - 1 ELSE pinners[t]]
    /\ older' = Unused(At(s))
    /\ index' = [index EXCEPT ![<<node[s].parent, node[s].name>>] = None]
    /\ total' = total - Weight[node[s].name]
    /\ UNCHANGED <<borrowers, holds, held, turn, evicting, borrowed>>
    /\ \A t \in Slots : t # s => At(t)' = At(t) /\ node'[t] = node[t]
    /\ \A t \in Slots : Occupied(t)' <=> (t # s /\ Occupied(t))
    /\ \A r \in Handles : Live(r)' <=> Live(r) /\ r # At(s)
    /\ \A t \in Slots : t # s => /\ Children(t)' = Children(t) \ {s}
                                 /\ Pinners(t)' = Pinners(t) \ {s}

\* What `evict` leaves changed when it evicts node `i`.
LEMMA EvictFacts ==
    ASSUME IInv, NEW s \in Slots, Evict(s)
    PROVE  EvictedAt(s)
<1>0. TypeOK /\ NoDangling /\ LinksCounted /\ TurnOK
  BY DEF IInv
<1>1. /\ evicting /\ Unheld > Budget /\ Victim(s)
      /\ Occupied(s) /\ ~IsHeld(s) /\ children[s] = 0 /\ pinners[s] = 0
      /\ gen' = [gen EXCEPT ![s] = NextGen(@)]
      /\ node' = [node EXCEPT ![s] = None]
      /\ children' = [t \in Slots |->
           IF At(t) = node[s].parent THEN children[t] - 1 ELSE children[t]]
      /\ pinners' = [t \in Slots |->
           IF At(t) \in node[s].pins THEN pinners[t] - 1 ELSE pinners[t]]
      /\ older' = Unused(At(s))
      /\ index' = [index EXCEPT ![<<node[s].parent, node[s].name>>] = None]
      /\ total' = total - Weight[node[s].name]
      /\ UNCHANGED <<borrowers, holds, held, turn, evicting, borrowed>>
  BY DEF Evict, Victim, Evictable, Fewer, Unfound
<1>2. turn = None /\ node[s] \in Node
  BY <1>0, <1>1, LiveAt DEF TurnOK
<1>3. Borrowers(s) = {} /\ Children(s) = {} /\ Pinners(s) = {}
  <2>1. Borrowers(s) \in SUBSET Owners /\ Children(s) \in SUBSET Slots
        /\ Pinners(s) \in SUBSET Slots
    BY DEF Borrowers, Children, Pinners
  <2>2. borrowers[s] = Cardinality(Borrowers(s)) /\ Cardinality(Borrowers(s)) \in Nat
        /\ children[s] = Cardinality(Children(s)) /\ pinners[s] = Cardinality(Pinners(s))
    BY <1>0, <1>1, <2>1, CountZero, ArenaAssumption DEF LinksCounted
  <2>3. borrowers[s] = 0
    BY <1>1, <2>2 DEF IsHeld
  <2> QED
    BY <1>1, <2>1, <2>2, <2>3, CountZero, ArenaAssumption
<1>4. /\ \A t \in Slots : t # s => At(t)' = At(t) /\ node'[t] = node[t]
      /\ \A t \in Slots : Occupied(t)' <=> (t # s /\ Occupied(t))
  BY <1>0, <1>1 DEF TypeOK, At, Occupied
<1>5. \A r \in Handles : Live(r)' <=> Live(r) /\ r # At(s)
  <2> SUFFICES ASSUME NEW r \in Handles PROVE Live(r)' <=> Live(r) /\ r # At(s)
    OBVIOUS
  <2>1. ASSUME Live(r), r # At(s) PROVE Live(r)'
    <3>1. r.slot \in Slots /\ r = At(r.slot) /\ r # Root
      BY <1>0, <2>1, LiveAt DEF Live
    <3>2. r.slot # s
      BY <2>1, <3>1
    <3>3. Occupied(r.slot)' /\ gen'[r.slot] = gen[r.slot]
      BY <1>0, <1>1, <1>4, <2>1, <3>1, <3>2, LiveAt DEF TypeOK
    <3> QED
      BY <2>1, <3>1, <3>3 DEF Live
  <2>2. ASSUME Live(r)' PROVE Live(r) /\ r # At(s)
    <3>1. r # Root /\ r.slot \in Slots /\ Occupied(r.slot)' /\ gen'[r.slot] = r.generation
      BY <2>2 DEF Live, Handles, Refs
    <3>2. r.slot # s /\ Occupied(r.slot)
      BY <1>4, <3>1
    <3>3. gen'[r.slot] = gen[r.slot]
      BY <1>0, <1>1, <3>1, <3>2 DEF TypeOK
    <3> QED
      BY <3>1, <3>2, <3>3 DEF Live, At
  <2> QED
    BY <2>1, <2>2
<1>6. \A t \in Slots : t # s => /\ Children(t)' = Children(t) \ {s}
                                /\ Pinners(t)' = Pinners(t) \ {s}
  BY <1>4 DEF Children, Pinners
<1> QED
  BY <1>1, <1>2, <1>3, <1>4, <1>5, <1>6 DEF EvictedAt

\* An eviction keeps the invariant: the victim's counts are zero, so nothing borrows it, lies
\* under it or pins it, and the counts of its own parent and pins go down by the victim alone.
LEMMA EvictIInv ==
    ASSUME IInv, NEW s \in Slots, Evict(s)
    PROVE  IInv'
<1>0. TypeOK /\ NoDangling /\ LinksCounted /\ TurnOK
  BY DEF IInv
<1>1. EvictedAt(s)
  BY EvictFacts
<1>2. TypeOK'
  <2>1. gen' \in [Slots -> 0 .. GenWidth - 1]
    <3>1. NextGen(gen[s]) \in 0 .. GenWidth - 1
      BY <1>0, ArenaAssumption DEF TypeOK, NextGen
    <3> QED
      BY <1>0, <1>1, <3>1 DEF TypeOK, EvictedAt
  <2>2. node' \in [Slots -> Node \cup {None}]
    BY <1>0, <1>1 DEF TypeOK, EvictedAt
  <2>3. children' \in [Slots -> Int] /\ pinners' \in [Slots -> Int]
    BY <1>0, <1>1 DEF TypeOK, EvictedAt
  <2>4. older' \subseteq Refs \X Refs
    BY <1>0, <1>1 DEF TypeOK, Unused, EvictedAt
  <2>5. index' \in [Handles \X Names -> Refs \cup {None}]
    BY <1>0, <1>1 DEF TypeOK, EvictedAt
  <2>6. total' \in Int
    BY <1>0, <1>1, ArenaAssumption DEF TypeOK, Node, EvictedAt
  <2> QED
    BY <1>0, <1>1, <2>1, <2>2, <2>3, <2>4, <2>5, <2>6 DEF TypeOK, holds, EvictedAt
<1>3. NoDangling'
  <2>1. ASSUME NEW o \in Owners, borrowed'[o] # None PROVE IsLive(borrowed[o])'
    <3>1. /\ borrowed' = borrowed /\ borrowed[o] \in Handles
          /\ IsLive(borrowed[o]) /\ borrowed[o] # At(s)
      BY <1>0, <1>1, <2>1 DEF NoDangling, Borrowers, TypeOK, EvictedAt
    <3> QED
      BY <1>1, <3>1 DEF IsLive, EvictedAt
  <2>2. ASSUME NEW t \in Slots, Occupied(t)'
        PROVE  IsLive(node[t].parent)' /\ \A p \in node'[t].pins : Live(p)'
    <3>1. t # s /\ Occupied(t) /\ node'[t] = node[t] /\ node[t] \in Node
      BY <1>1, <1>0, <2>2, LiveAt DEF EvictedAt
    <3>2. IsLive(node[t].parent) /\ node[t].parent # At(s) /\ node[t].parent \in Handles
      BY <1>1, <1>0, <3>1 DEF NoDangling, Children, Node, EvictedAt
    <3>3. \A p \in node[t].pins : Live(p) /\ p # At(s) /\ p \in Handles
      BY <1>1, <1>0, <3>1 DEF NoDangling, Pinners, Node, Handles, EvictedAt
    <3> QED
      BY <1>1, <3>1, <3>2, <3>3 DEF IsLive, EvictedAt
  <2> QED
    BY <2>1, <2>2 DEF NoDangling
<1>4. LinksCounted'
  <2> SUFFICES ASSUME NEW t \in Slots, Occupied(t)'
               PROVE  /\ borrowers'[t] = Cardinality(Borrowers(t)')
                      /\ children'[t] = Cardinality(Children(t)')
                      /\ pinners'[t] = Cardinality(Pinners(t)')
    BY DEF LinksCounted
  <2>1. t # s /\ Occupied(t) /\ At(t)' = At(t)
    BY <1>1 DEF EvictedAt
  <2>2. /\ borrowers[t] = Cardinality(Borrowers(t))
        /\ children[t] = Cardinality(Children(t)) /\ pinners[t] = Cardinality(Pinners(t))
    BY <1>0, <2>1 DEF LinksCounted
  <2>3. borrowers' = borrowers /\ Borrowers(t)' = Borrowers(t)
    BY <1>1, <2>1 DEF Borrowers, EvictedAt
  <2>4. children'[t] = Cardinality(Children(t)')
    <3>1. /\ Children(t)' = Children(t) \ {s} /\ Children(t) \in SUBSET Slots
          /\ s \in Children(t) <=> At(t) = node[s].parent
      BY <1>1, <2>1 DEF Children, EvictedAt
    <3>2. s \in Children(t) => Cardinality(Children(t) \ {s}) = Cardinality(Children(t)) - 1
      BY <3>1, CountDown, ArenaAssumption
    <3>3. children'[t] = IF At(t) = node[s].parent THEN children[t] - 1 ELSE children[t]
      BY <1>1 DEF EvictedAt
    <3>4. s \notin Children(t) => Children(t) \ {s} = Children(t)
      OBVIOUS
    <3> QED
      BY <2>2, <3>1, <3>2, <3>3, <3>4
  <2>5. pinners'[t] = Cardinality(Pinners(t)')
    <3>1. /\ Pinners(t)' = Pinners(t) \ {s} /\ Pinners(t) \in SUBSET Slots
          /\ s \in Pinners(t) <=> At(t) \in node[s].pins
      BY <1>1, <2>1 DEF Pinners, EvictedAt
    <3>2. s \in Pinners(t) => Cardinality(Pinners(t) \ {s}) = Cardinality(Pinners(t)) - 1
      BY <3>1, CountDown, ArenaAssumption
    <3>3. pinners'[t] = IF At(t) \in node[s].pins THEN pinners[t] - 1 ELSE pinners[t]
      BY <1>1 DEF EvictedAt
    <3>4. s \notin Pinners(t) => Pinners(t) \ {s} = Pinners(t)
      OBVIOUS
    <3> QED
      BY <2>2, <3>1, <3>2, <3>3, <3>4
  <2> QED
    BY <2>2, <2>3, <2>4, <2>5
<1>5. TurnOK'
  BY <1>1 DEF TurnOK, EvictedAt
<1> QED
  BY <1>2, <1>3, <1>4, <1>5 DEF IInv

-----------------------------------------------------------------------------
\* Every step keeps the invariant.
LEMMA NextIInv == IInv /\ [Next]_vars => IInv'
<1> SUFFICES ASSUME IInv, [Next]_vars PROVE IInv'
  OBVIOUS
<1>0. TypeOK
  BY DEF IInv
<1>1. ASSUME NEW p \in LiveRefs \cup {Root}, NEW k \in Keys,
             NEW pins \in SUBSET MayPin(p), Insert(p, k, pins)
      PROVE  IInv'
  <2>1. p \in Handles /\ IsLive(p)
    BY <1>0, LiveAt DEF LiveRefs, IsLive, Handles
  <2>2. BaseOf(p) \in Digests \cup {None}
    BY <1>0, <2>1, LiveAt DEF BaseOf, IsLive, Node
  <2>3. pins \in SUBSET LiveRefs /\ k \in Names
    BY DEF MayPin, Names
  <2>4. Idle /\ Laid(p, k, BaseOf(p), pins)
    BY <1>1 DEF Insert
  <2> QED
    BY <2>1, <2>2, <2>3, <2>4, LaidIInv
<1>2. ASSUME NEW d \in Digests, Compose(d) PROVE IInv'
  <2>1. Root \in Handles /\ IsLive(Root) /\ d \in Names /\ {} \in SUBSET LiveRefs
    BY DEF Handles, IsLive, Names
  <2>2. Idle /\ Laid(Root, d, d, {})
    BY <1>2 DEF Compose
  <2> QED
    BY <2>1, <2>2, LaidIInv
<1>3. CASE UNCHANGED vars
  <2>1. /\ UNCHANGED <<nodes, links, borrowed>>
        /\ UNCHANGED <<holds, held, turn, evicting>>
    BY <1>3 DEF vars
  <2>2. /\ held' \in Int /\ heldChildren' \in [Slots -> Int]
        /\ heldPinners' \in [Slots -> Int] /\ turn' \in Turn \cup {None}
    BY <1>0, <2>1 DEF TypeOK, holds
  <2>3. evicting' \in BOOLEAN
    BY <1>0, <2>1 DEF TypeOK
  <2>4. turn' # None => /\ ~evicting'
                        /\ Live(turn'.at)
                        /\ turn'.pins \subseteq node[turn'.at.slot].pins
    BY <2>1 DEF IInv, TurnOK
  <2> QED
    BY <2>1, <2>2, <2>3, <2>4, SameNodes
<1>4. CASE Next
  BY <1>1, <1>2, <1>4, StampIInv, BorrowIInv, ReleaseIInv, TurnPinIInv, TurnParentIInv,
     EvictLoopIInv, EvictIInv DEF Next
<1> QED
  BY <1>3, <1>4

\* The books keep their shape.
THEOREM TypeCorrect == Spec => []TypeOK
<1>1. IInv => TypeOK
  BY DEF IInv
<1> QED
  BY <1>1, InitIInv, NextIInv, PTL DEF Spec

\* Nothing counted ever dangles: what a run cell borrows, a settlement's parent and every
\* composition it pins are live, at the generation held, whatever is laid, released or evicted.
THEOREM NeverDangling == Spec => []NoDangling
<1>1. IInv => NoDangling
  BY DEF IInv
<1> QED
  BY <1>1, InitIInv, NextIInv, PTL DEF Spec

\* Every count of borrowers, children and pinners is the number there are.
THEOREM LinksExact == Spec => []LinksCounted
<1>1. IInv => LinksCounted
  BY DEF IInv
<1> QED
  BY <1>1, InitIInv, NextIInv, PTL DEF Spec

-----------------------------------------------------------------------------
(* Who is held *)

\* The live nodes, those of them the books call held, and what each slot weighs.
Nodes == {s \in Slots : Occupied(s)}
HeldNodes == {s \in Nodes : IsHeld(s)}
Weights == [s \in Slots |-> IF Occupied(s) THEN WeightOf(s) ELSE 0]

\* Whether the loop of `turned` is at `t`; what its parent, and a node it pins, have been told of
\* it so far: while it is being told, that it is as it was before it turned.
Telling(t) == turn # None /\ turn.at = At(t)
ToldParent(t) == IF Telling(t) THEN ~turn.held ELSE IsHeld(t)
ToldPin(t, s) == IF Telling(t) /\ At(s) \in turn.pins THEN ~turn.held ELSE IsHeld(t)

HeldChildren(s) == {t \in Children(s) : ToldParent(t)}
HeldPinners(s) == {t \in Pinners(s) : ToldPin(t, s)}

\* The held counts are the children and pinners whose turns to held have been told.
HoldsTold ==
    \A s \in Nodes : /\ heldChildren[s] = Cardinality(HeldChildren(s))
                     /\ heldPinners[s] = Cardinality(HeldPinners(s))

\* The node that turned is as it turned.
TurnHeld == turn # None => (IsHeld(turn.at.slot) <=> turn.held)

\* A composition lies under the root and pins nothing, and only compositions are pinned.
PinsCompositions ==
    \A s \in Nodes :
      /\ node[s].name \in Digests => node[s].parent = Root /\ node[s].pins = {}
      /\ \A p \in node[s].pins : node[p.slot].name \in Digests

\* Among any live nodes, one has none of the others below it or pinning it.
Founded ==
    \A S \in SUBSET Nodes : S # {} =>
      \E s \in S : \A t \in S : t \notin Children(s) /\ t \notin Pinners(s)

\* The running totals are the bytes there are, mid-turn too.
BytesTold == held = Sum(Weights, HeldNodes) /\ total = Sum(Weights, Nodes)

\* The inductive invariant: the books agree with the nodes in every state, the lag allowed for.
Books == IndexExact /\ PinsCompositions /\ Founded /\ HoldsTold /\ TurnHeld /\ BytesTold

-----------------------------------------------------------------------------
\* The books at one state.

\* Who refers to a live node is live, and refers to it by its parent or its pins.
LEMMA Referrers ==
    ASSUME IInv, NEW s \in Slots
    PROVE  /\ Children(s) \subseteq Nodes /\ Pinners(s) \subseteq Nodes
           /\ HeldChildren(s) \subseteq Children(s) /\ HeldPinners(s) \subseteq Pinners(s)
           /\ Children(s) # {} \/ Pinners(s) # {} \/ Borrowers(s) # {} => Occupied(s)
<1>0. TypeOK /\ NoDangling
  BY DEF IInv
<1>1. /\ Children(s) \subseteq Nodes /\ Pinners(s) \subseteq Nodes
      /\ HeldChildren(s) \subseteq Children(s) /\ HeldPinners(s) \subseteq Pinners(s)
  BY DEF Children, Pinners, HeldChildren, HeldPinners, Nodes
<1>2. At(s) \in Refs /\ At(s) # Root /\ At(s).slot = s
  BY <1>0, LiveAt DEF At
<1>3. ASSUME NEW t \in Children(s) PROVE Occupied(s)
  <2>1. IsLive(At(s))
    BY <1>0 DEF Children, NoDangling
  <2> QED
    BY <1>2, <2>1 DEF IsLive, Live
<1>4. ASSUME NEW t \in Pinners(s) PROVE Occupied(s)
  <2>1. Live(At(s))
    BY <1>0 DEF Pinners, NoDangling
  <2> QED
    BY <1>2, <2>1 DEF Live
<1>5. ASSUME NEW o \in Borrowers(s) PROVE Occupied(s)
  <2>1. IsLive(At(s))
    BY <1>0, <1>2, ArenaAssumption DEF Borrowers, NoDangling, Handles
  <2> QED
    BY <1>2, <2>1 DEF IsLive, Live
<1> QED
  BY <1>1, <1>3, <1>4, <1>5

\* Counts count: none is negative, and each is zero only where there is nothing to count.
LEMMA Counts ==
    ASSUME IInv, HoldsTold, NEW s \in Nodes
    PROVE  /\ borrowers[s] \in Nat /\ children[s] \in Nat /\ pinners[s] \in Nat
           /\ heldChildren[s] \in Nat /\ heldPinners[s] \in Nat
           /\ borrowers[s] = 0 <=> Borrowers(s) = {}
           /\ children[s] = 0 <=> Children(s) = {}
           /\ pinners[s] = 0 <=> Pinners(s) = {}
           /\ heldChildren[s] = 0 <=> HeldChildren(s) = {}
           /\ heldPinners[s] = 0 <=> HeldPinners(s) = {}
           /\ IsHeld(s) <=> \/ Borrowers(s) # {} \/ HeldChildren(s) # {} \/ HeldPinners(s) # {}
<1>1. s \in Slots /\ Occupied(s)
  BY DEF Nodes
<1>2. /\ borrowers[s] = Cardinality(Borrowers(s)) /\ children[s] = Cardinality(Children(s))
      /\ pinners[s] = Cardinality(Pinners(s))
  BY <1>1 DEF IInv, LinksCounted
<1>3. /\ heldChildren[s] = Cardinality(HeldChildren(s))
      /\ heldPinners[s] = Cardinality(HeldPinners(s))
  BY DEF HoldsTold
<1>4. /\ Borrowers(s) \in SUBSET Owners /\ Children(s) \in SUBSET Slots
      /\ Pinners(s) \in SUBSET Slots /\ HeldChildren(s) \in SUBSET Slots
      /\ HeldPinners(s) \in SUBSET Slots
  BY DEF Borrowers, Children, Pinners, HeldChildren, HeldPinners
<1>5. /\ borrowers[s] \in Nat /\ children[s] \in Nat /\ pinners[s] \in Nat
      /\ heldChildren[s] \in Nat /\ heldPinners[s] \in Nat
      /\ borrowers[s] = 0 <=> Borrowers(s) = {}
      /\ children[s] = 0 <=> Children(s) = {}
      /\ pinners[s] = 0 <=> Pinners(s) = {}
      /\ heldChildren[s] = 0 <=> HeldChildren(s) = {}
      /\ heldPinners[s] = 0 <=> HeldPinners(s) = {}
  BY <1>2, <1>3, <1>4, CountZero, ArenaAssumption
<1>6. IsHeld(s) <=> borrowers[s] # 0 \/ heldChildren[s] # 0 \/ heldPinners[s] # 0
  BY <1>5 DEF IsHeld
<1> QED
  BY <1>5, <1>6

\* A live node weighs what its name does; the slots are finitely many, so the weights add up.
LEMMA Weighed ==
    ASSUME TypeOK
    PROVE  /\ Weights \in [Slots -> Nat]
           /\ \A s \in Nodes : Weights[s] = WeightOf(s) /\ WeightOf(s) \in Nat \ {0}
           /\ \A S \in SUBSET Slots : Sum(Weights, S) \in Nat
<1>1. \A s \in Nodes : s \in Slots /\ Occupied(s) /\ WeightOf(s) \in Nat \ {0}
  BY LiveAt, ArenaAssumption DEF Nodes, WeightOf, Node
<1>2. Weights \in [Slots -> Nat]
  BY <1>1 DEF Weights, Nodes
<1>3. \A s \in Nodes : Weights[s] = WeightOf(s)
  BY <1>1 DEF Weights
<1>4. \A S \in SUBSET Slots : Sum(Weights, S) \in Nat
  BY <1>2, SumAdd, ArenaAssumption
<1> QED
  BY <1>1, <1>2, <1>3, <1>4

\* The bytes of some live nodes, which the model adds up by a fold, are the sum of their weights.
LEMMA BytesSum ==
    ASSUME TypeOK, NEW S \in SUBSET Nodes
    PROVE  Bytes(S) = Sum(Weights, S)
<1> DEFINE w == [s \in S |-> WeightOf(s)]
<1>1. IsFiniteSet(S) /\ w \in [S -> Nat] /\ \A s \in S : w[s] = Weights[s]
  <2>1. S \in SUBSET Slots
    BY DEF Nodes
  <2> QED
    BY <2>1, Weighed, FS_Subset, ArenaAssumption
<1>2. Bytes(S) = LET f == CHOOSE g : g = [T \in SUBSET S |->
                       IF T = {} THEN 0
                       ELSE WeightOf(CHOOSE x \in T : TRUE) + g[T \ {CHOOSE x \in T : TRUE}]]
                 IN  f[S]
  BY DEF Bytes, MapThenFoldSet
<1>3. \A g : [T \in SUBSET S |->
                       IF T = {} THEN 0
                       ELSE WeightOf(CHOOSE x \in T : TRUE) + g[T \ {CHOOSE x \in T : TRUE}]]
              = FoldStep(w, S, g)
  <2>1. \A T \in SUBSET S : T # {} => w[CHOOSE x \in T : TRUE] = WeightOf(CHOOSE x \in T : TRUE)
    OBVIOUS
  <2> QED
    BY <2>1 DEF FoldStep
<1>4. Bytes(S) = LET f == CHOOSE g : g = FoldStep(w, S, g) IN f[S]
  BY <1>2, <1>3
<1>5. Bytes(S) = Sum(w, S)
  BY <1>1, <1>4, FoldSums
<1> QED
  BY <1>1, <1>5, SumSame

-----------------------------------------------------------------------------
\* What the invariant gives between verbs.

\* With no turn to tell, the held counts are the held children and pinners.
LEMMA NothingToTell ==
    ASSUME turn = None, NEW s \in Slots
    PROVE  /\ HeldChildren(s) = {t \in Children(s) : IsHeld(t)}
           /\ HeldPinners(s) = {t \in Pinners(s) : IsHeld(t)}
BY DEF HeldChildren, HeldPinners, ToldParent, ToldPin, Telling

\* The nodes the books call held are those some borrow reads through: they are closed under
\* reading, and a held node outside a closed set would have, by `Founded`, none to hold it.
LEMMA HeldIsTruly ==
    ASSUME IInv, Books, turn = None
    PROVE  TrulyHeld = HeldNodes
<1>0. HoldsTold /\ Founded
  BY DEF Books
<1>1. HeldClosed(HeldNodes)
  <2>1. ASSUME NEW s \in Slots, Borrowers(s) # {} PROVE s \in HeldNodes
    <3>1. s \in Nodes
      BY <2>1, Referrers DEF Nodes
    <3> QED
      BY <1>0, <2>1, <3>1, Counts DEF HeldNodes
  <2>2. ASSUME NEW s \in Slots, NEW t \in HeldNodes, t \in Children(s) \/ t \in Pinners(s)
        PROVE  s \in HeldNodes
    <3>1. s \in Nodes
      BY <2>2, Referrers DEF Nodes
    <3>2. t \in HeldChildren(s) \/ t \in HeldPinners(s)
      BY <2>2, NothingToTell DEF HeldNodes
    <3> QED
      BY <1>0, <3>1, <3>2, Counts DEF HeldNodes
  <2> QED
    BY <2>1, <2>2 DEF HeldClosed
<1>2. ASSUME NEW S \in SUBSET Slots, HeldClosed(S) PROVE HeldNodes \subseteq S
  <2> DEFINE D == HeldNodes \ S
  <2> SUFFICES ASSUME D # {} PROVE FALSE
    OBVIOUS
  <2>1. D \in SUBSET Nodes
    BY DEF HeldNodes
  <2>2. PICK s \in D : \A t \in D : t \notin Children(s) /\ t \notin Pinners(s)
    BY <1>0, <2>1 DEF Founded
  <2>3. s \in Nodes /\ IsHeld(s) /\ s \in Slots /\ s \notin S
    BY DEF HeldNodes, Nodes
  <2>4. Borrowers(s) = {}
    BY <1>2, <2>3 DEF HeldClosed
  <2>5. PICK t \in HeldNodes : t \in Children(s) \/ t \in Pinners(s)
    <3>1. HeldChildren(s) # {} \/ HeldPinners(s) # {}
      BY <1>0, <2>3, <2>4, Counts
    <3> QED
      BY <2>3, <3>1, NothingToTell, Referrers DEF HeldNodes
  <2>6. t \in S
    BY <2>2, <2>5
  <2> QED
    BY <1>2, <2>3, <2>5, <2>6 DEF HeldClosed
<1>3. HeldNodes \in SUBSET Slots
  BY DEF HeldNodes, Nodes
<1>4. TrulyHeld \subseteq HeldNodes
  BY <1>1, <1>3 DEF TrulyHeld
<1>5. HeldNodes \subseteq TrulyHeld
  BY <1>2, <1>3 DEF TrulyHeld
<1> QED
  BY <1>4, <1>5

\* The invariant is what the property asks, in the states between verbs.
LEMMA BooksAreExact ==
    ASSUME IInv, Books
    PROVE  BooksExact
<1>0. TypeOK /\ LinksCounted /\ IndexExact /\ HoldsTold /\ BytesTold
  BY DEF IInv, Books
<1>1. HeldCounted
  <2> SUFFICES ASSUME turn = None, NEW s \in Slots, Occupied(s)
               PROVE  /\ heldChildren[s] = Cardinality({t \in Children(s) : IsHeld(t)})
                      /\ heldPinners[s] = Cardinality({t \in Pinners(s) : IsHeld(t)})
    BY DEF HeldCounted
  <2>1. s \in Nodes
    BY DEF Nodes
  <2> QED
    BY <1>0, <2>1, NothingToTell DEF HoldsTold
<1>2. HeldExact
  <2> SUFFICES ASSUME turn = None
               PROVE  /\ \A s \in Slots : Occupied(s) => (IsHeld(s) <=> s \in TrulyHeld)
                      /\ held = Bytes(TrulyHeld)
                      /\ total = Bytes({s \in Slots : Occupied(s)})
    BY DEF HeldExact
  <2>1. TrulyHeld = HeldNodes
    BY HeldIsTruly
  <2>2. Bytes(HeldNodes) = Sum(Weights, HeldNodes) /\ Bytes(Nodes) = Sum(Weights, Nodes)
    BY <1>0, BytesSum DEF HeldNodes
  <2>3. /\ \A s \in Slots : Occupied(s) => (IsHeld(s) <=> s \in HeldNodes)
        /\ Nodes = {s \in Slots : Occupied(s)}
    BY DEF HeldNodes, Nodes
  <2> QED
    BY <1>0, <2>1, <2>2, <2>3 DEF BytesTold
<1> QED
  BY <1>0, <1>1, <1>2 DEF BooksExact, CountsExact

\* What is unheld weighs the difference of the totals.
LEMMA UnheldSum ==
    ASSUME IInv, Books
    PROVE  Unheld = Sum(Weights, Nodes \ HeldNodes)
<1>1. TypeOK /\ BytesTold
  BY DEF IInv, Books
<1>2. Nodes \in SUBSET Slots /\ HeldNodes \in SUBSET Nodes
  BY DEF Nodes, HeldNodes
<1>3. Sum(Weights, Nodes) = Sum(Weights, HeldNodes) + Sum(Weights, Nodes \ HeldNodes)
  BY <1>1, <1>2, Weighed, SumSplit, ArenaAssumption
<1>4. /\ Sum(Weights, HeldNodes) \in Nat
      /\ Sum(Weights, Nodes \ HeldNodes) \in Nat
  <2>1. HeldNodes \in SUBSET Slots /\ Nodes \ HeldNodes \in SUBSET Slots
    BY <1>2
  <2> QED
    BY <1>1, <2>1, Weighed
<1> QED
  BY <1>1, <1>3, <1>4 DEF BytesTold, Unheld

\* Where any node is unheld, one may be evicted: by `Founded` one of them has no unheld child or
\* pinner, and a held one would hold it.
LEMMA SomeEvictable ==
    ASSUME IInv, Books, turn = None, Nodes \ HeldNodes # {}
    PROVE  \E s \in Slots : Evictable(s)
<1>0. HoldsTold /\ Founded
  BY DEF Books
<1>1. PICK s \in Nodes \ HeldNodes :
        \A t \in Nodes \ HeldNodes : t \notin Children(s) /\ t \notin Pinners(s)
  BY <1>0 DEF Founded
<1>2. s \in Slots /\ Occupied(s) /\ ~IsHeld(s)
  BY DEF Nodes, HeldNodes
<1>3. HeldChildren(s) = {} /\ HeldPinners(s) = {}
  BY <1>0, <1>2, Counts
<1>4. Children(s) = {} /\ Pinners(s) = {}
  BY <1>1, <1>2, <1>3, NothingToTell, Referrers DEF HeldNodes
<1>5. children[s] = 0 /\ pinners[s] = 0
  BY <1>0, <1>4, Counts
<1> QED
  BY <1>2, <1>5 DEF Evictable

\* So the loop of `evict_to_budget` never ends over the budget for want of a victim.
LEMMA DoneInBudget ==
    ASSUME IInv, Books, EvictDone
    PROVE  Unheld <= Budget
<1>1. evicting /\ (Unheld <= Budget \/ \A s \in Slots : ~Evictable(s))
  BY DEF EvictDone
<1>2. turn = None /\ TypeOK
  BY <1>1 DEF IInv, TurnOK
<1>3. CASE \A s \in Slots : ~Evictable(s)
  <2>1. Nodes \ HeldNodes = {}
    BY <1>2, <1>3, SomeEvictable
  <2>2. Sum(Weights, {}) = 0
    <3>1. {} \in SUBSET Slots
      OBVIOUS
    <3> QED
      BY <1>2, <3>1, Weighed, SumAdd, ArenaAssumption
  <2>3. Unheld = 0
    BY <2>1, <2>2, UnheldSum
  <2> QED
    BY <2>3, ArenaAssumption
<1> QED
  BY <1>1, <1>3

-----------------------------------------------------------------------------
\* The invariant from step to step.

\* An empty arena has nothing to book.
LEMMA InitBooks == Init => Books
<1> SUFFICES ASSUME Init PROVE Books
  OBVIOUS
<1>1. /\ node = [s \in Slots |-> None] /\ index = [k \in Handles \X Names |-> None]
      /\ total = 0 /\ held = 0 /\ turn = None
  BY DEF Init
<1>2. Nodes = {} /\ HeldNodes = {}
  BY <1>1 DEF Nodes, HeldNodes, Occupied
<1>3. IndexExact
  BY <1>1 DEF IndexExact, Find, Occupied
<1>4. PinsCompositions /\ Founded /\ HoldsTold
  BY <1>2 DEF PinsCompositions, Founded, HoldsTold
<1>5. BytesTold
  <2>1. Sum(Weights, {}) = 0
    <3>1. Heap(Weights, {}) = {}
      BY DEF Heap
    <3> QED
      BY <3>1, FS_EmptySet DEF Sum
  <2> QED
    BY <1>1, <1>2, <2>1 DEF BytesTold
<1> QED
  BY <1>1, <1>3, <1>4, <1>5 DEF Books, TurnHeld

\* Where no node is laid or evicted, who lies below whom and who pins whom stays, and with it
\* what depends on nothing else.
LEMMA SameShape ==
    ASSUME IInv, Books, UNCHANGED <<node, gen, index>>
    PROVE  /\ IndexExact' /\ PinsCompositions' /\ Founded'
           /\ Nodes' = Nodes /\ Weights' = Weights
           /\ \A s \in Slots : /\ At(s)' = At(s)
                               /\ Children(s)' = Children(s)
                               /\ Pinners(s)' = Pinners(s)
<1>0. TypeOK /\ IndexExact /\ PinsCompositions /\ Founded
  BY DEF IInv, Books
<1>1. \A s \in Slots : /\ At(s)' = At(s)
                       /\ Occupied(s)' <=> Occupied(s)
                       /\ Children(s)' = Children(s)
                       /\ Pinners(s)' = Pinners(s)
  BY <1>0, SameLinks
<1>2. Nodes' = Nodes
  BY <1>1 DEF Nodes
<1>3. Weights' = Weights
  BY <1>1 DEF Weights, WeightOf
<1>4. IndexExact'
  BY <1>0 DEF IndexExact, Find, Live, Occupied, At
<1>5. PinsCompositions'
  BY <1>0, <1>2 DEF PinsCompositions
<1>6. Founded'
  <2>1. \A s \in Nodes : Children(s)' = Children(s) /\ Pinners(s)' = Pinners(s)
    BY <1>1 DEF Nodes
  <2> SUFFICES ASSUME NEW S \in SUBSET Nodes, S # {}
               PROVE  \E s \in S : \A t \in S : t \notin Children(s)' /\ t \notin Pinners(s)'
    BY <1>2 DEF Founded
  <2>2. PICK s \in S : \A t \in S : t \notin Children(s) /\ t \notin Pinners(s)
    BY <1>0 DEF Founded
  <2> QED
    BY <2>1, <2>2
<1> QED
  BY <1>1, <1>2, <1>3, <1>4, <1>5, <1>6

\* A step that moves neither a node nor a count keeps the books.
LEMMA StillBooks ==
    ASSUME IInv, Books,
           UNCHANGED <<node, gen, index, total, borrowers, holds, held, turn>>
    PROVE  Books'
<1>0. TypeOK /\ HoldsTold /\ TurnHeld /\ BytesTold
  BY DEF IInv, Books
<1>1. /\ IndexExact' /\ PinsCompositions' /\ Founded'
      /\ Nodes' = Nodes /\ Weights' = Weights
      /\ \A s \in Slots : /\ At(s)' = At(s)
                          /\ Children(s)' = Children(s)
                          /\ Pinners(s)' = Pinners(s)
  BY SameShape
<1>2. heldChildren' = heldChildren /\ heldPinners' = heldPinners
  BY DEF holds
<1>3. \A s : IsHeld(s)' <=> IsHeld(s)
  BY <1>2 DEF IsHeld
<1>4. HoldsTold'
  <2> SUFFICES ASSUME NEW s \in Nodes
               PROVE  /\ HeldChildren(s)' = HeldChildren(s)
                      /\ HeldPinners(s)' = HeldPinners(s)
    BY <1>0, <1>1, <1>2 DEF HoldsTold
  <2>1. \A t \in Slots : ToldParent(t)' <=> ToldParent(t)
    BY <1>1, <1>3 DEF ToldParent, Telling
  <2>2. \A t \in Slots : ToldPin(t, s)' <=> ToldPin(t, s)
    BY <1>1, <1>3 DEF ToldPin, Telling, Nodes
  <2> QED
    BY <1>1, <2>1, <2>2 DEF HeldChildren, HeldPinners, Children, Pinners, Nodes
<1>5. TurnHeld'
  BY <1>0, <1>3 DEF TurnHeld
<1>6. BytesTold'
  <2>1. HeldNodes' = HeldNodes
    BY <1>1, <1>3 DEF HeldNodes
  <2> QED
    BY <1>0, <1>1, <2>1 DEF BytesTold
<1> QED
  BY <1>1, <1>4, <1>5, <1>6 DEF Books

\* The held total moves by the bytes of the one node that turns, the way it turns.
LEMMA OneTurns ==
    ASSUME IInv, Books, UNCHANGED <<node, gen, index, total>>, NEW q \in Nodes,
           \A t \in Nodes : t # q => (IsHeld(t)' <=> IsHeld(t)),
           \/ (IsHeld(q)' <=> IsHeld(q)) /\ held' = held
           \/ IsHeld(q)' /\ ~IsHeld(q) /\ held' = held + WeightOf(q)
           \/ ~IsHeld(q)' /\ IsHeld(q) /\ held' = held - WeightOf(q)
    PROVE  BytesTold'
<1>0. TypeOK /\ BytesTold
  BY DEF IInv, Books
<1>1. Nodes' = Nodes /\ Weights' = Weights
  BY SameShape
<1>2. /\ HeldNodes \in SUBSET Slots /\ q \in Slots
      /\ Weights \in [Slots -> Nat] /\ Weights[q] = WeightOf(q)
  BY <1>0, Weighed DEF HeldNodes, Nodes
<1>3. held' = Sum(Weights, HeldNodes')
  <2>1. CASE (IsHeld(q)' <=> IsHeld(q)) /\ held' = held
    <3>1. HeldNodes' = HeldNodes
      BY <1>1, <2>1 DEF HeldNodes
    <3> QED
      BY <1>0, <2>1, <3>1 DEF BytesTold
  <2>2. CASE IsHeld(q)' /\ ~IsHeld(q) /\ held' = held + WeightOf(q)
    <3>1. HeldNodes' = HeldNodes \cup {q} /\ q \notin HeldNodes
      BY <1>1, <2>2 DEF HeldNodes
    <3>2. Sum(Weights, HeldNodes \cup {q}) = Sum(Weights, HeldNodes) + Weights[q]
      BY <1>2, <3>1, SumAdd, ArenaAssumption
    <3> QED
      BY <1>0, <1>2, <2>2, <3>1, <3>2 DEF BytesTold
  <2>3. CASE ~IsHeld(q)' /\ IsHeld(q) /\ held' = held - WeightOf(q)
    <3>1. HeldNodes' = HeldNodes \ {q} /\ q \in HeldNodes
      BY <1>1, <2>3 DEF HeldNodes
    <3>2. Sum(Weights, HeldNodes \ {q}) = Sum(Weights, HeldNodes) - Weights[q]
      BY <1>2, <3>1, SumAdd, ArenaAssumption
    <3> QED
      BY <1>0, <1>2, <2>3, <3>1, <3>2 DEF BytesTold
  <2> QED
    BY <2>1, <2>2, <2>3
<1>4. total' = Sum(Weights, Nodes)
  BY <1>0 DEF BytesTold
<1> QED
  BY <1>1, <1>3, <1>4 DEF BytesTold

\* A borrow or a release that turns its node starts the telling of it: whoever is to be told
\* still counts it as it was.
LEMMA StartsTurn ==
    ASSUME IInv, Books, turn = None,
           UNCHANGED <<node, gen, index, total, heldChildren, heldPinners>>,
           NEW q \in Nodes, NEW up \in BOOLEAN,
           \A t \in Nodes : t # q => (IsHeld(t)' <=> IsHeld(t)),
           \/ (IsHeld(q)' <=> IsHeld(q)) /\ held' = held /\ turn' = turn
           \/ /\ IsHeld(q)' <=> up
              /\ IsHeld(q) <=> ~up
              /\ Turned(q, up)
    PROVE  Books'
<1>0. TypeOK /\ HoldsTold
  BY DEF IInv, Books
<1>1. /\ IndexExact' /\ PinsCompositions' /\ Founded'
      /\ Nodes' = Nodes
      /\ \A s \in Slots : /\ At(s)' = At(s)
                          /\ Children(s)' = Children(s)
                          /\ Pinners(s)' = Pinners(s)
  BY SameShape
<1>2. BytesTold'
  <2>1. Turned(q, up) => held' = IF up THEN held + WeightOf(q) ELSE held - WeightOf(q)
    BY DEF Turned
  <2> QED
    BY <2>1, OneTurns
<1>3. CASE (IsHeld(q)' <=> IsHeld(q)) /\ held' = held /\ turn' = turn
  <2>1. turn' = None /\ \A t \in Nodes : IsHeld(t)' <=> IsHeld(t)
    BY <1>3
  <2>2. HoldsTold'
    <3> SUFFICES ASSUME NEW s \in Nodes
                 PROVE  /\ HeldChildren(s)' = HeldChildren(s)
                        /\ HeldPinners(s)' = HeldPinners(s)
      BY <1>0, <1>1 DEF HoldsTold
    <3>1. s \in Slots /\ Children(s) \subseteq Nodes /\ Pinners(s) \subseteq Nodes
      BY Referrers DEF Nodes
    <3>2. \A t \in Nodes : /\ ToldParent(t)' <=> ToldParent(t)
                           /\ ToldPin(t, s)' <=> ToldPin(t, s)
      BY <2>1 DEF ToldParent, ToldPin, Telling
    <3> QED
      BY <1>1, <3>1, <3>2 DEF HeldChildren, HeldPinners
  <2>3. TurnHeld'
    BY <2>1 DEF TurnHeld
  <2> QED
    BY <1>1, <1>2, <2>2, <2>3 DEF Books
<1>4. CASE (IsHeld(q)' <=> up) /\ (IsHeld(q) <=> ~up) /\ Turned(q, up)
  <2>1. q \in Slots /\ Occupied(q)
    BY DEF Nodes
  <2>2. turn' # None /\ turn'.at = At(q) /\ turn'.pins = node[q].pins /\ At(q).slot = q
    BY <1>0, <1>4, <2>1, TurnedAt DEF At
  <2>3. turn'.held = up
    BY <1>4 DEF Turned
  <2>4. \A t \in Slots : Telling(t)' <=> t = q
    BY <1>0, <1>1, <2>1, <2>2, LiveAt DEF Telling
  <2>5. HoldsTold'
    <3> SUFFICES ASSUME NEW s \in Nodes
                 PROVE  /\ HeldChildren(s)' = HeldChildren(s)
                        /\ HeldPinners(s)' = HeldPinners(s)
      BY <1>0, <1>1 DEF HoldsTold
    <3>1. s \in Slots /\ Children(s) \subseteq Nodes /\ Pinners(s) \subseteq Nodes
      BY Referrers DEF Nodes
    <3>2. \A t \in Nodes : ToldParent(t)' <=> ToldParent(t)
      <4>1. \A t \in Nodes : ToldParent(t) <=> IsHeld(t)
        BY DEF ToldParent, Telling
      <4>2. \A t \in Nodes : ToldParent(t)' <=> IF t = q THEN ~up ELSE IsHeld(t)'
        BY <2>3, <2>4 DEF ToldParent, Nodes
      <4> QED
        BY <1>4, <4>1, <4>2
    <3>3. \A t \in Pinners(s) : ToldPin(t, s)' <=> ToldPin(t, s)
      <4>1. \A t \in Nodes : ToldPin(t, s) <=> IsHeld(t)
        BY DEF ToldPin, Telling
      <4>2. \A t \in Pinners(s) : t = q => At(s)' \in turn'.pins
        BY <1>1, <2>2, <3>1 DEF Pinners
      <4>3. \A t \in Pinners(s) : ToldPin(t, s)' <=> IF t = q THEN ~up ELSE IsHeld(t)'
        BY <2>3, <2>4, <3>1, <4>2 DEF ToldPin, Nodes
      <4> QED
        BY <1>4, <3>1, <4>1, <4>3
    <3> QED
      BY <1>1, <3>1, <3>2, <3>3 DEF HeldChildren, HeldPinners
  <2>6. TurnHeld'
    BY <1>4, <2>2, <2>3 DEF TurnHeld
  <2> QED
    BY <1>1, <1>2, <2>5, <2>6 DEF Books
<1> QED
  BY <1>3, <1>4

\* A borrow is counted; a count from zero begins a turn to held.
LEMMA BorrowBooks ==
    ASSUME IInv, Books, NEW o \in Owners, NEW r \in Handles, Borrow(o, r)
    PROVE  Books'
<1>0. /\ TypeOK /\ HoldsTold /\ turn = None /\ IsLive(r)
      /\ UNCHANGED <<node, gen, index, total, heldChildren, heldPinners>>
  BY DEF IInv, Books, Borrow, Idle, nodes, holds
<1>1. CASE r = Root
  BY <1>0, <1>1, StillBooks DEF Borrow, holds
<1>2. CASE r # Root
  <2> DEFINE q == r.slot
  <2>1. q \in Nodes /\ q \in Slots
    BY <1>0, <1>2, LiveAt DEF IsLive, Nodes
  <2>2. borrowers' = [borrowers EXCEPT ![q] = @ + 1]
    BY <1>2 DEF Borrow
  <2>3. borrowers[q] \in Nat
    BY <1>0, <2>1, Counts
  <2>4. borrowers'[q] > 0 /\ \A t \in Slots : t # q => borrowers'[t] = borrowers[t]
    BY <1>0, <2>1, <2>2, <2>3 DEF TypeOK
  <2>5. IsHeld(q)'
    BY <2>4 DEF IsHeld
  <2>6. \A t \in Nodes : t # q => (IsHeld(t)' <=> IsHeld(t))
    BY <1>0, <2>4 DEF IsHeld, Nodes
  <2>7. IF IsHeld(q) THEN UNCHANGED <<held, turn>> ELSE Turned(q, TRUE)
    BY <1>2 DEF Borrow
  <2> HIDE DEF q
  <2> QED
    BY <1>0, <2>1, <2>5, <2>6, <2>7, StartsTurn
<1> QED
  BY <1>1, <1>2

\* A release is counted; the last one begins a turn to unheld.
LEMMA ReleaseBooks ==
    ASSUME IInv, Books, NEW o \in Owners, NEW r \in Handles, Release(o, r)
    PROVE  Books'
<1>0. /\ TypeOK /\ HoldsTold /\ turn = None /\ borrowed[o] = r
      /\ UNCHANGED <<node, gen, index, total, heldChildren, heldPinners>>
  BY DEF IInv, Books, Release, Idle, nodes, holds
<1>1. CASE r = Root
  BY <1>0, <1>1, StillBooks DEF Release, holds
<1>2. CASE r # Root
  <2> DEFINE q == r.slot
  <2>0. IsLive(r)
    BY <1>0, ArenaAssumption DEF IInv, NoDangling
  <2>1. q \in Nodes /\ q \in Slots /\ r = At(q)
    BY <1>0, <1>2, <2>0, LiveAt DEF IsLive, Nodes
  <2>2. borrowers' = [borrowers EXCEPT ![q] = @ - 1]
    BY <1>2 DEF Release
  <2>3. borrowers[q] \in Nat /\ IsHeld(q)
    <3>1. o \in Borrowers(q)
      BY <1>0, <2>1 DEF Borrowers
    <3> QED
      BY <1>0, <2>1, <3>1, Counts
  <2>4. \A t \in Slots : t # q => borrowers'[t] = borrowers[t]
    BY <1>0, <2>1, <2>2 DEF TypeOK
  <2>6. \A t \in Nodes : t # q => (IsHeld(t)' <=> IsHeld(t))
    BY <1>0, <2>4 DEF IsHeld, Nodes
  <2>7. IF IsHeld(q)' THEN UNCHANGED <<held, turn>> ELSE Turned(q, FALSE)
    BY <1>2 DEF Release
  <2> HIDE DEF q
  <2> QED
    BY <1>0, <2>1, <2>3, <2>6, <2>7, StartsTurn
<1> QED
  BY <1>1, <1>2

\* The node being told of is live, as it turned, and only its own pins are still to be told.
LEMMA TellingOf ==
    ASSUME IInv, Books, turn # None
    PROVE  \E c \in Nodes : /\ turn.at = At(c) /\ turn.at.slot = c /\ turn.held \in BOOLEAN
                            /\ IsHeld(c) <=> turn.held
                            /\ turn.pins \subseteq node[c].pins
                            /\ \A t \in Slots : Telling(t) <=> t = c
<1>0. TypeOK /\ TurnOK /\ TurnHeld
  BY DEF IInv, Books
<1>1. turn.at \in Refs /\ turn.held \in BOOLEAN /\ Live(turn.at)
  BY <1>0 DEF TypeOK, Turn, TurnOK
<1> DEFINE c == turn.at.slot
<1>2. c \in Nodes /\ c \in Slots /\ turn.at = At(c)
  BY <1>0, <1>1, LiveAt DEF Nodes, Handles
<1>3. \A t \in Slots : Telling(t) <=> t = c
  BY <1>0, <1>2, LiveAt DEF Telling
<1> QED
  BY <1>0, <1>1, <1>2, <1>3 DEF TurnHeld, TurnOK

\* A pin told: one pinner more, or one fewer, of the composition pinned, which has nothing to
\* tell in its turn: it lies under the root and pins nothing.
LEMMA TurnPinBooks ==
    ASSUME IInv, Books, NEW p \in Refs, TurnPin(p)
    PROVE  Books'
<1>0. /\ TypeOK /\ NoDangling /\ HoldsTold /\ PinsCompositions
      /\ turn # None /\ p \in turn.pins
      /\ UNCHANGED <<node, gen, index, total, borrowers, heldChildren>>
      /\ heldPinners' = [heldPinners EXCEPT ![p.slot] = Told(@, turn.held)]
  BY DEF IInv, Books, TurnPin, nodes, links
<1>1. PICK c \in Nodes : /\ turn.at = At(c) /\ turn.at.slot = c /\ turn.held \in BOOLEAN
                         /\ IsHeld(c) <=> turn.held
                         /\ turn.pins \subseteq node[c].pins
                         /\ \A t \in Slots : Telling(t) <=> t = c
  BY <1>0, TellingOf
<1>2. c \in Slots /\ Occupied(c) /\ p \in node[c].pins /\ Live(p) /\ p \in Handles
  BY <1>0, <1>1 DEF Nodes, NoDangling, Handles
<1>3. PICK q \in Slots : q = p.slot /\ p = At(q) /\ Occupied(q)
  BY <1>0, <1>2, LiveAt
<1>4. q \in Nodes /\ node[q].parent = Root /\ node[q].pins = {} /\ q # c
  BY <1>0, <1>1, <1>2, <1>3 DEF PinsCompositions, Nodes
<1>5. \A s \in Slots : q \notin Children(s) /\ q \notin Pinners(s)
  BY <1>0, <1>4, LiveAt DEF Children, Pinners
<1>6. /\ IndexExact' /\ PinsCompositions' /\ Founded'
      /\ Nodes' = Nodes
      /\ \A s \in Slots : /\ At(s)' = At(s)
                          /\ Children(s)' = Children(s)
                          /\ Pinners(s)' = Pinners(s)
  BY <1>0, SameShape
<1>7. /\ heldPinners'[q] = IF turn.held THEN heldPinners[q] + 1 ELSE heldPinners[q] - 1
      /\ \A t \in Slots : t # q => heldPinners'[t] = heldPinners[t]
      /\ heldPinners[q] \in Nat
  <2>1. heldPinners \in [Slots -> Int] /\ heldPinners[q] \in Nat
    BY <1>0, <1>4, Counts DEF TypeOK
  <2> QED
    BY <1>0, <1>1, <1>3, <2>1 DEF Told
<1>8. \A t \in Nodes : t # q => (IsHeld(t)' <=> IsHeld(t))
  BY <1>0, <1>7 DEF IsHeld, Nodes
<1>9. turn' = [turn EXCEPT !.pins = turn.pins \ {p}]
  BY DEF TurnPin
<1>10. turn' # None /\ turn'.at = turn.at /\ turn'.held = turn.held /\ turn'.pins = turn.pins \ {p}
  <2>1. turn \in Turn /\ turn' \in Turn
    BY <1>0, <1>9 DEF TypeOK, Turn
  <2> QED
    BY <1>9, <2>1, ArenaAssumption DEF Turn
<1>11. \A t \in Slots : Telling(t)' <=> t = c
  BY <1>0, <1>1, <1>2, <1>6, <1>10, LiveAt DEF Telling
<1>12. BytesTold'
  <2>1. turn.held /\ IsHeld(q) => IsHeld(q)'
    <3>1. turn.held => heldPinners'[q] > 0
      BY <1>7
    <3> QED
      BY <3>1 DEF IsHeld
  <2>2. ~turn.held /\ IsHeld(q)' => IsHeld(q)
    BY <1>0, <1>7 DEF IsHeld
  <2>3. held' = IF IsHeld(q) <=> IsHeld(q)' THEN held
                ELSE IF turn.held THEN held + WeightOf(q) ELSE held - WeightOf(q)
    BY <1>3 DEF TurnPin
  <2>4. \/ (IsHeld(q)' <=> IsHeld(q)) /\ held' = held
        \/ IsHeld(q)' /\ ~IsHeld(q) /\ held' = held + WeightOf(q)
        \/ ~IsHeld(q)' /\ IsHeld(q) /\ held' = held - WeightOf(q)
    BY <1>1, <2>1, <2>2, <2>3
  <2> QED
    BY <1>0, <1>4, <1>8, <2>4, OneTurns
<1>13. TurnHeld'
  BY <1>1, <1>4, <1>8, <1>10 DEF TurnHeld
<1>14. HoldsTold'
  <2> SUFFICES ASSUME NEW s \in Nodes
               PROVE  /\ heldChildren'[s] = Cardinality(HeldChildren(s)')
                      /\ heldPinners'[s] = Cardinality(HeldPinners(s)')
    BY <1>6 DEF HoldsTold
  <2>1. /\ s \in Slots /\ Children(s) \subseteq Nodes /\ Pinners(s) \subseteq Nodes
        /\ HeldPinners(s) \subseteq Pinners(s)
    BY Referrers DEF Nodes
  <2>2. HeldChildren(s)' = HeldChildren(s)
    <3>1. \A t \in Children(s) : ToldParent(t)' <=> ToldParent(t)
      BY <1>1, <1>5, <1>8, <1>10, <1>11, <2>1 DEF ToldParent, Nodes
    <3> QED
      BY <1>6, <2>1, <3>1 DEF HeldChildren
  <2>3. \A t \in Pinners(s) : ToldPin(t, s)' <=> IF t = c /\ s = q THEN turn.held
                                                 ELSE ToldPin(t, s)
    <3> SUFFICES ASSUME NEW t \in Pinners(s)
                 PROVE  ToldPin(t, s)' <=> IF t = c /\ s = q THEN turn.held ELSE ToldPin(t, s)
      OBVIOUS
    <3>1. t \in Slots /\ t \in Nodes /\ t # q
      BY <1>5, <2>1 DEF Nodes
    <3>2. At(s)' = At(s) /\ (At(s) = p <=> s = q)
      BY <1>0, <1>3, <1>6, <2>1, LiveAt
    <3>3. At(s)' \in turn'.pins <=> At(s) \in turn.pins /\ s # q
      BY <1>10, <3>2
    <3>4. IsHeld(t)' <=> IsHeld(t)
      BY <1>8, <3>1
    <3>5. CASE t = c
      <4>1. ToldPin(t, s)' <=> IF At(s)' \in turn'.pins THEN ~turn.held ELSE IsHeld(t)'
        BY <1>10, <1>11, <3>1, <3>5 DEF ToldPin
      <4>2. ToldPin(t, s) <=> IF At(s) \in turn.pins THEN ~turn.held ELSE IsHeld(t)
        BY <1>1, <3>1, <3>5 DEF ToldPin
      <4> QED
        BY <1>1, <3>3, <3>4, <3>5, <4>1, <4>2
    <3>6. CASE t # c
      <4>1. (ToldPin(t, s)' <=> IsHeld(t)') /\ (ToldPin(t, s) <=> IsHeld(t))
        BY <1>1, <1>11, <3>1, <3>6 DEF ToldPin
      <4> QED
        BY <3>4, <3>6, <4>1
    <3> QED
      BY <3>5, <3>6
  <2>4. CASE s # q
    <3>1. HeldPinners(s)' = HeldPinners(s)
      BY <1>6, <2>1, <2>3, <2>4 DEF HeldPinners
    <3> QED
      BY <1>0, <1>7, <2>1, <2>2, <2>4, <3>1 DEF HoldsTold
  <2>5. CASE s = q
    <3>1. c \in Pinners(q) /\ (ToldPin(c, q) <=> ~turn.held)
      BY <1>0, <1>1, <1>2, <1>3 DEF Pinners, ToldPin
    <3>2. HeldPinners(q)' = IF turn.held THEN HeldPinners(q) \cup {c} ELSE HeldPinners(q) \ {c}
      <4>1. HeldPinners(q)' = {t \in Pinners(q) : ToldPin(t, q)'}
        BY <1>6, <2>1, <2>5 DEF HeldPinners
      <4> QED
        BY <2>3, <2>5, <3>1, <4>1 DEF HeldPinners
    <3>3. c \in HeldPinners(q) <=> ~turn.held
      BY <3>1 DEF HeldPinners
    <3>4. HeldPinners(q) \in SUBSET Slots
      BY <2>1, <2>5 DEF Nodes
    <3>5. /\ turn.held => Cardinality(HeldPinners(q) \cup {c}) = Cardinality(HeldPinners(q)) + 1
          /\ ~turn.held => Cardinality(HeldPinners(q) \ {c}) = Cardinality(HeldPinners(q)) - 1
      BY <1>2, <3>3, <3>4, CountUp, CountDown, ArenaAssumption
    <3>6. heldPinners[q] = Cardinality(HeldPinners(q))
      BY <1>0, <1>4 DEF HoldsTold
    <3>7. heldPinners'[q] = Cardinality(HeldPinners(q)')
      BY <1>1, <1>7, <3>2, <3>5, <3>6
    <3> QED
      BY <1>0, <2>2, <2>5, <3>7 DEF HoldsTold
  <2> QED
    BY <2>4, <2>5
<1> QED
  BY <1>6, <1>12, <1>13, <1>14 DEF Books

\* The parent told, the turn ends there, or goes on from the parent where that turns it.
LEMMA TurnParentBooks ==
    ASSUME IInv, Books, NEW parent \in Handles, TurnParent(parent)
    PROVE  Books'
<1>0. /\ TypeOK /\ NoDangling /\ HoldsTold /\ Founded
      /\ turn # None /\ turn.pins = {} /\ parent = node[turn.at.slot].parent
      /\ UNCHANGED <<node, gen, index, total, borrowers, heldPinners>>
  BY DEF IInv, Books, TurnParent, nodes, links
<1>1. PICK c \in Nodes : /\ turn.at = At(c) /\ turn.at.slot = c /\ turn.held \in BOOLEAN
                         /\ IsHeld(c) <=> turn.held
                         /\ turn.pins \subseteq node[c].pins
                         /\ \A t \in Slots : Telling(t) <=> t = c
  BY <1>0, TellingOf
<1>2. c \in Slots /\ Occupied(c) /\ parent = node[c].parent /\ IsLive(parent)
  BY <1>0, <1>1 DEF Nodes, NoDangling
<1>3. /\ IndexExact' /\ PinsCompositions' /\ Founded'
      /\ Nodes' = Nodes /\ Weights' = Weights
      /\ \A s \in Slots : /\ At(s)' = At(s)
                          /\ Children(s)' = Children(s)
                          /\ Pinners(s)' = Pinners(s)
  BY <1>0, SameShape
<1>4. \A t \in Slots : ToldParent(t) <=> IF t = c THEN ~turn.held ELSE IsHeld(t)
  BY <1>1 DEF ToldParent
<1>5. \A t, s \in Slots : ToldPin(t, s) <=> IsHeld(t)
  BY <1>0, <1>1 DEF ToldPin
<1>6. CASE parent = Root
  <2>1. turn' = None /\ heldChildren' = heldChildren /\ held' = held
    BY <1>6 DEF TurnParent
  <2>2. \A t : IsHeld(t)' <=> IsHeld(t)
    BY <1>0, <2>1 DEF IsHeld
  <2>3. \A t, s \in Slots : (ToldParent(t)' <=> IsHeld(t)) /\ (ToldPin(t, s)' <=> IsHeld(t))
    BY <2>1, <2>2 DEF ToldParent, ToldPin, Telling
  <2>4. HoldsTold'
    <3> SUFFICES ASSUME NEW s \in Nodes
                 PROVE  /\ HeldChildren(s)' = HeldChildren(s)
                        /\ HeldPinners(s)' = HeldPinners(s)
      BY <1>0, <1>3, <2>1 DEF HoldsTold
    <3>1. /\ s \in Slots /\ Children(s) \subseteq Slots /\ Pinners(s) \subseteq Slots
          /\ c \notin Children(s)
      BY <1>0, <1>2, <1>6, LiveAt DEF Nodes, Children, Pinners
    <3> QED
      BY <1>3, <1>4, <1>5, <2>3, <3>1 DEF HeldChildren, HeldPinners
  <2>5. BytesTold'
    BY <1>0, <1>1, <2>1, <2>2, OneTurns
  <2>6. TurnHeld'
    BY <2>1 DEF TurnHeld
  <2> QED
    BY <1>3, <2>4, <2>5, <2>6 DEF Books
<1>7. CASE parent # Root
  <2>1. PICK q \in Slots : q = parent.slot /\ parent = At(q) /\ Occupied(q)
    BY <1>0, <1>2, <1>7, LiveAt DEF IsLive
  <2>2. q \in Nodes /\ c \in Children(q) /\ \A s \in Slots : c \in Children(s) => s = q
    BY <1>0, <1>2, <2>1, LiveAt DEF Nodes, Children
  <2>3. c # q
    <3>1. {q} \in SUBSET Nodes /\ {q} # {}
      BY <2>2
    <3>2. q \notin Children(q)
      BY <1>0, <3>1 DEF Founded
    <3> QED
      BY <2>2, <3>2
  <2>4. /\ heldChildren'[q] = IF turn.held THEN heldChildren[q] + 1 ELSE heldChildren[q] - 1
        /\ \A t \in Slots : t # q => heldChildren'[t] = heldChildren[t]
        /\ heldChildren[q] \in Nat
    <3>1. heldChildren \in [Slots -> Int] /\ heldChildren[q] \in Nat
      BY <1>0, <2>2, Counts DEF TypeOK
    <3>2. heldChildren' = [heldChildren EXCEPT ![q] = Told(@, turn.held)]
      BY <1>7, <2>1 DEF TurnParent
    <3> QED
      BY <1>1, <3>1, <3>2 DEF Told
  <2>5. \A t \in Nodes : t # q => (IsHeld(t)' <=> IsHeld(t))
    BY <1>0, <2>4 DEF IsHeld, Nodes
  <2>6. (turn.held /\ IsHeld(q) => IsHeld(q)') /\ (~turn.held /\ IsHeld(q)' => IsHeld(q))
    BY <1>0, <2>4 DEF IsHeld
  <2>7. IF IsHeld(q) <=> IsHeld(q)' THEN turn' = None /\ UNCHANGED held ELSE Turned(q, turn.held)
    BY <1>7, <2>1 DEF TurnParent
  <2>8. BytesTold'
    <3>1. Turned(q, turn.held) =>
            held' = IF turn.held THEN held + WeightOf(q) ELSE held - WeightOf(q)
      BY DEF Turned
    <3>2. \/ (IsHeld(q)' <=> IsHeld(q)) /\ held' = held
          \/ IsHeld(q)' /\ ~IsHeld(q) /\ held' = held + WeightOf(q)
          \/ ~IsHeld(q)' /\ IsHeld(q) /\ held' = held - WeightOf(q)
      BY <1>1, <2>6, <2>7, <3>1
    <3> QED
      BY <1>0, <2>2, <2>5, <3>2, OneTurns
  <2>9. /\ \A t \in Nodes : ToldParent(t)' <=> IsHeld(t)
        /\ \A s \in Slots : \A t \in Pinners(s) : ToldPin(t, s)' <=> IsHeld(t)
        /\ TurnHeld'
    <3>1. CASE IsHeld(q) <=> IsHeld(q)'
      <4>1. turn' = None
        BY <2>7, <3>1
      <4>2. \A t \in Nodes : IsHeld(t)' <=> IsHeld(t)
        BY <2>5, <3>1
      <4>3. \A s \in Slots : Pinners(s) \subseteq Nodes
        BY Referrers
      <4> QED
        BY <4>1, <4>2, <4>3 DEF ToldParent, ToldPin, Telling, TurnHeld
    <3>2. CASE ~(IsHeld(q) <=> IsHeld(q)')
      <4>1. (IsHeld(q)' <=> turn.held) /\ (IsHeld(q) <=> ~turn.held)
        BY <1>1, <2>6, <3>2
      <4>2. /\ turn' # None /\ turn'.at = At(q) /\ turn'.pins = node[q].pins /\ At(q).slot = q
            /\ turn'.held = turn.held
        <5>1. Turned(q, turn.held) /\ Occupied(q)
          BY <2>1, <2>7, <3>2
        <5> QED
          BY <1>0, <1>1, <5>1, TurnedAt DEF At, Turned
      <4>3. \A t \in Slots : Telling(t)' <=> t = q
        BY <1>0, <1>3, <4>2, LiveAt DEF Telling
      <4>4. \A t \in Nodes : ToldParent(t)' <=> IsHeld(t)
        <5>1. \A t \in Nodes : ToldParent(t)' <=> IF t = q THEN ~turn.held ELSE IsHeld(t)'
          BY <4>2, <4>3 DEF ToldParent, Nodes
        <5> QED
          BY <2>5, <4>1, <5>1
      <4>5. ASSUME NEW s \in Slots, NEW t \in Pinners(s) PROVE ToldPin(t, s)' <=> IsHeld(t)
        <5>1. t \in Nodes /\ t \in Slots
          BY Referrers DEF Nodes
        <5>2. t = q => At(s)' \in turn'.pins
          BY <1>3, <4>2 DEF Pinners
        <5>3. ToldPin(t, s)' <=> IF t = q THEN ~turn.held ELSE IsHeld(t)'
          BY <4>2, <4>3, <5>1, <5>2 DEF ToldPin
        <5> QED
          BY <2>5, <4>1, <5>1, <5>3
      <4>6. TurnHeld'
        BY <4>1, <4>2 DEF TurnHeld
      <4> QED
        BY <4>4, <4>5, <4>6
    <3> QED
      BY <3>1, <3>2
  <2>10. HoldsTold'
    <3> SUFFICES ASSUME NEW s \in Nodes
                 PROVE  /\ heldChildren'[s] = Cardinality(HeldChildren(s)')
                        /\ heldPinners'[s] = Cardinality(HeldPinners(s)')
      BY <1>3 DEF HoldsTold
    <3>1. /\ s \in Slots /\ Children(s) \subseteq Nodes /\ Pinners(s) \subseteq Nodes
          /\ Children(s) \subseteq Slots /\ Pinners(s) \subseteq Slots
          /\ HeldChildren(s) \subseteq Children(s)
      BY Referrers DEF Nodes
    <3>2. HeldPinners(s)' = HeldPinners(s)
      <4>1. \A t \in Pinners(s) : ToldPin(t, s)' <=> ToldPin(t, s)
        BY <1>5, <2>9, <3>1
      <4> QED
        BY <1>3, <3>1, <4>1 DEF HeldPinners
    <3>3. \A t \in Children(s) : ToldParent(t)' <=> IF t = c THEN turn.held ELSE ToldParent(t)
      BY <1>1, <1>4, <2>9, <3>1
    <3>4. HeldChildren(s)' = {t \in Children(s) : ToldParent(t)'}
      BY <1>3, <3>1 DEF HeldChildren
    <3>5. CASE s # q
      <4>1. HeldChildren(s)' = HeldChildren(s)
        BY <2>2, <3>1, <3>3, <3>4, <3>5 DEF HeldChildren
      <4> QED
        BY <1>0, <2>4, <3>1, <3>2, <3>5, <4>1 DEF HoldsTold
    <3>6. CASE s = q
      <4>1. c \in HeldChildren(q) <=> ~turn.held
        BY <1>2, <1>4, <2>2 DEF HeldChildren
      <4>2. HeldChildren(q)' = IF turn.held THEN HeldChildren(q) \cup {c}
                               ELSE HeldChildren(q) \ {c}
        BY <2>2, <3>3, <3>4, <3>6 DEF HeldChildren
      <4>3. HeldChildren(q) \in SUBSET Slots
        BY <3>1, <3>6
      <4>4. /\ turn.held =>
                 Cardinality(HeldChildren(q) \cup {c}) = Cardinality(HeldChildren(q)) + 1
            /\ ~turn.held =>
                 Cardinality(HeldChildren(q) \ {c}) = Cardinality(HeldChildren(q)) - 1
        BY <1>2, <4>1, <4>3, CountUp, CountDown, ArenaAssumption
      <4>5. heldChildren[q] = Cardinality(HeldChildren(q))
        BY <1>0, <2>2 DEF HoldsTold
      <4>6. heldChildren'[q] = Cardinality(HeldChildren(q)')
        BY <1>1, <2>4, <4>2, <4>4, <4>5
      <4> QED
        BY <1>0, <3>2, <3>6, <4>6 DEF HoldsTold
    <3> QED
      BY <3>5, <3>6
  <2> QED
    BY <1>3, <2>8, <2>9, <2>10 DEF Books
<1> QED
  BY <1>6, <1>7

\* A node laid where its parent holds none of its name is unheld and holds nothing yet.
LEMMA LaidBooks ==
    ASSUME IInv, Books, Idle, NEW parent \in Handles, IsLive(parent),
           NEW name \in Names, NEW base \in Digests \cup {None},
           NEW pins \in SUBSET LiveRefs,
           Find(parent, name) = None,
           name \in Digests => parent = Root /\ pins = {},
           \A p \in pins : node[p.slot].name \in Digests,
           Laid(parent, name, base, pins)
    PROVE  Books'
<1>0. /\ TypeOK /\ NoDangling /\ turn = None
      /\ IndexExact /\ PinsCompositions /\ Founded /\ HoldsTold /\ BytesTold
  BY DEF IInv, Books, Idle
<1>1. PICK s \in Slots : LaidAt(s, parent, name, base, pins)
  BY LaidFacts
<1>2. /\ \A t \in Slots : At(t)' = At(t)
      /\ \A t \in Slots : t # s => node'[t] = node[t]
      /\ node'[s] = [name |-> name, parent |-> parent, base |-> base, pins |-> pins]
      /\ \A t \in Slots : Occupied(t)' <=> (t = s \/ Occupied(t))
      /\ ~Occupied(s) /\ turn' = None
  BY <1>0, <1>1 DEF LaidAt
<1>3. Nodes' = Nodes \cup {s} /\ s \notin Nodes /\ Nodes \subseteq Slots
  BY <1>2 DEF Nodes
<1>4. IndexExact'
  <2>1. index' = [index EXCEPT ![<<parent, name>>] = At(s)]
    BY <1>1 DEF LaidAt
  <2>2. index \in [Handles \X Names -> Refs \cup {None}]
    BY <1>0 DEF TypeOK
  <2>3. Live(At(s))' /\ At(s).slot = s /\ At(s) # None
    <3>1. At(s) # Root /\ At(s) \in Refs /\ At(s) # None
      BY <1>0, LiveAt, ArenaAssumption DEF Handles
    <3>2. At(s)' = At(s) /\ Occupied(s)'
      BY <1>2
    <3>3. Live(At(s))'
      BY <3>1, <3>2 DEF At, Live
    <3> QED
      BY <3>1, <3>3 DEF At
  <2>4. \A r \in Handles : Live(r) => Live(r)' /\ r.slot # s /\ r.slot \in Slots
    BY <1>0, <1>1, LiveAt DEF LaidAt
  <2>5. ASSUME NEW p \in Handles, NEW n \in Names, Find(p, n)' # None
        PROVE  /\ Live(Find(p, n))'
               /\ node'[Find(p, n)'.slot].parent = p /\ node'[Find(p, n)'.slot].name = n
    <3>1. <<p, n>> \in Handles \X Names
      OBVIOUS
    <3>2. CASE <<p, n>> = <<parent, name>>
      <4>1. Find(p, n)' = At(s)
        BY <2>1, <2>2, <3>1, <3>2 DEF Find
      <4>2. p = parent /\ n = name
        BY <3>2
      <4>3. Live(Find(p, n))'
        BY <1>2, <2>3, <4>1
      <4> QED
        BY <1>2, <2>3, <4>1, <4>2, <4>3
    <3>3. CASE <<p, n>> # <<parent, name>>
      <4>1. PICK x : x = Find(p, n)
        OBVIOUS
      <4>2. Find(p, n)' = x
        BY <2>1, <2>2, <3>1, <3>3, <4>1 DEF Find
      <4>3. /\ Live(x) /\ node[x.slot].parent = p /\ node[x.slot].name = n
            /\ x \in Handles
        BY <1>0, <2>2, <2>5, <3>1, <4>1, <4>2 DEF IndexExact, Find, Handles
      <4>4. Live(x)' /\ x.slot # s /\ x.slot \in Slots
        BY <2>4, <4>3
      <4>5. Live(Find(p, n))'
        BY <4>2, <4>4
      <4> QED
        BY <1>2, <4>2, <4>3, <4>4, <4>5
    <3> QED
      BY <3>2, <3>3
  <2>6. ASSUME NEW t \in Slots, Occupied(t)'
        PROVE  Find(node[t].parent, node[t].name)' = At(t)'
    <3>1. CASE t = s
      BY <1>2, <2>1, <2>2, <3>1 DEF Find
    <3>2. CASE t # s
      <4>1. Occupied(t) /\ node'[t] = node[t] /\ node[t] \in Node
        BY <1>0, <1>2, <2>6, <3>2, LiveAt
      <4>2. PICK k : k = <<node[t].parent, node[t].name>>
        OBVIOUS
      <4>3. k \in Handles \X Names /\ index[k] = At(t) /\ At(t) # None
        BY <1>0, <4>1, <4>2, LiveAt, ArenaAssumption DEF IndexExact, Find, Node, Handles
      <4>4. k # <<parent, name>>
        BY <4>3 DEF Find
      <4>5. index'[k] = At(t)
        BY <2>1, <2>2, <4>3, <4>4
      <4> QED
        BY <1>2, <4>1, <4>2, <4>5 DEF Find
    <3> QED
      BY <3>1, <3>2
  <2> QED
    BY <2>5, <2>6 DEF IndexExact
<1>5. PinsCompositions'
  <2> SUFFICES ASSUME NEW t \in Nodes \cup {s}
               PROVE  /\ node'[t].name \in Digests => node'[t].parent = Root /\ node'[t].pins = {}
                      /\ \A p \in node'[t].pins : node'[p.slot].name \in Digests
    BY <1>3 DEF PinsCompositions
  <2>1. \A p \in LiveRefs : p.slot \in Slots /\ p.slot # s
    BY <1>0, <1>1, <1>2, LiveAt DEF LaidAt, Handles
  <2>2. CASE t = s
    BY <1>2, <2>1, <2>2
  <2>3. CASE t # s
    <3>1. t \in Nodes /\ node'[t] = node[t] /\ t \in Slots /\ Occupied(t) /\ node[t] \in Node
      BY <1>0, <1>2, <1>3, <2>3, LiveAt DEF Nodes
    <3>2. \A p \in node[t].pins : p.slot \in Slots /\ p.slot # s
      <4>1. \A p \in node[t].pins : Live(p) /\ p \in Handles
        BY <1>0, <3>1 DEF NoDangling, Node, Handles
      <4> QED
        BY <1>0, <1>2, <4>1, LiveAt
    <3> QED
      BY <1>0, <1>2, <3>1, <3>2 DEF PinsCompositions
  <2> QED
    BY <2>2, <2>3
<1>6. /\ Children(s)' = {} /\ Pinners(s)' = {}
      /\ \A t \in Slots : t # s =>
           /\ Children(t)' = IF At(t) = parent THEN Children(t) \cup {s} ELSE Children(t)
           /\ Pinners(t)' = IF At(t) \in pins THEN Pinners(t) \cup {s} ELSE Pinners(t)
           /\ s \notin Children(t) /\ s \notin Pinners(t)
  BY <1>1 DEF LaidAt
<1>7. Founded'
  <2> SUFFICES ASSUME NEW S \in SUBSET (Nodes \cup {s}), S # {}
               PROVE  \E r \in S : \A t \in S : t \notin Children(r)' /\ t \notin Pinners(r)'
    BY <1>3 DEF Founded
  <2>1. CASE s \in S
    BY <1>6, <2>1
  <2>2. CASE s \notin S
    <3>1. S \in SUBSET Nodes
      BY <2>2
    <3>2. PICK r \in S : \A t \in S : t \notin Children(r) /\ t \notin Pinners(r)
      BY <1>0, <3>1 DEF Founded
    <3>3. r \in Slots /\ r # s
      BY <1>3, <3>1
    <3> QED
      BY <1>6, <2>2, <3>2, <3>3
  <2> QED
    BY <2>1, <2>2
<1>8. /\ ~IsHeld(s)' /\ \A t \in Slots : t # s => (IsHeld(t)' <=> IsHeld(t))
      /\ heldChildren'[s] = 0 /\ heldPinners'[s] = 0
      /\ \A t \in Slots : t # s => /\ heldChildren'[t] = heldChildren[t]
                                   /\ heldPinners'[t] = heldPinners[t]
  <2>1. /\ borrowers' = [borrowers EXCEPT ![s] = 0]
        /\ heldChildren' = [heldChildren EXCEPT ![s] = 0]
        /\ heldPinners' = [heldPinners EXCEPT ![s] = 0]
    BY <1>1 DEF LaidAt
  <2>2. /\ borrowers'[s] = 0 /\ heldChildren'[s] = 0 /\ heldPinners'[s] = 0
        /\ \A t \in Slots : t # s => /\ borrowers'[t] = borrowers[t]
                                     /\ heldChildren'[t] = heldChildren[t]
                                     /\ heldPinners'[t] = heldPinners[t]
    BY <1>0, <2>1 DEF TypeOK
  <2> QED
    BY <2>2 DEF IsHeld
<1>9. HoldsTold'
  <2>1. \A t, r \in Slots : /\ ToldParent(t)' <=> IsHeld(t)'
                            /\ ToldPin(t, r)' <=> IsHeld(t)'
                            /\ ToldParent(t) <=> IsHeld(t)
                            /\ ToldPin(t, r) <=> IsHeld(t)
    BY <1>0, <1>2 DEF ToldParent, ToldPin, Telling
  <2> SUFFICES ASSUME NEW r \in Nodes \cup {s}
               PROVE  /\ heldChildren'[r] = Cardinality(HeldChildren(r)')
                      /\ heldPinners'[r] = Cardinality(HeldPinners(r)')
    BY <1>3 DEF HoldsTold
  <2>2. CASE r = s
    <3>1. HeldChildren(s)' = {} /\ HeldPinners(s)' = {}
      BY <1>6 DEF HeldChildren, HeldPinners
    <3> QED
      BY <1>8, <2>2, <3>1, FS_EmptySet
  <2>3. CASE r # s
    <3>1. r \in Nodes /\ r \in Slots
      BY <1>3, <2>3
    <3>2. /\ Children(r) \subseteq Slots /\ Pinners(r) \subseteq Slots
          /\ Children(r)' \subseteq Children(r) \cup {s} /\ Children(r) \subseteq Children(r)'
          /\ Pinners(r)' \subseteq Pinners(r) \cup {s} /\ Pinners(r) \subseteq Pinners(r)'
          /\ s \notin Children(r) /\ s \notin Pinners(r)
      BY <1>6, <2>3, <3>1 DEF Children, Pinners
    <3>3. HeldChildren(r)' = HeldChildren(r)
      BY <1>8, <2>1, <3>1, <3>2 DEF HeldChildren
    <3>4. HeldPinners(r)' = HeldPinners(r)
      BY <1>8, <2>1, <3>1, <3>2 DEF HeldPinners
    <3> QED
      BY <1>0, <1>8, <2>3, <3>1, <3>3, <3>4 DEF HoldsTold
  <2> QED
    BY <2>2, <2>3
<1>10. BytesTold'
  <2>1. HeldNodes' = HeldNodes /\ HeldNodes \subseteq Nodes
    BY <1>3, <1>8 DEF HeldNodes
  <2>2. Weights'[s] = Weight[name] /\ \A t \in Nodes : Weights'[t] = Weights[t]
    BY <1>2, <1>3 DEF Weights, WeightOf, Nodes
  <2>3. Sum(Weights', HeldNodes) = Sum(Weights, HeldNodes)
        /\ Sum(Weights', Nodes) = Sum(Weights, Nodes)
    BY <2>1, <2>2, SumSame
  <2>4. Weights' \in [Slots -> Nat]
    BY <1>0, <1>2, LiveAt, ArenaAssumption DEF Weights, WeightOf, Occupied, Node
  <2>5. Sum(Weights', Nodes \cup {s}) = Sum(Weights', Nodes) + Weights'[s]
    BY <1>3, <2>4, SumAdd, ArenaAssumption
  <2>6. total' = total + Weight[name] /\ held' = held
    BY <1>1 DEF LaidAt
  <2> QED
    BY <1>0, <1>3, <2>1, <2>2, <2>3, <2>5, <2>6 DEF BytesTold
<1> QED
  BY <1>2, <1>4, <1>5, <1>7, <1>9, <1>10 DEF Books, TurnHeld

\* An eviction takes a node that is unheld, so nothing it lies under or pins counted it held.
LEMMA EvictBooks ==
    ASSUME IInv, Books, NEW s \in Slots, Evict(s)
    PROVE  Books'
<1>0. /\ TypeOK /\ NoDangling
      /\ IndexExact /\ PinsCompositions /\ Founded /\ HoldsTold /\ BytesTold
  BY DEF IInv, Books
<1>1. EvictedAt(s)
  BY EvictFacts
<1>2. /\ \A t \in Slots : t # s => At(t)' = At(t) /\ node'[t] = node[t]
      /\ \A t \in Slots : Occupied(t)' <=> (t # s /\ Occupied(t))
      /\ \A r \in Handles : Live(r)' <=> Live(r) /\ r # At(s)
      /\ \A t \in Slots : t # s => /\ Children(t)' = Children(t) \ {s}
                                   /\ Pinners(t)' = Pinners(t) \ {s}
      /\ Occupied(s) /\ ~IsHeld(s) /\ turn = None /\ turn' = None
      /\ Borrowers(s) = {} /\ Children(s) = {} /\ Pinners(s) = {}
      /\ borrowers' = borrowers /\ heldChildren' = heldChildren /\ heldPinners' = heldPinners
      /\ node[s] \in Node /\ held' = held /\ total' = total - Weight[node[s].name]
      /\ index' = [index EXCEPT ![<<node[s].parent, node[s].name>>] = None]
  BY <1>1 DEF EvictedAt, holds
<1>3. Nodes' = Nodes \ {s} /\ s \in Nodes /\ Nodes \subseteq Slots
  BY <1>2 DEF Nodes
<1>4. IndexExact'
  <2>1. index \in [Handles \X Names -> Refs \cup {None}]
    BY <1>0 DEF TypeOK
  <2>2. PICK gone : gone = <<node[s].parent, node[s].name>>
    OBVIOUS
  <2>3. gone \in Handles \X Names /\ index[gone] = At(s) /\ index' = [index EXCEPT ![gone] = None]
    BY <1>0, <1>2, <2>2 DEF IndexExact, Find, Node
  <2>4. ASSUME NEW p \in Handles, NEW n \in Names, Find(p, n)' # None
        PROVE  /\ Live(Find(p, n))'
               /\ node'[Find(p, n)'.slot].parent = p /\ node'[Find(p, n)'.slot].name = n
    <3>1. PICK x : x = Find(p, n)
      OBVIOUS
    <3>2. <<p, n>> # gone /\ Find(p, n)' = x
      BY <2>1, <2>3, <2>4, <3>1 DEF Find
    <3>3. /\ Live(x) /\ node[x.slot].parent = p /\ node[x.slot].name = n
          /\ x \in Handles
      BY <1>0, <2>1, <2>4, <3>1, <3>2 DEF IndexExact, Find, Handles
    <3>4. x.slot \in Slots /\ x = At(x.slot)
      BY <1>0, <3>3, LiveAt
    <3>5. x.slot # s
      BY <2>2, <3>2, <3>3
    <3>6. x # At(s)
      BY <1>0, <3>4, <3>5, LiveAt
    <3>7. Live(x)'
      BY <1>2, <3>3, <3>6
    <3>8. Live(Find(p, n))'
      BY <3>2, <3>7
    <3> QED
      BY <1>2, <3>2, <3>3, <3>4, <3>5, <3>8
  <2>5. ASSUME NEW t \in Slots, Occupied(t)'
        PROVE  Find(node[t].parent, node[t].name)' = At(t)'
    <3>1. t # s /\ Occupied(t) /\ node'[t] = node[t] /\ node[t] \in Node /\ At(t)' = At(t)
      BY <1>0, <1>2, <2>5, LiveAt
    <3>2. PICK k : k = <<node[t].parent, node[t].name>>
      OBVIOUS
    <3>3. k \in Handles \X Names /\ index[k] = At(t) /\ At(t) # At(s)
      BY <1>0, <3>1, <3>2, LiveAt DEF IndexExact, Find, Node
    <3>4. k # gone
      BY <2>3, <3>3
    <3>5. index'[k] = At(t)
      BY <2>1, <2>3, <3>3, <3>4
    <3> QED
      BY <3>1, <3>2, <3>5 DEF Find
  <2> QED
    BY <2>4, <2>5 DEF IndexExact
<1>5. PinsCompositions'
  <2> SUFFICES ASSUME NEW t \in Nodes \ {s}
               PROVE  /\ node'[t].name \in Digests => node'[t].parent = Root /\ node'[t].pins = {}
                      /\ \A p \in node'[t].pins : node'[p.slot].name \in Digests
    BY <1>3 DEF PinsCompositions
  <2>1. node'[t] = node[t] /\ t \in Slots /\ Occupied(t) /\ node[t] \in Node
    BY <1>0, <1>2, <1>3, LiveAt DEF Nodes
  <2>2. \A p \in node[t].pins : Live(p) /\ p \in Handles /\ p # At(s)
    BY <1>0, <1>2, <2>1 DEF NoDangling, Node, Handles, Pinners
  <2>3. \A p \in node[t].pins : p.slot \in Slots /\ p.slot # s
    BY <1>0, <2>2, LiveAt
  <2> QED
    BY <1>0, <1>2, <2>1, <2>3 DEF PinsCompositions
<1>6. Founded'
  <2> SUFFICES ASSUME NEW S \in SUBSET (Nodes \ {s}), S # {}
               PROVE  \E r \in S : \A t \in S : t \notin Children(r)' /\ t \notin Pinners(r)'
    BY <1>3 DEF Founded
  <2>1. S \in SUBSET Nodes
    OBVIOUS
  <2>2. PICK r \in S : \A t \in S : t \notin Children(r) /\ t \notin Pinners(r)
    BY <1>0, <2>1 DEF Founded
  <2>3. r \in Slots /\ r # s
    BY <1>3
  <2> QED
    BY <1>2, <2>2, <2>3
<1>7. \A t : IsHeld(t)' <=> IsHeld(t)
  BY <1>2 DEF IsHeld
<1>8. HoldsTold'
  <2>1. \A t, r \in Slots : /\ ToldParent(t)' <=> IsHeld(t)
                            /\ ToldPin(t, r)' <=> IsHeld(t)
                            /\ ToldParent(t) <=> IsHeld(t)
                            /\ ToldPin(t, r) <=> IsHeld(t)
    BY <1>2, <1>7 DEF ToldParent, ToldPin, Telling
  <2> SUFFICES ASSUME NEW r \in Nodes \ {s}
               PROVE  /\ HeldChildren(r)' = HeldChildren(r)
                      /\ HeldPinners(r)' = HeldPinners(r)
    BY <1>0, <1>2, <1>3 DEF HoldsTold
  <2>2. /\ r \in Slots /\ Children(r) \subseteq Slots /\ Pinners(r) \subseteq Slots
        /\ Children(r)' = Children(r) \ {s} /\ Pinners(r)' = Pinners(r) \ {s}
    BY <1>2, <1>3 DEF Children, Pinners
  <2> QED
    BY <1>2, <2>1, <2>2 DEF HeldChildren, HeldPinners
<1>9. BytesTold'
  <2>1. HeldNodes' = HeldNodes /\ HeldNodes \subseteq Nodes \ {s}
    BY <1>2, <1>3, <1>7 DEF HeldNodes
  <2>2. \A t \in Nodes \ {s} : Weights'[t] = Weights[t]
    BY <1>2, <1>3 DEF Weights, WeightOf, Nodes
  <2>3. Sum(Weights', HeldNodes) = Sum(Weights, HeldNodes)
        /\ Sum(Weights', Nodes \ {s}) = Sum(Weights, Nodes \ {s})
    BY <2>1, <2>2, SumSame
  <2>4. Sum(Weights, Nodes \ {s}) = Sum(Weights, Nodes) - Weights[s]
    BY <1>0, <1>3, Weighed, SumAdd, ArenaAssumption
  <2>5. Weights[s] = Weight[node[s].name]
    BY <1>0, <1>3, Weighed DEF WeightOf
  <2> QED
    BY <1>0, <1>2, <1>3, <2>1, <2>3, <2>4, <2>5 DEF BytesTold
<1> QED
  BY <1>2, <1>4, <1>5, <1>6, <1>8, <1>9 DEF Books, TurnHeld

\* Every step keeps the books.
LEMMA NextBooks == IInv /\ Books /\ [Next]_vars => Books'
<1> SUFFICES ASSUME IInv, Books, [Next]_vars PROVE Books'
  OBVIOUS
<1>0. TypeOK
  BY DEF IInv
<1>1. ASSUME NEW p \in LiveRefs \cup {Root}, NEW k \in Keys,
             NEW pins \in SUBSET MayPin(p), Insert(p, k, pins)
      PROVE  Books'
  <2>1. p \in Handles /\ IsLive(p)
    BY <1>0, LiveAt DEF LiveRefs, IsLive, Handles
  <2>2. BaseOf(p) \in Digests \cup {None}
    BY <1>0, <2>1, LiveAt DEF BaseOf, IsLive, Node
  <2>3. /\ pins \in SUBSET LiveRefs /\ k \in Names /\ k \notin Digests
        /\ \A r \in pins : node[r.slot].name \in Digests
    BY ArenaAssumption DEF MayPin, Names
  <2>4. Idle /\ Find(p, k) = None /\ Laid(p, k, BaseOf(p), pins)
    BY <1>1 DEF Insert
  <2> QED
    BY <2>1, <2>2, <2>3, <2>4, LaidBooks
<1>2. ASSUME NEW d \in Digests, Compose(d) PROVE Books'
  <2>1. Root \in Handles /\ IsLive(Root) /\ d \in Names /\ {} \in SUBSET LiveRefs
    BY DEF Handles, IsLive, Names
  <2>2. Idle /\ Find(Root, d) = None /\ Laid(Root, d, d, {})
    BY <1>2 DEF Compose
  <2> QED
    BY <2>1, <2>2, LaidBooks
<1>3. ASSUME NEW r \in Refs, Stamp(r) PROVE Books'
  BY <1>3, StillBooks DEF Stamp, links
<1>4. CASE UNCHANGED vars
  BY <1>4, StillBooks DEF vars, nodes, links
<1>5. CASE EvictToBudget \/ EvictDone
  BY <1>5, StillBooks DEF EvictToBudget, EvictDone, nodes, links
<1>6. CASE Next
  BY <1>1, <1>2, <1>3, <1>5, <1>6, BorrowBooks, ReleaseBooks, TurnPinBooks, TurnParentBooks,
     EvictBooks DEF Next
<1> QED
  BY <1>4, <1>6

-----------------------------------------------------------------------------
\* The books agree with the nodes there are: every count of borrowers, children and pinners, held
\* ones too, the index both ways, and, between verbs, the bytes laid and the bytes that some
\* borrow reads through.
THEOREM BooksHold == Spec => []BooksExact
<1>1. IInv /\ Books => BooksExact
  BY BooksAreExact
<1> QED
  BY <1>1, InitIInv, NextIInv, InitBooks, NextBooks, PTL DEF Spec

\* The loop of `evict_to_budget` ends with the unheld bytes within the budget, never for want of
\* a node that may go.
THEOREM BudgetHolds == Spec => BudgetKept
<1>1. IInv /\ Books /\ [Next]_vars => [evicting /\ ~evicting' => Unheld' <= Budget]_vars
  <2> SUFFICES ASSUME IInv, Books, Next, evicting, ~evicting' PROVE Unheld' <= Budget
    OBVIOUS
  <2>1. EvictDone
    BY DEF Next, Insert, Compose, Laid, Stamp, Borrow, Release, TurnPin, TurnParent,
           EvictToBudget, Evict
  <2>2. Unheld <= Budget
    BY <2>1, DoneInBudget
  <2> QED
    BY <2>1, <2>2 DEF EvictDone, Unheld, nodes
<1> QED
  BY <1>1, InitIInv, NextIInv, InitBooks, NextBooks, PTL DEF Spec, BudgetKept


-----------------------------------------------------------------------------
\* The store the arena stands for.

\* What each handle opens, as the store sees it.
Opens == [r \in Refs |-> IF Live(r) THEN node[r.slot] ELSE None]

\* What a live node reads through, and the handles of some slots.
Through(r) == ({node[r.slot].parent} \cup node[r.slot].pins) \ {Root}
Ats(S) == {At(s) : s \in S}

\* The store's live nodes are the arena's, at their present handles.
LEMMA StoreLive ==
    ASSUME TypeOK
    PROVE  /\ Store!LiveIds = LiveRefs /\ LiveRefs = Ats(Nodes) /\ LiveRefs \subseteq Refs
           /\ \A r \in LiveRefs : /\ r.slot \in Nodes /\ r = At(r.slot) /\ Live(r)
                                  /\ Opens[r] = node[r.slot] /\ node[r.slot] \in Node
           /\ \A r \in Refs : r \in LiveRefs <=> Opens[r] # None
           /\ \A r \in Handles : Store!IsLive(r) <=> IsLive(r)
           /\ \A s \in Slots : s \in Nodes <=> At(s) \in LiveRefs
<1>1. LiveRefs = Ats(Nodes)
  BY DEF LiveRefs, Ats, Nodes
<1>2. LiveRefs \subseteq Refs
  BY LiveAt DEF LiveRefs
<1>3. \A r \in LiveRefs : r.slot \in Nodes /\ r = At(r.slot) /\ Live(r) /\ node[r.slot] \in Node
  BY LiveAt DEF LiveRefs, Nodes, At
<1>4. \A r \in Refs : Live(r) => r \in LiveRefs
  <2> SUFFICES ASSUME NEW r \in Refs, Live(r) PROVE r \in LiveRefs
    OBVIOUS
  <2>1. r \in Handles
    BY DEF Handles
  <2> QED
    BY <2>1, LiveAt DEF LiveRefs
<1>5. \A r \in Refs : Opens[r] = IF Live(r) THEN node[r.slot] ELSE None
  BY DEF Opens
<1>6. \A r \in Refs : r \in LiveRefs <=> Opens[r] # None
  BY <1>3, <1>4, <1>5, ArenaAssumption
<1>7. Store!LiveIds = {r \in Refs : Opens[r] # None}
  BY DEF Store!LiveIds, Opens
<1>8. Store!LiveIds = LiveRefs
  BY <1>2, <1>6, <1>7
<1>9. \A r \in Handles : Store!IsLive(r) <=> IsLive(r)
  BY <1>3, <1>4, <1>8, ArenaAssumption DEF Store!IsLive, IsLive, Handles
<1>10. \A s \in Slots : s \in Nodes <=> At(s) \in LiveRefs
  BY LiveAt DEF LiveRefs, Nodes
<1> QED
  BY <1>1, <1>2, <1>3, <1>5, <1>6, <1>8, <1>9, <1>10

\* What the store has a node read through is what lies above it and what it pins.
LEMMA StoreReads ==
    ASSUME IInv
    PROVE  /\ \A r \in LiveRefs : /\ Store!ReadsThrough(r) = Through(r)
                                  /\ Through(r) \subseteq LiveRefs
           /\ \A s \in Nodes, t \in Nodes :
                At(s) \in Through(At(t)) <=> t \in Children(s) \/ t \in Pinners(s)
<1>0. TypeOK /\ NoDangling
  BY DEF IInv
<1>1. \A r \in LiveRefs : Opens[r] = node[r.slot] /\ r \in Refs
  BY <1>0, StoreLive
<1>2. \A r \in LiveRefs : Store!ReadsThrough(r) = Through(r)
  <2>1. \A r \in LiveRefs : Store!ReadsThrough(r) = ({Opens[r].parent} \cup Opens[r].pins) \ {Root}
    BY DEF Store!ReadsThrough, Opens
  <2> QED
    BY <1>1, <2>1 DEF Through
<1>3. ASSUME NEW r \in LiveRefs PROVE Through(r) \subseteq LiveRefs
  <2>1. r.slot \in Slots /\ Occupied(r.slot) /\ node[r.slot] \in Node
    BY <1>0, StoreLive DEF Nodes
  <2>2. \A q \in Through(r) : q \in Handles /\ Live(q)
    BY <1>0, <2>1 DEF Through, NoDangling, IsLive, Node, Handles
  <2> QED
    BY <1>0, <2>2, LiveAt DEF LiveRefs
<1>4. ASSUME NEW s \in Nodes, NEW t \in Nodes
      PROVE  At(s) \in Through(At(t)) <=> t \in Children(s) \/ t \in Pinners(s)
  <2>1. s \in Slots /\ t \in Slots /\ Occupied(t) /\ At(t).slot = t /\ At(s) # Root
    BY <1>0, LiveAt DEF Nodes, At
  <2> QED
    BY <2>1 DEF Through, Children, Pinners
<1> QED
  BY <1>2, <1>3, <1>4

\* What the store holds is what is truly held: the least set closed under reading, reached in as
\* many steps as there are live nodes.
LEMMA StoreHeld ==
    ASSUME IInv
    PROVE  Store!Held = Ats(TrulyHeld) /\ TrulyHeld \subseteq Nodes
<1>0. TypeOK /\ NoDangling
  BY DEF IInv
<1> DEFINE D == Store!LiveIds
           B == {borrowed[o] : o \in Owners} \ {Root, None}
           r == [i \in D |-> Through(i)]
           N == Cardinality(D)
           Next1(S) == UNION {{i} \cup Store!ReadsThrough(i) : i \in S}
           f == CHOOSE g : g = [n \in 0 .. N |-> IF n = 0 THEN B ELSE Next1(g[n - 1])]
<1>d. D = LiveRefs
  BY <1>0, StoreLive
<1>7. Store!Held = f[N]
  BY DEF Store!Held, Store!Cardinality, Cardinality
<1>1. IsFiniteSet(D)
  <2> DEFINE at == [s \in Nodes |-> At(s)]
  <2>1. IsFiniteSet(Nodes)
    BY FS_Subset, ArenaAssumption DEF Nodes
  <2>2. D = {At(s) : s \in Nodes}
    BY <1>0, <1>d, StoreLive DEF Ats
  <2>3. at \in Surjection(Nodes, D)
    BY <2>2 DEF Surjection
  <2> QED
    BY <2>1, <2>3, FS_Surjection
<1>2. B \in SUBSET D
  BY <1>0, <1>d, LiveAt DEF NoDangling, TypeOK, IsLive, LiveRefs
<1>3. r \in [D -> SUBSET D]
  BY <1>d, StoreReads
<1> HIDE DEF f, N
<1>4. /\ N \in Nat
      /\ \E h \in [0 .. N -> SUBSET D] :
           /\ h[0] = B
           /\ \A n \in 1 .. N : h[n] = Grow(r, h[n - 1])
           /\ h[N] = LeastClosed(D, B, r)
  <2> HIDE DEF D, B, r
  <2> QED
    BY <1>1, <1>2, <1>3, Reach DEF N
<1>5. PICK h \in [0 .. N -> SUBSET D] :
           /\ h[0] = B
           /\ \A n \in 1 .. N : h[n] = Grow(r, h[n - 1])
           /\ h[N] = LeastClosed(D, B, r)
  BY <1>4
<1>6. \A S \in SUBSET D : Next1(S) = Grow(r, S)
  <2>1. \A S \in SUBSET D : \A i \in S : r[i] = Store!ReadsThrough(i)
    BY <1>d, StoreReads
  <2> QED
    BY <2>1 DEF Grow
<1> HIDE DEF D, B, r, Next1
<1>8. h = [n \in 0 .. N |-> IF n = 0 THEN B ELSE Next1(h[n - 1])]
  <2>1. \A n \in 0 .. N : n # 0 => n \in 1 .. N /\ n - 1 \in 0 .. N
    BY <1>4
  <2> QED
    BY <1>5, <1>6, <2>1
<1>9. f = [n \in 0 .. N |-> IF n = 0 THEN B ELSE Next1(f[n - 1])]
  BY <1>8 DEF f
<1>10. f[N] = h[N]
  <2> DEFINE Bad == {n \in 0 .. N : f[n] # h[n]}
  <2>1. ASSUME Bad # {} PROVE FALSE
    <3>1. PICK n \in Bad : \A m \in Bad : n <= m
      <4>1. Bad \in SUBSET Nat
        BY <1>4
      <4> QED
        BY <2>1, <4>1, LeastNat
    <3>2. n # 0 /\ n - 1 \in 0 .. N /\ n \in 0 .. N /\ n - 1 < n
      BY <1>4, <1>8, <1>9
    <3>3. n - 1 \notin Bad
      BY <1>4, <3>1, <3>2
    <3> QED
      BY <1>8, <1>9, <3>1, <3>2, <3>3
  <2> QED
    BY <1>4, <2>1
<1>11. Store!Held = LeastClosed(D, B, r)
  BY <1>5, <1>7, <1>10
<1>12. TrulyHeld \subseteq Nodes
  <2>1. HeldClosed(Nodes)
    BY Referrers DEF HeldClosed, Nodes
  <2>2. Nodes \in SUBSET Slots
    BY DEF Nodes
  <2> QED
    BY <2>1, <2>2 DEF TrulyHeld
<1>13. \A s \in Nodes : At(s) \in D /\ s \in Slots /\ (At(s) \in B <=> Borrowers(s) # {})
  <2>1. \A s \in Nodes : s \in Slots /\ At(s) \in D /\ At(s) # Root /\ At(s) # None
    BY <1>0, <1>d, StoreLive, LiveAt, ArenaAssumption DEF Handles, Nodes
  <2> QED
    BY <2>1 DEF B, Borrowers
<1>14. ASSUME NEW s \in TrulyHeld PROVE At(s) \in LeastClosed(D, B, r)
  <2> SUFFICES ASSUME NEW S \in SUBSET D, B \subseteq S, \A x \in S : r[x] \subseteq S
               PROVE  At(s) \in S
    BY <1>12, <1>13 DEF LeastClosed
  <2> DEFINE T == {t \in Nodes : At(t) \in S}
  <2>1. HeldClosed(T)
    <3>1. ASSUME NEW t \in Slots, Borrowers(t) # {} PROVE t \in T
      <4>1. t \in Nodes
        BY <3>1, Referrers DEF Nodes
      <4> QED
        BY <1>13, <3>1, <4>1
    <3>2. ASSUME NEW t \in Slots, NEW u \in T, u \in Children(t) \/ u \in Pinners(t)
          PROVE  t \in T
      <4>1. t \in Nodes /\ u \in Nodes
        BY <3>2, Referrers DEF Nodes
      <4>2. At(t) \in Through(At(u))
        BY <3>2, <4>1, StoreReads
      <4>3. At(u) \in S /\ At(u) \in D
        BY <1>13, <4>1
      <4> QED
        BY <4>1, <4>2, <4>3 DEF r
    <3> QED
      BY <3>1, <3>2 DEF HeldClosed
  <2>2. T \in SUBSET Slots
    BY DEF Nodes
  <2> QED
    BY <2>1, <2>2 DEF TrulyHeld
<1>15. ASSUME NEW i \in LeastClosed(D, B, r) PROVE i \in Ats(TrulyHeld)
  <2>1. Ats(TrulyHeld) \in SUBSET D
    BY <1>12, <1>13 DEF Ats
  <2>2. B \subseteq Ats(TrulyHeld)
    <3> SUFFICES ASSUME NEW b \in B PROVE b \in Ats(TrulyHeld)
      OBVIOUS
    <3>1. b.slot \in Nodes /\ b = At(b.slot)
      BY <1>0, <1>d, <1>2, StoreLive
    <3>2. Borrowers(b.slot) # {} /\ b.slot \in Slots
      BY <1>13, <3>1
    <3>3. b.slot \in TrulyHeld
      BY <3>2 DEF TrulyHeld, HeldClosed
    <3> QED
      BY <3>1, <3>3 DEF Ats
  <2>3. ASSUME NEW x \in Ats(TrulyHeld), NEW y \in r[x] PROVE y \in Ats(TrulyHeld)
    <3>1. PICK t \in TrulyHeld : x = At(t)
      BY DEF Ats
    <3>2. t \in Nodes /\ x \in D /\ y \in Through(x) /\ y \in D
      BY <1>3, <1>12, <1>13, <3>1 DEF r
    <3>3. y.slot \in Nodes /\ y = At(y.slot) /\ y.slot \in Slots
      BY <1>0, <1>d, <3>2, StoreLive DEF Nodes
    <3>4. t \in Children(y.slot) \/ t \in Pinners(y.slot)
      BY <3>1, <3>2, <3>3, StoreReads
    <3>5. y.slot \in TrulyHeld
      BY <3>3, <3>4 DEF TrulyHeld, HeldClosed
    <3> QED
      BY <3>3, <3>5 DEF Ats
  <2> QED
    BY <2>1, <2>2, <2>3 DEF LeastClosed
<1> QED
  BY <1>11, <1>12, <1>14, <1>15 DEF Ats

\* The bytes no owner of the store reads through are the difference of the arena's totals.
LEMMA StoreUnheld ==
    ASSUME IInv, Books, turn = None
    PROVE  Store!UnheldBytes = Unheld
<1>0. TypeOK /\ TrulyHeld = HeldNodes /\ HeldNodes \subseteq Nodes /\ Nodes \subseteq Slots
  BY HeldIsTruly DEF IInv, HeldNodes, Nodes
<1> DEFINE D == Store!LiveIds \ Store!Held
           S == Nodes \ HeldNodes
           at == [s \in Slots |-> At(s)]
           w == [i \in D |-> Store!WeightOf(i)]
<1>1. D = Ats(S)
  <2>1. D = Ats(Nodes) \ Ats(HeldNodes)
    BY <1>0, StoreLive, StoreHeld
  <2> QED
    BY <1>0, <2>1, LiveAt DEF Ats
<1>2. IsFiniteSet(D)
  <2> DEFINE back == [s \in S |-> At(s)]
  <2>1. IsFiniteSet(S) /\ back \in Surjection(S, D)
    BY <1>0, <1>1, FS_Subset, ArenaAssumption DEF Surjection, Ats
  <2> QED
    BY <2>1, FS_Surjection
<1>3. \A i \in D : Store!WeightOf(i) = WeightOf(i.slot) /\ i.slot \in Nodes
  <2>1. \A i \in LiveRefs : Store!WeightOf(i) = Weight[Opens[i].name]
    BY DEF Store!WeightOf, Opens
  <2> QED
    BY <1>0, <2>1, StoreLive DEF WeightOf
<1>4. w \in [D -> Nat]
  BY <1>0, <1>3, Weighed
<1>5. Store!UnheldBytes = LET f == CHOOSE g : g = [T \in SUBSET D |->
                                IF T = {} THEN 0
                                ELSE Store!WeightOf(CHOOSE x \in T : TRUE)
                                       + g[T \ {CHOOSE x \in T : TRUE}]]
                          IN  f[D]
  BY DEF Store!UnheldBytes, Store!MapThenFoldSet
<1>6. Store!UnheldBytes = Sum(w, D)
  <2>1. \A g : [T \in SUBSET D |-> IF T = {} THEN 0
                                   ELSE Store!WeightOf(CHOOSE x \in T : TRUE)
                                          + g[T \ {CHOOSE x \in T : TRUE}]]
                 = FoldStep(w, D, g)
    <3>1. \A T \in SUBSET D : T # {} =>
            w[CHOOSE x \in T : TRUE] = Store!WeightOf(CHOOSE x \in T : TRUE)
      OBVIOUS
    <3> QED
      BY <3>1 DEF FoldStep
  <2> HIDE DEF D, w
  <2>2. Store!UnheldBytes = LET f == CHOOSE g : g = FoldStep(w, D, g) IN f[D]
    BY <1>5, <2>1
  <2> QED
    BY <1>2, <1>4, <2>2, FoldSums
<1>7. Sum(w, D) = Sum(Weights, S)
  <2>1. \A x, y \in S : at[x] = at[y] => x = y
    BY <1>0, LiveAt
  <2>2. D = {at[x] : x \in S}
    BY <1>0, <1>1 DEF Ats
  <2>3. \A x \in S : w[at[x]] = Weights[x]
    <3>1. \A x \in S : at[x] \in D /\ at[x].slot = x /\ x \in Nodes
      BY <1>0, <2>2 DEF At
    <3> QED
      BY <1>0, <1>3, <3>1, Weighed
  <2>4. Weights \in [Slots -> Nat] /\ S \in SUBSET Slots
    BY <1>0, Weighed
  <2> HIDE DEF w, S, at, D
  <2>5. Sum(w, {at[x] : x \in S}) = Sum(Weights, S)
    BY <2>1, <2>3, <2>4, SumRenamed, ArenaAssumption
  <2> QED
    BY <2>2, <2>5
<1> QED
  BY <1>6, <1>7, UnheldSum

\* What the store would evict is what the arena's filter lets go.
LEMMA StoreEvictable ==
    ASSUME IInv, Books, turn = None, NEW s \in Nodes
    PROVE  Store!Evictable(At(s)) <=> Evictable(s)
<1>0. TypeOK /\ HoldsTold /\ TrulyHeld = HeldNodes /\ s \in Slots /\ Occupied(s)
  BY HeldIsTruly DEF IInv, Books, Nodes
<1>1. At(s) \in Store!LiveIds \ Store!Held <=> ~IsHeld(s)
  <2>1. At(s) \in Store!LiveIds
    BY <1>0, StoreLive
  <2>2. At(s) \in Store!Held <=> s \in HeldNodes
    BY <1>0, StoreHeld, LiveAt DEF Ats, HeldNodes, Nodes
  <2> QED
    BY <2>1, <2>2 DEF HeldNodes
<1>2. (\A j \in Store!LiveIds : At(s) \notin Store!ReadsThrough(j))
        <=> Children(s) = {} /\ Pinners(s) = {}
  <2>1. Store!LiveIds = Ats(Nodes) /\ LiveRefs = Ats(Nodes)
    BY <1>0, StoreLive
  <2>2. \A t \in Nodes : At(t) \in Store!LiveIds /\ Store!ReadsThrough(At(t)) = Through(At(t))
    BY <2>1, StoreReads DEF Ats
  <2>3. Children(s) \subseteq Nodes /\ Pinners(s) \subseteq Nodes
    BY <1>0, Referrers
  <2>4. (\A j \in Store!LiveIds : At(s) \notin Store!ReadsThrough(j))
          <=> \A t \in Nodes : At(s) \notin Through(At(t))
    BY <2>1, <2>2 DEF Ats
  <2> QED
    BY <2>3, <2>4, StoreReads
<1>3. Evictable(s) <=> ~IsHeld(s) /\ Children(s) = {} /\ Pinners(s) = {}
  BY <1>0, Counts DEF Evictable
<1> QED
  BY <1>1, <1>2, <1>3 DEF Store!Evictable

\* An empty arena is an empty store.
LEMMA InitStore == Init => Store!Init
<1> SUFFICES ASSUME Init PROVE Store!Init
  OBVIOUS
<1>1. node = [s \in Slots |-> None] /\ older = {} /\ borrowed = [o \in Owners |-> None]
  BY DEF Init
<1>2. Opens = [i \in Refs |-> None]
  BY <1>1 DEF Opens, Live, Occupied, Refs
<1> QED
  BY <1>1, <1>2 DEF Store!Init, Opens

\* A node laid is laid in the store.
LEMMA LaidStore ==
    ASSUME IInv, Books, NEW parent \in Handles, IsLive(parent),
           NEW name \in Names, NEW pins \in SUBSET LiveRefs,
           Find(parent, name) = None,
           name \in Digests => parent = Root /\ pins = {},
           NEW base \in Digests \cup {None},
           base = IF name \in Digests THEN name ELSE BaseOf(parent),
           Laid(parent, name, base, pins)
    PROVE  Store!Next
<1>0. TypeOK /\ IndexExact
  BY DEF IInv, Books
<1>1. PICK s \in Slots : LaidAt(s, parent, name, base, pins)
  BY LaidFacts
<1>2. PICK i \in Refs : i = At(s)
  BY <1>0, LiveAt
<1>3. /\ ~Live(i) /\ older' = UsedNow(i) /\ borrowed' = borrowed
      /\ \A t \in Slots : t # s => node'[t] = node[t]
      /\ node'[s] = [name |-> name, parent |-> parent, base |-> base, pins |-> pins]
      /\ \A t \in Slots : Occupied(t)' <=> (t = s \/ Occupied(t))
      /\ gen' = gen /\ i # Root /\ i.slot = s /\ ~Occupied(s)
  BY <1>1, <1>2 DEF LaidAt, At
<1>4. Opens' = [Opens EXCEPT ![i] =
                  [name |-> name, parent |-> parent, base |-> base, pins |-> pins]]
  <2>1. \A r \in Refs : Live(r)' <=> Live(r) \/ r = i
    <3> SUFFICES ASSUME NEW r \in Refs PROVE Live(r)' <=> Live(r) \/ r = i
      OBVIOUS
    <3>1. r.slot \in Slots /\ r # Root
      BY ArenaAssumption DEF Refs
    <3>2. Live(r)' <=> Occupied(r.slot)' /\ gen[r.slot] = r.generation
      BY <1>3, <3>1 DEF Live
    <3>3. r = i <=> r.slot = s /\ gen[s] = r.generation
      BY <1>2 DEF At, Refs
    <3> QED
      BY <1>3, <3>1, <3>2, <3>3 DEF Live
  <2>2. \A r \in Refs : r.slot \in Slots /\ (Live(r) => r.slot # s)
    BY <1>3 DEF Refs, Live
  <2>3. \A r \in Refs : Opens'[r] =
          IF r = i THEN [name |-> name, parent |-> parent, base |-> base, pins |-> pins]
          ELSE Opens[r]
    BY <1>3, <2>1, <2>2 DEF Opens
  <2> QED
    BY <2>3 DEF Opens
<1>5. Store!LiveIds = LiveRefs /\ Store!IsLive(parent) /\ i \in Refs \ LiveRefs /\ Opens[i] = None
  BY <1>0, <1>3, StoreLive
<1>6. parent \in LiveRefs \cup {Root}
  BY <1>0, LiveAt DEF IsLive, LiveRefs
<1>7. base = IF name \in Digests THEN name ELSE Store!BaseOf(parent)
  <2>1. Store!BaseOf(parent) = IF parent = Root THEN None ELSE Opens[parent].base
    BY DEF Store!BaseOf, Opens
  <2> QED
    BY <1>0, <1>6, <2>1, StoreLive DEF BaseOf
<1>8. Store!Find(parent, name) = None
  <2>1. {r \in Store!LiveIds : Opens[r].parent = parent /\ Opens[r].name = name} = {}
    <3> SUFFICES ASSUME NEW r \in LiveRefs, Opens[r].parent = parent, Opens[r].name = name
                 PROVE  FALSE
      BY <1>5
    <3>1. /\ r.slot \in Slots /\ Occupied(r.slot) /\ r = At(r.slot) /\ Opens[r] = node[r.slot]
          /\ r \in Refs
      BY <1>0, StoreLive DEF Nodes
    <3>2. Find(parent, name) = At(r.slot)
      BY <1>0, <3>1 DEF IndexExact
    <3> QED
      BY <3>1, <3>2, ArenaAssumption DEF Handles
  <2>2. Store!Find(parent, name) =
          LET found == {r \in Store!LiveIds : Opens[r].parent = parent /\ Opens[r].name = name}
          IN  IF found = {} THEN None ELSE CHOOSE r \in found : TRUE
    BY DEF Store!Find, Opens
  <2> QED
    BY <2>1, <2>2
<1>9. older' = Store!UsedNow(i)
  BY <1>3, <1>5 DEF Store!UsedNow, UsedNow
<1>10. pins \in SUBSET Store!LiveIds
  BY <1>5
<1>11. /\ Opens[i] = None
       /\ Opens' = [Opens EXCEPT ![i] =
            [name |-> name, parent |-> parent,
             base |-> IF name \in Digests THEN name ELSE Store!BaseOf(parent), pins |-> pins]]
  BY <1>4, <1>5, <1>7
<1>12. Store!Lay(i, parent, name, pins)
  BY <1>3, <1>5, <1>8, <1>9, <1>10, <1>11 DEF Store!Lay, Opens
<1> QED
  BY <1>5, <1>6, <1>10, <1>12 DEF Store!Next, Names

\* A step that lays and evicts nothing leaves every handle opening what it opened.
LEMMA SameOpens ==
    ASSUME UNCHANGED <<node, gen>>
    PROVE  Opens' = Opens
BY DEF Opens, Live, Occupied

\* A lookup's stamp is the store's use of a node.
LEMMA StampStore ==
    ASSUME IInv, NEW r \in Refs, Stamp(r)
    PROVE  Store!Next
<1>1. TypeOK /\ Live(r) /\ older' = UsedNow(r) /\ UNCHANGED <<node, gen, borrowed>>
  BY DEF IInv, Stamp
<1>2. Opens' = Opens
  BY <1>1, SameOpens
<1>3. r \in Store!LiveIds /\ Store!LiveIds = LiveRefs
  <2>1. r \in Handles
    BY DEF Handles
  <2>2. r.slot \in Slots /\ r = At(r.slot) /\ Occupied(r.slot)
    BY <1>1, <2>1, LiveAt
  <2>3. r \in LiveRefs
    BY <2>2 DEF LiveRefs
  <2> QED
    BY <1>1, <2>3, StoreLive
<1>4. older' = Store!UsedNow(r)
  BY <1>1, <1>3 DEF Store!UsedNow, UsedNow
<1>5. Store!Use(r)
  BY <1>1, <1>2, <1>3, <1>4 DEF Store!Use, Opens
<1> QED
  BY <1>3, <1>5 DEF Store!Next

\* A borrow is the store's borrow.
LEMMA BorrowStore ==
    ASSUME IInv, NEW o \in Owners, NEW r \in Handles, Borrow(o, r)
    PROVE  Store!Next
<1>1. /\ TypeOK /\ IsLive(r) /\ borrowed[o] = None /\ borrowed' = [borrowed EXCEPT ![o] = r]
      /\ UNCHANGED <<node, gen, older>>
  BY DEF IInv, Borrow, nodes
<1>2. Opens' = Opens
  BY <1>1, SameOpens
<1>3. Store!IsLive(r) /\ r \in Store!LiveIds \cup {Root}
  BY <1>1, StoreLive DEF Store!IsLive
<1>4. Store!Borrow(o, r)
  BY <1>1, <1>2, <1>3 DEF Store!Borrow, Opens
<1> QED
  BY <1>3, <1>4 DEF Store!Next

\* A release is the store's release.
LEMMA ReleaseStore ==
    ASSUME IInv, NEW o \in Owners, NEW r \in Handles, Release(o, r)
    PROVE  Store!Next
<1>1. /\ borrowed[o] # None /\ borrowed' = [borrowed EXCEPT ![o] = None]
      /\ UNCHANGED <<node, gen, older>>
  BY ArenaAssumption DEF Release, nodes
<1>2. Opens' = Opens
  BY <1>1, SameOpens
<1>3. Store!Release(o)
  BY <1>1, <1>2 DEF Store!Release, Opens
<1> QED
  BY <1>3 DEF Store!Next

\* An eviction takes what the store would, when the store would.
LEMMA EvictStore ==
    ASSUME IInv, Books, NEW s \in Slots, Evict(s)
    PROVE  Store!Next
<1>1. EvictedAt(s)
  BY EvictFacts
<1>2. TypeOK /\ turn = None /\ Unheld > Budget /\ Victim(s) /\ borrowed' = borrowed
  BY <1>1 DEF EvictedAt, IInv
<1>3. PICK i \in Refs : i = At(s)
  BY <1>2, LiveAt
<1>4. s \in Nodes /\ i \in Store!LiveIds /\ Store!LiveIds = LiveRefs
  BY <1>1, <1>2, <1>3, StoreLive DEF EvictedAt, Nodes
<1>5. Store!UnheldBytes > Budget
  BY <1>2, StoreUnheld
<1>6. Store!Evictable(i)
  BY <1>2, <1>3, <1>4, StoreEvictable DEF Victim
<1>7. \A j \in Store!LiveIds : Store!Evictable(j) => <<j, i>> \notin older
  <2> SUFFICES ASSUME NEW j \in Store!LiveIds, Store!Evictable(j) PROVE <<j, i>> \notin older
    OBVIOUS
  <2>1. PICK t \in Nodes : j = At(t)
    BY <1>2, <1>4, StoreLive DEF Ats
  <2>2. Evictable(t) /\ t \in Slots
    BY <1>2, <2>1, StoreEvictable DEF Nodes
  <2> QED
    BY <1>2, <1>3, <2>1, <2>2 DEF Victim
<1>8. Opens' = [Opens EXCEPT ![i] = None]
  <2>1. \A r \in Refs : Live(r)' <=> Live(r) /\ r # i
    BY <1>1, <1>3 DEF EvictedAt, Handles
  <2>2. \A r \in Refs : Live(r)' => r.slot \in Slots /\ r.slot # s
    BY <1>1, <2>1 DEF EvictedAt, Refs, Live
  <2>3. \A t \in Slots : t # s => node'[t] = node[t]
    BY <1>1 DEF EvictedAt
  <2>4. \A r \in Refs : Opens'[r] = IF r = i THEN None ELSE Opens[r]
    BY <2>1, <2>2, <2>3 DEF Opens
  <2> QED
    BY <2>4 DEF Opens
<1>9. older' = {p \in older : i \notin {p[1], p[2]}}
  BY <1>1, <1>3 DEF EvictedAt, Unused
<1>10. Store!Evict(i)
  BY <1>2, <1>5, <1>6, <1>7, <1>8, <1>9 DEF Store!Evict, Opens
<1> QED
  BY <1>4, <1>10 DEF Store!Next

\* Every step is the store's, or a stutter of it.
LEMMA NextStore ==
    IInv /\ Books /\ [Next]_vars => [Store!Next]_(Store!store)
<1> SUFFICES ASSUME IInv, Books, [Next]_vars PROVE [Store!Next]_(Store!store)
  OBVIOUS
<1>0. TypeOK
  BY DEF IInv
<1>1. ASSUME NEW p \in LiveRefs \cup {Root}, NEW k \in Keys,
             NEW pins \in SUBSET MayPin(p), Insert(p, k, pins)
      PROVE  Store!Next
  <2>1. p \in Handles /\ IsLive(p)
    BY <1>0, LiveAt DEF LiveRefs, IsLive, Handles
  <2>2. BaseOf(p) \in Digests \cup {None}
    BY <1>0, <2>1, LiveAt DEF BaseOf, IsLive, Node
  <2>3. pins \in SUBSET LiveRefs /\ k \in Names /\ k \notin Digests
    BY ArenaAssumption DEF MayPin, Names
  <2>4. Find(p, k) = None /\ Laid(p, k, BaseOf(p), pins)
    BY <1>1 DEF Insert
  <2> QED
    BY <2>1, <2>2, <2>3, <2>4, LaidStore
<1>2. ASSUME NEW d \in Digests, Compose(d) PROVE Store!Next
  <2>1. Root \in Handles /\ IsLive(Root) /\ d \in Names /\ {} \in SUBSET LiveRefs
    BY DEF Handles, IsLive, Names
  <2>2. Find(Root, d) = None /\ Laid(Root, d, d, {})
    BY <1>2 DEF Compose
  <2> QED
    BY <2>1, <2>2, LaidStore
<1>3. ASSUME UNCHANGED <<node, gen, older, borrowed>> PROVE UNCHANGED Store!store
  BY <1>3, SameOpens DEF Store!store, Opens
<1>4. ASSUME NEW p \in Refs, TurnPin(p) PROVE UNCHANGED Store!store
  BY <1>3, <1>4 DEF TurnPin, nodes
<1>5. ASSUME NEW p \in Handles, TurnParent(p) PROVE UNCHANGED Store!store
  BY <1>3, <1>5 DEF TurnParent, nodes
<1>6. CASE EvictToBudget \/ EvictDone \/ UNCHANGED vars
  BY <1>3, <1>6 DEF EvictToBudget, EvictDone, vars, nodes
<1> QED
  BY <1>1, <1>2, <1>4, <1>5, <1>6, StampStore, BorrowStore, ReleaseStore, EvictStore DEF Next

\* The arena implements a store with no counts, no index, no generations and no totals: whatever
\* a loop has still to tell, what is held and what may go are what the store says.
THEOREM ArenaKeepsStore == Spec => ImplementsStore
<1>1. IInv /\ Books /\ [Next]_vars => [Store!Next]_(Store!store)
  BY NextStore
<1> QED
  BY <1>1, InitIInv, NextIInv, InitBooks, NextBooks, InitStore, PTL
     DEF Spec, ImplementsStore, Store!Spec
=============================================================================
