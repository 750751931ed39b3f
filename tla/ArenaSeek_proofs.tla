-------------------------- MODULE ArenaSeek_proofs --------------------------
(* What holds of seeks, replays and compositions for any program, any budget  *)
(* and any number of frames: nothing is borrowed between births but by the    *)
(* frames that run, and every settlement of composed code finds the modules   *)
(* its key binds pinned along its own chain.                                  *)
(*                                                                            *)
(* The first rests on where the cells are: each that runs a frame is on the   *)
(* stack once, or is the newborn of the birth in progress, or the cell the    *)
(* newborn succeeds (FramesOK).  The second on the arena being a forest whose *)
(* nodes inherit the base of the node above (Forest): what a key binds above  *)
(* is pinned there, and there the base is the same, so a miss need not pin it *)
(* again.  A chain is told by closed sets, not by following it, so the layers *)
(* and the chains that the code's loops compute are shown equal to them.      *)
EXTENDS ArenaSeek, Counting_proofs

\* The tasks a birth of a frame of `f` may have: a settlement of its own is its callee's.
TasksOf(f) == {t \in Tasks : "key" \in DOMAIN t /\ t.own => t.key = KeyOf(f)}

\* A birth is handed a level, or holds one, only of a frame that seeks a settlement.
BirthOK ==
    birth # None => /\ birth.tasks \in Seq(TasksOf(birth.callable))
                    /\ birth.handed \/ birth.level => KeyOf(birth.callable) \in Keys

OnStack(c) == \E i \in 1 .. Len(stack) : stack[i] = c

InBirth(c) == birth # None /\ c \in {birth.from, birth.cell}

\* The cells that run frames are those on the stack, once each, and those of the birth in progress;
\* they are the cells that borrow.  A level is held by a birth alone.  Composed code never runs
\* under the root.
FramesOK ==
    /\ \A c \in Cells : borrowed[c] # None <=> frame[c] # None
    /\ \A c \in Cells : frame[c] # None <=> OnStack(c) \/ InBirth(c)
    /\ \A i, j \in 1 .. Len(stack) : stack[i] = stack[j] => i = j
    /\ \A c \in Cells : ~(OnStack(c) /\ InBirth(c))
    /\ birth # None /\ birth.from # None => birth.from # birth.cell
    /\ birth # None /\ birth.cell # None => frame[birth.cell].callable = birth.callable
    /\ birth = None => HeldLevels = {}
    /\ \A c \in Cells : OnStack(c) /\ IsCode(frame[c].callable) => borrowed[c] # Root

FInv == TypeOK /\ BirthOK /\ FramesOK

-----------------------------------------------------------------------------
\* What the names stand for is apart from nothing and from each other.
LEMMA Apart ==
    /\ \A x \in Ids \cup {Root} \cup Keys \cup Digests \cup Cells : x # None
    /\ \A x \in Nodes \cup Frames \cup Seq(Keys) \cup Creations : x # None
    /\ \A i \in Ids : i # Root
    /\ \A c \in Cells : c \notin Tokens
    /\ \A k \in Keys : k \notin Digests
BY SeekAssumption

\* A live node is one of those that may be.
LEMMA LiveNodes ==
    ASSUME TypeOK
    PROVE  /\ Arena!LiveIds \subseteq Ids
           /\ \A i \in Arena!LiveIds : node[i] \in Nodes /\ i # Root /\ i # None
           /\ \A i : Arena!IsLive(i) <=> i = Root \/ i \in Arena!LiveIds
<1>1. Arena!LiveIds \subseteq Ids
  BY DEF Arena!LiveIds
<1>2. \A i \in Arena!LiveIds : node[i] \in Nodes
  BY DEF TypeOK, Arena!LiveIds
<1> QED
  BY <1>1, <1>2, Apart DEF Arena!IsLive

\* What is found is live, of that parent and name.
LEMMA FoundLive ==
    ASSUME TypeOK, NEW p, NEW n, Arena!Find(p, n) # None
    PROVE  /\ Arena!Find(p, n) \in Arena!LiveIds /\ Arena!Find(p, n) \in Ids
           /\ node[Arena!Find(p, n)].parent = p /\ node[Arena!Find(p, n)].name = n
<1> DEFINE found == {i \in Arena!LiveIds : node[i].parent = p /\ node[i].name = n}
<1>1. Arena!Find(p, n) = IF found = {} THEN None ELSE CHOOSE i \in found : TRUE
  BY DEF Arena!Find
<1>2. Arena!Find(p, n) \in found
  BY <1>1
<1> QED
  BY <1>2, LiveNodes

\* The base of a live node, or of the root.
LEMMA BaseTyped ==
    ASSUME TypeOK, NEW p, Arena!IsLive(p)
    PROVE  Arena!BaseOf(p) \in Digests \cup {None} /\ p \in Ids \cup {Root}
BY LiveNodes DEF Arena!BaseOf, Nodes

\* The order of use stays one of handles.
LEMMA UseTyped ==
    ASSUME TypeOK, NEW i \in Ids
    PROVE  Arena!UsedNow(i) \subseteq Ids \X Ids
BY LiveNodes DEF TypeOK, Arena!UsedNow

\* A step of the arena's own keeps its types.
ArenaTyped ==
    /\ node \in [Ids -> Nodes \cup {None}]
    /\ older \subseteq Ids \X Ids
    /\ borrowed \in [Cells \cup Tokens -> Ids \cup {Root, None}]

\* The steps of the arena: a node laid under a live one.
LEMMA LayTyped ==
    ASSUME TypeOK, NEW i \in Ids, NEW p, NEW n \in Keys \cup Digests, NEW S,
           Arena!Lay(i, p, n, S)
    PROVE  ArenaTyped' /\ borrowed' = borrowed
<1> DEFINE new == [name |-> n, parent |-> p,
                   base |-> IF n \in Digests THEN n ELSE Arena!BaseOf(p), pins |-> S]
<1>1. /\ Arena!IsLive(p) /\ S \subseteq Arena!LiveIds /\ borrowed' = borrowed
      /\ node' = [node EXCEPT ![i] = new] /\ older' = Arena!UsedNow(i)
  BY DEF Arena!Lay
<1>2. new \in Nodes
  BY <1>1, BaseTyped, LiveNodes DEF Nodes
<1> HIDE DEF new
<1> QED
  BY <1>1, <1>2, UseTyped DEF TypeOK, ArenaTyped

\* A node stamped as the newest.
LEMMA UsedTyped ==
    ASSUME TypeOK, NEW i, Arena!Use(i)
    PROVE  ArenaTyped' /\ borrowed' = borrowed
BY LiveNodes, UseTyped DEF TypeOK, ArenaTyped, Arena!Use

\* A node, or the root, borrowed.
LEMMA BorrowTyped ==
    ASSUME TypeOK, NEW o \in Cells \cup Tokens, NEW i, Arena!Borrow(o, i)
    PROVE  ArenaTyped' /\ borrowed' = [borrowed EXCEPT ![o] = i] /\ i # None
<1>1. i \in Ids \cup {Root} /\ i # None
  BY LiveNodes, Apart DEF Arena!Borrow
<1> QED
  BY <1>1 DEF TypeOK, ArenaTyped, Arena!Borrow

\* A borrow let go.
LEMMA ReleaseTyped ==
    ASSUME TypeOK, NEW o \in Cells \cup Tokens, Arena!Release(o)
    PROVE  ArenaTyped' /\ borrowed' = [borrowed EXCEPT ![o] = None]
BY DEF TypeOK, ArenaTyped, Arena!Release

\* A node evicted.
LEMMA EvictTyped ==
    ASSUME TypeOK, NEW i \in Ids, Arena!Evict(i)
    PROVE  ArenaTyped' /\ borrowed' = borrowed
BY DEF TypeOK, ArenaTyped, Arena!Evict

\* An arena left alone.
LEMMA SameTyped ==
    ASSUME TypeOK, UNCHANGED arena
    PROVE  ArenaTyped' /\ borrowed' = borrowed
BY DEF TypeOK, ArenaTyped, arena

-----------------------------------------------------------------------------
\* A sequence that is not empty, without its last.
LEMMA FrontOf ==
    ASSUME NEW X, NEW S \in Seq(X), S # <<>>
    PROVE  /\ Len(S) \in Nat \ {0} /\ Last(S) = S[Len(S)] /\ S[Len(S)] \in X
           /\ Front(S) \in Seq(X) /\ Len(Front(S)) = Len(S) - 1
           /\ \A i \in 1 .. Len(S) - 1 : Front(S)[i] = S[i]
<1>1. Len(S) \in Nat \ {0} /\ S[Len(S)] \in X /\ Last(S) = S[Len(S)]
  BY DEF Last
<1> DEFINE n == Len(S)
           F == Front(S)
<1>2. F = SubSeq(S, 1, n - 1)
  BY DEF Front
<1>3. n - 1 \in Nat /\ \A i \in 1 .. n - 1 : S[i] \in X
  BY <1>1
<1> HIDE DEF n, F
<1>4. Len(F) = n - 1
  BY <1>2, <1>3
<1>5. \A i \in 1 .. n - 1 : F[i] = S[i]
  BY <1>2, <1>3
<1>6. F \in Seq(X)
  BY <1>2, <1>3, <1>4, <1>5
<1> QED
  BY <1>1, <1>4, <1>5, <1>6 DEF n, F

\* A finite set in some order.
LEMMA Ordered ==
    ASSUME NEW S, IsFiniteSet(S)
    PROVE  SetToSeq(S) \in Seq(S)
<1>1. PICK n \in Nat : ExistsBijection(1 .. n, S)
  BY FS_NatBijection
<1>2. Cardinality(S) = n
  BY <1>1, FS_CountingElements
<1>3. PICK f : f \in Bijection(1 .. n, S)
  BY <1>1 DEF ExistsBijection
<1>4. f \in [1 .. n -> S] /\ IsInjective(f)
  BY <1>3 DEF Bijection, Injection, IsInjective
<1>5. SetToSeq(S) \in [1 .. n -> S]
  BY <1>2, <1>4 DEF SetToSeq
<1> QED
  BY <1>1, <1>5

\* Sequences put end to end are a sequence of what they have.
LEMMA Flat ==
    ASSUME NEW X, NEW S \in Seq(Seq(X))
    PROVE  FlattenSeq(S) \in Seq(X)
<1> DEFINE N == Len(S)
           f == CHOOSE g : g = [i \in 1 .. N |-> IF i = 1 THEN S[i] ELSE g[i - 1] \o S[i]]
<1>1. N \in Nat /\ \A i \in 1 .. N : S[i] \in Seq(X)
  OBVIOUS
<1>2. FlattenSeq(S) = IF N = 0 THEN S ELSE f[N]
  BY DEF FlattenSeq
<1>3. CASE N = 0
  BY <1>2, <1>3
<1>4. CASE N # 0
  <2> DEFINE Ok(n, g) == \A i \in 1 .. n : g[i] = IF i = 1 THEN S[i] ELSE g[i - 1] \o S[i]
  <2> HIDE DEF f, N
  <2>1. \A n \in 1 .. N : \E g \in [1 .. n -> Seq(X)] : Ok(n, g)
    <3> DEFINE Bad == {n \in 1 .. N : ~ \E g \in [1 .. n -> Seq(X)] : Ok(n, g)}
    <3> SUFFICES ASSUME Bad # {} PROVE FALSE
      OBVIOUS
    <3>1. PICK n \in Bad : \A m \in Bad : n <= m
      <4>1. Bad \in SUBSET Nat
        BY <1>1
      <4> QED
        BY <4>1, LeastNat
    <3>2. n \in 1 .. N /\ n \in Nat
      BY <1>1
    <3>3. n # 1
      <4>1. [i \in 1 .. 1 |-> S[1]] \in [1 .. 1 -> Seq(X)] /\ Ok(1, [i \in 1 .. 1 |-> S[1]])
        BY <1>1, <3>2
      <4> QED
        BY <4>1
    <3>4. n - 1 \in 1 .. N /\ n - 1 \notin Bad
      <4> HIDE DEF Bad
      <4> QED
        BY <1>1, <3>1, <3>2, <3>3
    <3>5. PICK g \in [1 .. n - 1 -> Seq(X)] : Ok(n - 1, g)
      BY <3>4
    <3> DEFINE h == [i \in 1 .. n |-> IF i = n THEN g[n - 1] \o S[n] ELSE g[i]]
    <3>6. h \in [1 .. n -> Seq(X)]
      <4>1. g[n - 1] \o S[n] \in Seq(X)
        <5>1. g[n - 1] \in Seq(X) /\ S[n] \in Seq(X)
          BY <1>1, <3>2, <3>4
        <5> QED
          BY <5>1
      <4>2. \A i \in 1 .. n : i # n => i \in 1 .. n - 1
        BY <3>2
      <4> QED
        BY <4>1, <4>2
    <3>7. Ok(n, h)
      <4> SUFFICES ASSUME NEW i \in 1 .. n
                   PROVE  h[i] = IF i = 1 THEN S[i] ELSE h[i - 1] \o S[i]
        OBVIOUS
      <4>1. i # 1 => i - 1 \in 1 .. n - 1 /\ i - 1 \in 1 .. n /\ i - 1 # n
        BY <3>2
      <4>2. i # 1 => h[i - 1] = g[i - 1]
        BY <4>1
      <4>3. CASE i = n
        BY <3>3, <4>2, <4>3
      <4>4. CASE i # n
        <5>1. i \in 1 .. n - 1 /\ h[i] = g[i]
          BY <3>2, <4>4
        <5> QED
          BY <3>5, <4>2, <5>1
      <4> QED
        BY <4>3, <4>4
    <3> QED
      BY <3>1, <3>6, <3>7
  <2>2. PICK h \in [1 .. N -> Seq(X)] : Ok(N, h)
    <3>1. N \in 1 .. N
      BY <1>1, <1>4
    <3> QED
      BY <2>1, <3>1
  <2>3. h = [i \in 1 .. N |-> IF i = 1 THEN S[i] ELSE h[i - 1] \o S[i]]
    BY <2>2
  <2>4. f = [i \in 1 .. N |-> IF i = 1 THEN S[i] ELSE f[i - 1] \o S[i]]
    BY <2>3 DEF f
  <2>5. f[N] \in Seq(X)
    <3> DEFINE Bad == {n \in 1 .. N : f[n] # h[n]}
    <3>1. ASSUME Bad # {} PROVE FALSE
      <4>1. PICK n \in Bad : \A m \in Bad : n <= m
        <5>1. Bad \in SUBSET Nat
          BY <1>1
        <5> QED
          BY <3>1, <5>1, LeastNat
      <4>2. n \in 1 .. N /\ (n # 1 => n - 1 \in 1 .. N /\ n - 1 < n)
        BY <1>1
      <4>3. n # 1 => n - 1 \notin Bad
        <5>1. n - 1 \in Bad => n <= n - 1
          BY <4>1
        <5> HIDE DEF Bad
        <5> QED
          BY <1>1, <4>2, <5>1
      <4>4. n \in 1 .. N /\ f[n] # h[n] /\ (n # 1 => f[n - 1] = h[n - 1])
        BY <4>2, <4>3
      <4>5. h[n] = IF n = 1 THEN S[n] ELSE h[n - 1] \o S[n]
        BY <2>2, <4>4
      <4>6. f[n] = IF n = 1 THEN S[n] ELSE f[n - 1] \o S[n]
        BY <2>4, <4>4
      <4> QED
        BY <4>4, <4>5, <4>6
    <3>2. N \in 1 .. N
      BY <1>1, <1>4
    <3> QED
      BY <3>1, <3>2
  <2> QED
    BY <1>2, <1>4, <2>5
<1> QED
  BY <1>3, <1>4

\* A composition is a task of any birth, and so is a level before its own settlement.
LEMMA TaskKinds ==
    ASSUME NEW f \in Callables
    PROVE  /\ \A d \in Digests, o, e \in BOOLEAN : Composed(d, o, e) \in TasksOf(f)
           /\ \A k \in Keys : Sought(k, FALSE) \in TasksOf(f)
           /\ Sought(KeyOf(f), TRUE) \in TasksOf(f)
           /\ KeyOf(f) \in Keys \cup {None}
           /\ Composed(f.base, TRUE, TRUE) \in TasksOf(f) \/ f.base = None
<1>1. \A d \in Digests, o, e \in BOOLEAN : Composed(d, o, e) \in TasksOf(f)
  BY DEF TasksOf, Tasks, Composed
<1>2. KeyOf(f) \in Keys \cup {None}
  BY SeekAssumption DEF KeyOf, Callables
<1>3. \A k \in Keys \cup {None}, own \in BOOLEAN : Sought(k, own) \in Tasks
  BY DEF Tasks, Sought
<1>4. \A k, own : Sought(k, own).own = own /\ Sought(k, own).key = k
  BY DEF Sought
<1>5. \A k \in Keys : Sought(k, FALSE) \in TasksOf(f)
  BY <1>3, <1>4 DEF TasksOf
<1>6. Sought(KeyOf(f), TRUE) \in TasksOf(f)
  BY <1>2, <1>3, <1>4 DEF TasksOf
<1> QED
  BY <1>1, <1>2, <1>5, <1>6 DEF Callables

\* What a replay asks for is a list of such tasks.
LEMMA ReplayTyped ==
    ASSUME NEW f \in Callables
    PROVE  ReplayTasks(f) \in Seq(TasksOf(f))
<1> DEFINE L == [n \in 1 .. Len(f.levels) |-> LevelTasks(f, f.levels[n])]
           X == TasksOf(f)
<1>1. ASSUME NEW k \in Keys PROVE LevelTasks(f, k) \in Seq(X)
  <2> DEFINE pins == SetToSeq(Binds[k] \ {f.base})
             A == [n \in 1 .. Len(pins) |-> Composed(pins[n], TRUE, FALSE)]
             B == <<Sought(k, FALSE)>>
  <2>1. pins \in Seq(Digests)
    <3>1. Binds[k] \ {f.base} \in SUBSET Digests /\ IsFiniteSet(Binds[k] \ {f.base})
      BY SeekAssumption, FS_Subset
    <3>2. pins \in Seq(Binds[k] \ {f.base})
      BY <3>1, Ordered
    <3> QED
      BY <3>1, <3>2
  <2>2. A \in Seq(X)
    <3> HIDE DEF pins
    <3> DEFINE c(d) == Composed(d, TRUE, FALSE)
    <3>1. \A d \in Digests : c(d) \in X
      BY TaskKinds, Zenon
    <3>2. Len(pins) \in Nat /\ \A n \in 1 .. Len(pins) : pins[n] \in Digests
      BY <2>1
    <3> HIDE DEF X, c
    <3>3. [n \in 1 .. Len(pins) |-> c(pins[n])] \in Seq(X)
      BY <3>1, <3>2
    <3> QED
      BY <3>3, Zenon DEF c
  <2>3. B \in Seq(X)
    <3> DEFINE t == Sought(k, FALSE)
    <3>1. t \in X
      BY TaskKinds, Zenon
    <3> HIDE DEF X, t
    <3>2. <<t>> \in Seq(X)
      BY <3>1
    <3> QED
      BY <3>2, Zenon DEF t
  <2>4. LevelTasks(f, k) = A \o B
    BY DEF LevelTasks
  <2> HIDE DEF A, B, X
  <2> QED
    BY <2>2, <2>3, <2>4
<1>2. f.levels \in Seq(Keys)
  BY DEF Callables
<1>3. L \in Seq(Seq(X))
  <2>1. \A n \in 1 .. Len(f.levels) : LevelTasks(f, f.levels[n]) \in Seq(X)
    BY <1>1, <1>2
  <2> HIDE DEF X
  <2> QED
    BY <1>2, <2>1
<1>4. FlattenSeq(L) \in Seq(X)
  <2> HIDE DEF L, X
  <2> QED
    BY <1>3, Flat
<1> DEFINE own == <<Sought(KeyOf(f), TRUE)>>
<1>5. own \in Seq(X)
  <2> DEFINE t == Sought(KeyOf(f), TRUE)
  <2>1. t \in X
    BY TaskKinds, Zenon
  <2> HIDE DEF X, t
  <2>2. <<t>> \in Seq(X)
    BY <2>1
  <2> QED
    BY <2>2, Zenon DEF t
<1>6. ReplayTasks(f) = FlattenSeq(L) \o own
  BY Zenon DEF ReplayTasks
<1> HIDE DEF L, X, own
<1>7. ReplayTasks(f) \in Seq(X)
  BY <1>4, <1>5, <1>6
<1> QED
  BY <1>7 DEF X

-----------------------------------------------------------------------------
\* A birth asked for is one, of a frame that runs nowhere yet.
LEMMA AskedTyped ==
    ASSUME NEW f \in Callables, NEW from \in Cells \cup {None}, NEW at \in Ids \cup {Root},
           NEW tasks \in Seq(TasksOf(f)), NEW replays \in BOOLEAN, NEW level \in BOOLEAN,
           level => KeyOf(f) \in Keys, Asked(f, from, at, tasks, replays, level)
    PROVE  /\ birth' \in Creations /\ birth' # None /\ BirthOK'
           /\ birth'.from = from /\ birth'.cell = None
<1>1. tasks \in Seq(Tasks)
  <2>1. TasksOf(f) \subseteq Tasks
    BY DEF TasksOf
  <2> HIDE DEF Tasks, TasksOf
  <2> QED
    BY <2>1
<1>2. birth' = [callable |-> f, from |-> from, at |-> at, tasks |-> tasks, replays |-> replays,
                level |-> level, handed |-> FALSE, missed |-> FALSE, wanting |-> None,
                held |-> TRUE, cell |-> None]
  BY DEF Asked
<1>3. birth' \in Creations
  <2> HIDE DEF Tasks
  <2> QED
    BY <1>1, <1>2 DEF Creations
<1>4. birth' # None
  BY <1>3, Apart
<1>5. BirthOK'
  <2>1. birth'.tasks \in Seq(TasksOf(birth'.callable))
    BY <1>2
  <2>2. birth'.handed \/ birth'.level => KeyOf(birth'.callable) \in Keys
    BY <1>2
  <2> QED
    BY <2>1, <2>2 DEF BirthOK
<1> QED
  BY <1>2, <1>3, <1>4, <1>5

\* What a birth in progress is.
LEMMA BirthTyped ==
    ASSUME FInv, birth # None
    PROVE  /\ birth \in Creations /\ birth.callable \in Callables
           /\ birth.from \in Cells \cup {None} /\ birth.cell \in Cells \cup {None}
           /\ birth.at \in Ids \cup {Root} /\ birth.level \in BOOLEAN /\ birth.handed \in BOOLEAN
           /\ birth.tasks \in Seq(TasksOf(birth.callable))
           /\ birth.handed \/ birth.level => KeyOf(birth.callable) \in Keys
           /\ birth.wanting \in Digests \cup {None} /\ birth.replays \in BOOLEAN
           /\ birth.missed \in BOOLEAN /\ birth.held \in BOOLEAN
<1>1. birth \in Creations
  BY DEF FInv, TypeOK
<1> QED
  BY <1>1 DEF FInv, BirthOK, Creations

\* A birth that goes on stays one.
Stays ==
    /\ birth' \in Creations /\ BirthOK'
    /\ birth'.from = birth.from /\ birth'.cell = birth.cell /\ birth'.callable = birth.callable

\* Where only the arena and the birth's own business move, the cells stay where they are.
LEMMA FramesStay ==
    ASSUME FInv, birth # None, Stays, stack' = stack, frame' = frame,
           \A c \in Cells : borrowed'[c] = borrowed[c]
    PROVE  FramesOK'
<1>1. birth' # None
  BY Apart DEF Stays
<1>2. \A c \in Cells : InBirth(c)' <=> InBirth(c)
  BY <1>1 DEF InBirth, Stays
<1>3. \A c \in Cells : OnStack(c)' <=> OnStack(c)
  BY DEF OnStack
<1>4. FramesOK
  BY DEF FInv
<1> QED
  BY <1>1, <1>2, <1>3, <1>4 DEF FramesOK, Stays

\* A step of a birth keeps the types of the rest.
LEMMA StepStays ==
    ASSUME FInv, birth # None, Stays, ArenaTyped', UNCHANGED <<callables, frame, stack>>,
           \A c \in Cells : borrowed'[c] = borrowed[c]
    PROVE  FInv'
<1>1. TypeOK
  BY DEF FInv
<1>2. TypeOK'
  BY <1>1 DEF TypeOK, ArenaTyped, Stays
<1>3. FramesOK'
  BY FramesStay
<1> QED
  BY <1>2, <1>3 DEF FInv, Stays

\* The first task of a birth, and those after it.
LEMMA FirstTask ==
    ASSUME FInv, Placing
    PROVE  /\ Task \in TasksOf(birth.callable) /\ Task \in Tasks
           /\ Tail(birth.tasks) \in Seq(TasksOf(birth.callable))
           /\ Tail(birth.tasks) \in Seq(Tasks)
           /\ "digest" \in DOMAIN Task => Task.digest \in Digests
           /\ "key" \in DOMAIN Task => Task.key \in Keys \cup {None} /\ Task.own \in BOOLEAN
<1> DEFINE X == TasksOf(birth.callable)
<1>1. birth.tasks \in Seq(X) /\ birth.tasks # <<>>
  BY BirthTyped DEF Placing
<1>2. X \subseteq Tasks
  BY DEF TasksOf
<1>3. Task \in X /\ Tail(birth.tasks) \in Seq(X)
  <2> HIDE DEF X
  <2> QED
    BY <1>1 DEF Task
<1>4. Task \in Tasks /\ Tail(birth.tasks) \in Seq(Tasks)
  <2> HIDE DEF X, Tasks
  <2> QED
    BY <1>2, <1>3
<1>5. /\ "digest" \in DOMAIN Task => Task.digest \in Digests
      /\ "key" \in DOMAIN Task => Task.key \in Keys \cup {None} /\ Task.own \in BOOLEAN
  BY <1>4 DEF Tasks
<1> QED
  BY <1>3, <1>4, <1>5

\* A birth whose first task is done, and which may have come to another node, stays one.
LEMMA TaskDone ==
    ASSUME FInv, Placing, NEW at \in Ids \cup {Root}, NEW missed \in BOOLEAN,
           NEW handed \in BOOLEAN, NEW held \in BOOLEAN, handed => KeyOf(birth.callable) \in Keys,
           birth' = [birth EXCEPT !.tasks = Tail(@), !.at = at, !.missed = missed,
                                  !.handed = handed, !.held = held]
    PROVE  Stays
<1>1. birth \in Creations /\ birth # None
  BY BirthTyped DEF Placing
<1> DEFINE rest == Tail(birth.tasks)
<1>2. rest \in Seq(Tasks) /\ rest \in Seq(TasksOf(birth.callable))
  BY FirstTask
<1>3. birth' = [birth EXCEPT !.tasks = rest, !.at = at, !.missed = missed,
                             !.handed = handed, !.held = held]
  OBVIOUS
<1> HIDE DEF rest
<1>4. birth' \in Creations /\ birth'.from = birth.from /\ birth'.cell = birth.cell
  BY <1>1, <1>2, <1>3 DEF Creations
<1>5. /\ birth'.callable = birth.callable /\ birth'.tasks = rest /\ birth'.handed = handed
      /\ birth'.level = birth.level
  BY <1>1, <1>3 DEF Creations
<1>6. BirthOK'
  <2>1. birth'.tasks \in Seq(TasksOf(birth'.callable))
    BY <1>2, <1>5
  <2>2. birth'.handed \/ birth'.level => KeyOf(birth'.callable) \in Keys
    BY <1>1, <1>5, BirthTyped
  <2> QED
    BY <2>1, <2>2 DEF BirthOK
<1> QED
  BY <1>4, <1>5, <1>6 DEF Stays

-----------------------------------------------------------------------------
\* A composition found, built or missed.
LEMMA ComposeFInv ==
    ASSUME FInv, Compose
    PROVE  FInv'
<1> DEFINE d == Task.digest
           found == Arena!Find(Root, d)
           entered(i) == IF Task.enter THEN i ELSE birth.at
<1>1. /\ Placing /\ birth # None /\ d \in Digests /\ TypeOK
      /\ UNCHANGED <<callables, frame, stack>>
  BY FirstTask DEF Compose, Placing, FInv
<1>2. /\ birth \in Creations /\ birth.at \in Ids \cup {Root} /\ birth.missed \in BOOLEAN
      /\ birth.handed \in BOOLEAN /\ birth.held \in BOOLEAN
      /\ birth.handed => KeyOf(birth.callable) \in Keys
  BY <1>1, BirthTyped
<1>3. ASSUME NEW i \in Ids, NEW missed \in BOOLEAN,
             birth' = [birth EXCEPT !.tasks = Tail(@), !.at = entered(i), !.missed = missed]
      PROVE  Stays
  <2> DEFINE at == entered(i)
  <2>1. at \in Ids \cup {Root}
    BY <1>2
  <2> HIDE DEF at
  <2>2. birth' = [birth EXCEPT !.tasks = Tail(@), !.at = at, !.missed = missed,
                               !.handed = birth.handed, !.held = birth.held]
    <3>1. birth' = [birth EXCEPT !.tasks = Tail(@), !.at = at, !.missed = missed]
      BY <1>3 DEF at
    <3> QED
      BY <1>2, <3>1 DEF Creations
  <2> QED
    BY <1>1, <1>2, <2>1, <2>2, TaskDone
<1>4. CASE found # None /\ Arena!Use(found)
           /\ birth' = [birth EXCEPT !.tasks = Tail(@), !.at = entered(found)]
  <2>1. found \in Ids
    BY <1>1, <1>4, FoundLive
  <2>2. birth' = [birth EXCEPT !.tasks = Tail(@), !.at = entered(found), !.missed = birth.missed]
    BY <1>2, <1>4 DEF Creations
  <2> HIDE DEF found
  <2>3. Stays
    BY <1>2, <1>3, <2>1, <2>2
  <2> QED
    BY <1>1, <1>4, <2>3, UsedTyped, StepStays
<1>5. ASSUME NEW i \in Ids, Arena!Lay(i, Root, d, {}),
             birth' = [birth EXCEPT !.tasks = Tail(@), !.at = entered(i), !.missed = TRUE]
      PROVE  FInv'
  <2>1. Stays
    BY <1>3, <1>5
  <2>2. ArenaTyped' /\ borrowed' = borrowed
    <3>1. d \in Keys \cup Digests
      BY <1>1
    <3> QED
      BY <1>1, <1>5, <3>1, LayTyped
  <2> QED
    BY <1>1, <2>1, <2>2, StepStays
<1>6. CASE birth' = [birth EXCEPT !.tasks = Tail(@)] /\ UNCHANGED arena
  <2>1. birth' = [birth EXCEPT !.tasks = Tail(@), !.at = birth.at, !.missed = birth.missed,
                               !.handed = birth.handed, !.held = birth.held]
    BY <1>2, <1>6 DEF Creations
  <2>2. Stays
    BY <1>1, <1>2, <2>1, TaskDone
  <2> QED
    BY <1>1, <1>6, <2>2, SameTyped, StepStays
<1> QED
  BY <1>4, <1>5, <1>6 DEF Compose

\* A seek with no key, and one for which nothing settles.
LEMMA SeekNothingFInv ==
    ASSUME FInv, SeekKeyless \/ SeekBarren \/ \E d \in Digests : SeekWanting(d)
    PROVE  FInv'
<1>1. /\ Placing /\ birth # None /\ UNCHANGED <<callables, frame, stack>> /\ UNCHANGED arena
      /\ TypeOK
  BY DEF SeekKeyless, SeekBarren, SeekWanting, Missing, Placing, FInv
<1>2. birth \in Creations /\ birth.callable \in Callables
  BY <1>1, BirthTyped
<1>3. CASE SeekKeyless
  <2>1. birth' = [birth EXCEPT !.tasks = Tail(@), !.at = birth.at, !.missed = birth.missed,
                               !.handed = birth.handed, !.held = birth.held]
    BY <1>2, <1>3 DEF Creations, SeekKeyless
  <2>2. Stays
    BY <1>1, <1>2, <2>1, TaskDone, BirthTyped
  <2> QED
    BY <1>1, <2>2, SameTyped, StepStays
<1>4. ASSUME NEW d \in Digests \cup {None}, birth' = [birth EXCEPT !.tasks = <<>>, !.wanting = d]
      PROVE  FInv'
  <2>1. <<>> \in Seq(Tasks) /\ <<>> \in Seq(TasksOf(birth.callable))
    OBVIOUS
  <2>2. birth' \in Creations /\ birth'.from = birth.from /\ birth'.cell = birth.cell
    <3> HIDE DEF Tasks
    <3> QED
      BY <1>2, <1>4, <2>1 DEF Creations
  <2>3. /\ birth'.callable = birth.callable /\ birth'.tasks = <<>>
        /\ birth'.handed = birth.handed /\ birth'.level = birth.level
    BY <1>2, <1>4 DEF Creations
  <2>4. BirthOK'
    BY <1>1, <2>1, <2>3, BirthTyped DEF BirthOK
  <2>5. Stays
    BY <2>2, <2>3, <2>4 DEF Stays
  <2> QED
    BY <1>1, <2>5, SameTyped, StepStays
<1>5. CASE SeekBarren
  <2>1. birth' = [birth EXCEPT !.tasks = <<>>, !.wanting = birth.wanting]
    BY <1>2, <1>5 DEF Creations, SeekBarren
  <2> QED
    BY <1>1, <1>4, <2>1, BirthTyped
<1>6. CASE \E d \in Digests : SeekWanting(d)
  BY <1>4, <1>6 DEF SeekWanting
<1> QED
  BY <1>3, <1>5, <1>6

\* Where a seek lands its task is done; a level is handed of the callee's own settlement.
LEMMA LandedStays ==
    ASSUME FInv, Placing, "key" \in DOMAIN Task, Task.key # None, NEW i \in Ids,
           NEW missed \in BOOLEAN, Landed(i, missed)
    PROVE  Stays
<1>1. birth \in Creations /\ birth # None /\ birth.missed \in BOOLEAN
  BY BirthTyped DEF Placing
<1>2. /\ Task \in TasksOf(birth.callable) /\ Task.own \in BOOLEAN
      /\ Task.key \in Keys \cup {None}
  BY FirstTask
<1>3. Task.own => KeyOf(birth.callable) \in Keys
  BY <1>2 DEF TasksOf
<1> DEFINE h == Task.own /\ Births(birth.callable) /\ ~birth.level
           m == birth.missed \/ missed
           o == Task.own
<1>4. birth' = [birth EXCEPT !.tasks = Tail(@), !.at = i, !.missed = m, !.handed = h, !.held = o]
  BY <1>1 DEF Landed, Creations
<1>5. h \in BOOLEAN /\ m \in BOOLEAN /\ o \in BOOLEAN /\ (h => KeyOf(birth.callable) \in Keys)
  BY <1>1, <1>2, <1>3
<1> HIDE DEF h, m, o
<1> QED
  BY <1>4, <1>5, TaskDone

\* A hit lands on a live node.
LEMMA SeekHitFInv ==
    ASSUME FInv, SeekHit
    PROVE  FInv'
<1> DEFINE found == Arena!Find(birth.at, Task.key)
<1>1. /\ Placing /\ birth # None /\ TypeOK /\ UNCHANGED <<callables, frame, stack>>
      /\ "key" \in DOMAIN Task /\ Task.key # None
      /\ found # None /\ Arena!Use(found) /\ Landed(found, FALSE)
  BY DEF SeekHit, Placing, FInv
<1>2. found \in Ids
  BY <1>1, FoundLive
<1> HIDE DEF found
<1>3. Stays
  BY <1>1, <1>2, LandedStays
<1> QED
  BY <1>1, <1>3, UsedTyped, StepStays

\* A miss that settles lands on the node it lays.
LEMMA SeekSettlesFInv ==
    ASSUME FInv, SeekSettles
    PROVE  FInv'
<1>1. /\ Placing /\ birth # None /\ TypeOK /\ UNCHANGED <<callables, frame, stack>>
      /\ "key" \in DOMAIN Task /\ Task.key # None
  BY DEF SeekSettles, Missing, Placing, FInv
<1>2. PICK i \in Ids : /\ Arena!Lay(i, birth.at, Task.key, Pins(birth.at, Task.key))
                       /\ Landed(i, TRUE)
  BY DEF SeekSettles
<1>3. Task.key \in Keys \cup Digests
  BY <1>1, FirstTask
<1>4. Stays
  BY <1>1, <1>2, LandedStays
<1>5. ArenaTyped' /\ borrowed' = borrowed
  BY <1>1, <1>2, <1>3, LayTyped
<1> QED
  BY <1>1, <1>4, <1>5, StepStays

\* A level of a replay is held or let go: no cell's borrow moves.
LEMMA HoldLevelFInv ==
    ASSUME FInv, HoldLevel
    PROVE  FInv'
<1>1. /\ birth # None /\ TypeOK /\ UNCHANGED <<callables, frame, stack>>
      /\ birth' = [birth EXCEPT !.held = TRUE]
  BY DEF HoldLevel, FInv
<1>2. PICK t \in Tokens : Arena!Borrow(t, birth.at)
  BY DEF HoldLevel
<1>3. ArenaTyped' /\ borrowed' = [borrowed EXCEPT ![t] = birth.at]
  BY <1>1, <1>2, BorrowTyped
<1>4. \A c \in Cells : borrowed'[c] = borrowed[c]
  BY <1>1, <1>3, Apart DEF TypeOK
<1>5. birth \in Creations
  BY <1>1, BirthTyped
<1>6. birth' \in Creations /\ birth'.from = birth.from /\ birth'.cell = birth.cell
  BY <1>1, <1>5 DEF Creations
<1>7. /\ birth'.callable = birth.callable /\ birth'.tasks = birth.tasks
      /\ birth'.handed = birth.handed /\ birth'.level = birth.level
  BY <1>1, <1>5 DEF Creations
<1>8. BirthOK'
  BY <1>1, <1>7, BirthTyped DEF BirthOK
<1>9. Stays
  BY <1>6, <1>7, <1>8 DEF Stays
<1> QED
  BY <1>1, <1>3, <1>4, <1>9, StepStays

\* A birth left alone stays.
LEMMA SameStays ==
    ASSUME FInv, birth # None, birth' = birth
    PROVE  Stays
BY BirthTyped DEF Stays, BirthOK

\* A level let go: no cell's borrow moves.
LEMMA ReleaseLevelFInv ==
    ASSUME FInv, ReleaseLevel
    PROVE  FInv'
<1>1. birth # None /\ TypeOK /\ UNCHANGED <<callables, frame, stack, birth>>
  BY DEF ReleaseLevel, FInv
<1>2. PICK t \in Tokens : Arena!Release(t)
  BY DEF ReleaseLevel, HeldLevels
<1>3. ArenaTyped' /\ borrowed' = [borrowed EXCEPT ![t] = None]
  BY <1>1, <1>2, ReleaseTyped
<1>4. \A c \in Cells : borrowed'[c] = borrowed[c]
  BY <1>1, <1>3, Apart DEF TypeOK
<1> QED
  BY <1>1, <1>3, <1>4, SameStays, StepStays

\* An eviction moves no borrow.
LEMMA EvictToBudgetFInv ==
    ASSUME FInv, EvictToBudget
    PROVE  FInv'
<1>1. birth # None /\ TypeOK /\ UNCHANGED <<callables, frame, stack, birth>>
  BY DEF EvictToBudget, Evicting, FInv
<1>2. PICK i \in Ids : Arena!Evict(i)
  BY DEF EvictToBudget
<1> QED
  BY <1>1, <1>2, EvictTyped, SameStays, StepStays

\* The newborn borrows what was found; no cell else moves.
LEMMA PlaceFInv ==
    ASSUME FInv, Place
    PROVE  FInv'
<1> DEFINE n == FreeCell
           b == [callable |-> birth.callable, stamp |-> None]
<1>1. /\ birth # None /\ birth.cell = None /\ TypeOK /\ FramesOK /\ UNCHANGED <<callables, stack>>
      /\ Arena!Borrow(n, birth.at) /\ frame' = [frame EXCEPT ![n] = b]
      /\ birth' = [birth EXCEPT !.cell = n]
  BY DEF Place, FInv
<1>2. n \in Cells /\ frame[n] = None
  BY DEF Place, FreeCell, FreeCells
<1> HIDE DEF n
<1>3. b \in Frames /\ b # None
  <2>1. b \in Frames
    BY <1>1, BirthTyped DEF Frames
  <2> QED
    BY <2>1, Apart
<1> HIDE DEF b
<1>4. ArenaTyped' /\ borrowed' = [borrowed EXCEPT ![n] = birth.at] /\ birth.at # None
  BY <1>1, <1>2, BorrowTyped
<1>5. birth \in Creations
  BY <1>1, BirthTyped
<1>6. birth' \in Creations /\ birth'.from = birth.from /\ birth'.cell = n
  BY <1>1, <1>2, <1>5 DEF Creations
<1>7. /\ birth'.callable = birth.callable /\ birth'.tasks = birth.tasks
      /\ birth'.handed = birth.handed /\ birth'.level = birth.level
  BY <1>1, <1>5 DEF Creations
<1>8. BirthOK'
  BY <1>1, <1>7, BirthTyped DEF BirthOK
<1>9. TypeOK'
  BY <1>1, <1>2, <1>3, <1>4, <1>6 DEF TypeOK, ArenaTyped
<1>10. birth' # None
  BY <1>6, Apart
<1>11. n # None /\ ~OnStack(n) /\ ~InBirth(n)
  BY <1>1, <1>2, Apart DEF FramesOK
<1>12. \A c \in Cells : InBirth(c)' <=> InBirth(c) \/ c = n
  BY <1>1, <1>6, <1>10, Apart DEF InBirth
<1>13. \A c \in Cells : OnStack(c)' <=> OnStack(c)
  BY <1>1 DEF OnStack
<1>14. \A c \in Cells : c # n => borrowed'[c] = borrowed[c] /\ frame'[c] = frame[c]
  BY <1>1, <1>2, <1>4 DEF TypeOK
<1>15. borrowed'[n] # None /\ frame'[n] # None /\ frame'[n].callable = birth'.callable
  <2>1. frame'[n] = b /\ b.callable = birth.callable
    BY <1>1, <1>2 DEF TypeOK, b
  <2> QED
    BY <1>1, <1>2, <1>3, <1>4, <1>7, <2>1 DEF TypeOK
<1>16. birth'.from # birth'.cell
  BY <1>1, <1>6, <1>11 DEF InBirth
<1>17. FramesOK'
  <2>1. \A c \in Cells : borrowed'[c] # None <=> frame'[c] # None
    BY <1>1, <1>14, <1>15 DEF FramesOK
  <2>2. \A c \in Cells : frame'[c] # None <=> OnStack(c)' \/ InBirth(c)'
    BY <1>1, <1>12, <1>13, <1>14, <1>15 DEF FramesOK
  <2>3. \A c \in Cells : ~(OnStack(c)' /\ InBirth(c)')
    BY <1>1, <1>11, <1>12, <1>13 DEF FramesOK
  <2>4. \A c \in Cells : OnStack(c)' /\ IsCode(frame'[c].callable) => borrowed'[c] # Root
    BY <1>1, <1>11, <1>13, <1>14 DEF FramesOK
  <2> QED
    BY <1>1, <1>6, <1>10, <1>15, <1>16, <2>1, <2>2, <2>3, <2>4 DEF FramesOK
<1> QED
  BY <1>8, <1>9, <1>17 DEF FInv

-----------------------------------------------------------------------------
\* Where a call's own seek starts, and what it asks for.
LEMMA SeekTyped ==
    ASSUME TypeOK, NEW f \in Callables
    PROVE  SeekFrom(f) \in Ids \cup {Root} /\ OwnSeek(f) \in Seq(TasksOf(f))
<1>1. SeekFrom(f) \in Ids \cup {Root}
  BY LiveNodes DEF SeekFrom
<1> DEFINE X == TasksOf(f)
           t == Sought(KeyOf(f), TRUE)
<1>2. t \in X
  BY TaskKinds, Zenon
<1>3. OwnSeek(f) = IF Arena!IsLive(f.build) THEN <<t>> ELSE <<>>
  BY Zenon DEF OwnSeek
<1> HIDE DEF X, t
<1>4. OwnSeek(f) \in Seq(X)
  BY <1>2, <1>3
<1> QED
  BY <1>1, <1>4 DEF X

\* A callable that values name may be called.
LEMMA CallableTyped ==
    ASSUME TypeOK, NEW f \in callables
    PROVE  f \in Callables
BY DEF TypeOK

\* A stack without its top.
LEMMA Popped ==
    ASSUME FInv, stack # <<>>, stack' = Front(stack)
    PROVE  /\ Last(stack) \in Cells /\ stack' \in Seq(Cells)
           /\ OnStack(Last(stack))
           /\ \A c \in Cells : OnStack(c)' <=> OnStack(c) /\ c # Last(stack)
           /\ \A i, j \in 1 .. Len(stack') : stack'[i] = stack'[j] => i = j
<1> DEFINE n == Len(stack)
<1>1. stack \in Seq(Cells) /\ FramesOK
  BY DEF FInv, TypeOK
<1>2. n \in Nat \ {0} /\ Last(stack) = stack[n] /\ stack[n] \in Cells
  BY <1>1, FrontOf
<1>3. /\ stack' \in Seq(Cells) /\ Len(stack') = n - 1
      /\ \A i \in 1 .. n - 1 : stack'[i] = stack[i]
  BY <1>1, FrontOf
<1>4. \A i, j \in 1 .. n : stack[i] = stack[j] => i = j
  BY <1>1 DEF FramesOK
<1> HIDE DEF n
<1>5. OnStack(stack[n])
  BY <1>2 DEF OnStack, n
<1>6. \A i : i \in 1 .. n <=> i \in 1 .. n - 1 \/ i = n
  BY <1>2
<1>7. \A c \in Cells : OnStack(c)' <=> OnStack(c) /\ c # stack[n]
  <2> SUFFICES ASSUME NEW c \in Cells PROVE OnStack(c)' <=> OnStack(c) /\ c # stack[n]
    OBVIOUS
  <2>1. OnStack(c)' <=> \E i \in 1 .. n - 1 : stack[i] = c
    BY <1>3 DEF OnStack
  <2>2. OnStack(c) <=> \E i \in 1 .. n : stack[i] = c
    BY DEF OnStack, n
  <2>3. \A i \in 1 .. n - 1 : i # n /\ i \in 1 .. n
    BY <1>2
  <2>4. n \in 1 .. n
    BY <1>2
  <2> QED
    BY <1>4, <1>6, <2>1, <2>2, <2>3, <2>4
<1>8. \A i, j \in 1 .. n - 1 : stack'[i] = stack'[j] => i = j
  BY <1>3, <1>4, <1>6
<1> QED
  BY <1>2, <1>3, <1>5, <1>7, <1>8

\* Between births no cell is in one.
LEMMA AllDrained ==
    ASSUME FInv, Drained
    PROVE  /\ birth = None /\ HeldLevels = {} /\ \A c : ~InBirth(c)
           /\ \A c \in Cells : borrowed[c] # None <=> OnStack(c)
BY DEF FInv, FramesOK, Drained, InBirth

\* A birth that succeeds nothing is asked for between births.
LEMMA CallFInv ==
    ASSUME FInv, NEW f \in Callables, Drained, NEW at \in Ids \cup {Root},
           NEW tasks \in Seq(TasksOf(f)), Asked(f, None, at, tasks, FALSE, FALSE),
           UNCHANGED <<arena, callables, frame, stack>>
    PROVE  FInv'
<1>1. /\ birth' \in Creations /\ birth' # None /\ BirthOK'
      /\ birth'.from = None /\ birth'.cell = None
  BY AskedTyped
<1>2. ArenaTyped' /\ borrowed' = borrowed
  BY SameTyped DEF FInv
<1>3. TypeOK'
  BY <1>1, <1>2 DEF TypeOK, ArenaTyped, FInv
<1>4. \A c \in Cells : ~InBirth(c)'
  BY <1>1, Apart DEF InBirth
<1>5. \A c \in Cells : OnStack(c)' <=> OnStack(c)
  BY DEF OnStack
<1>6. FramesOK'
  BY <1>1, <1>2, <1>4, <1>5, AllDrained DEF FramesOK, FInv
<1> QED
  BY <1>1, <1>3, <1>6 DEF FInv

\* A tail call or a hop: the top of the stack is succeeded.
LEMMA SucceedFInv ==
    ASSUME FInv, NEW f \in Callables, Drained, stack # <<>>, NEW at \in Ids \cup {Root},
           NEW tasks \in Seq(TasksOf(f)), NEW level \in BOOLEAN, level => KeyOf(f) \in Keys,
           Asked(f, Last(stack), at, tasks, FALSE, level), stack' = Front(stack),
           ArenaTyped', borrowed' = borrowed, UNCHANGED <<callables, frame>>
    PROVE  FInv'
<1> DEFINE l == Last(stack)
<1>1. /\ l \in Cells /\ stack' \in Seq(Cells) /\ OnStack(l)
      /\ \A c \in Cells : OnStack(c)' <=> OnStack(c) /\ c # l
      /\ \A i, j \in 1 .. Len(stack') : stack'[i] = stack'[j] => i = j
  BY Popped
<1>2. Asked(f, l, at, tasks, FALSE, level)
  OBVIOUS
<1> HIDE DEF l
<1>9. /\ birth' \in Creations /\ birth' # None /\ BirthOK'
      /\ birth'.from = l /\ birth'.cell = None
  <2>1. l \in Cells \cup {None} /\ FALSE \in BOOLEAN
    BY <1>1
  <2> QED
    BY <1>2, <2>1, AskedTyped, ZenonT(30)
<1>3. TypeOK'
  BY <1>1, <1>9 DEF TypeOK, ArenaTyped, FInv
<1>4. \A c \in Cells : InBirth(c)' <=> c = l
  BY <1>9, Apart DEF InBirth
<1>5. \A c \in Cells : frame'[c] # None <=> OnStack(c)' \/ InBirth(c)'
  BY <1>1, <1>4, AllDrained DEF FramesOK, FInv
<1>6. \A c \in Cells : ~(OnStack(c)' /\ InBirth(c)')
  BY <1>1, <1>4
<1>7. birth'.from # birth'.cell
  BY <1>1, <1>9, Apart
<1>8. FramesOK'
  BY <1>1, <1>9, <1>5, <1>6, <1>7 DEF FramesOK, FInv
<1> QED
  BY <1>9, <1>3, <1>8 DEF FInv

\* A hop: the cell on top of the stack is succeeded, from under its own node.
LEMMA HopFInv ==
    ASSUME FInv, Hop
    PROVE  FInv'
<1> DEFINE l == Last(stack)
           f == frame[l].callable
           at == borrowed[l]
           level == frame[l].stamp # None
<1>1. /\ Drained /\ stack # <<>> /\ stack' = Front(stack) /\ UNCHANGED <<callables, frame>>
      /\ KeyOf(f) # None /\ Arena!Use(at) /\ Asked(f, l, at, <<>>, FALSE, level)
  BY DEF Hop
<1>2. l \in Cells /\ OnStack(l) /\ TypeOK
  BY <1>1, Popped DEF FInv
<1>3. frame[l] \in Frames /\ f \in Callables
  BY <1>1, <1>2 DEF FInv, FramesOK, TypeOK, Frames
<1>4. at \in Ids \cup {Root}
  BY <1>1, <1>2, LiveNodes DEF Arena!Use
<1>5. ArenaTyped' /\ borrowed' = borrowed
  BY <1>1, <1>2, UsedTyped
<1>6. KeyOf(f) \in Keys
  BY <1>1, <1>3, TaskKinds
<1>7. <<>> \in Seq(TasksOf(f)) /\ level \in BOOLEAN
  OBVIOUS
<1> HIDE DEF f, at, level
<1> QED
  BY <1>1, <1>3, <1>4, <1>5, <1>6, <1>7, SucceedFInv

\* A callable is born.
LEMMA BornFInv ==
    ASSUME FInv, NEW b \in Bodies, Born(b)
    PROVE  FInv'
<1> DEFINE l == Last(stack)
           f == frame[l].callable
           build == IF borrowed[l] # Root THEN borrowed[l] ELSE f.build
           levels == IF frame[l].stamp = None THEN <<>> ELSE frame[l].stamp
           new == Callable(b, build, f.base, levels)
<1>1. /\ Drained /\ stack # <<>> /\ callables' = callables \cup {new}
      /\ UNCHANGED <<arena, frame, stack, birth>> /\ b \in Nested[f.body]
  BY DEF Born
<1>2. TypeOK /\ FramesOK /\ l \in Cells /\ OnStack(l)
  <2>1. stack \in Seq(Cells)
    BY DEF FInv, TypeOK
  <2>2. Len(stack) \in 1 .. Len(stack) /\ l = stack[Len(stack)] /\ stack[Len(stack)] \in Cells
    BY <1>1, <2>1 DEF Last
  <2> QED
    BY <2>2 DEF OnStack, FInv
<1>3. frame[l] \in Frames /\ f \in Callables /\ borrowed[l] \in Ids \cup {Root}
  BY <1>2 DEF FramesOK, TypeOK, Frames
<1>4. new \in Callables /\ new.build # None
  <2>1. build \in Ids \cup {Root} /\ build # None
    BY <1>2, <1>3, Apart DEF FramesOK, IsCode, Callables
  <2>2. levels \in Seq(Keys) /\ f.base \in Digests \cup {None}
    BY <1>3 DEF Frames, Callables
  <2> HIDE DEF f, build, levels
  <2> QED
    BY <2>1, <2>2 DEF Callables, Callable
<1>5. ArenaTyped' /\ borrowed' = borrowed
  BY <1>1, <1>2, SameTyped
<1>8. TypeOK'
  <2> HIDE DEF new
  <2> QED
    BY <1>1, <1>2, <1>4, <1>5 DEF TypeOK, ArenaTyped
<1>6. BirthOK'
  BY <1>1 DEF BirthOK, FInv
<1>7. FramesOK'
  <2>1. \A c \in Cells : (OnStack(c)' <=> OnStack(c)) /\ (InBirth(c)' <=> InBirth(c))
    BY <1>1 DEF OnStack, InBirth
  <2>2. HeldLevels' = HeldLevels
    BY <1>5 DEF HeldLevels
  <2> QED
    BY <1>1, <1>2, <1>5, <2>1, <2>2 DEF FramesOK
<1> QED
  BY <1>6, <1>7, <1>8 DEF FInv

\* The innermost frame finishes.
LEMMA ReturnFInv ==
    ASSUME FInv, Return
    PROVE  FInv'
<1> DEFINE l == Last(stack)
<1>1. /\ Drained /\ stack # <<>> /\ stack' = Front(stack) /\ UNCHANGED <<callables, birth>>
      /\ Arena!Release(l) /\ frame' = [frame EXCEPT ![l] = None]
  BY DEF Return
<1>2. /\ l \in Cells /\ stack' \in Seq(Cells) /\ OnStack(l)
      /\ \A c \in Cells : OnStack(c)' <=> OnStack(c) /\ c # l
      /\ \A i, j \in 1 .. Len(stack') : stack'[i] = stack'[j] => i = j
  BY <1>1, Popped
<1> HIDE DEF l
<1>3. TypeOK /\ FramesOK /\ BirthOK
  BY DEF FInv
<1>4. ArenaTyped' /\ borrowed' = [borrowed EXCEPT ![l] = None]
  BY <1>1, <1>2, <1>3, ReleaseTyped
<1>5. TypeOK'
  BY <1>1, <1>2, <1>3, <1>4 DEF TypeOK, ArenaTyped
<1>6. BirthOK'
  BY <1>1, <1>3 DEF BirthOK
<1>7. /\ \A c \in Cells : /\ borrowed'[c] = IF c = l THEN None ELSE borrowed[c]
                          /\ frame'[c] = IF c = l THEN None ELSE frame[c]
                          /\ ~InBirth(c) /\ ~InBirth(c)'
      /\ HeldLevels' = HeldLevels /\ birth' = None
  <2>1. \A t \in Tokens : borrowed'[t] = borrowed[t]
    BY <1>2, <1>3, <1>4, Apart DEF TypeOK
  <2>2. HeldLevels' = HeldLevels
    BY <2>1 DEF HeldLevels
  <2> QED
    BY <1>1, <1>3, <1>4, <2>2, AllDrained DEF TypeOK, InBirth
<1>8. FramesOK'
  <2>1. \A c \in Cells : borrowed'[c] # None <=> frame'[c] # None
    BY <1>3, <1>7 DEF FramesOK
  <2>2. \A c \in Cells : frame'[c] # None <=> OnStack(c)' \/ InBirth(c)'
    BY <1>2, <1>3, <1>7 DEF FramesOK
  <2>3. \A c \in Cells : OnStack(c)' /\ IsCode(frame'[c].callable) => borrowed'[c] # Root
    BY <1>2, <1>3, <1>7 DEF FramesOK
  <2>4. HeldLevels' = {}
    BY <1>1, <1>7, AllDrained
  <2> QED
    BY <1>2, <1>7, <2>1, <2>2, <2>3, <2>4 DEF FramesOK
<1> QED
  BY <1>5, <1>6, <1>8 DEF FInv

-----------------------------------------------------------------------------
\* With the first step of a newborn the cell it succeeds is let go, and no cell else.
LEMMA FirstFacts ==
    ASSUME FInv, FirstStep
    PROVE  /\ TypeOK /\ FramesOK /\ BirthOK /\ birth # None /\ birth \in Creations
           /\ birth.callable \in Callables /\ birth.cell \in Cells
           /\ frame[birth.cell] \in Frames /\ borrowed[birth.cell] \in Ids \cup {Root}
           /\ frame[birth.cell].callable = birth.callable
           /\ ArenaTyped' /\ HeldLevels' = {}
           /\ \A c \in Cells : borrowed'[c] = IF c = birth.from THEN None ELSE borrowed[c]
           /\ Retired \in [Cells -> Frames \cup {None}]
           /\ \A c \in Cells : /\ OnStack(c) => c # birth.from /\ c # birth.cell
                               /\ Retired[c] # None <=> OnStack(c) \/ c = birth.cell
                               /\ c # birth.from => Retired[c] = frame[c]
           /\ birth.cell # birth.from
<1>1. /\ birth # None /\ birth.cell # None /\ HeldLevels = {} /\ TypeOK /\ FramesOK /\ BirthOK
      /\ IF birth.from = None THEN UNCHANGED arena ELSE Arena!Release(birth.from)
  BY DEF FirstStep, FInv
<1>2. /\ birth \in Creations /\ birth.callable \in Callables /\ birth.cell \in Cells
      /\ birth.from \in Cells \cup {None}
  BY <1>1, BirthTyped
<1>3. frame[birth.cell] # None /\ borrowed[birth.cell] # None
  BY <1>1, <1>2 DEF FramesOK, InBirth
<1>4. frame[birth.cell] \in Frames /\ borrowed[birth.cell] \in Ids \cup {Root}
  BY <1>1, <1>2, <1>3 DEF TypeOK
<1>5. frame[birth.cell].callable = birth.callable
  BY <1>1 DEF FramesOK
<1>6. /\ ArenaTyped'
      /\ \A c \in Cells : borrowed'[c] = IF c = birth.from THEN None ELSE borrowed[c]
      /\ \A t \in Tokens : borrowed'[t] = borrowed[t]
  <2>1. CASE birth.from = None
    BY <1>1, <2>1, SameTyped, Apart
  <2>2. CASE birth.from # None
    <3>1. birth.from \in Cells /\ birth.from \notin Tokens
      BY <1>2, <2>2, Apart
    <3>2. ArenaTyped' /\ borrowed' = [borrowed EXCEPT ![birth.from] = None]
      BY <1>1, <2>2, <3>1, ReleaseTyped
    <3> QED
      BY <1>1, <3>1, <3>2 DEF TypeOK
  <2> QED
    BY <2>1, <2>2
<1>7. HeldLevels' = {}
  BY <1>1, <1>6 DEF HeldLevels
<1>8. Retired \in [Cells -> Frames \cup {None}]
  BY <1>1 DEF Retired, TypeOK
<1>9. birth.cell # birth.from
  BY <1>1 DEF FramesOK
<1>10. \A c \in Cells : OnStack(c) => c # birth.from /\ c # birth.cell
  BY <1>1 DEF FramesOK, InBirth
<1>11. \A c \in Cells : frame[c] # None <=> OnStack(c) \/ c = birth.from \/ c = birth.cell
  BY <1>1 DEF FramesOK, InBirth
<1>12. \A c \in Cells : Retired[c] = IF c = birth.from THEN None ELSE frame[c]
  BY DEF Retired
<1>13. \A c \in Cells : /\ Retired[c] # None <=> OnStack(c) \/ c = birth.cell
                        /\ c # birth.from => Retired[c] = frame[c]
  BY <1>9, <1>10, <1>11, <1>12
<1> QED
  BY <1>1, <1>2, <1>4, <1>5, <1>6, <1>7, <1>8, <1>9, <1>10, <1>13

\* A first step that hands the work to a successor: the newborn is what is succeeded.
LEMMA SuccessorFInv ==
    ASSUME FInv, FirstStep, NEW at \in Ids \cup {Root}, NEW tasks \in Seq(TasksOf(birth.callable)),
           NEW replays \in BOOLEAN,
           Asked(birth.callable, birth.cell, at, tasks, replays, birth.level),
           frame' = Retired, UNCHANGED <<callables, stack>>
    PROVE  FInv'
<1> DEFINE f == birth.callable
           n == birth.cell
           level == birth.level
<1>0. FramesOK /\ TypeOK /\ birth # None
  BY FirstFacts
<1>1. f \in Callables /\ n \in Cells \cup {None} /\ level \in BOOLEAN /\ (level => KeyOf(f) \in Keys)
  BY <1>0, BirthTyped
<1>2. Asked(f, n, at, tasks, replays, level) /\ tasks \in Seq(TasksOf(f))
  OBVIOUS
<1>3. n \in Cells /\ n # None
  BY FirstFacts, Apart
<1> HIDE DEF f, n, level
<1>4. /\ birth' \in Creations /\ birth' # None /\ BirthOK'
      /\ birth'.from = n /\ birth'.cell = None
  BY <1>1, <1>2, AskedTyped, ZenonT(30)
<1>5. TypeOK'
  BY <1>0, <1>4, FirstFacts DEF TypeOK, ArenaTyped
<1>6. \A c \in Cells : /\ InBirth(c)' <=> c = n
                       /\ OnStack(c)' <=> OnStack(c)
  BY <1>4, Apart DEF InBirth, OnStack
<1>7. \A c \in Cells : /\ OnStack(c) => c # birth.from /\ c # n
                       /\ frame'[c] # None <=> OnStack(c) \/ c = n
                       /\ c # birth.from => frame'[c] = frame[c]
                       /\ borrowed'[c] = IF c = birth.from THEN None ELSE borrowed[c]
  BY FirstFacts DEF n
<1>8. \A c \in Cells : c = birth.from => frame'[c] = None
  BY FirstFacts DEF Retired
<1>9. FramesOK'
  <2>1. \A c \in Cells : borrowed'[c] # None <=> frame'[c] # None
    BY <1>0, <1>7, <1>8 DEF FramesOK
  <2>2. \A c \in Cells : frame'[c] # None <=> OnStack(c)' \/ InBirth(c)'
    BY <1>6, <1>7
  <2>3. \A c \in Cells : ~(OnStack(c)' /\ InBirth(c)')
    BY <1>6, <1>7
  <2>4. \A c \in Cells : OnStack(c)' /\ IsCode(frame'[c].callable) => borrowed'[c] # Root
    BY <1>0, <1>6, <1>7 DEF FramesOK
  <2>5. \A i, j \in 1 .. Len(stack') : stack'[i] = stack'[j] => i = j
    BY <1>0 DEF FramesOK
  <2> QED
    BY <1>3, <1>4, <2>1, <2>2, <2>3, <2>4, <2>5 DEF FramesOK
<1> QED
  BY <1>4, <1>5, <1>9 DEF FInv

\* The newborn that wants a composition is succeeded, and its predecessor retired.
LEMMA RebuildFInv ==
    ASSUME FInv, Rebuild
    PROVE  FInv'
<1> DEFINE f == birth.callable
           X == TasksOf(f)
           t == Composed(birth.wanting, TRUE, FALSE)
           at == SeekFrom(f)
           tasks == <<t>> \o OwnSeek(f)
<1>1. /\ FirstStep /\ birth # None /\ birth.wanting # None /\ frame' = Retired
      /\ UNCHANGED <<callables, stack>> /\ TypeOK
      /\ Asked(f, birth.cell, at, tasks, FALSE, birth.level)
  BY DEF Rebuild, FirstStep, FInv
<1>2. f \in Callables /\ birth.wanting \in Digests
  BY <1>1, BirthTyped
<1>3. at \in Ids \cup {Root} /\ OwnSeek(f) \in Seq(X)
  BY <1>1, <1>2, SeekTyped
<1>4. t \in X
  BY <1>2, TaskKinds, Zenon
<1>5. tasks \in Seq(X)
  <2> HIDE DEF t, X
  <2> QED
    BY <1>3, <1>4
<1>6. FALSE \in BOOLEAN
  OBVIOUS
<1>7. at \in Ids \cup {Root} /\ tasks \in Seq(TasksOf(birth.callable))
  BY <1>3, <1>5
<1>8. Asked(birth.callable, birth.cell, at, tasks, FALSE, birth.level)
  BY <1>1
<1> HIDE DEF f, X, t, at, tasks
<1> QED
  BY <1>1, <1>6, <1>7, <1>8, SuccessorFInv, ZenonT(30)

\* So is one that is not on its code's composition,
LEMMA BounceFInv ==
    ASSUME FInv, Bounce
    PROVE  FInv'
<1> DEFINE f == birth.callable
           X == TasksOf(f)
           t == Composed(f.base, TRUE, TRUE)
           tasks == <<t>>
<1>1. /\ FirstStep /\ birth # None /\ OffBase /\ frame' = Retired
      /\ UNCHANGED <<callables, stack>>
      /\ Asked(f, birth.cell, Root, tasks, FALSE, birth.level)
  BY DEF Bounce, FirstStep
<1>2. f \in Callables /\ f.base # None
  BY <1>1, BirthTyped DEF OffBase
<1>3. t \in X
  BY <1>2, TaskKinds, Zenon
<1>4. tasks \in Seq(X)
  <2> HIDE DEF t, X
  <2> QED
    BY <1>3
<1>5. FALSE \in BOOLEAN /\ Root \in Ids \cup {Root}
  OBVIOUS
<1>6. tasks \in Seq(TasksOf(birth.callable))
  BY <1>4
<1>7. Asked(birth.callable, birth.cell, Root, tasks, FALSE, birth.level)
  BY <1>1
<1> HIDE DEF f, X, t, tasks
<1> QED
  BY <1>1, <1>5, <1>6, <1>7, SuccessorFInv, ZenonT(30)

\* and one whose callee's node is gone.
LEMMA ReplayFInv ==
    ASSUME FInv, Replay
    PROVE  FInv'
<1> DEFINE at == borrowed[birth.cell]
           tasks == ReplayTasks(birth.callable)
<1>1. /\ FirstStep /\ frame' = Retired /\ UNCHANGED <<callables, stack>>
      /\ Asked(birth.callable, birth.cell, at, tasks, TRUE, birth.level)
  BY DEF Replay
<1>2. birth.callable \in Callables /\ at \in Ids \cup {Root}
  BY <1>1, FirstFacts
<1>3. tasks \in Seq(TasksOf(birth.callable)) /\ TRUE \in BOOLEAN
  BY <1>2, ReplayTyped
<1> HIDE DEF at, tasks
<1> QED
  BY <1>1, <1>2, <1>3, SuccessorFInv, ZenonT(30)

\* A cell pushed on the stack.
LEMMA Pushed ==
    ASSUME FInv, NEW n \in Cells, stack' = Append(stack, n), ~OnStack(n)
    PROVE  /\ stack' \in Seq(Cells)
           /\ \A c \in Cells : OnStack(c)' <=> OnStack(c) \/ c = n
           /\ \A i, j \in 1 .. Len(stack') : stack'[i] = stack'[j] => i = j
<1> DEFINE k == Len(stack)
<1>1. stack \in Seq(Cells) /\ \A i, j \in 1 .. k : stack[i] = stack[j] => i = j
  BY DEF FInv, TypeOK, FramesOK
<1>2. /\ stack' \in Seq(Cells) /\ k \in Nat /\ Len(stack') = k + 1 /\ stack'[k + 1] = n
      /\ \A i \in 1 .. k : stack'[i] = stack[i]
  BY <1>1
<1>3. \A c : (OnStack(c) <=> \E i \in 1 .. k : stack[i] = c)
             /\ (OnStack(c)' <=> \E i \in 1 .. k + 1 : stack'[i] = c)
  BY <1>2 DEF OnStack
<1> HIDE DEF k
<1>4. \A i : i \in 1 .. k + 1 <=> i \in 1 .. k \/ i = k + 1
  BY <1>2
<1>5. \A i \in 1 .. k : stack[i] # n
  BY <1>3
<1>6. \A c \in Cells : OnStack(c)' <=> OnStack(c) \/ c = n
  BY <1>2, <1>3, <1>4
<1>7. \A i, j \in 1 .. k + 1 : stack'[i] = stack'[j] => i = j
  BY <1>1, <1>2, <1>4, <1>5
<1> QED
  BY <1>2, <1>6, <1>7

\* The newborn runs: it goes on the stack, its predecessor is retired.
LEMMA RunFInv ==
    ASSUME FInv, Run
    PROVE  FInv'
<1> DEFINE n == birth.cell
           f == birth.callable
<1>1. /\ FirstStep /\ ~OffBase /\ frame' = [Retired EXCEPT ![n].stamp = Stamp]
      /\ stack' = Append(stack, n) /\ birth' = None /\ callables' = callables
  BY DEF Run
<1>2. /\ TypeOK /\ FramesOK /\ birth # None /\ f \in Callables /\ n \in Cells
      /\ frame[n] \in Frames /\ frame[n].callable = f /\ n # birth.from
      /\ ArenaTyped' /\ HeldLevels' = {} /\ borrowed[n] \in Ids \cup {Root}
      /\ Retired \in [Cells -> Frames \cup {None}] /\ Retired[n] = frame[n] /\ ~OnStack(n)
  BY <1>1, FirstFacts
<1>3. \A c \in Cells : /\ OnStack(c) => c # birth.from /\ c # n
                       /\ Retired[c] # None <=> OnStack(c) \/ c = n
                       /\ c # birth.from => Retired[c] = frame[c]
                       /\ borrowed'[c] = IF c = birth.from THEN None ELSE borrowed[c]
  BY <1>1, FirstFacts
<1>4. Stamp \in Seq(Keys) \cup {None}
  <2>1. f.levels \in Seq(Keys) /\ (birth.handed \/ birth.level => KeyOf(f) \in Keys)
    BY <1>2, BirthTyped DEF Callables
  <2> QED
    BY <2>1 DEF Stamp
<1>5. [frame[n] EXCEPT !.stamp = Stamp] \in Frames
  BY <1>2, <1>4 DEF Frames
<1>6. /\ frame' \in [Cells -> Frames \cup {None}]
      /\ frame'[n] = [frame[n] EXCEPT !.stamp = Stamp]
      /\ \A c \in Cells : c # n => frame'[c] = Retired[c]
  <2> HIDE DEF n
  <2> QED
    BY <1>1, <1>2, <1>5
<1>7. frame'[n] # None /\ frame'[n].callable = f
  BY <1>2, <1>5, <1>6, Apart DEF Frames
<1>8. IsCode(f) => borrowed'[n] # Root
  <2>1. borrowed'[n] = borrowed[n]
    BY <1>2, <1>3
  <2>2. ASSUME IsCode(f) PROVE borrowed[n] # Root
    <3>1. f.base # None
      BY <1>2, <2>2 DEF IsCode, Callables
    <3> QED
      BY <1>1, <3>1 DEF OffBase, Arena!BaseOf
  <2> QED
    BY <2>1, <2>2
<1> HIDE DEF n, f
<1>9. /\ stack' \in Seq(Cells)
      /\ \A c \in Cells : OnStack(c)' <=> OnStack(c) \/ c = n
      /\ \A i, j \in 1 .. Len(stack') : stack'[i] = stack'[j] => i = j
  BY <1>1, <1>2, Pushed
<1>10. TypeOK'
  BY <1>1, <1>2, <1>6, <1>9 DEF TypeOK, ArenaTyped
<1>11. BirthOK'
  BY <1>1 DEF BirthOK
<1>12. \A c : ~InBirth(c)'
  BY <1>1 DEF InBirth
<1>13. \A c \in Cells : frame'[c] # None <=> OnStack(c) \/ c = n
  BY <1>3, <1>6, <1>7
<1>14. FramesOK'
  <2>1. \A c \in Cells : borrowed'[c] # None <=> frame'[c] # None
    <3>1. \A c \in Cells : borrowed'[c] # None <=> c # birth.from /\ frame[c] # None
      BY <1>2, <1>3 DEF FramesOK
    <3>2. \A c \in Cells : frame[c] # None <=> OnStack(c) \/ c = birth.from \/ c = n
      BY <1>2 DEF FramesOK, InBirth, n
    <3> QED
      BY <1>2, <1>3, <1>13, <3>1, <3>2
  <2>2. \A c \in Cells : OnStack(c)' /\ IsCode(frame'[c].callable) => borrowed'[c] # Root
    <3> SUFFICES ASSUME NEW c \in Cells, OnStack(c)', IsCode(frame'[c].callable)
                 PROVE  borrowed'[c] # Root
      OBVIOUS
    <3>1. CASE c = n
      BY <1>7, <1>8, <3>1
    <3>2. CASE c # n
      <4>1. OnStack(c) /\ c # birth.from /\ frame'[c] = frame[c] /\ borrowed'[c] = borrowed[c]
        BY <1>3, <1>6, <1>9, <3>2
      <4> QED
        BY <1>2, <4>1 DEF FramesOK
    <3> QED
      BY <3>1, <3>2
  <2> QED
    BY <1>1, <1>2, <1>9, <1>12, <1>13, <2>1, <2>2 DEF FramesOK
<1> QED
  BY <1>10, <1>11, <1>14 DEF FInv

-----------------------------------------------------------------------------
\* Nothing runs before the program does.
LEMMA InitFInv == Init => FInv
<1> SUFFICES ASSUME Init PROVE FInv
  OBVIOUS
<1>1. /\ node = [i \in Ids |-> None] /\ older = {}
      /\ borrowed = [o \in Cells \cup Tokens |-> None]
      /\ callables = {Callable(b, Root, None, <<>>) : b \in Top}
      /\ frame = [c \in Cells |-> None] /\ stack = <<>> /\ birth = None
  BY DEF Init, Arena!Init
<1>2. \A b \in Top : /\ Callable(b, Root, None, <<>>) \in Callables
                     /\ Callable(b, Root, None, <<>>).build # None
  BY SeekAssumption DEF Callable, Callables
<1>3. TypeOK
  BY <1>1, <1>2 DEF TypeOK
<1>4. BirthOK
  BY <1>1 DEF BirthOK
<1>5. /\ \A c : ~OnStack(c) /\ ~InBirth(c)
      /\ HeldLevels = {}
  BY <1>1 DEF OnStack, InBirth, HeldLevels
<1>6. FramesOK
  BY <1>1, <1>5 DEF FramesOK
<1> QED
  BY <1>3, <1>4, <1>6 DEF FInv

\* What a program asks for between births keeps the cells where they are.
LEMMA ProgramFInv ==
    ASSUME FInv, Program
    PROVE  FInv'
<1>1. TypeOK
  BY DEF FInv
<1>2. CASE \E f \in callables : Call(f)
  <2>1. PICK f \in callables : Call(f)
    BY <1>2
  <2>2. f \in Callables /\ SeekFrom(f) \in Ids \cup {Root} /\ OwnSeek(f) \in Seq(TasksOf(f))
    BY <1>1, CallableTyped, SeekTyped
  <2> QED
    BY <2>1, <2>2, CallFInv DEF Call, MayCall
<1>3. CASE \E f \in callables : TailCall(f)
  <2>1. PICK f \in callables : TailCall(f)
    BY <1>3
  <2>2. f \in Callables /\ SeekFrom(f) \in Ids \cup {Root} /\ OwnSeek(f) \in Seq(TasksOf(f))
    BY <1>1, CallableTyped, SeekTyped
  <2>3. ArenaTyped' /\ borrowed' = borrowed
    BY <1>1, <2>1, SameTyped DEF TailCall
  <2>4. /\ Drained /\ stack # <<>> /\ stack' = Front(stack) /\ UNCHANGED <<callables, frame>>
        /\ Asked(f, Last(stack), SeekFrom(f), OwnSeek(f), FALSE, FALSE) /\ FALSE \in BOOLEAN
    BY <2>1 DEF TailCall
  <2> QED
    BY <2>2, <2>3, <2>4, SucceedFInv, ZenonT(30)
<1>4. CASE \E d \in DOMAIN Code : Eval(d)
  <2>1. PICK d \in DOMAIN Code : Eval(d)
    BY <1>4
  <2> DEFINE f == Callable(Code[d], None, d, <<>>)
             t == Composed(d, FALSE, TRUE)
             X == TasksOf(f)
             tasks == <<t>>
  <2>2. d \in Digests /\ d # None
    BY SeekAssumption, Apart
  <2>3. f \in Callables
    BY <2>2, SeekAssumption DEF Callable, Callables
  <2>4. t \in X
    <3> HIDE DEF f
    <3> QED
      BY <2>2, <2>3, TaskKinds, Zenon
  <2>5. tasks \in Seq(X)
    <3> HIDE DEF t, X
    <3> QED
      BY <2>4
  <2>6. /\ Drained /\ UNCHANGED <<arena, callables, frame, stack>> /\ Root \in Ids \cup {Root}
        /\ Asked(f, None, Root, tasks, FALSE, FALSE) /\ tasks \in Seq(TasksOf(f))
    BY <2>1, <2>5 DEF Eval, MayCall
  <2> HIDE DEF f, t, X, tasks
  <2> QED
    BY <2>3, <2>6, CallFInv
<1>5. CASE Hop
  BY <1>5, HopFInv
<1>6. CASE \E b \in Bodies : Born(b)
  BY <1>6, BornFInv
<1>7. CASE Return
  BY <1>7, ReturnFInv
<1> QED
  BY <1>2, <1>3, <1>4, <1>5, <1>6, <1>7 DEF Program

\* A step that changes nothing.
LEMMA StutterFInv ==
    ASSUME FInv, UNCHANGED vars
    PROVE  FInv'
<1>1. UNCHANGED <<node, older, borrowed, callables, frame, stack, birth>>
  BY DEF vars
<1>2. TypeOK'
  BY <1>1 DEF FInv, TypeOK
<1>3. BirthOK'
  BY <1>1 DEF FInv, BirthOK
<1>4. FramesOK'
  BY <1>1 DEF FInv, FramesOK, OnStack, InBirth, HeldLevels
<1> QED
  BY <1>2, <1>3, <1>4 DEF FInv

\* Every step keeps the frames, the borrows and the birth in progress in their places.
LEMMA NextFInv == FInv /\ [Next]_vars => FInv'
<1> SUFFICES ASSUME FInv, [Next]_vars PROVE FInv'
  OBVIOUS
<1>1. CASE Program
  BY <1>1, ProgramFInv
<1>2. CASE Create
  BY <1>2, ComposeFInv, SeekNothingFInv, SeekHitFInv, SeekSettlesFInv, HoldLevelFInv, PlaceFInv,
     ReleaseLevelFInv, EvictToBudgetFInv DEF Create
<1>3. CASE First
  BY <1>3, RebuildFInv, BounceFInv, ReplayFInv, RunFInv DEF First
<1>4. CASE UNCHANGED vars
  BY <1>4, StutterFInv
<1> QED
  BY <1>1, <1>2, <1>3, <1>4 DEF Next

\* So they are in every state reached.
LEMMA Framed == Spec => []FInv
BY InitFInv, NextFInv, PTL DEF Spec

\* Every seek, replay and composition keeps to what the arena, the frames and a birth are.
THEOREM TypeCorrect == Spec => []TypeOK
<1>1. FInv => TypeOK
  BY DEF FInv
<1> QED
  BY <1>1, Framed, PTL

\* Between births what is borrowed is what the frames on the stack run under: however long the chain
\* of successors a birth took, no cell of it and no level of a replay is left holding a node.
THEOREM BorrowsKept == Spec => []BorrowsAreFrames
<1>1. FInv => BorrowsAreFrames
  <2> SUFFICES ASSUME FInv, Drained
               PROVE  /\ HeldLevels = {}
                      /\ \A c \in Cells : /\ borrowed[c] # None <=> frame[c] # None
                                          /\ frame[c] # None <=> c \in Range(stack)
    BY DEF BorrowsAreFrames
  <2>1. \A c : c \in Range(stack) <=> OnStack(c)
    <3>1. stack \in Seq(Cells)
      BY DEF FInv, TypeOK
    <3>2. DOMAIN stack = 1 .. Len(stack)
      BY <3>1
    <3> QED
      BY <3>2 DEF Range, OnStack
  <2> QED
    BY <2>1, AllDrained DEF FInv, FramesOK
<1> QED
  BY <1>1, Framed, PTL

-----------------------------------------------------------------------------
\* The chain of a node: the least set with it and the node above each.
Chain(i) ==
    {x \in Arena!LiveIds :
       \A S \in SUBSET Arena!LiveIds :
         i \in S \cup {Root} /\ (\A y \in S : node[y].parent \in S \cup {Root}) => x \in S}

\* The arena is a forest under the root: a settlement has the base of the node it lies under, a
\* composition is its own.
Forest ==
    /\ \A i \in Arena!LiveIds :
         /\ node[i].parent \in Arena!LiveIds \cup {Root}
         /\ node[i].name \in Digests => node[i].parent = Root /\ node[i].base = node[i].name
         /\ node[i].name \in Keys => node[i].base = Arena!BaseOf(node[i].parent)
    /\ \A S \in SUBSET Arena!LiveIds : S # {} => \E i \in S : node[i].parent \notin S

\* A module is pinned along a chain, and is there.
Pinned(i, d) ==
    \E j \in Chain(i), p \in Arena!LiveIds : p \in node[j].pins /\ node[p].name = d

\* ModulesPinned, of chains.
PinsHold ==
    \A i \in Arena!LiveIds : node[i].name \in Keys /\ node[i].base # None =>
      \A d \in Binds[node[i].name] \ {node[i].base} : Pinned(i, d)

PInv == Forest /\ PinsHold

\* The nodes above a node are its chain, and it.
LEMMA ChainFacts ==
    ASSUME TypeOK, Forest
    PROVE  /\ \A i : Chain(i) \subseteq Arena!LiveIds
           /\ \A i \in Arena!LiveIds :
                /\ i \in Chain(i) /\ node[i].parent \in Arena!LiveIds \cup {Root}
                /\ Chain(i) = {i} \cup Chain(node[i].parent)
           /\ Chain(Root) = {}
           /\ \A i \in Arena!LiveIds : \A x \in Chain(i) : Chain(x) \subseteq Chain(i)
<1> DEFINE L == Arena!LiveIds
           Closed(S) == \A y \in S : node[y].parent \in S \cup {Root}
<1>1. \A i : Chain(i) \subseteq L
  BY DEF Chain
<1>2. \A i \in L : node[i].parent \in L \cup {Root} /\ i # Root
  BY LiveNodes DEF Forest
<1>3. \A i : \A x \in Chain(i), S \in SUBSET L : i \in S \cup {Root} /\ Closed(S) => x \in S
  BY DEF Chain
<1>4. \A i : \A x \in L : (\A S \in SUBSET L : i \in S \cup {Root} /\ Closed(S) => x \in S)
                          => x \in Chain(i)
  BY DEF Chain
<1> HIDE DEF L
<1>5. \A i \in L : i \in Chain(i)
  BY <1>2, <1>4
<1>6. \A i : Closed(Chain(i))
  <2> SUFFICES ASSUME NEW i, NEW y \in Chain(i), node[y].parent # Root
               PROVE  node[y].parent \in Chain(i)
    OBVIOUS
  <2>1. y \in L /\ node[y].parent \in L
    BY <1>1, <1>2
  <2>2. ASSUME NEW S \in SUBSET L, i \in S \cup {Root}, Closed(S) PROVE node[y].parent \in S
    BY <1>3, <2>2
  <2> QED
    BY <1>4, <2>1, <2>2
<1>7. Chain(Root) = {}
  <2> DEFINE E == {}
  <2>1. E \in SUBSET L /\ Root \in E \cup {Root} /\ Closed(E)
    OBVIOUS
  <2> HIDE DEF E, Closed
  <2>2. \A x \in Chain(Root) : x \in E
    BY <1>3, <2>1
  <2> QED
    BY <2>2 DEF E
<1>8. ASSUME NEW i \in L PROVE Chain(i) = {i} \cup Chain(node[i].parent)
  <2> DEFINE P == node[i].parent
             T == {i} \cup Chain(P)
  <2>1. T \in SUBSET L /\ i \in T
    BY <1>1
  <2>2. P = Root \/ P \in Chain(P)
    BY <1>2, <1>5
  <2>3. Closed(T)
    BY <1>6, <2>2
  <2>4. Chain(i) \subseteq T
    <3> HIDE DEF T, Closed
    <3> QED
      BY <1>3, <2>1, <2>3
  <2>5. ASSUME NEW x \in Chain(P) PROVE x \in Chain(i)
    <3>1. i \in Chain(i) /\ Closed(Chain(i)) /\ Chain(i) \in SUBSET L
      BY <1>1, <1>5, <1>6
    <3>2. P \in Chain(i) \cup {Root}
      BY <3>1
    <3> QED
      BY <1>3, <3>1, <3>2
  <2> QED
    BY <1>5, <2>4, <2>5
<1>9. ASSUME NEW i \in L, NEW x \in Chain(i) PROVE Chain(x) \subseteq Chain(i)
  <2>1. Closed(Chain(i)) /\ Chain(i) \in SUBSET L /\ x \in Chain(i) \cup {Root}
    BY <1>1, <1>6
  <2> QED
    BY <1>3, <2>1
<1> QED
  BY <1>1, <1>2, <1>5, <1>7, <1>8, <1>9 DEF L

\* A chain rests on one base.
LEMMA ChainBase ==
    ASSUME TypeOK, Forest, NEW i \in Arena!LiveIds, NEW x \in Chain(i)
    PROVE  node[x].base = node[i].base
<1> DEFINE L == Arena!LiveIds
           S == {y \in L : node[y].base = node[i].base}
<1>1. ASSUME NEW y \in S PROVE node[y].parent \in S \cup {Root}
  <2>1. y \in L /\ node[y] \in Nodes /\ node[y].parent \in L \cup {Root}
    BY LiveNodes DEF Forest
  <2>2. CASE node[y].name \in Digests
    BY <2>1, <2>2 DEF Forest
  <2>3. CASE node[y].name \in Keys
    <3>1. node[y].base = Arena!BaseOf(node[y].parent)
      BY <2>1, <2>3 DEF Forest
    <3> QED
      BY <2>1, <3>1 DEF Arena!BaseOf
  <2> QED
    BY <2>1, <2>2, <2>3 DEF Nodes
<1>2. S \in SUBSET L /\ i \in S \cup {Root}
  OBVIOUS
<1>3. x \in S
  BY <1>1, <1>2 DEF Chain
<1> QED
  BY <1>3

\* The names of the layers of a node are those of its chain.
LEMMA LayersChain ==
    ASSUME TypeOK, Forest, NEW i \in Arena!LiveIds
    PROVE  Layers(i) \subseteq {node[x].name : x \in Chain(i)}
<1> DEFINE L == Arena!LiveIds
           N(j) == {node[x].name : x \in Chain(j)}
           g == CHOOSE h : h = [j \in L \cup {Root} |->
                                  IF j = Root THEN {} ELSE {node[j].name} \cup h[node[j].parent]]
           w == [j \in L \cup {Root} |-> N(j)]
<1>1. Layers(i) = g[i]
  BY DEF Layers
<1>2. \A j \in L : /\ node[j].parent \in L \cup {Root} /\ j # Root
                   /\ Chain(j) = {j} \cup Chain(node[j].parent)
  BY ChainFacts, LiveNodes
<1>3. N(Root) = {}
  BY ChainFacts
<1>4. \A j \in L : N(j) = {node[j].name} \cup N(node[j].parent)
  BY <1>2
<1> HIDE DEF L, N
<1>5. \A j \in L \cup {Root} : w[j] = N(j)
  OBVIOUS
<1>6. w = [j \in L \cup {Root} |-> IF j = Root THEN {} ELSE {node[j].name} \cup w[node[j].parent]]
  BY <1>2, <1>3, <1>4, <1>5
<1> HIDE DEF w
<1>7. g = [j \in L \cup {Root} |-> IF j = Root THEN {} ELSE {node[j].name} \cup g[node[j].parent]]
  BY <1>6
<1> HIDE DEF g
<1> DEFINE Bad == {j \in L : ~(g[j] \subseteq N(j))}
<1>8. ASSUME Bad # {} PROVE FALSE
  <2>1. PICK j \in Bad : node[j].parent \notin Bad
    <3>1. Bad \in SUBSET L
      OBVIOUS
    <3> QED
      BY <1>8, <3>1 DEF Forest, L
  <2>2. j \in L /\ node[j].parent \in L \cup {Root}
    BY <1>2
  <2>3. g[node[j].parent] \subseteq N(node[j].parent)
    BY <1>7, <2>1, <2>2
  <2>4. g[j] = {node[j].name} \cup g[node[j].parent]
    BY <1>2, <1>7, <2>2
  <2>5. g[j] \subseteq N(j)
    BY <1>4, <2>2, <2>3, <2>4
  <2> QED
    BY <2>5
<1>9. i \in L
  BY DEF L
<1> QED
  BY <1>1, <1>8, <1>9 DEF N

\* Every node of a chain is among those above its end.
LEMMA AboveChain ==
    ASSUME TypeOK, Forest, NEW i \in Arena!LiveIds, NEW g,
           g = CHOOSE h : h = [j \in Arena!LiveIds \cup {Root} |->
                                 IF j = Root THEN {} ELSE {j} \cup h[node[j].parent]]
    PROVE  Chain(i) \subseteq g[i]
<1> DEFINE L == Arena!LiveIds
           w == [j \in L \cup {Root} |-> Chain(j)]
<1>1. /\ \A j \in L : /\ node[j].parent \in L \cup {Root} /\ j # Root /\ j \in Chain(j)
                      /\ Chain(j) = {j} \cup Chain(node[j].parent)
      /\ Chain(Root) = {} /\ \A j : Chain(j) \subseteq L
  BY ChainFacts, LiveNodes
<1>2. \A x \in Chain(i), S \in SUBSET L :
        i \in S /\ (\A y \in S : node[y].parent \in S \cup {Root}) => x \in S
  BY DEF Chain
<1>3. i \in L
  OBVIOUS
<1>4. g = CHOOSE h : h = [j \in L \cup {Root} |->
                            IF j = Root THEN {} ELSE {j} \cup h[node[j].parent]]
  OBVIOUS
<1> HIDE DEF L
<1>5. \A j \in L \cup {Root} : w[j] = Chain(j)
  OBVIOUS
<1>6. w = [j \in L \cup {Root} |-> IF j = Root THEN {} ELSE {j} \cup w[node[j].parent]]
  BY <1>1, <1>5
<1> HIDE DEF w
<1>7. g = [j \in L \cup {Root} |-> IF j = Root THEN {} ELSE {j} \cup g[node[j].parent]]
  BY <1>4, <1>6
<1>8. \A j \in L : g[j] = {j} \cup g[node[j].parent]
  BY <1>1, <1>7
<1> DEFINE S == {y \in L : g[y] \subseteq g[i]}
<1>9. ASSUME NEW y \in S PROVE node[y].parent \in S \cup {Root}
  <2> DEFINE p == node[y].parent
  <2>1. y \in L /\ p \in L \cup {Root} /\ g[y] = {y} \cup g[p]
    BY <1>1, <1>8
  <2>2. g[p] \subseteq g[i]
    BY <2>1
  <2> HIDE DEF p
  <2>3. p \in S \cup {Root}
    BY <2>1, <2>2
  <2> QED
    BY <2>3 DEF p
<1>10. S \in SUBSET L /\ i \in S
  BY <1>3
<1>11. \A x \in Chain(i) : x \in S
  BY <1>2, <1>9, <1>10
<1>12. \A x \in S : x \in g[i]
  BY <1>8
<1> QED
  BY <1>11, <1>12

\* What a key's binds need is pinned: by what is read along the chain.
LEMMA PinnedAbove ==
    ASSUME TypeOK, PInv
    PROVE  ModulesPinned
<1> SUFFICES ASSUME NEW i \in Arena!LiveIds, NEW g,
                    g = CHOOSE h : h = [j \in Arena!LiveIds \cup {Root} |->
                                 IF j = Root THEN {} ELSE {j} \cup h[node[j].parent]],
                    node[i].name \in Keys, node[i].base # None,
                    NEW d \in Binds[node[i].name] \ {node[i].base}
             PROVE  \E j \in g[i], p \in Arena!LiveIds : p \in node[j].pins /\ node[p].name = d
  BY DEF ModulesPinned
<1>1. Pinned(i, d)
  BY DEF PInv, PinsHold
<1>2. Chain(i) \subseteq g[i]
  BY AboveChain DEF PInv
<1> QED
  BY <1>1, <1>2 DEF Pinned

-----------------------------------------------------------------------------
\* A node laid adds to no chain but its own, which is that of the node it lies under, and it.
LEMMA LaidChains ==
    ASSUME TypeOK, Forest, NEW i \in Ids, node[i] = None, NEW n \in Nodes,
           node' = [node EXCEPT ![i] = n], n.parent \in Arena!LiveIds \cup {Root}
    PROVE  /\ Arena!LiveIds' = Arena!LiveIds \cup {i} /\ i \notin Arena!LiveIds
           /\ node'[i] = n /\ \A j \in Arena!LiveIds : node'[j] = node[j]
           /\ \A j \in Arena!LiveIds : Chain(j) \subseteq Chain(j)'
           /\ i \in Chain(i)' /\ Chain(n.parent) \subseteq Chain(i)'
<1> DEFINE L == Arena!LiveIds
           Closed(S) == \A y \in S : node'[y].parent \in S \cup {Root}
<1>1. i \notin L /\ node'[i] = n /\ n # None /\ \A j \in Ids : j # i => node'[j] = node[j]
  BY Apart DEF TypeOK, Arena!LiveIds
<1>2. L' = L \cup {i}
  BY <1>1 DEF Arena!LiveIds
<1>3. \A j \in L : j \in Ids /\ node'[j] = node[j]
  BY <1>1, LiveNodes
<1>4. \A j \in L : node[j].parent \in L \cup {Root}
  BY DEF Forest
<1>5. \A j : \A x \in L : (\A S \in SUBSET L' : j \in S \cup {Root} /\ Closed(S) => x \in S)
                          => x \in Chain(j)'
  BY <1>2 DEF Chain
<1>6. \A j : \A x \in Chain(j), T \in SUBSET L :
        j \in T \cup {Root} /\ (\A y \in T : node[y].parent \in T \cup {Root}) => x \in T
  BY DEF Chain
<1>7. i \in Chain(i)'
  <2>1. i # Root /\ i \in L'
    BY <1>2, Apart
  <2> QED
    BY <2>1 DEF Chain
<1> HIDE DEF L
<1>8. ASSUME NEW j \in L \cup {Root}, NEW x \in Chain(j), NEW S \in SUBSET L',
             j \in S \cup {Root}, Closed(S)
      PROVE  x \in S
  <2> DEFINE T == S \cap L
  <2>1. T \in SUBSET L /\ j \in T \cup {Root}
    BY <1>8
  <2>2. ASSUME NEW y \in T PROVE node[y].parent \in T \cup {Root}
    <3>1. node[y].parent \in S \cup {Root} /\ node[y].parent \in L \cup {Root}
      BY <1>3, <1>4, <1>8
    <3> QED
      BY <3>1
  <2>3. x \in T
    <3> HIDE DEF T
    <3> QED
      BY <1>6, <2>1, <2>2
  <2> QED
    BY <2>3
<1>9. \A j : \A x \in Chain(j) : x \in L
  BY DEF Chain, L
<1>10. ASSUME NEW j \in L, NEW x \in Chain(j) PROVE x \in Chain(j)'
  <2> HIDE DEF Closed
  <2> QED
    BY <1>5, <1>8, <1>9
<1>11. ASSUME NEW x \in Chain(n.parent) PROVE x \in Chain(i)'
  <2>1. ASSUME NEW S \in SUBSET L', i \in S \cup {Root}, Closed(S) PROVE x \in S
    <3>1. n.parent \in S \cup {Root}
      BY <1>1, <2>1, Apart
    <3>2. n.parent \in L \cup {Root}
      BY DEF L
    <3> HIDE DEF Closed
    <3> QED
      BY <1>8, <2>1, <3>1, <3>2
  <2> HIDE DEF Closed
  <2> QED
    BY <1>5, <1>9, <2>1
<1> QED
  BY <1>1, <1>2, <1>3, <1>7, <1>10, <1>11 DEF L

\* A node laid under the forest, of its base, leaves one.
LEMMA LaidForest ==
    ASSUME TypeOK, Forest, NEW i \in Ids, NEW p, NEW k \in Keys \cup Digests, NEW S,
           Arena!Lay(i, p, k, S)
    PROVE  Forest'
<1> DEFINE L == Arena!LiveIds
           n == [name |-> k, parent |-> p,
                 base |-> IF k \in Digests THEN k ELSE Arena!BaseOf(p), pins |-> S]
<1>1. /\ Arena!IsLive(p) /\ S \subseteq L /\ node[i] = None
      /\ k \in Digests => p = Root
      /\ node' = [node EXCEPT ![i] = n]
  BY DEF Arena!Lay
<1>2. p \in L \cup {Root} /\ n \in Nodes /\ n.parent = p /\ n.name = k
  BY <1>1, BaseTyped, LiveNodes DEF Nodes
<1>3. n.base = IF k \in Digests THEN k ELSE Arena!BaseOf(p)
  OBVIOUS
<1> HIDE DEF n
<1>4. L' = L \cup {i} /\ i \notin L /\ node'[i] = n /\ \A j \in L : node'[j] = node[j]
  BY <1>1, <1>2, LaidChains
<1>5. \A j \in L \cup {Root} : Arena!BaseOf(j)' = Arena!BaseOf(j)
  BY <1>4 DEF Arena!BaseOf
<1>6. \A j \in L : /\ node[j].parent \in L \cup {Root}
                   /\ node[j].name \in Digests => node[j].parent = Root /\ node[j].base = node[j].name
                   /\ node[j].name \in Keys => node[j].base = Arena!BaseOf(node[j].parent)
  BY DEF Forest
<1>7. \A T \in SUBSET L : T # {} => \E j \in T : node[j].parent \notin T
  BY DEF Forest
<1>8. i # Root /\ ~(k \in Keys /\ k \in Digests)
  BY Apart
<1> HIDE DEF L
<1>9. ASSUME NEW j \in L'
      PROVE  /\ node'[j].parent \in L' \cup {Root}
             /\ node'[j].name \in Digests => node'[j].parent = Root /\ node'[j].base = node'[j].name
             /\ node'[j].name \in Keys => node'[j].base = Arena!BaseOf(node[j].parent)'
  <2>1. CASE j = i
    <3>1. node'[j] = n
      BY <1>4, <2>1
    <3>2. p \in L \cup {Root} /\ Arena!BaseOf(p)' = Arena!BaseOf(p)
      BY <1>2, <1>5 DEF L
    <3>3. node'[j].parent = p /\ node'[j].name = k
      BY <1>2, <3>1
    <3>4. Arena!BaseOf(node[j].parent)' = Arena!BaseOf(p)
      BY <3>2, <3>3 DEF Arena!BaseOf
    <3> QED
      BY <1>1, <1>3, <1>4, <1>8, <3>1, <3>2, <3>3, <3>4
  <2>2. CASE j \in L
    <3>1. node'[j] = node[j] /\ node[j].parent \in L \cup {Root}
      BY <1>4, <1>6, <2>2
    <3>2. Arena!BaseOf(node[j].parent)' = Arena!BaseOf(node[j].parent)
      BY <1>5, <3>1 DEF Arena!BaseOf
    <3> QED
      BY <1>4, <1>6, <2>2, <3>1, <3>2
  <2> QED
    BY <1>4, <2>1, <2>2
<1>10. ASSUME NEW T \in SUBSET L', T # {} PROVE \E j \in T : node'[j].parent \notin T
  <2> DEFINE U == T \cap L
  <2>1. CASE U = {}
    <3>1. T = {i}
      BY <1>4, <1>10, <2>1
    <3>2. node'[i].parent = p /\ p # i
      BY <1>2, <1>4, <1>8 DEF L
    <3> QED
      BY <3>1, <3>2
  <2>2. CASE U # {}
    <3>1. PICK j \in U : node[j].parent \notin U
      <4>1. U \in SUBSET L
        OBVIOUS
      <4> HIDE DEF U
      <4> QED
        BY <1>7, <2>2, <4>1
    <3>2. node'[j] = node[j] /\ node[j].parent \in L \cup {Root}
      BY <1>4, <1>6
    <3>3. Root \notin T
      BY <1>4, <1>8, LiveNodes DEF L
    <3> QED
      BY <3>1, <3>2, <3>3
  <2> QED
    BY <2>1, <2>2
<1> QED
  BY <1>9, <1>10 DEF Forest, L

\* A node laid has what its key binds pinned where each composition of other code is pinned by it,
\* or bound by a settlement it lies under.
LEMMA LaidPins ==
    ASSUME TypeOK, PInv, NEW i \in Ids, NEW p, NEW k \in Keys \cup Digests, NEW S,
           Arena!Lay(i, p, k, S),
           k \in Keys /\ Arena!BaseOf(p) # None =>
             \A d \in Binds[k] \ {Arena!BaseOf(p)} : Covered(p, d) \/ \E q \in S : node[q].name = d
    PROVE  PInv'
<1> DEFINE L == Arena!LiveIds
           n == [name |-> k, parent |-> p,
                 base |-> IF k \in Digests THEN k ELSE Arena!BaseOf(p), pins |-> S]
<1>1. /\ Arena!IsLive(p) /\ S \subseteq L /\ node[i] = None /\ node' = [node EXCEPT ![i] = n]
  BY DEF Arena!Lay
<1>2. p \in L \cup {Root} /\ n \in Nodes /\ n.parent = p /\ n.name = k /\ n.pins = S
  BY <1>1, BaseTyped, LiveNodes DEF Nodes
<1>3. k \in Keys => n.base = Arena!BaseOf(p)
  BY Apart
<1> HIDE DEF n
<1>4. Forest
  BY DEF PInv
<1>5. /\ L' = L \cup {i} /\ i \notin L /\ node'[i] = n /\ \A j \in L : node'[j] = node[j]
      /\ \A j \in L : Chain(j) \subseteq Chain(j)'
      /\ i \in Chain(i)' /\ Chain(p) \subseteq Chain(i)'
  BY <1>1, <1>2, <1>4, LaidChains
<1>6. \A j : Chain(j) \subseteq L
  BY <1>4, ChainFacts
<1>7. ASSUME NEW j \in L, NEW d, Pinned(j, d) PROVE Pinned(j, d)'
  <2>1. PICK x \in Chain(j), q \in L : q \in node[x].pins /\ node[q].name = d
    BY <1>7 DEF Pinned
  <2>2. x \in L /\ node'[x] = node[x] /\ node'[q] = node[q] /\ x \in Chain(j)' /\ q \in L'
    BY <1>5, <1>6
  <2> QED
    BY <2>1, <2>2 DEF Pinned
<1>8. ASSUME NEW j \in L', node'[j].name \in Keys, node'[j].base # None,
             NEW d \in Binds[node'[j].name] \ {node'[j].base}
      PROVE  Pinned(j, d)'
  <2>1. CASE j \in L
    <3>1. node'[j] = node[j]
      BY <1>5, <2>1
    <3>2. Pinned(j, d)
      BY <1>8, <2>1, <3>1 DEF PInv, PinsHold
    <3> QED
      BY <1>7, <2>1, <3>2
  <2>2. CASE j = i
    <3>1. k \in Keys /\ Arena!BaseOf(p) # None /\ d \in Binds[k] \ {Arena!BaseOf(p)}
      BY <1>2, <1>3, <1>5, <1>8, <2>2
    <3>2. CASE \E q \in S : node[q].name = d
      <4>1. PICK q \in S : node[q].name = d
        BY <3>2
      <4>2. q \in L' /\ node'[q].name = d /\ q \in node'[j].pins /\ j \in Chain(j)'
        BY <1>1, <1>2, <1>5, <2>2, <4>1
      <4> QED
        BY <4>2 DEF Pinned
    <3>3. CASE Covered(p, d)
      <4>1. p # Root /\ p \in L /\ Arena!BaseOf(p) = node[p].base
        BY <1>2, <3>1 DEF Arena!BaseOf
      <4>2. PICK m \in Layers(p) \cap Keys : d \in Binds[m]
        BY <3>3 DEF Covered
      <4>3. PICK x \in Chain(p) : node[x].name = m
        BY <1>4, <4>1, <4>2, LayersChain
      <4>4. x \in L /\ node[x].base = node[p].base
        BY <1>4, <1>6, <4>1, ChainBase
      <4>5. Pinned(x, d)
        BY <3>1, <4>1, <4>2, <4>3, <4>4 DEF PInv, PinsHold
      <4>6. PICK y \in Chain(x), q \in L : q \in node[y].pins /\ node[q].name = d
        BY <4>5 DEF Pinned
      <4>7. y \in Chain(p)
        BY <1>4, <4>1, <4>6, ChainFacts
      <4>8. y \in L /\ node'[y] = node[y] /\ node'[q] = node[q] /\ y \in Chain(j)' /\ q \in L'
        BY <1>5, <1>6, <2>2, <4>7
      <4> QED
        BY <4>6, <4>8 DEF Pinned
    <3> QED
      BY <3>1, <3>2, <3>3
  <2> QED
    BY <1>5, <2>1, <2>2
<1>9. PinsHold'
  BY <1>8 DEF PinsHold
<1>10. Forest'
  BY <1>4, LaidForest
<1> QED
  BY <1>9, <1>10 DEF PInv

\* A step that lays and evicts nothing.
LEMMA SamePInv ==
    ASSUME PInv, node' = node
    PROVE  PInv'
<1>1. Arena!LiveIds' = Arena!LiveIds
  BY DEF Arena!LiveIds
<1>2. \A j : Arena!BaseOf(j)' = Arena!BaseOf(j)
  BY DEF Arena!BaseOf
<1>3. Forest'
  BY <1>1, <1>2 DEF PInv, Forest
<1>4. \A j : Chain(j)' = Chain(j)
  BY <1>1 DEF Chain
<1>5. \A j, d : Pinned(j, d)' <=> Pinned(j, d)
  BY <1>1, <1>4 DEF Pinned
<1>6. PinsHold'
  BY <1>1, <1>5 DEF PInv, PinsHold
<1> QED
  BY <1>3, <1>6 DEF PInv

\* A composition is its own base: it binds nothing, and pins nothing.
LEMMA ComposePInv ==
    ASSUME FInv, PInv, Compose
    PROVE  PInv'
<1>1. Task.digest \in Digests /\ Task.digest \notin Keys /\ TypeOK
  BY FirstTask, Apart DEF Compose, FInv
<1>2. ASSUME NEW i \in Ids, Arena!Lay(i, Root, Task.digest, {}) PROVE PInv'
  BY <1>1, <1>2, LaidPins
<1>3. ASSUME node' = node PROVE PInv'
  BY <1>3, SamePInv
<1> QED
  BY <1>2, <1>3 DEF Compose, Arena!Use, arena

\* A settlement pins, of the compositions its key binds, all but those bound above it.
LEMMA SeekSettlesPInv ==
    ASSUME FInv, PInv, SeekSettles
    PROVE  PInv'
<1> DEFINE k == Task.key
           p == birth.at
           S == Pins(p, k)
<1>1. TypeOK /\ Placing /\ "key" \in DOMAIN Task /\ k # None /\ Gone(p, k) = {}
  BY DEF FInv, SeekSettles, Missing
<1>2. k \in Keys \cup Digests
  BY <1>1, FirstTask
<1>3. PICK i \in Ids : Arena!Lay(i, p, k, S)
  BY DEF SeekSettles
<1>4. ASSUME Arena!BaseOf(p) # None, NEW d \in Binds[k] \ {Arena!BaseOf(p)}, ~Covered(p, d)
      PROVE  \E q \in S : node[q].name = d
  <2>1. d \in ToPin(p, k)
    BY <1>4 DEF ToPin
  <2>2. Arena!Find(Root, d) # None
    BY <1>1, <2>1 DEF Gone
  <2>3. Arena!Find(Root, d) \in S
    BY <2>1 DEF Pins
  <2>4. node[Arena!Find(Root, d)].name = d
    BY <1>1, <2>2, FoundLive
  <2> QED
    BY <2>3, <2>4
<1> HIDE DEF S, k, p
<1> QED
  BY <1>1, <1>2, <1>3, <1>4, LaidPins

\* What is evicted is on no chain but its own, and no node pins it.
LEMMA EvictPInv ==
    ASSUME TypeOK, PInv, NEW e \in Ids, Arena!Evict(e)
    PROVE  PInv'
<1> DEFINE L == Arena!LiveIds
           Closed(S) == \A y \in S : node[y].parent \in S \cup {Root}
<1>1. /\ node' = [node EXCEPT ![e] = None] /\ e \in L
      /\ \A j \in L : e \notin Arena!ReadsThrough(j)
  BY DEF Arena!Evict, Arena!Evictable
<1>2. e # Root /\ e \in Ids /\ \A j \in L : j \in Ids
  BY <1>1, LiveNodes
<1>3. \A j \in L : node[j].parent # e /\ e \notin node[j].pins
  BY <1>1, <1>2 DEF Arena!ReadsThrough
<1>4. /\ \A j \in Ids : j # e => node'[j] = node[j]
      /\ node'[e] = None
  BY <1>1, <1>2 DEF TypeOK
<1>5. L' = L \ {e}
  BY <1>4 DEF Arena!LiveIds
<1>6. \A j \in L' : j \in L /\ j # e /\ node'[j] = node[j]
  BY <1>2, <1>4, <1>5
<1>7. Forest
  BY DEF PInv
<1>8. \A j \in L' \cup {Root} : Arena!BaseOf(j)' = Arena!BaseOf(j)
  BY <1>6 DEF Arena!BaseOf
<1>9. \A j \in L : /\ node[j].parent \in L \cup {Root}
                   /\ node[j].name \in Digests => node[j].parent = Root /\ node[j].base = node[j].name
                   /\ node[j].name \in Keys => node[j].base = Arena!BaseOf(node[j].parent)
  BY <1>7 DEF Forest
<1>10. \A T \in SUBSET L : T # {} => \E j \in T : node[j].parent \notin T
  BY <1>7 DEF Forest
<1>11. \A j : Chain(j) \subseteq L
  BY <1>7, ChainFacts
<1>12. \A j : \A x \in Chain(j), T \in SUBSET L : j \in T \cup {Root} /\ Closed(T) => x \in T
  BY DEF Chain
<1>13. \A j : \A x \in L' :
         (\A S \in SUBSET L' :
            j \in S \cup {Root} /\ (\A y \in S : node'[y].parent \in S \cup {Root}) => x \in S)
           => x \in Chain(j)'
  BY DEF Chain
<1> HIDE DEF L
<1>14. Forest'
  <2>1. ASSUME NEW j \in L'
        PROVE  /\ node'[j].parent \in L' \cup {Root}
               /\ node'[j].name \in Digests => node'[j].parent = Root /\ node'[j].base = node'[j].name
               /\ node'[j].name \in Keys => node'[j].base = Arena!BaseOf(node[j].parent)'
    <3>1. j \in L /\ node'[j] = node[j] /\ node[j].parent \in L' \cup {Root}
      BY <1>3, <1>5, <1>6, <1>9
    <3>2. Arena!BaseOf(node[j].parent)' = Arena!BaseOf(node[j].parent)
      BY <1>8, <3>1 DEF Arena!BaseOf
    <3> QED
      BY <1>9, <3>1, <3>2
  <2>2. ASSUME NEW T \in SUBSET L', T # {} PROVE \E j \in T : node'[j].parent \notin T
    BY <1>5, <1>6, <1>10, <2>2
  <2> QED
    BY <2>1, <2>2 DEF Forest, L
<1>15. ASSUME NEW j \in L', NEW x \in Chain(j) PROVE x \in Chain(j)'
  <2>1. ASSUME NEW T \in SUBSET L', j \in T \cup {Root},
               \A y \in T : node'[y].parent \in T \cup {Root}
        PROVE  x \in T
    <3>1. T \in SUBSET L /\ Closed(T)
      BY <1>5, <1>6, <2>1
    <3> HIDE DEF Closed
    <3> QED
      BY <1>12, <2>1, <3>1
  <2>2. x \in L'
    <3> DEFINE T == L'
    <3>1. T \in SUBSET L' /\ j \in T \cup {Root}
      OBVIOUS
    <3>2. \A y \in T : node'[y].parent \in T \cup {Root}
      BY <1>3, <1>5, <1>6, <1>9
    <3> HIDE DEF T
    <3>3. x \in T
      BY <2>1, <3>1, <3>2
    <3> QED
      BY <3>3 DEF T
  <2> QED
    BY <1>13, <2>1, <2>2
<1>16. ASSUME NEW j \in L', NEW d, Pinned(j, d) PROVE Pinned(j, d)'
  <2>1. PICK x \in Chain(j), q \in L : q \in node[x].pins /\ node[q].name = d
    BY <1>16 DEF Pinned, L
  <2>2. x \in Chain(j)' /\ x \in L'
    <3>1. x \in Chain(j)'
      BY <1>15
    <3>2. Chain(j)' \subseteq L'
      BY DEF Chain, L
    <3> QED
      BY <3>1, <3>2
  <2>3. q \in L' /\ node'[q] = node[q] /\ node'[x] = node[x]
    BY <1>3, <1>5, <1>6, <2>1, <2>2
  <2> QED
    BY <2>1, <2>2, <2>3 DEF Pinned, L
<1>17. ASSUME NEW j \in L', node'[j].name \in Keys, node'[j].base # None,
              NEW d \in Binds[node'[j].name] \ {node'[j].base}
       PROVE  Pinned(j, d)'
  <2>1. j \in L /\ node'[j] = node[j]
    BY <1>6
  <2>2. Pinned(j, d)
    BY <1>17, <2>1 DEF PInv, PinsHold, L
  <2> QED
    BY <1>16, <2>2
<1>18. PinsHold'
  BY <1>17 DEF PinsHold, L
<1> QED
  BY <1>14, <1>18 DEF PInv

\* An arena with no node is a forest.
LEMMA InitPInv == Init => PInv
<1> SUFFICES ASSUME Init PROVE PInv
  OBVIOUS
<1>1. Arena!LiveIds = {}
  BY DEF Init, Arena!Init, Arena!LiveIds
<1>2. Forest
  BY <1>1 DEF Forest
<1>3. PinsHold
  BY <1>1 DEF PinsHold
<1> QED
  BY <1>2, <1>3 DEF PInv

\* Only compositions, settlements and evictions move a node.
LEMMA NextPInv == FInv /\ PInv /\ [Next]_vars => PInv'
<1> SUFFICES ASSUME FInv, PInv, [Next]_vars PROVE PInv'
  OBVIOUS
<1>1. ASSUME node' = node PROVE PInv'
  BY <1>1, SamePInv
<1>2. CASE Program
  <2>1. CASE \E f \in callables : Call(f)
    BY <1>1, <2>1 DEF Call, arena
  <2>2. CASE \E f \in callables : TailCall(f)
    BY <1>1, <2>2 DEF TailCall, arena
  <2>3. CASE Hop
    BY <1>1, <2>3 DEF Hop, Arena!Use
  <2>4. CASE \E d \in DOMAIN Code : Eval(d)
    BY <1>1, <2>4 DEF Eval, arena
  <2>5. CASE \E b \in Bodies : Born(b)
    BY <1>1, <2>5 DEF Born, arena
  <2>6. CASE Return
    BY <1>1, <2>6 DEF Return, Arena!Release
  <2> QED
    BY <1>2, <2>1, <2>2, <2>3, <2>4, <2>5, <2>6 DEF Program
<1>3. CASE Create
  <2>1. CASE SeekKeyless \/ SeekBarren \/ \E d \in Digests : SeekWanting(d)
    BY <1>1, <2>1 DEF SeekKeyless, SeekBarren, SeekWanting, arena
  <2>2. CASE SeekHit
    BY <1>1, <2>2 DEF SeekHit, Arena!Use
  <2>3. CASE HoldLevel
    BY <1>1, <2>3 DEF HoldLevel, Arena!Borrow
  <2>4. CASE Place
    BY <1>1, <2>4 DEF Place, Arena!Borrow
  <2>5. CASE ReleaseLevel
    BY <1>1, <2>5 DEF ReleaseLevel, Arena!Release
  <2>6. CASE EvictToBudget
    BY <2>6, EvictPInv DEF EvictToBudget, FInv
  <2> QED
    BY <1>3, <2>1, <2>2, <2>3, <2>4, <2>5, <2>6, ComposePInv, SeekSettlesPInv DEF Create
<1>4. CASE First
  <2>1. FirstStep => node' = node
    BY DEF FirstStep, Arena!Release, arena
  <2> QED
    BY <1>1, <1>4, <2>1 DEF First, Rebuild, Bounce, Replay, Run
<1>5. CASE UNCHANGED vars
  BY <1>1, <1>5 DEF vars
<1> QED
  BY <1>2, <1>3, <1>4, <1>5 DEF Next

\* However nodes are laid and evicted, each settlement of composed code has, live and pinned along
\* its own chain, the composition of every module its key binds: what the code says of a miss it
\* need not pin, that a settlement above already does, is so.
THEOREM ModulesArePinned == Spec => []ModulesPinned
<1>1. Init => FInv /\ PInv
  BY InitFInv, InitPInv
<1>2. FInv /\ PInv /\ [Next]_vars => FInv' /\ PInv'
  BY NextFInv, NextPInv
<1>3. FInv /\ PInv => ModulesPinned
  BY PinnedAbove DEF FInv
<1> QED
  BY <1>1, <1>2, <1>3, PTL DEF Spec
=============================================================================
