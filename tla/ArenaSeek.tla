------------------------------ MODULE ArenaSeek ------------------------------
(* How a frame finds the arena node it runs under (src/src/scheduler/seek.rs,  *)
(* `Scheduler::create` and `seek` of drain.rs, and the first step of a body,   *)
(* src/src/program/body.rs).                                                   *)
(*                                                                             *)
(* A callable keeps the handle of the node it was born under and a stamp: the  *)
(* keys of the settlements above it.  The node may be evicted before a call.   *)
(* Then the frame is born cold, under the root, and its first step hands the   *)
(* work to a successor: it bounces with the syntax of its composed code,       *)
(* rebuilds a composition its key binds, or replays its callee's stamp, until  *)
(* one finds itself where it should run.                                       *)
(*                                                                             *)
(* The arena is ArenaStore; one store step a step of this module.  The drain   *)
(* runs one birth at a time: what a `create` asks of the arena, and a chain of *)
(* successors, interleave with nothing.                                        *)
EXTENDS Integers, FiniteSets, Sequences, SequencesExt

CONSTANTS
    MaxNode,    \* bound: handles 1 .. MaxNode; one still named is never laid again
    Keys,       \* the keys of settlements
    Digests,    \* the syntax digests of composed code
    Weight,     \* the bytes a node of each name weighs
    Budget,     \* the unheld bytes the arena keeps
    Cells,      \* the cells of frames: the bound on frames at once
    Tokens,     \* the levels a replay holds at once: the bound on a stamp's length
    Root,       \* the handle of the frozen load
    None,       \* nothing
    Bodies,     \* the bodies of the program's text
    Top,        \* those of the callables the load declares
    Nested,     \* the bodies of the callables each body births
    Key,        \* the settlement a frame of each body seeks, or None
    Loops,      \* the bodies with a self tail edge, whose name does not escape
    Code,       \* the body of each piece of composed code the program EVALs
    Binds,      \* the compositions a key's modules were born of
    Barren,     \* the keys for which nothing settles
    MaxBorn,    \* bound: how many callables frames give birth to
    MaxDeep     \* bound: how deep the node lies that a loop hops under

Ids == 1 .. MaxNode

\* What a node is (arena.rs `ArenaNode`), as in ArenaStore.
Nodes == [name : Keys \cup Digests, parent : Ids \cup {Root}, base : Digests \cup {None},
          pins : SUBSET Ids]

\* `Closure`: a callable's body, the node it was born under, the composed code it was born of
\* and its stamp, outermost level first.  An EVAL's code has no build, only a base.
Callables == {f \in [body : Bodies, build : Ids \cup {Root, None}, base : Digests \cup {None},
                     levels : Seq(Keys)] : f.build = None => f.base # None}
Callable(body, build, base, levels) ==
    [body |-> body, build |-> build, base |-> base, levels |-> levels]

\* What a cell runs: a callable, and the stamp of the callables it births.
Frames == [callable : Callables, stamp : Seq(Keys) \cup {None}]

\* What a birth has left to ask of the arena, in order: a composition, found or built, which the
\* frame enters or which only has to be there; a settlement, the frame's own or a level before it.
Tasks == [digest : Digests, owned : BOOLEAN, enter : BOOLEAN]
           \cup [key : Keys \cup {None}, own : BOOLEAN]
Composed(d, owned, enter) == [digest |-> d, owned |-> owned, enter |-> enter]
Sought(k, own) == [key |-> k, own |-> own]

\* A birth in progress.
Creations == [callable : Callables, from : Cells \cup {None}, at : Ids \cup {Root},
              tasks : Seq(Tasks), replays : BOOLEAN, level : BOOLEAN, handed : BOOLEAN,
              missed : BOOLEAN, wanting : Digests \cup {None}, held : BOOLEAN,
              cell : Cells \cup {None}]

ASSUME SeekAssumption ==
    /\ Keys \cap Digests = {} /\ Cells \cap Tokens = {}
    /\ Top \subseteq Bodies /\ Loops \subseteq Bodies /\ Barren \subseteq Keys
    /\ Nested \in [Bodies -> SUBSET Bodies]
    /\ Key \in [Bodies -> Keys \cup {None}]
    /\ DOMAIN Code \subseteq Digests
    /\ \A d \in DOMAIN Code : Code[d] \in Bodies /\ Key[Code[d]] = None
    /\ Binds \in [Keys -> SUBSET Digests] /\ \A k \in Keys : IsFiniteSet(Binds[k])
    /\ MaxNode \in Nat /\ MaxBorn \in Nat /\ MaxDeep \in Nat /\ Budget \in Nat
    /\ Root \notin Ids
    /\ None \notin Ids \cup {Root} \cup Keys \cup Digests \cup Cells
    /\ None \notin Nodes \cup Frames \cup Seq(Keys) \cup Creations

VARIABLES
    node, older, borrowed,  \* the arena, as in ArenaStore
    callables,  \* the callables values still name
    frame,      \* the callable each cell's frame runs, with the stamp its births take, or None
    stack,      \* the cells that run, innermost last
    birth       \* the birth in progress, or None

vars == <<node, older, borrowed, callables, frame, stack, birth>>

Arena == INSTANCE ArenaStore WITH Owners <- Cells \cup Tokens

arena == <<node, older, borrowed>>

KeyOf(f) == Key[f.body]
Births(f) == Nested[f.body] # {}
IsCode(f) == f.build = None

-----------------------------------------------------------------------------
\* The fresh handles, that no callable still names, and the least of them.
Unnamed == {i \in Ids : node[i] = None /\ \A f \in callables : f.build # i}
Fresh(i) == i \in Unnamed /\ \A j \in Unnamed : i <= j

FreeCells == {c \in Cells : frame[c] = None}
FreeCell == CHOOSE c \in FreeCells : TRUE

HeldLevels == {t \in Tokens : borrowed[t] # None}

\* `Facts::tree_of` over the layers below: a settlement whose key binds code of `d` holds its tree.
Layers(i) ==
    LET layers[j \in Arena!LiveIds \cup {Root}] ==
          IF j = Root THEN {} ELSE {node[j].name} \cup layers[node[j].parent]
    IN  layers[i]
Covered(parent, d) == \E k \in Layers(parent) \cap Keys : d \in Binds[k]

\* The compositions of other composed code a miss under `parent` must pin.
ToPin_UnderSettlement(parent, k) ==
    IF parent = Root \/ node[parent].parent = Root THEN {}
    ELSE {d \in Binds[k] \ {Arena!BaseOf(parent)} : ~Covered(parent, d)}
ToPin(parent, k) ==
    IF Arena!BaseOf(parent) = None THEN {}
    ELSE {d \in Binds[k] \ {Arena!BaseOf(parent)} : ~Covered(parent, d)}

Gone(parent, k) == {d \in ToPin(parent, k) : Arena!Find(Root, d) = None}

Pins(parent, k) == {Arena!Find(Root, d) : d \in ToPin(parent, k)}

\* The names from the root down to a node, and those where a call of `f` should run.
PathTo(i) ==
    LET path[j \in Arena!LiveIds \cup {Root}] ==
          IF j = Root THEN <<>> ELSE Append(path[node[j].parent], node[j].name)
    IN  path[i]
Base(f) == IF f.base = None THEN <<>> ELSE <<f.base>>
Own(f) == IF KeyOf(f) \in {None} \cup Barren THEN <<>> ELSE <<KeyOf(f)>>
Path(f) == Base(f) \o f.levels \o Own(f)

-----------------------------------------------------------------------------
\* A birth asked for: of a frame of `f`, after `from` where it succeeds a cell, from node `at` by
\* `tasks`.  `level` is whether the birth already holds its level, as a hop keeps it.
Asked(f, from, at, tasks, replays, level) ==
    birth' = [callable |-> f, from |-> from, at |-> at, tasks |-> tasks, replays |-> replays,
              level |-> level, handed |-> FALSE, missed |-> FALSE, wanting |-> None,
              held |-> TRUE, cell |-> None]

\* A call's own seek, under the node its callee was born under; cold, under the root, where that
\* is gone.
SeekFrom(f) == IF Arena!IsLive(f.build) THEN f.build ELSE Root
OwnSeek(f) == IF Arena!IsLive(f.build) THEN <<Sought(KeyOf(f), TRUE)>> ELSE <<>>

Init ==
    /\ Arena!Init
    /\ callables = {Callable(b, Root, None, <<>>) : b \in Top}
    /\ frame = [c \in Cells |-> None]
    /\ stack = <<>>
    /\ birth = None

\* The drain is between births; `Cells` leaves a cell for the successors of a chain.
Drained == birth = None
MayCall == Drained /\ Len(stack) < Cardinality(Cells) - 1

\* A call its asker parks on (`spawn_seeking`).
Call(f) ==
    /\ MayCall
    /\ Asked(f, None, SeekFrom(f), OwnSeek(f), FALSE, FALSE)
    /\ UNCHANGED <<arena, callables, frame, stack>>

\* A tail call (`tail_seeking`): the asker goes once its successor's first step has run.
TailCall(f) ==
    /\ Drained /\ stack # <<>>
    /\ Asked(f, Last(stack), SeekFrom(f), OwnSeek(f), FALSE, FALSE)
    /\ stack' = Front(stack)
    /\ UNCHANGED <<arena, callables, frame>>

\* A self tail call of a looping body, keyed, from under another node than its callable was born
\* under (`called`): its successor is born under the frame's own node, with the frame's level
\* (`tail_under`).
Hop ==
    /\ Drained /\ stack # <<>>
    /\ LET c == Last(stack)
           f == frame[c].callable
       IN  /\ f.body \in Loops /\ KeyOf(f) # None
           /\ borrowed[c] \notin {Root, f.build}
           /\ Len(PathTo(borrowed[c])) <= MaxDeep
           /\ Arena!Use(borrowed[c])
           /\ Asked(f, c, borrowed[c], <<>>, FALSE, frame[c].stamp # None)
    /\ stack' = Front(stack)
    /\ UNCHANGED <<callables, frame>>

\* An EVAL of composed code (`spawn_composing`).
Eval(d) ==
    /\ MayCall
    /\ Asked(Callable(Code[d], None, d, <<>>), None, Root, <<Composed(d, FALSE, TRUE)>>,
             FALSE, FALSE)
    /\ UNCHANGED <<arena, callables, frame, stack>>

\* The innermost frame births a callable, under the node it runs under.
Born(b) ==
    /\ Drained /\ stack # <<>>
    /\ Cardinality(callables) < Cardinality(Top) + MaxBorn
    /\ LET c == Last(stack)
           f == frame[c].callable
           build == IF borrowed[c] # Root THEN borrowed[c] ELSE f.build
       IN  /\ b \in Nested[f.body]
           /\ callables' = callables \cup
                {Callable(b, build, f.base, IF frame[c].stamp = None THEN <<>> ELSE frame[c].stamp)}
    /\ UNCHANGED <<arena, frame, stack, birth>>

\* The innermost frame finishes (`retire`).
Return ==
    /\ Drained /\ stack # <<>>
    /\ Arena!Release(Last(stack))
    /\ frame' = [frame EXCEPT ![Last(stack)] = None]
    /\ stack' = Front(stack)
    /\ UNCHANGED <<callables, birth>>

-----------------------------------------------------------------------------
\* `create`, in the steps it takes on the arena.
Placing == birth # None /\ birth.cell = None /\ birth.held /\ birth.tasks # <<>>

Task == Head(birth.tasks)

\* `composed`: the composition is found and stamped, built over the syntax in hand, or missed.
Compose ==
    /\ Placing /\ "digest" \in DOMAIN Task
    /\ LET d == Task.digest
           found == Arena!Find(Root, d)
           entered(i) == IF Task.enter THEN i ELSE birth.at
       IN  \/ /\ found # None
              /\ Arena!Use(found)
              /\ birth' = [birth EXCEPT !.tasks = Tail(@), !.at = entered(found)]
           \/ /\ found = None /\ Task.owned
              /\ \E i \in Ids :
                   /\ Fresh(i) /\ Arena!Lay(i, Root, d, {})
                   /\ birth' = [birth EXCEPT !.tasks = Tail(@), !.at = entered(i), !.missed = TRUE]
           \/ /\ found = None /\ ~Task.owned
              /\ birth' = [birth EXCEPT !.tasks = Tail(@)]
              /\ UNCHANGED arena
    /\ UNCHANGED <<callables, frame, stack>>

\* Where `seek` lands: the frame's own request is handed back for its level, and a level before
\* it has to be held.
Landed(i, missed) ==
    birth' = [birth EXCEPT !.tasks = Tail(@), !.at = i, !.missed = @ \/ missed,
                           !.handed = Task.own /\ Births(birth.callable) /\ ~birth.level,
                           !.held = Task.own]

\* `seek` with no key ends where it began.
SeekKeyless ==
    /\ Placing /\ "key" \in DOMAIN Task /\ Task.key = None
    /\ birth' = [birth EXCEPT !.tasks = Tail(@)]
    /\ UNCHANGED <<arena, callables, frame, stack>>

\* A hit is stamped.
SeekHit ==
    /\ Placing /\ "key" \in DOMAIN Task /\ Task.key # None
    /\ LET found == Arena!Find(birth.at, Task.key) IN
         /\ found # None
         /\ Arena!Use(found)
         /\ Landed(found, FALSE)
    /\ UNCHANGED <<callables, frame, stack>>

Missing == Placing /\ "key" \in DOMAIN Task /\ Task.key # None /\ Arena!Find(birth.at, Task.key) = None

\* A miss that must pin a composition that is gone wants it: the birth stops where it is.
SeekWanting(d) ==
    /\ Missing /\ d \in Gone(birth.at, Task.key)
    /\ birth' = [birth EXCEPT !.tasks = <<>>, !.wanting = d]
    /\ UNCHANGED <<arena, callables, frame, stack>>

\* A miss for which nothing settles ends the birth's search too.
SeekBarren ==
    /\ Missing /\ Gone(birth.at, Task.key) = {} /\ Task.key \in Barren
    /\ birth' = [birth EXCEPT !.tasks = <<>>]
    /\ UNCHANGED <<arena, callables, frame, stack>>

\* A miss settles, pinning what it reads.
SeekSettles ==
    /\ Missing /\ Gone(birth.at, Task.key) = {} /\ Task.key \notin Barren
    /\ \E i \in Ids :
         /\ Fresh(i) /\ Arena!Lay(i, birth.at, Task.key, Pins(birth.at, Task.key))
         /\ Landed(i, TRUE)
    /\ UNCHANGED <<callables, frame, stack>>

\* `replay` borrows a level it reached until the frame borrows its own.
HoldLevel ==
    /\ birth # None /\ ~birth.held
    /\ \E t \in Tokens \ HeldLevels :
         (\A u \in Tokens \ HeldLevels : t <= u) /\ Arena!Borrow(t, birth.at)
    /\ birth' = [birth EXCEPT !.held = TRUE]
    /\ UNCHANGED <<callables, frame, stack>>

\* The cell is born, borrowing what was found.
Place ==
    /\ birth # None /\ birth.cell = None /\ birth.held /\ birth.tasks = <<>>
    /\ FreeCells # {}
    /\ Arena!Borrow(FreeCell, birth.at)
    /\ frame' = [frame EXCEPT ![FreeCell] = [callable |-> birth.callable, stamp |-> None]]
    /\ birth' = [birth EXCEPT !.cell = FreeCell]
    /\ UNCHANGED <<callables, stack>>

\* Then the levels of a replay are let go, and a miss evicts to the budget.
ReleaseLevel ==
    /\ birth # None /\ birth.cell # None
    /\ \E t \in HeldLevels : (\A u \in HeldLevels : u <= t) /\ Arena!Release(t)
    /\ UNCHANGED <<callables, frame, stack, birth>>

Evicting == birth # None /\ birth.cell # None /\ HeldLevels = {} /\ birth.missed

EvictToBudget ==
    /\ Evicting
    /\ \E i \in Ids : Arena!Evict(i)
    /\ UNCHANGED <<callables, frame, stack, birth>>

-----------------------------------------------------------------------------
\* The first step of the newborn frame, once `create` is done.  Whatever it does, the cell it
\* succeeds is retired after it.
FirstStep_Kept ==
    /\ birth # None /\ birth.cell # None /\ HeldLevels = {}
    /\ birth.missed => Arena!UnheldBytes <= Budget \/ \A i \in Ids : ~Arena!Evictable(i)
    /\ IF birth.from = None \/ birth.replays THEN UNCHANGED arena ELSE Arena!Release(birth.from)
FirstStep ==
    /\ birth # None /\ birth.cell # None /\ HeldLevels = {}
    /\ birth.missed => Arena!UnheldBytes <= Budget \/ \A i \in Ids : ~Arena!Evictable(i)
    /\ IF birth.from = None THEN UNCHANGED arena ELSE Arena!Release(birth.from)

Retired == [c \in Cells |-> IF c = birth.from THEN None ELSE frame[c]]

\* The composition the cell's chain rests on is not its code's.
OffBase_Settled == LET f == birth.callable IN
    f.base # None /\ Arena!BaseOf(borrowed[birth.cell]) \notin {f.base, None}
OffBase == LET f == birth.callable IN
    f.base # None /\ Arena!BaseOf(borrowed[birth.cell]) # f.base

\* Its callee's node is gone, and it was not born by replaying the stamp.
Unreplayed_Live == LET f == birth.callable IN
    ~IsCode(f) /\ ~birth.replays /\ f.levels # <<>>
Unreplayed == LET f == birth.callable IN
    ~IsCode(f) /\ ~birth.replays /\ f.levels # <<>> /\ ~Arena!IsLive(f.build)

\* A miss wanted a composition: the successor builds it and asks again (`rebuild`).
Rebuild_Unbuilt ==
    /\ FirstStep /\ birth.wanting # None
    /\ LET f == birth.callable IN
         Asked(f, birth.cell, SeekFrom(f), OwnSeek(f), FALSE, birth.level)
    /\ frame' = Retired
    /\ UNCHANGED <<callables, stack>>
Rebuild ==
    /\ FirstStep /\ birth.wanting # None
    /\ LET f == birth.callable IN
         Asked(f, birth.cell, SeekFrom(f), <<Composed(birth.wanting, TRUE, FALSE)>> \o OwnSeek(f),
               FALSE, birth.level)
    /\ frame' = Retired
    /\ UNCHANGED <<callables, stack>>

\* Composed code not under its composition hands over its syntax (`bounce`).
Bounce ==
    /\ FirstStep /\ birth.wanting = None /\ OffBase
    /\ Asked(birth.callable, birth.cell, Root, <<Composed(birth.callable.base, TRUE, TRUE)>>,
             FALSE, birth.level)
    /\ frame' = Retired
    /\ UNCHANGED <<callables, stack>>

\* A level of a stamp, as a replay asks for it: the compositions of other code it binds first.
LevelTasks(f, k) ==
    LET pins == SetToSeq(Binds[k] \ {f.base})
    IN  [n \in 1 .. Len(pins) |-> Composed(pins[n], TRUE, FALSE)] \o <<Sought(k, FALSE)>>

ReplayTasks_Unsettled(f) ==
    FlattenSeq([n \in 1 .. Len(f.levels) |-> LevelTasks(f, f.levels[n])])
ReplayTasks(f) ==
    FlattenSeq([n \in 1 .. Len(f.levels) |-> LevelTasks(f, f.levels[n])])
      \o <<Sought(KeyOf(f), TRUE)>>

\* A call whose callee's node is gone replays its stamp from the node its cell runs under.
Replay ==
    /\ FirstStep /\ birth.wanting = None /\ ~OffBase /\ Unreplayed
    /\ Asked(birth.callable, birth.cell, borrowed[birth.cell], ReplayTasks(birth.callable),
             TRUE, birth.level)
    /\ frame' = Retired
    /\ UNCHANGED <<callables, stack>>

\* `stamped`: under its callable's node, its callable's stamp; under another, the level it was
\* handed or kept, over its callable's stamp, or no stamp at all.
Stamp_Unhanded ==
    LET f == birth.callable
    IN  IF IsCode(f) \/ borrowed[birth.cell] \in {Root, f.build} THEN f.levels
        ELSE Append(f.levels, KeyOf(f))
Stamp ==
    LET f == birth.callable
    IN  IF IsCode(f) \/ borrowed[birth.cell] \in {Root, f.build} THEN f.levels
        ELSE IF birth.handed \/ birth.level THEN Append(f.levels, KeyOf(f))
        ELSE None

\* The frame runs.
Run ==
    /\ FirstStep /\ birth.wanting = None /\ ~OffBase /\ ~Unreplayed
    /\ frame' = [Retired EXCEPT ![birth.cell].stamp = Stamp]
    /\ stack' = Append(stack, birth.cell)
    /\ birth' = None
    /\ UNCHANGED callables

Program ==
    \/ \E f \in callables : Call(f)
    \/ \E f \in callables : TailCall(f)
    \/ Hop
    \/ \E d \in DOMAIN Code : Eval(d)
    \/ \E b \in Bodies : Born(b)
    \/ Return

Create ==
    \/ Compose \/ SeekKeyless \/ SeekHit \/ SeekBarren \/ SeekSettles
    \/ \E d \in Digests : SeekWanting(d)
    \/ HoldLevel \/ Place \/ ReleaseLevel \/ EvictToBudget

First == Rebuild \/ Bounce \/ Replay \/ Run

Next == Program \/ Create \/ First

\* The drain's loop never stops between the steps of a birth.
Spec == Init /\ [][Next]_vars /\ WF_vars(Create) /\ WF_vars(First)

-----------------------------------------------------------------------------
TypeOK ==
    /\ node \in [Ids -> Nodes \cup {None}]
    /\ older \subseteq Ids \X Ids
    /\ borrowed \in [Cells \cup Tokens -> Ids \cup {Root, None}]
    /\ callables \subseteq {f \in Callables : f.build # None}
    /\ frame \in [Cells -> Frames \cup {None}]
    /\ stack \in Seq(Cells)
    /\ birth \in Creations \cup {None}

\* A running frame stands where its callable's stamp says: under its composition, under each level
\* in order and under its own settlement, whatever was evicted between its callable's birth and
\* its call, and however many successors its birth took.  One callable alone falls short: one born
\* under a composition, so with no stamp, runs unsettled on the rebuilt one once its own is gone,
\* though design/build-storage.md has a call rebuild what it ran under.
RunsWhereStamped ==
    \A c \in Range(stack) :
      LET f == frame[c].callable IN
      \/ PathTo(borrowed[c]) = Path(f)
      \/ /\ f.base # None /\ f.levels = <<>> /\ ~Arena!IsLive(f.build)
         /\ PathTo(borrowed[c]) = Base(f)

\* A callable's stamp names the node its handle opens, so a replay rebuilds what a live handle
\* finds.
StampsNameTheirNode ==
    \A f \in callables : f.build \in Arena!LiveIds => PathTo(f.build) = Base(f) \o f.levels

\* Between births every frame borrows what it runs under and nothing else is borrowed: no
\* predecessor and no level of a replay is left holding a node.
BorrowsAreFrames ==
    Drained =>
      /\ HeldLevels = {}
      /\ \A c \in Cells : (borrowed[c] # None <=> frame[c] # None) /\ (frame[c] # None <=> c \in Range(stack))

\* A settlement of composed code reads the modules its key binds through its chain: the
\* composition of each is pinned by it or by a settlement above, and is there.
ModulesPinned ==
    \A i \in Arena!LiveIds :
      LET above[j \in Arena!LiveIds \cup {Root}] ==
            IF j = Root THEN {} ELSE {j} \cup above[node[j].parent]
      IN  node[i].name \in Keys /\ node[i].base # None =>
            \A d \in Binds[node[i].name] \ {node[i].base} :
              \E j \in above[i], p \in Arena!LiveIds : p \in node[j].pins /\ node[p].name = d

\* A replay starts from the root or the composition its callee was born of, as `replay`
\* (scheduler/action.rs) says, or, which it does not say, from under the settlement its frame
\* hopped from: a hop of a loop whose callable's node is gone replays the stamp there.
ReplaysWhereBorn ==
    [][birth' # None /\ birth'.replays /\ (birth = None \/ ~birth.replays)
         => LET f == birth'.callable
                from == PathTo(birth'.at)
            IN  \/ from = Base(f)
                \/ f.body \in Loops /\ IsSuffix(f.levels \o Own(f), from)]_vars

\* Code of the program's text runs no shorter than stamped, whatever was evicted since its
\* callable's birth and however often a hop replayed one chain below another: under the levels of
\* the stamp, in order, and its own settlement.  One callable alone runs bare, under the root: one
\* whose node is gone and that was born with no stamp.
StandsUnderStamp ==
    /\ \A f \in callables : f.build \in Arena!LiveIds => IsSuffix(f.levels, PathTo(f.build))
    /\ \A c \in Range(stack) :
         LET f == frame[c].callable
         IN  \/ IsSuffix(f.levels \o Own(f), PathTo(borrowed[c]))
             \/ f.levels = <<>> /\ ~Arena!IsLive(f.build) /\ borrowed[c] = Root

\* A frame whose body births callables has the stamp they are born with, its own level's or its
\* callee's.  `stamped` asserts no less of every frame; but the frame of a callable with no key,
\* under a node a replay rebuilt for it, has none.
StampAtHand ==
    \A c \in Range(stack) :
      LET f == frame[c].callable
      IN  Births(f) /\ frame[c].stamp = None => KeyOf(f) = None /\ ~Arena!IsLive(f.build)

\* What a call was stamped with it finds, and hands to what it births.
WarmAsStamped == StandsUnderStamp /\ StampAtHand

\* A callable and its frames agree on where they stand, as stamped and as run.
StampsHold == RunsWhereStamped /\ StampsNameTheirNode

\* A frame asked for is born and runs.
BirthsEnd == birth # None ~> birth = None
=============================================================================
