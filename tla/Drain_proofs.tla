---------------------------- MODULE Drain_proofs ----------------------------
(* The drain never stalls, for every bound on births and every set of asks:   *)
(* each waiter is woken once and in order, nothing is released twice or read  *)
(* after its release, loops hold two hops and two loop cells at most, and an  *)
(* ended run leaves nothing behind.                                           *)
(*                                                                            *)
(* The invariant is the call stack the drain keeps without having one.  The   *)
(* cells that wait, in the order they were born, are the frames: each reports *)
(* to the frame below it, and the work being done to the topmost.  What the   *)
(* frames have asked for and nobody has begun lies on the ready stack in the  *)
(* same order, and what a fault has kept is a chain in the order of birth     *)
(* above the work.  A cell is live only as one of these, or as the loop cell  *)
(* or the predecessor of one.  From it follows too that the drain implements  *)
(* the call stack of CallStack, step by step.                                 *)
(*                                                                            *)
(* It is stated of a table, the cells as one value, so that an end of a step  *)
(* can be followed through the releases it makes one by one.                  *)
EXTENDS Drain, Counting_proofs

Cell == Cells \cup {NoCell}
Home == Cells \cup {Root}

Table == [life |-> life, kind |-> kind, under |-> under, prov |-> prov, rests |-> rests,
          held |-> held, lost |-> lost, below |-> below]

Tables == [life : [Cells -> {"free", "live", "dead"}],
           kind : [Cells -> {"tree", "tenant"}],
           under : [Cells -> Home],
           prov : [Cells -> Provenance],
           rests : [Cells -> {"none", "birth", "parked", "beside"}],
           held : SUBSET Cells, lost : SUBSET Cells,
           below : [Cells -> Cell]]

Entry == [is : {"live"}, cell : Cells]
         \cup [is : {"beside"}, cell : Cells, kept : Cells]
         \cup [is : {"unborn"}, prov : Provenance, place : {"Fresh", "Shares"}, under : Home,
               after : Cell, old : Cell]

Turn == [cell : Cell, beside : Cell, after : Cell, old : Cell, owes : Cell, first : BOOLEAN]

End == [is : {"finished"}, completed : BOOLEAN]
       \cup [is : {"faulted"}, kept : BOOLEAN]
       \cup [is : {"parked"}, asks : Asks]
       \cup [is : {"beside"}, kept : Cells]
       \cup [is : {"hop"}, threads : BOOLEAN]
       \cup [is : {"rebirth", "left", "done", "failed", "none"}]

\* A fill: a fault names a cell or none, an empty slot nothing.
Fills == {Empty} \cup [is : {"value"}, at : Home] \cup [is : {"fault"}, at : Cell]

-----------------------------------------------------------------------------
\* The invariant of a table `t`, the work `p` being done, by the cell `a` where it has one.

\* A cell of this run that has not been released.
Standing(t, c) == c \in Cells \ t.lost /\ t.life[c] = "live"

\* The cells that wait.
Frames(t, a) == {c \in Cells : Standing(t, c) /\ t.rests[c] # "none" /\ c # a}

Below(S, d) == {c \in S : c < d}
Some(c) == {c} \ {NoCell}

\* Where a value may be placed while the cells of S wait.
Anchors(t, S) == {Root} \cup S \cup ({t.prov[c].loop : c \in S} \ {NoCell})

\* A run whose slot `s` is being answered.
AnswersAt(r, s) ==
    /\ s \in DOMAIN r
    /\ \A i \in DOMAIN r : r[i].is = IF i < s THEN "value" ELSE "empty"

IsLoop(t, c) == Standing(t, c) /\ t.kind[c] = "tree" /\ c \notin t.held

\* Work reports to the topmost of the cells that wait under it; the root work to nobody.
Reports(p, S, R) ==
    \/ p.parent = Root /\ p.slot = 0 /\ S = {} /\ p.loop = NoCell
    \/ /\ p.parent \in S /\ \A c \in S : c <= p.parent
       /\ AnswersAt(R[p.parent], p.slot)

StandsOn(t, p, S, R) ==
    /\ Reports(p, S, R)
    /\ p.home \in Anchors(t, S)
    /\ p.loop # NoCell => IsLoop(t, p.loop)

\* A frame: parked, part of its run answered by values that are still there, and work itself.
IsFrame(t, d, S, R) ==
    /\ t.rests[d] = "parked" /\ d \in t.held
    /\ StandsOn(t, t.prov[d], S, R)
    /\ t.under[d] \in Anchors(t, S) \cup Some(t.prov[d].loop)
    /\ \E s \in DOMAIN R[d] : AnswersAt(R[d], s)
    /\ \A s \in DOMAIN R[d] : R[d][s].is = "value" => R[d][s].at \in Anchors(t, S \cup {d})

\* The cell that does the work lies above every frame.
Acts(t, a, p, W) ==
    /\ Standing(t, a) /\ a \in t.held /\ t.prov[a] = p
    /\ \A c \in W : c < a
    /\ t.under[a] \in Anchors(t, W) \cup Some(p.loop)

Stacked(t, a, p, R) ==
    LET W == Frames(t, a) IN
    /\ \A d \in W : IsFrame(t, d, Below(W, d), R)
    /\ StandsOn(t, p, W, R)
    /\ a # NoCell => Acts(t, a, p, W)

\* Whether work is what answers a slot.
Serves(p, c, s) == p.parent = c /\ p.slot = s

\* A request not yet begun: of an empty slot of a frame that no work answers.
IsAsked(t, p, e, W, R) ==
    LET c == e.prov.parent IN
    /\ e = Asked(e.prov, e.place, c, NoCell, NoCell)
    /\ e.prov.loop = NoCell
    /\ c \in W /\ e.prov.slot \in DOMAIN R[c] /\ R[c][e.prov.slot].is = "empty"
    /\ e.prov.home \in Anchors(t, Below(W, c) \cup {c})
    /\ ~Serves(p, c, e.prov.slot)
    /\ \A d \in W : ~Serves(t.prov[d], c, e.prov.slot)

\* The order of the stack: of frames as they were born, of a frame's slots the first on top.
Above(q, p) == p.parent < q.parent \/ (p.parent = q.parent /\ q.slot < p.slot)

\* The ready stack `S` under the work holds exactly what the frames have still to be answered.
Queued(t, a, p, S, R) ==
    LET W == Frames(t, a) IN
    /\ \A i \in DOMAIN S : IsAsked(t, p, S[i], W, R)
    /\ \A i, j \in DOMAIN S : i < j => Above(S[j].prov, S[i].prov)
    /\ \A c \in W : \A s \in DOMAIN R[c] : R[c][s].is = "empty" =>
          \/ Serves(p, c, s)
          \/ \E d \in W : Serves(t.prov[d], c, s)
          \/ \E i \in DOMAIN S : Serves(S[i].prov, c, s)

\* Every loop cell has one holder: a frame, the work, or as `od` the hop that left it.
Looped(t, a, p, od) ==
    LET W == Frames(t, a) IN
    /\ \A c, d \in W : t.prov[c].loop = t.prov[d].loop /\ t.prov[c].loop # NoCell => c = d
    /\ \A c \in W : t.prov[c].loop # NoCell => t.prov[c].loop \notin {p.loop, od}
    /\ od # NoCell => IsLoop(t, od) /\ od # p.loop
    /\ \A c \in Cells : Standing(t, c) /\ c \notin t.held =>
          c \in {p.loop, od} \/ \E d \in W : t.prov[d].loop = c

\* The cells a fault kept: what stands but does not wait, act or lie aside.
KeptCells(t, a, af, bs) ==
    {c \in Cells : Standing(t, c) /\ c \in t.held /\ t.rests[c] = "none" /\ c \notin {a, af, bs}}

\* They are one chain, from the one the work holds on, each leading to the next born.
FaultChain(t, K, sd) ==
    /\ \/ sd = NoCell /\ K = {}
       \/ sd \in K /\ \A k \in K : sd <= k
    /\ \A k \in K :
          \/ t.below[k] = NoCell /\ \A j \in K : j <= k
          \/ t.below[k] \in K /\ k < t.below[k] /\ \A j \in K : j <= k \/ t.below[k] <= j

\* The cell the work was asked for by, or is done by: all that is kept was born above it.
Floor(a, p) == IF a = NoCell THEN p.parent ELSE a

\* Each kept cell was asked for by no frame and by no cell below the one kept before it.
Raised(t, K, n) ==
    /\ \A k \in K : t.kind[k] = "tree" /\ n < k /\ n <= t.prov[k].parent
    /\ \A j, k \in K : j < k => j <= t.prov[k].parent

\* A predecessor lies aside beside its successor, in a region that stands.
IsBefore(t, af, a, p, od, W) ==
    /\ Standing(t, af) /\ af \in t.held /\ t.rests[af] = "none" /\ af # a
    /\ t.prov[af].parent = p.parent
    /\ t.kind[af] = "tree" \/ t.under[af] \in Anchors(t, W) \cup Some(p.loop) \cup Some(od)

\* A kept cell being read lies aside alone.
IsBeside(t, bs, a, af, od) ==
    /\ af = NoCell /\ od = NoCell
    /\ Standing(t, bs) /\ bs \in t.held /\ t.rests[bs] = "none" /\ bs # a

Keeps(t, a, p, af, od, bs, sd) ==
    LET K == KeptCells(t, a, af, bs) IN
    /\ FaultChain(t, K, sd)
    /\ Raised(t, K \cup Some(bs), Floor(a, p))
    /\ af # NoCell => IsBefore(t, af, a, p, od, Frames(t, a))
    /\ bs # NoCell => IsBeside(t, bs, a, af, od)

\* The whole: `af`, `od` and `bs` lie aside for the work, which holds on to the kept cell `sd`.
Shape(t, a, p, S, R, af, od, bs, sd) ==
    /\ Stacked(t, a, p, R)
    /\ Queued(t, a, p, S, R)
    /\ Looped(t, a, p, od)
    /\ Keeps(t, a, p, af, od, bs, sd)

\* Nothing aside.
Plain(t, a, p, S, R, sd) == Shape(t, a, p, S, R, NoCell, NoCell, NoCell, sd)

-----------------------------------------------------------------------------
\* The invariant of a state.

AllEmpty(r) == \A s \in DOMAIN r : r[s].is = "empty"
Answered(r) == \A s \in DOMAIN r : r[s].is = "value"

\* A wait that a fault in slot `f` ended.
FaultsAt(r, f) ==
    /\ f \in DOMAIN r
    /\ \A s \in DOMAIN r :
          r[s].is = IF s < f THEN "value" ELSE IF s = f THEN "fault" ELSE "empty"

\* A run answered whole, or to a fault that leads to the kept cell `sd`.
WaitOver(r, sd) ==
    \/ Answered(r) /\ sd = NoCell
    \/ \E f \in DOMAIN r : FaultsAt(r, f) /\ sd = r[f].at

\* The top of the ready stack, as the work to be done over the rest of it.
UnbornTop(e, S) ==
    /\ e.is = "unborn"
    /\ Shape(Table, NoCell, e.prov, S, run, e.after, e.old, NoCell, NoCell)
    /\ \/ /\ e.after = NoCell /\ e.old = NoCell /\ e.prov.loop = NoCell
          /\ e.prov.slot # 0 /\ e.under = e.prov.parent
       \/ e.after # NoCell /\ e.under = BirthPlace(e.prov)

LiveTop(e, S) ==
    /\ e.is = "live" /\ rests[e.cell] \in {"birth", "parked"}
    /\ \A s \in Slots(e.cell) : run[e.cell][s].is = "value" =>
          run[e.cell][s].at \in Anchors(Table, Frames(Table, e.cell) \cup {e.cell})
    /\ \E sd \in Cell : /\ WaitOver(run[e.cell], sd)
                        /\ Plain(Table, e.cell, prov[e.cell], S, run, sd)

BesideTop(e, S) ==
    /\ e.is = "beside" /\ rests[e.cell] = "beside" /\ AllEmpty(run[e.cell])
    /\ Plain(Table, e.cell, prov[e.cell], S, run, e.kept)

AtPop ==
    phase = "pop" =>
      /\ ready # <<>>
      /\ LET e == Last(ready)
             S == Front(ready)
         IN  UnbornTop(e, S) \/ LiveTop(e, S) \/ BesideTop(e, S)

\* The shape of a turn over the runs `R`.
InTurn(R) ==
    Shape(Table, Here, prov[Here], ready, R, turn.after, turn.old, turn.beside, turn.owes)

AtStep ==
    phase = "step" =>
      Here # NoCell /\ rests[Here] = "none" /\ AllEmpty(run[Here]) /\ InTurn(run)

\* The runs before the work filed its end.
Unfiled(p) == [run EXCEPT ![p.parent][p.slot] = Empty]

Finishes(p) ==
    /\ ended.is = "finished" /\ p.slot # 0 /\ turn.owes = NoCell /\ rests[Here] = "none"
    /\ InTurn(Unfiled(p))
    /\ run[p.parent][p.slot] = Value(p.home)
    /\ ended.completed <=> p.slot = Len(run[p.parent])

Faults(p) ==
    /\ ended.is = "faulted" /\ p.slot # 0 /\ rests[Here] = "none"
    /\ InTurn(Unfiled(p))
    /\ ended.kept <=> kind[Here] = "tree"
    /\ run[p.parent][p.slot] = Fault(IF ended.kept THEN Here ELSE turn.owes)
    /\ ended.kept => below[Here] = turn.owes

Parks ==
    /\ ended.is = "parked" /\ rests[Here] = "parked" /\ turn.owes = NoCell /\ InTurn(run)
    /\ run[Here] = [s \in 1 .. Len(ended.asks) |-> Empty]

ReadsBeside ==
    /\ ended.is = "beside" /\ rests[Here] = "beside" /\ AllEmpty(run[Here]) /\ InTurn(run)
    /\ ended.kept = turn.owes

Leaves(p) ==
    /\ ended.is \in {"hop", "rebirth", "left", "done"} /\ rests[Here] = "none" /\ InTurn(run)
    /\ ended.is # "left" => turn.owes = NoCell
    /\ (ended.is = "hop" /\ ended.threads) \/ ended.is = "rebirth" => p.slot # 0
    /\ ended.is \in {"left", "done"} => p.slot = 0 /\ ending = turn.owes

AtSettle ==
    phase = "settle" =>
      LET p == prov[Here] IN
      Here # NoCell /\ (Finishes(p) \/ Faults(p) \/ Parks \/ ReadsBeside \/ Leaves(p))

\* An outcome the host has still to drop: the cells it kept and nothing else.
Outlived ==
    LET K == KeptCells(Table, NoCell, NoCell, NoCell) IN
    /\ ready = <<>>
    /\ \A c \in Cells : Standing(Table, c) => c \in K
    /\ FaultChain(Table, K, ending)
    /\ Raised(Table, K, Root)

AtOver ==
    phase = "over" =>
      /\ outcome \in {"left", "failed"}
      /\ outcome = "failed" => ending = NoCell
      /\ outcome = "left" => Outlived

\* The cells born are the first so many.
BornInOrder ==
    \A c \in Cells :
      /\ life[c] = "free" <=> c > Births
      /\ life[c] = "free" => run[c] = <<>> /\ rests[c] = "none" /\ c \notin lost
      /\ c \in held => life[c] = "live"

\* How many births an end has still to make room for.
Need ==
    IF phase # "settle" THEN 0
    ELSE CASE ended.is = "parked" -> Len(ended.asks)
           [] ended.is = "hop" -> 2
           [] ended.is = "rebirth" -> 1
           [] OTHER -> 0

Roomy == phase # "over" => Births + Cardinality(Unborn) + Need <= MaxCells

Quiet ==
    /\ phase # "over" => outcome = "none"
    /\ phase \in {"pop", "step"} \/ (phase = "settle" /\ ended.is \notin {"left", "done"})
          => ending = NoCell
    /\ phase = "pop" \/ outcome = "left" => turn = Idle

Typed ==
    /\ Table \in Tables
    /\ run \in [Cells -> Seq(Fills)]
    /\ ready \in Seq(Entry)
    /\ turn \in Turn /\ ended \in End
    /\ phase \in {"pop", "step", "settle", "over"}
    /\ outcome \in Stalls \cup {"none", "left", "failed"}
    /\ ending \in Cell /\ runs \in 1 .. MaxRuns

IInv ==
    /\ Typed /\ BornInOrder /\ Roomy /\ Quiet
    /\ AtPop /\ AtStep /\ AtSettle /\ AtOver
    /\ InOrder /\ TwoHops

-----------------------------------------------------------------------------
\* Tables.

\* What is released: out of the table, its borrow given back.
Dead(t, D) ==
    [t EXCEPT !.life = [c \in Cells |-> IF c \in D THEN "dead" ELSE t.life[c]],
              !.held = t.held \ D]

\* Where the provenances of some cells are the same, so are the anchors they give.
LEMMA AnchorsSame ==
    ASSUME NEW t, NEW u, NEW S, \A c \in S : u.prov[c] = t.prov[c]
    PROVE  Anchors(u, S) = Anchors(t, S)
BY DEF Anchors

\* What is said of a frame is said of it, of the frames below it and of its loop cell.
LEMMA FrameKept ==
    ASSUME NEW t, NEW u, NEW d, NEW S, NEW R, NEW Q,
           IsFrame(t, d, S, R),
           \A c \in S \cup {d} : u.prov[c] = t.prov[c] /\ Q[c] = R[c],
           u.rests[d] = t.rests[d], u.under[d] = t.under[d], d \in u.held,
           t.prov[d].loop # NoCell => IsLoop(u, t.prov[d].loop)
    PROVE  IsFrame(u, d, S, Q)
<1>1. Anchors(u, S) = Anchors(t, S) /\ Anchors(u, S \cup {d}) = Anchors(t, S \cup {d})
  BY AnchorsSame
<1>2. Reports(t.prov[d], S, Q)
  BY DEF IsFrame, StandsOn, Reports
<1> QED
  BY <1>1, <1>2 DEF IsFrame, StandsOn

\* What is said of work is said of the frames and of its loop cell.
LEMMA StandsKept ==
    ASSUME NEW t, NEW u, NEW p, NEW S, NEW R, NEW Q,
           StandsOn(t, p, S, R),
           \A c \in S : u.prov[c] = t.prov[c] /\ Q[c] = R[c],
           p.loop # NoCell => IsLoop(u, p.loop)
    PROVE  StandsOn(u, p, S, Q)
<1>1. Anchors(u, S) = Anchors(t, S)
  BY AnchorsSame
<1>2. Reports(p, S, Q)
  BY DEF StandsOn, Reports
<1> QED
  BY <1>1, <1>2 DEF StandsOn

\* A table of the same frames, with their provenances and runs, queues the same.
LEMMA QueuedKept ==
    ASSUME NEW t, NEW u, NEW a, NEW b, NEW p, NEW S, NEW R, NEW Q,
           Queued(t, a, p, S, R), Frames(u, b) = Frames(t, a),
           \A c \in Frames(t, a) : u.prov[c] = t.prov[c] /\ Q[c] = R[c]
    PROVE  Queued(u, b, p, S, Q)
<1> DEFINE W == Frames(t, a)
<1>1. \A X \in SUBSET W : Anchors(u, X) = Anchors(t, X)
  BY AnchorsSame
<1>2. ASSUME NEW i \in DOMAIN S PROVE IsAsked(u, p, S[i], W, Q)
  <2>1. IsAsked(t, p, S[i], W, R)
    BY DEF Queued
  <2>2. Below(W, S[i].prov.parent) \cup {S[i].prov.parent} \in SUBSET W
    BY <2>1 DEF Below, IsAsked
  <2> HIDE DEF W
  <2>3. Anchors(u, Below(W, S[i].prov.parent) \cup {S[i].prov.parent})
          = Anchors(t, Below(W, S[i].prov.parent) \cup {S[i].prov.parent})
    BY <1>1, <2>2
  <2> QED
    BY <2>1, <2>3 DEF IsAsked, W
<1> QED
  BY <1>2 DEF Queued

\* What a release leaves of a table.
LEMMA DeadTable ==
    ASSUME NEW t \in Tables, NEW D
    PROVE  /\ Dead(t, D) \in Tables
           /\ Dead(t, D).kind = t.kind /\ Dead(t, D).under = t.under
           /\ Dead(t, D).prov = t.prov /\ Dead(t, D).rests = t.rests
           /\ Dead(t, D).lost = t.lost /\ Dead(t, D).below = t.below
           /\ Dead(t, D).held = t.held \ D
           /\ \A c \in Cells : Dead(t, D).life[c] = IF c \in D THEN "dead" ELSE t.life[c]
           /\ \A c : Standing(Dead(t, D), c) <=> Standing(t, c) /\ c \notin D
           /\ \A c : IsLoop(Dead(t, D), c) <=> IsLoop(t, c) /\ c \notin D
<1> DEFINE life2 == [c \in Cells |-> IF c \in D THEN "dead" ELSE t.life[c]]
           held2 == t.held \ D
<1>1. Dead(t, D) = [t EXCEPT !.life = life2, !.held = held2]
  BY DEF Dead
<1>2. life2 \in [Cells -> {"free", "live", "dead"}]
  BY DEF Tables
<1>3. \A c \in Cells : life2[c] = IF c \in D THEN "dead" ELSE t.life[c]
  OBVIOUS
<1>a. held2 \in SUBSET Cells
  BY DEF Tables
<1> HIDE DEF life2, held2
<1>4. Dead(t, D) \in Tables /\ Dead(t, D).life = life2 /\ Dead(t, D).held = held2
  <2>1. \A l, h : l \in [Cells -> {"free", "live", "dead"}] /\ h \in SUBSET Cells =>
            LET u == [t EXCEPT !.life = l, !.held = h] IN u \in Tables /\ u.life = l /\ u.held = h
    BY DEF Tables
  <2>2. LET u == [t EXCEPT !.life = life2, !.held = held2]
        IN  u \in Tables /\ u.life = life2 /\ u.held = held2
    BY <1>2, <1>a, <2>1
  <2> QED
    BY <1>1, <2>2
<1>5. /\ Dead(t, D).kind = t.kind /\ Dead(t, D).under = t.under
      /\ Dead(t, D).prov = t.prov /\ Dead(t, D).rests = t.rests
      /\ Dead(t, D).lost = t.lost /\ Dead(t, D).below = t.below
  BY <1>1 DEF Tables
<1>6. \A c : Standing(Dead(t, D), c) <=> Standing(t, c) /\ c \notin D
  BY <1>3, <1>4, <1>5 DEF Standing
<1> QED
  BY <1>3, <1>4, <1>5, <1>6 DEF IsLoop, Standing, held2

\* What lies aside can be released without touching the rest.
LEMMA ReleaseAside ==
    ASSUME NEW t \in Tables, NEW a \in Cell, NEW p, NEW S, NEW R,
           NEW af \in Cell, NEW od \in Cell, NEW bs \in Cell, NEW sd,
           Shape(t, a, p, S, R, af, od, bs, sd)
    PROVE  Plain(Dead(t, {af, od, bs}), a, p, S, R, sd)
<1> DEFINE D == {af, od, bs}
           u == Dead(t, D)
           W == Frames(t, a)
<1>1. /\ u.kind = t.kind /\ u.under = t.under /\ u.prov = t.prov /\ u.rests = t.rests
      /\ u.below = t.below /\ u.held = t.held \ D
      /\ \A c : Standing(u, c) <=> Standing(t, c) /\ c \notin D
      /\ \A c : IsLoop(u, c) <=> IsLoop(t, c) /\ c \notin D
  BY DeadTable
<1> HIDE DEF u
<1>2. NoCell \notin Cells
  BY DrainAssumption DEF Cells, NoCell
<1>3. /\ af # NoCell => af \in t.held /\ t.rests[af] = "none" /\ af # a
      /\ bs # NoCell => bs \in t.held /\ t.rests[bs] = "none" /\ bs # a
      /\ od # NoCell => od \notin t.held /\ od # p.loop
  BY DEF Shape, Keeps, IsBefore, IsBeside, Looped, IsLoop
<1>4. \A c \in W : c \in Cells /\ c \in t.held /\ t.rests[c] # "none"
  BY DEF Shape, Stacked, IsFrame, Frames
<1>5. Frames(u, a) = W
  BY <1>1, <1>2, <1>3, <1>4 DEF Frames, D
<1>6. \A c \in W : c \in u.held
  BY <1>1, <1>2, <1>3, <1>4 DEF D
<1>7. \A c \in W : t.prov[c].loop # NoCell => IsLoop(u, t.prov[c].loop)
  <2>1. ASSUME NEW c \in W, t.prov[c].loop # NoCell
        PROVE  IsLoop(t, t.prov[c].loop) /\ t.prov[c].loop # od
    BY <2>1 DEF Shape, Stacked, IsFrame, StandsOn, Looped
  <2> QED
    BY <1>1, <1>3, <2>1 DEF IsLoop, D
<1>8. p.loop # NoCell => IsLoop(u, p.loop)
  BY <1>1, <1>3 DEF Shape, Stacked, StandsOn, IsLoop, D
<1>9. Stacked(u, a, p, R)
  <2>1. ASSUME NEW d \in W PROVE IsFrame(u, d, Below(W, d), R)
    <3>1. IsFrame(t, d, Below(W, d), R)
      BY DEF Shape, Stacked
    <3> QED
      BY <1>1, <1>6, <1>7, <3>1, FrameKept
  <2>2. StandsOn(u, p, W, R)
    BY <1>1, <1>8, StandsKept DEF Shape, Stacked
  <2>3. Anchors(u, W) = Anchors(t, W)
    BY <1>1, AnchorsSame
  <2>4. a # NoCell => Acts(u, a, p, W)
    BY <1>1, <1>2, <1>3, <2>3 DEF Shape, Stacked, Acts, Standing, D
  <2> QED
    BY <1>5, <2>1, <2>2, <2>4 DEF Stacked
<1>10. Queued(u, a, p, S, R)
  BY <1>1, <1>5, QueuedKept DEF Shape
<1>11. Looped(u, a, p, NoCell)
  <2>1. ASSUME NEW c \in Cells, Standing(u, c), c \notin u.held
        PROVE  c = p.loop \/ \E d \in W : u.prov[d].loop = c
    BY <1>1, <2>1 DEF Shape, Looped, D
  <2> QED
    BY <1>1, <1>5, <2>1 DEF Shape, Looped
<1>12. Keeps(u, a, p, NoCell, NoCell, NoCell, sd)
  <2>1. KeptCells(u, a, NoCell, NoCell) = KeptCells(t, a, af, bs)
    BY <1>1, <1>2, <1>3 DEF KeptCells, D, Shape, Looped, IsLoop
  <2>2. KeptCells(t, a, af, bs) \cup Some(NoCell) \subseteq KeptCells(t, a, af, bs) \cup Some(bs)
    BY DEF Some
  <2>3. FaultChain(u, KeptCells(t, a, af, bs), sd)
    BY <1>1 DEF Shape, Keeps, FaultChain
  <2>4. Raised(u, KeptCells(t, a, af, bs) \cup Some(NoCell), Floor(a, p))
    BY <1>1, <2>2 DEF Shape, Keeps, Raised
  <2> QED
    BY <2>1, <2>3, <2>4 DEF Keeps
<1> QED
  BY <1>9, <1>10, <1>11, <1>12 DEF Plain, Shape, u, D

\* A step moves nothing of its own cell that the shape tells: its rest, what it leads to, its run.
LEMMA ActorMoves ==
    ASSUME NEW t \in Tables, NEW u \in Tables, NEW a \in Cells, NEW p, NEW S, NEW R, NEW Q,
           NEW af \in Cell, NEW od \in Cell, NEW bs \in Cell, NEW sd,
           Shape(t, a, p, S, R, af, od, bs, sd),
           u.life = t.life, u.kind = t.kind, u.under = t.under, u.prov = t.prov,
           u.held = t.held, u.lost = t.lost,
           \A c \in Cells \ {a} : u.rests[c] = t.rests[c] /\ u.below[c] = t.below[c],
           \A c \in Frames(t, a) : Q[c] = R[c]
    PROVE  Shape(u, a, p, S, Q, af, od, bs, sd)
<1> DEFINE W == Frames(t, a)
           K == KeptCells(t, a, af, bs)
<1>1. \A c : (Standing(u, c) <=> Standing(t, c)) /\ (IsLoop(u, c) <=> IsLoop(t, c))
  BY DEF Standing, IsLoop
<1>2. \A c \in W : c \in Cells \ {a}
  BY DEF Frames
<1>3. Frames(u, a) = W
  BY <1>1 DEF Frames
<1>4. Stacked(u, a, p, Q)
  <2>1. ASSUME NEW d \in W PROVE IsFrame(u, d, Below(W, d), Q)
    <3>1. IsFrame(t, d, Below(W, d), R)
      BY DEF Shape, Stacked
    <3>2. t.prov[d].loop # NoCell => IsLoop(u, t.prov[d].loop)
      BY <1>1, <3>1 DEF IsFrame, StandsOn
    <3>3. Below(W, d) \subseteq W /\ d \in u.held
      BY <3>1 DEF Below, IsFrame
    <3> QED
      BY <1>2, <3>1, <3>2, <3>3, FrameKept
  <2>2. StandsOn(u, p, W, Q)
    <3>1. p.loop # NoCell => IsLoop(u, p.loop)
      BY <1>1 DEF Shape, Stacked, StandsOn
    <3> QED
      BY <3>1, StandsKept DEF Shape, Stacked
  <2>3. Anchors(u, W) = Anchors(t, W)
    BY AnchorsSame
  <2>4. a # NoCell => Acts(u, a, p, W)
    BY <1>1, <2>3 DEF Shape, Stacked, Acts
  <2> QED
    BY <1>3, <2>1, <2>2, <2>4 DEF Stacked
<1>5. Queued(u, a, p, S, Q)
  BY <1>3, QueuedKept DEF Shape
<1>6. Looped(u, a, p, od)
  BY <1>1, <1>3 DEF Shape, Looped
<1>7. Keeps(u, a, p, af, od, bs, sd)
  <2>1. KeptCells(u, a, af, bs) = K
    BY <1>1 DEF KeptCells
  <2>2. \A k \in K : u.below[k] = t.below[k]
    BY DEF KeptCells
  <2>3. FaultChain(u, K, sd)
    BY <2>2 DEF Shape, Keeps, FaultChain
  <2>4. Raised(u, K \cup Some(bs), Floor(a, p))
    BY DEF Shape, Keeps, Raised
  <2>5. Anchors(u, W) = Anchors(t, W)
    BY AnchorsSame
  <2>6. af # NoCell => IsBefore(u, af, a, p, od, W)
    <3> SUFFICES ASSUME af # NoCell PROVE IsBefore(u, af, a, p, od, W)
      OBVIOUS
    <3>1. IsBefore(t, af, a, p, od, W)
      BY DEF Shape, Keeps
    <3>2. af \in Cells \ {a}
      BY <3>1 DEF IsBefore, Standing
    <3> QED
      BY <1>1, <2>5, <3>1, <3>2 DEF IsBefore
  <2>7. bs # NoCell => IsBeside(u, bs, a, af, od)
    <3> SUFFICES ASSUME bs # NoCell PROVE IsBeside(u, bs, a, af, od)
      OBVIOUS
    <3>1. IsBeside(t, bs, a, af, od)
      BY DEF Shape, Keeps
    <3>2. bs \in Cells \ {a}
      BY <3>1 DEF IsBeside, Standing
    <3> QED
      BY <1>1, <3>1, <3>2 DEF IsBeside
  <2> QED
    BY <1>3, <2>1, <2>3, <2>4, <2>6, <2>7 DEF Keeps
<1> QED
  BY <1>4, <1>5, <1>6, <1>7 DEF Shape

\* A kept cell taken up to be read lies aside, and the work holds on to the next.
LEMMA TakeUp ==
    ASSUME NEW t \in Tables, NEW a \in Cells, NEW p, NEW S, NEW R, NEW k \in Cells,
           Plain(t, a, p, S, R, k)
    PROVE  /\ Shape(t, a, p, S, R, NoCell, NoCell, k, t.below[k])
           /\ k \in KeptCells(t, a, NoCell, NoCell)
<1> DEFINE K == KeptCells(t, a, NoCell, NoCell)
<1>1. NoCell \notin Cells /\ Cells \subseteq Int /\ NoCell \in Int
  BY DrainAssumption DEF Cells, NoCell
<1>2. FaultChain(t, K, k) /\ Raised(t, K \cup Some(NoCell), Floor(a, p))
  BY DEF Plain, Shape, Keeps
<1>3. k \in K /\ \A j \in K : k <= j
  BY <1>1, <1>2 DEF FaultChain
<1>4. KeptCells(t, a, NoCell, k) = K \ {k}
  BY <1>1 DEF KeptCells
<1>5. K \subseteq Cells
  BY DEF KeptCells
<1> HIDE DEF K
<1>6. FaultChain(t, K \ {k}, t.below[k])
  <2>1. \A j \in K \ {k} : k < j
    BY <1>1, <1>3, <1>5
  <2>2. \/ t.below[k] = NoCell /\ K \ {k} = {}
        \/ t.below[k] \in K \ {k} /\ \A j \in K \ {k} : t.below[k] <= j
    <3>1. \/ t.below[k] = NoCell /\ \A j \in K : j <= k
          \/ t.below[k] \in K /\ k < t.below[k] /\ \A j \in K : j <= k \/ t.below[k] <= j
      BY <1>2, <1>3 DEF FaultChain
    <3>2. \A j \in K \ {k} : ~(j <= k)
      BY <1>1, <1>5, <2>1
    <3>3. CASE t.below[k] = NoCell /\ \A j \in K : j <= k
      BY <3>2, <3>3
    <3>4. CASE t.below[k] \in K /\ k < t.below[k] /\ \A j \in K : j <= k \/ t.below[k] <= j
      BY <1>1, <1>5, <3>2, <3>4
    <3> QED
      BY <3>1, <3>3, <3>4
  <2>3. ASSUME NEW j \in K \ {k}
        PROVE  \/ t.below[j] = NoCell /\ \A i \in K \ {k} : i <= j
               \/ t.below[j] \in K \ {k} /\ j < t.below[j]
                    /\ \A i \in K \ {k} : i <= j \/ t.below[j] <= i
    <3>1. \/ t.below[j] = NoCell /\ \A i \in K : i <= j
          \/ t.below[j] \in K /\ j < t.below[j] /\ \A i \in K : i <= j \/ t.below[j] <= i
      BY <1>2 DEF FaultChain
    <3> QED
      BY <1>1, <1>3, <1>5, <2>1, <3>1
  <2> QED
    BY <2>2, <2>3 DEF FaultChain
<1>7. (K \ {k}) \cup Some(k) = K \cup Some(NoCell)
  BY <1>1, <1>3 DEF Some
<1>8. Keeps(t, a, p, NoCell, NoCell, k, t.below[k])
  BY <1>2, <1>3, <1>4, <1>6, <1>7 DEF Keeps, IsBeside, KeptCells, K
<1> QED
  BY <1>3, <1>8 DEF Plain, Shape, K

\* A frame stands on frames before it alone, and its parent is one of them or the root.
LEMMA FrameFacts ==
    ASSUME NEW t \in Tables, NEW a, NEW p, NEW R, Stacked(t, a, p, R), NEW d \in Frames(t, a)
    PROVE  /\ d \in Cells /\ Standing(t, d) /\ d \in t.held /\ t.rests[d] = "parked" /\ d # a
           /\ t.prov[d].loop # NoCell => IsLoop(t, t.prov[d].loop)
           /\ t.prov[d].parent # Root => t.prov[d].parent \in Frames(t, a) /\ t.prov[d].parent < d
<1>1. IsFrame(t, d, Below(Frames(t, a), d), R)
  BY DEF Stacked
<1> QED
  BY <1>1 DEF IsFrame, StandsOn, Reports, Frames, Below

\* The cell of a request is born: it does the work.
LEMMA Enters ==
    ASSUME NEW t \in Tables, NEW u \in Tables, NEW n \in Cells, NEW p, NEW S, NEW R,
           NEW af \in Cell, NEW od \in Cell,
           Shape(t, NoCell, p, S, R, af, od, NoCell, NoCell),
           t.life[n] = "free", n \notin t.lost, n \notin t.held,
           \A c \in Cells : Standing(t, c) => c < n,
           u.lost = t.lost, u.below = t.below, u.held = t.held \cup {n},
           \A c \in Cells \ {n} : /\ u.life[c] = t.life[c] /\ u.kind[c] = t.kind[c]
                                  /\ u.under[c] = t.under[c] /\ u.prov[c] = t.prov[c]
                                  /\ u.rests[c] = t.rests[c],
           u.life[n] = "live", u.prov[n] = p, u.rests[n] = "none",
           u.under[n] \in Anchors(t, Frames(t, NoCell)) \cup Some(p.loop)
    PROVE  Shape(u, n, p, S, R, af, od, NoCell, NoCell)
<1> DEFINE W == Frames(t, NoCell)
<1>1. \A c : Standing(t, c) => c \in Cells \ {n}
  BY DEF Standing
<1>2. \A c : Standing(u, c) <=> Standing(t, c) \/ c = n
  BY DEF Standing
<1>3. \A c : IsLoop(t, c) => IsLoop(u, c)
  BY <1>1, <1>2 DEF IsLoop
<1>4. \A c \in W : c \in Cells \ {n} /\ c \in u.held /\ c < n
  BY <1>1, FrameFacts DEF Frames, Shape
<1>5. NoCell \notin Cells
  BY DrainAssumption DEF Cells, NoCell
<1>6. Frames(u, n) = W
  BY <1>1, <1>2, <1>5 DEF Frames
<1>7. \A X \in SUBSET W : Anchors(u, X) = Anchors(t, X)
  BY <1>4, AnchorsSame
<1>8. Stacked(u, n, p, R)
  <2>1. ASSUME NEW d \in W PROVE IsFrame(u, d, Below(W, d), R)
    <3>1. IsFrame(t, d, Below(W, d), R)
      BY DEF Shape, Stacked
    <3>2. t.prov[d].loop # NoCell => IsLoop(u, t.prov[d].loop)
      BY <1>3, FrameFacts DEF Shape
    <3>3. \A c \in Below(W, d) \cup {d} : c \in W
      BY DEF Below
    <3> QED
      BY <1>4, <3>1, <3>2, <3>3, FrameKept
  <2>2. StandsOn(u, p, W, R)
    <3>1. StandsOn(t, p, W, R) /\ (p.loop # NoCell => IsLoop(u, p.loop))
      BY <1>3 DEF Shape, Stacked, StandsOn
    <3>2. \A c \in W : u.prov[c] = t.prov[c]
      BY <1>4
    <3> QED
      BY <3>1, <3>2, StandsKept
  <2>3. Acts(u, n, p, W)
    BY <1>2, <1>4, <1>7 DEF Acts
  <2> QED
    BY <1>6, <2>1, <2>2, <2>3 DEF Stacked
<1>9. Queued(u, n, p, S, R)
  BY <1>4, <1>6, QueuedKept DEF Shape
<1>10. Looped(u, n, p, od)
  <2>1. \A c \in W : u.prov[c] = t.prov[c]
    BY <1>4
  <2>2. Looped(t, NoCell, p, od)
    BY DEF Shape
  <2>3. ASSUME NEW c \in Cells, Standing(u, c), c \notin u.held
        PROVE  c \in {p.loop, od} \/ \E d \in W : t.prov[d].loop = c
    BY <1>2, <2>2, <2>3 DEF Looped
  <2> QED
    BY <1>3, <1>6, <2>1, <2>2, <2>3 DEF Looped
<1>11. Keeps(u, n, p, af, od, NoCell, NoCell)
  <2>1. Keeps(t, NoCell, p, af, od, NoCell, NoCell)
    BY DEF Shape
  <2>2. KeptCells(t, NoCell, af, NoCell) = {}
    BY <1>5, <2>1 DEF Keeps, FaultChain, KeptCells
  <2>3. KeptCells(u, n, af, NoCell) = {}
    BY <1>1, <1>2, <1>5, <2>2 DEF KeptCells
  <2>4. FaultChain(u, {}, NoCell) /\ Raised(u, {} \cup Some(NoCell), Floor(n, p))
    BY DEF FaultChain, Raised, Some
  <2>5. ASSUME af # NoCell PROVE IsBefore(u, af, n, p, od, W)
    <3>1. IsBefore(t, af, NoCell, p, od, W)
      BY <2>1, <2>5 DEF Keeps
    <3>2. af \in Cells \ {n}
      BY <1>1, <3>1 DEF IsBefore
    <3> QED
      BY <1>2, <1>7, <3>1, <3>2 DEF IsBefore
  <2> QED
    BY <1>6, <2>3, <2>4, <2>5 DEF Keeps
<1> QED
  BY <1>8, <1>9, <1>10, <1>11 DEF Shape

\* A hop leaves its cell aside for its successor.
LEMMA HopOn ==
    ASSUME NEW t \in Tables, NEW a \in Cells, NEW p, NEW q, NEW S, NEW R,
           Plain(t, a, p, S, R, NoCell), t.rests[a] = "none",
           q.parent = p.parent, q.slot = p.slot, q.home = p.home, q.loop = p.loop
    PROVE  Shape(t, NoCell, q, S, R, a, NoCell, NoCell, NoCell)
<1> DEFINE W == Frames(t, a)
<1>1. NoCell \notin Cells
  BY DrainAssumption DEF Cells, NoCell
<1>2. Frames(t, NoCell) = W
  BY <1>1 DEF Frames
<1>3. Acts(t, a, p, W) /\ StandsOn(t, p, W, R)
  BY <1>1 DEF Plain, Shape, Stacked
<1>4. StandsOn(t, q, W, R)
  BY <1>3 DEF StandsOn, Reports
<1>5. Stacked(t, NoCell, q, R)
  BY <1>2, <1>4 DEF Plain, Shape, Stacked
<1>6. \A c, s : Serves(q, c, s) <=> Serves(p, c, s)
  BY DEF Serves
<1>7. \A e, X : IsAsked(t, q, e, X, R) <=> IsAsked(t, p, e, X, R)
  BY <1>6 DEF IsAsked
<1>8. Queued(t, NoCell, q, S, R)
  BY <1>2, <1>6, <1>7 DEF Plain, Shape, Queued
<1>9. Looped(t, NoCell, q, NoCell)
  BY <1>2 DEF Plain, Shape, Looped
<1>10. Keeps(t, NoCell, q, a, NoCell, NoCell, NoCell)
  <2>1. KeptCells(t, a, NoCell, NoCell) = {}
    BY <1>1 DEF Plain, Shape, Keeps, FaultChain, KeptCells
  <2>2. KeptCells(t, NoCell, a, NoCell) = {}
    BY <2>1 DEF KeptCells
  <2>3. FaultChain(t, {}, NoCell) /\ Raised(t, {} \cup Some(NoCell), Floor(NoCell, q))
    BY DEF FaultChain, Raised, Some
  <2>4. IsBefore(t, a, NoCell, q, NoCell, W)
    BY <1>1, <1>3 DEF IsBefore, Acts
  <2> QED
    BY <1>2, <2>2, <2>3, <2>4 DEF Keeps
<1> QED
  BY <1>5, <1>8, <1>9, <1>10 DEF Shape

\* A loop cell is made for it, and the one it was born under lies aside too.
LEMMA LoopMade ==
    ASSUME NEW t \in Tables, NEW u \in Tables, NEW n \in Cells, NEW p, NEW q, NEW S, NEW R,
           NEW af \in Cell,
           Shape(t, NoCell, p, S, R, af, NoCell, NoCell, NoCell),
           t.life[n] = "free", n \notin t.lost, n \notin t.held,
           u.lost = t.lost, u.below = t.below, u.held = t.held, u.prov = t.prov,
           u.rests = t.rests,
           \A c \in Cells \ {n} : /\ u.life[c] = t.life[c] /\ u.kind[c] = t.kind[c]
                                  /\ u.under[c] = t.under[c],
           u.life[n] = "live", u.kind[n] = "tree", u.rests[n] = "none",
           p.slot # 0,
           q.parent = p.parent, q.slot = p.slot, q.home = p.home, q.loop = n
    PROVE  Shape(u, NoCell, q, S, R, af, p.loop, NoCell, NoCell)
<1> DEFINE W == Frames(t, NoCell)
<1>1. \A c : Standing(t, c) => c \in Cells \ {n}
  BY DEF Standing
<1>2. \A c : Standing(u, c) <=> Standing(t, c) \/ c = n
  BY DEF Standing
<1>3. (\A c : IsLoop(t, c) => IsLoop(u, c) /\ c # n) /\ IsLoop(u, n)
  BY <1>1, <1>2 DEF IsLoop
<1>4. \A c \in W : c \in Cells \ {n}
  BY <1>1 DEF Frames
<1>5. NoCell \notin Cells
  BY DrainAssumption DEF Cells, NoCell
<1>6. Frames(u, NoCell) = W
  BY <1>1, <1>2, <1>5 DEF Frames
<1>7. \A X : Anchors(u, X) = Anchors(t, X)
  BY DEF Anchors
<1>8. Stacked(u, NoCell, q, R)
  <2>1. ASSUME NEW d \in W PROVE IsFrame(u, d, Below(W, d), R)
    <3>1. IsFrame(t, d, Below(W, d), R)
      BY DEF Shape, Stacked
    <3>2. t.prov[d].loop # NoCell => IsLoop(u, t.prov[d].loop)
      BY <1>3, FrameFacts DEF Shape
    <3>3. u.under[d] = t.under[d] /\ d \in u.held
      BY <1>4, <3>1 DEF IsFrame
    <3> QED
      BY <3>1, <3>2, <3>3, FrameKept
  <2>2. StandsOn(u, q, W, R)
    BY <1>3, <1>7 DEF Shape, Stacked, StandsOn, Reports
  <2> QED
    BY <1>6, <2>1, <2>2 DEF Stacked
<1>9. Queued(u, NoCell, q, S, R)
  <2>1. Queued(u, NoCell, p, S, R)
    BY <1>6, QueuedKept DEF Shape
  <2>2. \A c, s : Serves(q, c, s) <=> Serves(p, c, s)
    BY DEF Serves
  <2>3. \A e, X : IsAsked(u, q, e, X, R) <=> IsAsked(u, p, e, X, R)
    BY <2>2 DEF IsAsked
  <2> QED
    BY <2>1, <2>2, <2>3 DEF Queued
<1>10. Looped(u, NoCell, q, p.loop)
  <2>1. Looped(t, NoCell, p, NoCell)
    BY DEF Shape
  <2>2. \A d \in W : t.prov[d].loop # n
    BY <1>1, <1>5, FrameFacts DEF Shape, IsLoop
  <2>3. p.loop # n /\ (p.loop # NoCell => IsLoop(u, p.loop))
    BY <1>3, <1>5 DEF Shape, Stacked, StandsOn
  <2>4. ASSUME NEW c \in Cells, Standing(u, c), c \notin u.held
        PROVE  c \in {n, p.loop} \/ \E d \in W : t.prov[d].loop = c
    BY <1>2, <2>1, <2>4, <1>5 DEF Looped
  <2> QED
    BY <1>6, <2>1, <2>2, <2>3, <2>4 DEF Looped
<1>11. Keeps(u, NoCell, q, af, p.loop, NoCell, NoCell)
  <2>1. Keeps(t, NoCell, p, af, NoCell, NoCell, NoCell)
    BY DEF Shape
  <2>2. KeptCells(t, NoCell, af, NoCell) = {}
    BY <1>5, <2>1 DEF Keeps, FaultChain, KeptCells
  <2>3. KeptCells(u, NoCell, af, NoCell) = {}
    BY <1>2, <2>2 DEF KeptCells
  <2>4. FaultChain(u, {}, NoCell) /\ Raised(u, {} \cup Some(NoCell), Floor(NoCell, q))
    BY DEF FaultChain, Raised, Some
  <2>5. ASSUME af # NoCell PROVE IsBefore(u, af, NoCell, q, p.loop, W)
    <3>1. IsBefore(t, af, NoCell, p, NoCell, W)
      BY <2>1, <2>5 DEF Keeps
    <3>2. af \in Cells \ {n}
      BY <1>1, <3>1 DEF IsBefore
    <3> QED
      BY <1>2, <1>7, <3>1, <3>2 DEF IsBefore, Some
  <2> QED
    BY <1>6, <2>3, <2>4, <2>5 DEF Keeps
<1> QED
  BY <1>8, <1>9, <1>10, <1>11 DEF Shape

\* Of numbers, all but the greatest lie below it, and it below none.
LEMMA BelowTop ==
    ASSUME NEW X \in SUBSET Int, NEW w \in X, \A c \in X : c <= w
    PROVE  /\ Below(X, w) = X \ {w}
           /\ \A d \in X : Below(X, d) = Below(X \ {w}, d)
           /\ \A d \in X : w \notin Below(X, d) /\ ~(w < d)
<1>1. \A d \in X : ~(w < d)
  OBVIOUS
<1>2. \A d \in X : Below(X, d) = Below(X \ {w}, d)
  BY <1>1 DEF Below
<1>3. \A d \in X : d < w <=> d # w
  OBVIOUS
<1>4. Below(X, w) = X \ {w}
  BY <1>1, <1>3 DEF Below
<1> QED
  BY <1>1, <1>2, <1>4 DEF Below

\* The work's parent is the topmost frame, and what lies under it and it are all the frames.
LEMMA TopFrame ==
    ASSUME NEW t \in Tables, NEW a, NEW p, NEW R, Stacked(t, a, p, R), p.slot # 0
    PROVE  LET W == Frames(t, a) IN
           /\ p.parent \in W /\ \A c \in W : c <= p.parent
           /\ AnswersAt(R[p.parent], p.slot)
           /\ W \subseteq Cells
           /\ Below(W, p.parent) = W \ {p.parent}
           /\ \A d \in W : Below(W, d) = Below(W \ {p.parent}, d)
           /\ \A d \in W : t.prov[d].parent # p.parent
<1> DEFINE W == Frames(t, a)
<1>1. W \subseteq Cells /\ Cells \subseteq Int
  BY DEF Frames, Cells
<1>2. p.parent \in W /\ (\A c \in W : c <= p.parent) /\ AnswersAt(R[p.parent], p.slot)
  BY DEF Stacked, StandsOn, Reports
<1>a. Root \notin Cells /\ (\A d \in W : t.prov[d].parent # Root =>
          t.prov[d].parent < d /\ t.prov[d].parent \in W)
  BY FrameFacts, DrainAssumption DEF Cells, Root
<1> HIDE DEF W
<1>b. W \in SUBSET Int
  BY <1>1
<1>3. /\ \A d \in W : Below(W, d) = Below(W \ {p.parent}, d)
      /\ \A d \in W : ~(p.parent < d)
  BY <1>b, <1>2, BelowTop
<1>4. Below(W, p.parent) = W \ {p.parent}
  BY <1>b, <1>2, BelowTop
<1>5. ASSUME NEW d \in W PROVE t.prov[d].parent # p.parent
  <2> SUFFICES ASSUME t.prov[d].parent = p.parent PROVE FALSE
    OBVIOUS
  <2>1. t.prov[d].parent # Root
    BY <1>1, <1>2, <1>a
  <2>2. p.parent < d
    BY <1>a, <2>1
  <2> QED
    BY <1>3, <2>2
<1> QED
  BY <1>1, <1>2, <1>3, <1>4, <1>5 DEF W

\* The cell that did the work goes with its loop cell.
LEMMA ActorEnds ==
    ASSUME NEW t \in Tables, NEW a \in Cells, NEW p, NEW q, NEW S, NEW R, NEW sd, NEW D,
           Plain(t, a, p, S, R, sd), p.slot # 0,
           \/ D = {a, p.loop}
           \/ D = {p.loop} /\ t.kind[a] = "tree" /\ t.rests[a] = "none" /\ t.below[a] = sd,
           q.parent = p.parent, q.slot = p.slot, q.home = p.home, q.loop = NoCell
    PROVE  Plain(Dead(t, D), NoCell, q, S, R, IF a \in D THEN sd ELSE a)
<1> DEFINE u == Dead(t, D)
           W == Frames(t, a)
           K == KeptCells(t, a, NoCell, NoCell)
<1>1. /\ u.kind = t.kind /\ u.under = t.under /\ u.prov = t.prov /\ u.rests = t.rests
      /\ u.below = t.below /\ u.held = t.held \ D
      /\ \A c : Standing(u, c) <=> Standing(t, c) /\ c \notin D
      /\ \A c : IsLoop(u, c) <=> IsLoop(t, c) /\ c \notin D
  BY DeadTable
<1> HIDE DEF u
<1>2. NoCell \notin Cells /\ Root \notin Cells /\ Cells \subseteq Int /\ Root \in Int
  BY DrainAssumption DEF Cells, NoCell, Root
<1>3. /\ Stacked(t, a, p, R) /\ Queued(t, a, p, S, R) /\ Looped(t, a, p, NoCell)
      /\ FaultChain(t, K, sd) /\ Raised(t, K \cup Some(NoCell), a)
      /\ Acts(t, a, p, W)
  BY <1>2 DEF Plain, Shape, Keeps, Floor, Stacked
<1>4. p.loop # NoCell => IsLoop(t, p.loop)
  BY <1>3 DEF Stacked, StandsOn
<1>5. a \in t.held /\ Standing(t, a) /\ p.loop # a
  BY <1>2, <1>3, <1>4 DEF Acts, IsLoop
<1>6. \A c \in W : c \notin D /\ c \in t.held /\ t.rests[c] = "parked"
  BY <1>2, <1>3, <1>4, FrameFacts DEF IsLoop
<1>7. Frames(u, NoCell) = W
  BY <1>1, <1>2, <1>5, <1>6 DEF Frames
<1>8. \A d \in W : t.prov[d].loop # NoCell => IsLoop(u, t.prov[d].loop)
  <2>1. ASSUME NEW d \in W, t.prov[d].loop # NoCell PROVE IsLoop(t, t.prov[d].loop) /\ t.prov[d].loop \notin D
    <3>1. IsLoop(t, t.prov[d].loop)
      BY <1>3, <2>1, FrameFacts
    <3>2. t.prov[d].loop # p.loop
      BY <1>3, <2>1 DEF Looped
    <3> QED
      BY <1>5, <3>1, <3>2 DEF IsLoop
  <2> QED
    BY <1>1, <2>1
<1>9. Stacked(u, NoCell, q, R)
  <2>1. ASSUME NEW d \in W PROVE IsFrame(u, d, Below(W, d), R)
    <3>1. IsFrame(t, d, Below(W, d), R)
      BY <1>3 DEF Stacked
    <3> QED
      BY <1>1, <1>6, <1>8, <3>1, FrameKept
  <2>2. Anchors(u, W) = Anchors(t, W)
    BY <1>1, AnchorsSame
  <2>3. StandsOn(u, q, W, R)
    BY <1>3, <2>2 DEF Stacked, StandsOn, Reports
  <2> QED
    BY <1>7, <2>1, <2>3 DEF Stacked
<1>10. Queued(u, NoCell, q, S, R)
  <2>1. Queued(u, NoCell, p, S, R)
    BY <1>1, <1>3, <1>7, QueuedKept
  <2>2. \A c, s : Serves(q, c, s) <=> Serves(p, c, s)
    BY DEF Serves
  <2>3. \A e, X : IsAsked(u, q, e, X, R) <=> IsAsked(u, p, e, X, R)
    BY <2>2 DEF IsAsked
  <2> QED
    BY <2>1, <2>2, <2>3 DEF Queued
<1>11. Looped(u, NoCell, q, NoCell)
  <2>1. ASSUME NEW c \in Cells, Standing(u, c), c \notin u.held
        PROVE  \E d \in W : t.prov[d].loop = c
    <3>1. Standing(t, c) /\ c \notin D /\ c \notin t.held
      BY <1>1, <2>1
    <3> QED
      BY <1>2, <1>3, <3>1 DEF Looped
  <2> QED
    BY <1>1, <1>3, <1>7, <2>1 DEF Looped
<1>12. /\ p.parent < a /\ \A k \in K : a < k /\ a <= t.prov[k].parent
       /\ t.prov[a].parent = p.parent /\ p.parent \in Int
  <2>1. p.parent \in W
    BY <1>3, TopFrame
  <2>2. p.parent < a /\ p.parent \in Cells
    BY <1>3, <2>1 DEF Acts, Frames
  <2> QED
    BY <1>2, <1>3, <2>2 DEF Raised, Acts
<1>13. \A k \in K : k \in Cells /\ t.prov[k].parent \in Int
  BY <1>2 DEF KeptCells, Tables, Provenance
<1> DEFINE f == p.parent
<1>15. f \in Int /\ a \in Int /\ f < a /\ (\A k \in K : k \in Int)
  BY <1>2, <1>12, <1>13
<1>14. Keeps(u, NoCell, q, NoCell, NoCell, NoCell, IF a \in D THEN sd ELSE a)
  <2>1. CASE D = {a, p.loop}
    <3>1. KeptCells(u, NoCell, NoCell, NoCell) = K
      BY <1>1, <1>2, <1>4, <1>5, <2>1 DEF KeptCells, IsLoop
    <3>2. FaultChain(u, K, sd)
      BY <1>1, <1>3 DEF FaultChain
    <3>3. Raised(u, K \cup Some(NoCell), p.parent)
      <4>1. ASSUME NEW k \in K PROVE p.parent < k /\ p.parent <= t.prov[k].parent
        <5>1. a < k /\ a <= t.prov[k].parent /\ k \in Int /\ t.prov[k].parent \in Int
          BY <1>12, <1>13, <1>15
        <5> QED
          BY <1>15, <5>1
      <4>2. K \cup Some(NoCell) = K
        BY DEF Some
      <4> QED
        BY <1>1, <1>3, <4>1, <4>2 DEF Raised
    <3> QED
      BY <2>1, <3>1, <3>2, <3>3 DEF Keeps, Floor
  <2>2. CASE D = {p.loop} /\ t.kind[a] = "tree" /\ t.rests[a] = "none" /\ t.below[a] = sd
    <3>1. KeptCells(u, NoCell, NoCell, NoCell) = K \cup {a}
      BY <1>1, <1>2, <1>4, <1>5, <2>2 DEF KeptCells, IsLoop
    <3>2. FaultChain(u, K \cup {a}, a)
      <4>1. \/ t.below[a] = NoCell /\ \A j \in K \cup {a} : j <= a
            \/ t.below[a] \in K \cup {a} /\ a < t.below[a]
                 /\ \A j \in K \cup {a} : j <= a \/ t.below[a] <= j
        BY <1>2, <1>3, <1>12, <1>13, <2>2 DEF FaultChain
      <4>2. ASSUME NEW k \in K
            PROVE  \/ t.below[k] = NoCell /\ \A j \in K \cup {a} : j <= k
                   \/ t.below[k] \in K \cup {a} /\ k < t.below[k]
                        /\ \A j \in K \cup {a} : j <= k \/ t.below[k] <= j
        <5>1. a <= k
          BY <1>2, <1>12, <1>13
        <5> QED
          BY <1>3, <5>1 DEF FaultChain
      <4>3. \A k \in K \cup {a} : a <= k
        <5>1. \A k \in K : a <= k
          BY <1>12, <1>15
        <5> QED
          BY <1>15, <5>1
      <4> QED
        BY <1>1, <4>1, <4>2, <4>3 DEF FaultChain
    <3>3. Raised(u, (K \cup {a}) \cup Some(NoCell), p.parent)
      <4>1. \A k \in K \cup {a} : p.parent < k /\ p.parent <= t.prov[k].parent /\ t.kind[k] = "tree"
        <5>1. \A k \in K : t.kind[k] = "tree"
          BY <1>3 DEF Raised
        <5>2. ASSUME NEW k \in K PROVE p.parent < k /\ p.parent <= t.prov[k].parent
          <6>1. a < k /\ a <= t.prov[k].parent /\ k \in Int /\ t.prov[k].parent \in Int
            BY <1>12, <1>13, <1>15
          <6> QED
            BY <1>15, <6>1
        <5> QED
          BY <1>12, <1>15, <2>2, <5>1, <5>2
      <4>2. \A j, k \in K \cup {a} : j < k => j <= t.prov[k].parent
        <5>1. \A j, k \in K : j < k => j <= t.prov[k].parent
          BY <1>3 DEF Raised
        <5>2. \A j \in K : ~(j < a)
          BY <1>2, <1>12, <1>13
        <5>3. ~(a < a)
          BY <1>2
        <5> QED
          BY <1>12, <5>1, <5>2, <5>3
      <4>3. (K \cup {a}) \cup Some(NoCell) = K \cup {a}
        BY DEF Some
      <4> QED
        BY <1>1, <4>1, <4>2, <4>3 DEF Raised
    <3> QED
      BY <1>5, <2>2, <3>1, <3>2, <3>3 DEF Keeps, Floor
  <2> QED
    BY <2>1, <2>2
<1> QED
  BY <1>9, <1>10, <1>11, <1>14 DEF Plain, Shape, u

\* The runs `R` once work `p` has filed its end.
IsFiled(Q, R, p, f) ==
    /\ \A c \in Cells \ {p.parent} : Q[c] = R[c]
    /\ DOMAIN Q[p.parent] = DOMAIN R[p.parent]
    /\ \A s \in DOMAIN R[p.parent] :
          Q[p.parent][s] = IF s = p.slot THEN f ELSE R[p.parent][s]

\* Only one slot of a run is being answered.
LEMMA AnswersOnce ==
    ASSUME NEW r \in Seq(Fills), NEW s, NEW i \in DOMAIN r, AnswersAt(r, s), r[i].is = "empty"
    PROVE  s \in 1 .. Len(r) /\ i \in 1 .. Len(r) /\ s <= i
BY DEF AnswersAt

\* The frame under the work has been answered in one more slot, and not in all.
LEMMA NextAsked ==
    ASSUME NEW t \in Tables, NEW p, NEW S \in Seq(Entry),
           NEW R \in [Cells -> Seq(Fills)], NEW Q \in [Cells -> Seq(Fills)],
           Plain(t, NoCell, p, S, R, NoCell), p.slot # 0, p.loop = NoCell,
           IsFiled(Q, R, p, Value(p.home)), p.slot # Len(R[p.parent])
    PROVE  /\ S # <<>> /\ S[Len(S)].prov.parent = p.parent
           /\ IsAsked(t, p, S[Len(S)], Frames(t, NoCell), R)
           /\ Plain(t, NoCell, S[Len(S)].prov, Front(S), Q, NoCell)
<1> DEFINE W == Frames(t, NoCell)
           w == p.parent
           n == Len(S)
           q == S[n].prov
           F == Front(S)
<1>1. /\ Stacked(t, NoCell, p, R) /\ Queued(t, NoCell, p, S, R) /\ Looped(t, NoCell, p, NoCell)
      /\ Keeps(t, NoCell, p, NoCell, NoCell, NoCell, NoCell)
  BY DEF Plain, Shape
<1>2. /\ w \in W /\ (\A c \in W : c <= w) /\ W \subseteq Cells
      /\ AnswersAt(R[w], p.slot) /\ Below(W, w) = W \ {w}
      /\ \A d \in W : t.prov[d].parent # w
  <2>1. w \in W /\ W \subseteq Cells /\ AnswersAt(R[w], p.slot)
    BY <1>1, TopFrame
  <2>2. \A c \in W : c <= w
    BY <1>1, TopFrame
  <2>3. Below(W, w) = W \ {w}
    <3>1. W \in SUBSET Int
      BY <2>1 DEF Cells
    <3> HIDE DEF W, w
    <3> QED
      BY <2>1, <2>2, <3>1, BelowTop
  <2>4. \A d \in W : t.prov[d].parent # w
    BY <1>1, TopFrame
  <2> QED
    BY <2>1, <2>2, <2>3, <2>4
<1>3. /\ NoCell \notin Cells /\ Cells \subseteq Int /\ n \in Nat /\ DOMAIN S = 1 .. n
      /\ R[w] \in Seq(Fills) /\ DOMAIN R[w] = 1 .. Len(R[w]) /\ Len(R[w]) \in Nat
      /\ w \in Cells
  BY <1>2, DrainAssumption DEF Cells, NoCell
<1>a. /\ \A c \in W : c # w => Q[c] = R[c]
      /\ DOMAIN Q[w] = DOMAIN R[w]
      /\ \A s \in DOMAIN R[w] : Q[w][s] = IF s = p.slot THEN Value(p.home) ELSE R[w][s]
  BY <1>2 DEF IsFiled
<1>4. /\ \A i \in 1 .. n : IsAsked(t, p, S[i], W, R)
      /\ \A i, j \in 1 .. n : i < j => Above(S[j].prov, S[i].prov)
      /\ \A c \in W : \A s \in DOMAIN R[c] : R[c][s].is = "empty" =>
            \/ Serves(p, c, s)
            \/ \E d \in W : Serves(t.prov[d], c, s)
            \/ \E i \in 1 .. n : Serves(S[i].prov, c, s)
  BY <1>1, <1>3 DEF Queued
<1>5. /\ p.slot \in 1 .. Len(R[w]) /\ p.slot + 1 \in 1 .. Len(R[w])
      /\ \A i \in 1 .. Len(R[w]) : R[w][i].is = IF i < p.slot THEN "value" ELSE "empty"
  <2>1. p.slot \in 1 .. Len(R[w]) /\ p.slot # Len(R[w])
    BY <1>2, <1>3 DEF AnswersAt
  <2>2. p.slot + 1 \in 1 .. Len(R[w])
    BY <1>3, <2>1
  <2> QED
    BY <1>2, <1>3, <2>1, <2>2 DEF AnswersAt
<1> HIDE DEF W, n
<1>6. PICK m \in 1 .. n : Serves(S[m].prov, w, p.slot + 1)
  <2>1. R[w][p.slot + 1].is = "empty"
    BY <1>5
  <2>2. ~Serves(p, w, p.slot + 1)
    BY <1>5 DEF Serves
  <2>3. \A d \in W : ~Serves(t.prov[d], w, p.slot + 1)
    BY <1>2 DEF Serves
  <2> QED
    BY <1>2, <1>3, <1>4, <1>5, <2>1, <2>2, <2>3
<1>7. n \in 1 .. n /\ S # <<>>
  BY <1>3, <1>6 DEF n
<1>8. IsAsked(t, p, S[n], W, R)
  BY <1>4, <1>7
<1>9. q.parent \in W /\ q.parent \in Int /\ q.slot \in DOMAIN R[q.parent]
      /\ R[q.parent][q.slot].is = "empty"
      /\ ~(q.parent = w /\ q.slot = p.slot)
  BY <1>2, <1>3, <1>8 DEF IsAsked, Serves
<1>10. q.parent = w /\ q.slot = p.slot + 1
  <2>1. CASE m = n
    BY <1>6, <2>1 DEF Serves
  <2>2. CASE m # n
    <3>1. Above(q, S[m].prov)
      BY <1>3, <1>4, <1>6, <1>7, <2>2
    <3>2. q.parent <= w
      BY <1>2, <1>9
    <3>3. q.parent = w /\ q.slot < p.slot + 1
      <4>1. S[m].prov.parent = w /\ S[m].prov.slot = p.slot + 1 /\ w \in Int
        BY <1>3, <1>6 DEF Serves
      <4> QED
        BY <1>9, <3>1, <3>2, <4>1 DEF Above
    <3>4. q.slot \in 1 .. Len(R[w]) /\ ~(q.slot < p.slot)
      BY <1>3, <1>5, <1>9, <3>3
    <3> QED
      BY <1>5, <1>9, <3>3, <3>4
  <2> QED
    BY <2>1, <2>2
<1>11. /\ Len(F) = n - 1 /\ DOMAIN F = 1 .. n - 1 /\ \A i \in 1 .. n - 1 : F[i] = S[i]
  BY <1>3, <1>7 DEF Front, n
<1> HIDE DEF F
<1>12. Anchors(t, Below(W, w) \cup {w}) = Anchors(t, W)
  BY <1>2 DEF Anchors
<1>13. /\ AnswersAt(Q[w], q.slot) /\ Q[w] \in Seq(Fills)
       /\ \A s \in DOMAIN Q[w] : Q[w][s].is = "value" => Q[w][s].at \in Anchors(t, W)
       /\ \A s \in DOMAIN Q[w] : Q[w][s].is = "empty" => R[w][s].is = "empty"
  <2>1. Q[w][p.slot].is = "value" /\ Q[w][p.slot].at = p.home
    BY <1>3, <1>5, <1>a DEF Value
  <2>2. p.home \in Anchors(t, W)
    BY <1>1 DEF Stacked, StandsOn, W
  <2>3. IsFrame(t, w, Below(W, w), R)
    BY <1>1, <1>2 DEF Stacked, W
  <2>4. \A s \in DOMAIN R[w] : R[w][s].is = "value" => R[w][s].at \in Anchors(t, W)
    BY <1>12, <2>3 DEF IsFrame
  <2>5. DOMAIN Q[w] = 1 .. Len(R[w])
    BY <1>a, <1>3
  <2>6. \A i \in 1 .. Len(R[w]) : Q[w][i].is = IF i < p.slot + 1 THEN "value" ELSE "empty"
    <3> SUFFICES ASSUME NEW i \in 1 .. Len(R[w])
                 PROVE  Q[w][i].is = IF i < p.slot + 1 THEN "value" ELSE "empty"
      OBVIOUS
    <3>1. CASE i = p.slot
      BY <1>5, <2>1, <3>1
    <3>2. CASE i # p.slot
      <4>1. Q[w][i] = R[w][i]
        BY <1>a, <1>3, <3>2
      <4>2. i < p.slot + 1 <=> i < p.slot
        BY <1>5, <3>2
      <4> QED
        BY <1>5, <4>1, <4>2
    <3> QED
      BY <3>1, <3>2
  <2>7. AnswersAt(Q[w], q.slot)
    BY <1>3, <1>5, <1>10, <2>5, <2>6 DEF AnswersAt
  <2>8. \A s \in DOMAIN Q[w] : Q[w][s].is = "empty" => s # p.slot
    BY <2>1
  <2>9. Q[w] \in Seq(Fills)
    BY <1>3
  <2>10. \A s \in DOMAIN Q[w] : Q[w][s].is = "empty" => R[w][s].is = "empty"
    BY <1>a, <2>8
  <2>11. ASSUME NEW s \in DOMAIN Q[w], Q[w][s].is = "value" PROVE Q[w][s].at \in Anchors(t, W)
    BY <1>a, <2>1, <2>2, <2>4, <2>11
  <2> QED
    BY <2>7, <2>9, <2>10, <2>11
<1>14. StandsOn(t, q, W, Q)
  <2>1. q.loop = NoCell /\ q.home \in Anchors(t, W)
    BY <1>8, <1>10, <1>12 DEF IsAsked
  <2> QED
    BY <1>2, <1>10, <1>13, <2>1 DEF StandsOn, Reports
<1>15. Stacked(t, NoCell, q, Q)
  <2>1. ASSUME NEW d \in W PROVE IsFrame(t, d, Below(W, d), Q)
    <3>1. IsFrame(t, d, Below(W, d), R)
      BY <1>1 DEF Stacked, W
    <3>2. w \notin Below(W, d) /\ Below(W, d) \subseteq W
      <4>1. W \in SUBSET Int
        BY <1>2, <1>3
      <4> QED
        BY <1>2, <4>1, BelowTop DEF Below
    <3>3. t.prov[d].loop # NoCell => IsLoop(t, t.prov[d].loop)
      BY <3>1 DEF IsFrame, StandsOn
    <3>4. CASE d # w
      <4>1. \A c \in Below(W, d) \cup {d} : Q[c] = R[c]
        BY <1>a, <1>2, <3>2, <3>4
      <4>2. d \in t.held
        BY <3>1 DEF IsFrame
      <4> QED
        BY <3>1, <3>3, <4>1, <4>2, FrameKept
    <3>5. CASE d = w
      <4>1. StandsOn(t, t.prov[w], Below(W, w), Q)
        <5>1. \A c \in Below(W, w) : Q[c] = R[c]
          BY <1>a, <1>2, <3>2, <3>5
        <5> QED
          BY <3>1, <3>3, <3>5, <5>1, StandsKept DEF IsFrame
      <4>2. \E s \in DOMAIN Q[w] : AnswersAt(Q[w], s)
        BY <1>13 DEF AnswersAt
      <4> QED
        BY <1>12, <1>13, <3>1, <3>5, <4>1, <4>2 DEF IsFrame
    <3> QED
      BY <3>4, <3>5
  <2> QED
    BY <1>14, <2>1 DEF Stacked, W
<1>16. Queued(t, NoCell, q, F, Q)
  <2>1. ASSUME NEW i \in 1 .. n - 1 PROVE IsAsked(t, q, S[i], W, Q)
    <3>a. i \in 1 .. n /\ i < n
      BY <1>3
    <3>1. IsAsked(t, p, S[i], W, R) /\ Above(q, S[i].prov)
      BY <1>4, <1>7, <3>a
    <3>2. S[i].prov.parent \in Cells /\ S[i].prov.parent \in Int
      BY <1>2, <1>3, <3>1 DEF IsAsked
    <3>3. /\ S[i].prov.slot \in DOMAIN Q[S[i].prov.parent]
          /\ Q[S[i].prov.parent][S[i].prov.slot].is = "empty"
      <4>1. CASE S[i].prov.parent # w
        BY <1>a, <3>1, <3>2, <4>1 DEF IsAsked
      <4>2. CASE S[i].prov.parent = w
        <5>1. S[i].prov.slot # p.slot
          BY <3>1, <4>2 DEF IsAsked, Serves
        <5> QED
          BY <1>a, <3>1, <4>2, <5>1 DEF IsAsked
      <4> QED
        BY <4>1, <4>2
    <3>4. ~Serves(q, S[i].prov.parent, S[i].prov.slot)
      <4> SUFFICES ASSUME q.parent = S[i].prov.parent, q.slot = S[i].prov.slot PROVE FALSE
        BY DEF Serves
      <4>1. q.parent \in Int /\ q.slot \in Int
        BY <1>5, <1>9, <1>10
      <4> QED
        BY <3>1, <4>1 DEF Above
    <3> QED
      BY <3>1, <3>3, <3>4 DEF IsAsked
  <2>2. ASSUME NEW c \in W, NEW s \in DOMAIN Q[c], Q[c][s].is = "empty"
        PROVE  \/ Serves(q, c, s)
               \/ \E d \in W : Serves(t.prov[d], c, s)
               \/ \E i \in 1 .. n - 1 : Serves(F[i].prov, c, s)
    <3>1. s \in DOMAIN R[c] /\ R[c][s].is = "empty" /\ ~Serves(p, c, s)
      <4>1. CASE c = w
        <5>1. Q[w][p.slot].is # "empty"
          BY <1>3, <1>5, <1>a DEF Value
        <5> QED
          BY <1>a, <1>13, <2>2, <4>1, <5>1 DEF Serves
      <4>2. CASE c # w
        BY <1>a, <1>2, <2>2, <4>2 DEF Serves
      <4> QED
        BY <4>1, <4>2
    <3>2. CASE \E d \in W : Serves(t.prov[d], c, s)
      BY <3>2
    <3>3. CASE \E i \in 1 .. n : Serves(S[i].prov, c, s)
      <4>1. PICK i \in 1 .. n : Serves(S[i].prov, c, s)
        BY <3>3
      <4>2. CASE i = n
        BY <4>1, <4>2
      <4>3. CASE i # n
        <5>1. i \in 1 .. n - 1
          BY <1>3, <4>3
        <5> QED
          BY <1>11, <4>1, <5>1
      <4> QED
        BY <4>2, <4>3
    <3> QED
      BY <1>4, <3>1, <3>2, <3>3
  <2>3. \A i, j \in 1 .. n - 1 : i < j => Above(F[j].prov, F[i].prov)
    BY <1>3, <1>4, <1>11
  <2> QED
    BY <1>11, <2>1, <2>2, <2>3 DEF Queued, W
<1>17. Looped(t, NoCell, q, NoCell)
  <2>1. q.loop = p.loop
    BY <1>8 DEF IsAsked
  <2> QED
    BY <1>1, <2>1 DEF Looped
<1>18. Keeps(t, NoCell, q, NoCell, NoCell, NoCell, NoCell)
  BY <1>1, <1>10 DEF Keeps, Floor
<1> QED
  BY <1>7, <1>8, <1>10, <1>15, <1>16, <1>17, <1>18 DEF Plain, Shape, W, n, F

\* The frame under the work is woken, what it has asked for and nobody began dropped.
LEMMA Wakes ==
    ASSUME NEW t \in Tables, NEW p, NEW S \in Seq(Entry),
           NEW R \in [Cells -> Seq(Fills)], NEW Q \in [Cells -> Seq(Fills)], NEW sd, NEW f,
           Plain(t, NoCell, p, S, R, sd), p.slot # 0, p.loop = NoCell,
           IsFiled(Q, R, p, f), NEW m \in 0 .. Len(S),
           \A i \in 1 .. m : S[i].prov.parent # p.parent,
           \A i \in m + 1 .. Len(S) : S[i].prov.parent = p.parent
    PROVE  /\ p.parent \in Cells /\ t.rests[p.parent] = "parked"
           /\ Plain(t, p.parent, t.prov[p.parent], SubSeq(S, 1, m), Q, sd)
           /\ \A s \in DOMAIN R[p.parent] : R[p.parent][s].is = "value" =>
                R[p.parent][s].at \in Anchors(t, Frames(t, p.parent) \cup {p.parent})
           /\ p.home \in Anchors(t, Frames(t, p.parent) \cup {p.parent})
<1> DEFINE W == Frames(t, NoCell)
           w == p.parent
           V == Frames(t, w)
           r == t.prov[w]
           T == SubSeq(S, 1, m)
<1>1. /\ Stacked(t, NoCell, p, R) /\ Queued(t, NoCell, p, S, R) /\ Looped(t, NoCell, p, NoCell)
      /\ Keeps(t, NoCell, p, NoCell, NoCell, NoCell, sd)
  BY DEF Plain, Shape
<1>2. w \in W /\ W \subseteq Cells /\ W \in SUBSET Int /\ (\A c \in W : c <= w)
  <2>1. w \in W /\ W \subseteq Cells
    BY <1>1, TopFrame
  <2>2. \A c \in W : c <= w
    BY <1>1, TopFrame
  <2> QED
    BY <2>1, <2>2 DEF Cells
<1>3. NoCell \notin Cells /\ w \in Cells /\ w # NoCell
  BY <1>2, DrainAssumption DEF Cells, NoCell
<1>4. V = W \ {w}
  BY <1>3 DEF Frames
<1>5. \A d \in W : IsFrame(t, d, Below(W, d), R)
  BY <1>1 DEF Stacked
<1>6. /\ \A i \in DOMAIN S : IsAsked(t, p, S[i], W, R)
      /\ \A i, j \in DOMAIN S : i < j => Above(S[j].prov, S[i].prov)
      /\ \A c \in W : \A s \in DOMAIN R[c] : R[c][s].is = "empty" =>
            \/ Serves(p, c, s)
            \/ \E d \in W : Serves(t.prov[d], c, s)
            \/ \E i \in DOMAIN S : Serves(S[i].prov, c, s)
  BY <1>1 DEF Queued
<1>7. p.home \in Anchors(t, W)
  BY <1>1 DEF Stacked, StandsOn
<1>8. \A c \in W : c # w => Q[c] = R[c]
  BY <1>2 DEF IsFiled
<1> HIDE DEF W, V, w
<1>9. Below(W, w) = V /\ (\A d \in W : w \notin Below(W, d)) /\ V \cup {w} = W
  <2>1. Below(W, w) = W \ {w}
    BY <1>2, BelowTop
  <2>2. \A d \in W : w \notin Below(W, d)
    BY <1>2, BelowTop
  <2> QED
    BY <1>2, <1>4, <2>1, <2>2
<1>10. \A d \in V : Below(W, d) = Below(V, d) /\ d < w /\ d \in W /\ d # w
  <2>1. \A d \in W : Below(W, d) = Below(W \ {w}, d)
    BY <1>2, BelowTop
  <2>2. \A d \in V : d < w
    BY <1>2, <1>4
  <2> QED
    BY <1>4, <2>1, <2>2
<1>11. Stacked(t, w, r, Q)
  <2>1. ASSUME NEW d \in V PROVE IsFrame(t, d, Below(V, d), Q)
    <3>1. IsFrame(t, d, Below(V, d), R)
      BY <1>5, <1>10
    <3>2. \A c \in Below(V, d) \cup {d} : Q[c] = R[c]
      BY <1>4, <1>8, <1>10 DEF Below
    <3>3. d \in t.held /\ (t.prov[d].loop # NoCell => IsLoop(t, t.prov[d].loop))
      BY <3>1 DEF IsFrame, StandsOn
    <3> QED
      BY <3>1, <3>2, <3>3, FrameKept
  <2>2. IsFrame(t, w, V, R)
    BY <1>2, <1>5, <1>9
  <2>3. StandsOn(t, r, V, Q)
    <3>1. StandsOn(t, r, V, R)
      BY <2>2 DEF IsFrame
    <3>2. \A c \in V : Q[c] = R[c]
      BY <1>8, <1>10
    <3>3. r.loop # NoCell => IsLoop(t, r.loop)
      BY <3>1 DEF StandsOn
    <3> HIDE DEF r
    <3> QED
      BY <3>1, <3>2, <3>3, StandsKept
  <2>4. Acts(t, w, r, V)
    <3>1. Standing(t, w)
      BY <1>2 DEF W, Frames
    <3> QED
      BY <1>10, <2>2, <3>1 DEF Acts, IsFrame
  <2> QED
    BY <2>1, <2>3, <2>4 DEF Stacked, V
<1>12. /\ Len(T) = m /\ DOMAIN T = 1 .. m /\ m \in Nat /\ DOMAIN S = 1 .. Len(S)
       /\ \A i \in 1 .. m : T[i] = S[i] /\ i \in DOMAIN S
  OBVIOUS
<1> HIDE DEF T
<1>13. Queued(t, w, r, T, Q)
  <2>1. ASSUME NEW i \in 1 .. m PROVE IsAsked(t, r, T[i], V, Q)
    <3>1. IsAsked(t, p, S[i], W, R) /\ T[i] = S[i] /\ S[i].prov.parent # w
      BY <1>6, <1>12 DEF w
    <3>2. S[i].prov.parent \in V
      BY <1>4, <3>1 DEF IsAsked
    <3>3. Below(W, S[i].prov.parent) = Below(V, S[i].prov.parent)
            /\ Q[S[i].prov.parent] = R[S[i].prov.parent]
      BY <1>8, <1>10, <3>2
    <3>4. ~Serves(r, S[i].prov.parent, S[i].prov.slot)
      BY <1>2, <3>1 DEF IsAsked
    <3>5. \A d \in V : ~Serves(t.prov[d], S[i].prov.parent, S[i].prov.slot)
      BY <1>10, <3>1 DEF IsAsked
    <3> HIDE DEF r
    <3> QED
      BY <3>1, <3>2, <3>3, <3>4, <3>5 DEF IsAsked
  <2>2. ASSUME NEW c \in V, NEW s \in DOMAIN Q[c], Q[c][s].is = "empty"
        PROVE  \/ Serves(r, c, s)
               \/ \E d \in V : Serves(t.prov[d], c, s)
               \/ \E i \in 1 .. m : Serves(T[i].prov, c, s)
    <3>1. c \in W /\ c # w /\ s \in DOMAIN R[c] /\ R[c][s].is = "empty"
      BY <1>8, <1>10, <2>2
    <3>2. ~Serves(p, c, s)
      BY <3>1 DEF Serves, w
    <3>3. CASE \E d \in W : Serves(t.prov[d], c, s)
      BY <1>4, <3>3
    <3>4. CASE \E i \in DOMAIN S : Serves(S[i].prov, c, s)
      <4>1. PICK i \in 1 .. Len(S) : S[i].prov.parent = c /\ Serves(S[i].prov, c, s)
        BY <1>12, <3>4 DEF Serves
      <4>2. i \in 1 .. m
        <5>1. i \notin m + 1 .. Len(S)
          BY <3>1, <4>1 DEF w
        <5> QED
          BY <1>12, <5>1
      <4> QED
        BY <1>12, <4>1, <4>2
    <3> QED
      BY <1>6, <3>1, <3>2, <3>3, <3>4
  <2>3. \A i, j \in 1 .. m : i < j => Above(T[j].prov, T[i].prov)
    BY <1>6, <1>12
  <2> QED
    BY <1>12, <2>1, <2>2, <2>3 DEF Queued, V
<1>14. Looped(t, w, r, NoCell)
  <2>1. \A c \in V : t.prov[c].loop # NoCell => t.prov[c].loop # r.loop
    BY <1>1, <1>2, <1>10 DEF Looped, W
  <2>2. ASSUME NEW c \in Cells, Standing(t, c), c \notin t.held
        PROVE  c = r.loop \/ \E d \in V : t.prov[d].loop = c
    <3>1. \E d \in W : t.prov[d].loop = c
      BY <1>1, <1>3, <2>2 DEF Looped, W
    <3> QED
      BY <1>4, <3>1
  <2> QED
    BY <1>1, <1>10, <2>1, <2>2 DEF Looped, V, W
<1>15. t.rests[w] = "parked"
  BY <1>2, <1>5 DEF IsFrame
<1>16. Keeps(t, w, r, NoCell, NoCell, NoCell, sd)
  <2>1. KeptCells(t, w, NoCell, NoCell) = KeptCells(t, NoCell, NoCell, NoCell)
    BY <1>3, <1>15 DEF KeptCells
  <2> QED
    BY <1>1, <1>3, <2>1 DEF Keeps, Floor, w
<1>17. \A s \in DOMAIN R[w] : R[w][s].is = "value" => R[w][s].at \in Anchors(t, W)
  BY <1>2, <1>5, <1>9 DEF IsFrame
<1> QED
  BY <1>3, <1>7, <1>9, <1>11, <1>13, <1>14, <1>15, <1>16, <1>17 DEF Plain, Shape, V, w, T

\* The entries of two lists put one after the other.
LEMMA Joined ==
    ASSUME NEW X, NEW S \in Seq(X), NEW A \in Seq(X)
    PROVE  /\ S \o A \in Seq(X) /\ Len(S) \in Nat /\ Len(S \o A) = Len(S) + Len(A)
           /\ \A i \in 1 .. Len(S) + Len(A) :
                 (S \o A)[i] = IF i <= Len(S) THEN S[i] ELSE A[i - Len(S)]
OBVIOUS

\* F holds the k entries of S, then all but the last of the n of A.
AllButLast(F, S, A, k, n) ==
    /\ Len(F) = k + n - 1 /\ DOMAIN F = 1 .. k + n - 1
    /\ \A i \in 1 .. k + n - 1 : F[i] = IF i <= k THEN S[i] ELSE A[i - k]

\* The front of two lists put one after the other, the second not empty.
LEMMA FrontJoined ==
    ASSUME NEW X, NEW S \in Seq(X), NEW A \in Seq(X), A # <<>>
    PROVE  AllButLast(Front(S \o A), S, A, Len(S), Len(A))
<1> DEFINE T == S \o A
           F == Front(T)
           k == Len(S)
           n == Len(A)
<1>1. /\ T \in Seq(X) /\ Len(T) = k + n
      /\ \A i \in 1 .. k + n : T[i] = IF i <= k THEN S[i] ELSE A[i - k]
  BY Joined, Zenon
<1>2. F = SubSeq(T, 1, Len(T) - 1)
  BY DEF Front
<1>3. k \in Nat /\ n \in Nat \ {0}
  OBVIOUS
<1> HIDE DEF T, F, k, n
<1>4. /\ Len(F) = k + n - 1 /\ F \in Seq(X)
      /\ \A i \in 1 .. k + n - 1 : F[i] = T[i]
  BY <1>1, <1>2, <1>3
<1>5. DOMAIN F = 1 .. k + n - 1
  BY <1>4
<1>6. \A i \in 1 .. k + n - 1 : F[i] = IF i <= k THEN S[i] ELSE A[i - k]
  BY <1>1, <1>3, <1>4
<1>7. AllButLast(F, S, A, k, n)
  BY <1>4, <1>5, <1>6 DEF AllButLast
<1> QED
  BY <1>7 DEF F, T, k, n

\* The cell that did the work waits on what it asks for: it is the topmost frame, and the first of
\* what it asked for the work.
LEMMA ParksOn ==
    ASSUME NEW t \in Tables, NEW a \in Cells, NEW p, NEW S \in Seq(Entry),
           NEW R \in [Cells -> Seq(Fills)], NEW n \in Nat \ {0}, NEW A \in Seq(Entry),
           Plain(t, a, p, S, R, NoCell), t.rests[a] = "parked",
           R[a] = [s \in 1 .. n |-> Empty],
           Len(A) = n,
           \A i \in 1 .. n :
              /\ A[i] = Asked(A[i].prov, A[i].place, a, NoCell, NoCell)
              /\ A[i].prov.parent = a /\ A[i].prov.slot = n + 1 - i /\ A[i].prov.loop = NoCell
              /\ A[i].prov.home \in {a, p.home} \cup Some(p.loop)
    PROVE  Plain(t, NoCell, A[n].prov, Front(S \o A), R, NoCell)
<1> DEFINE W == Frames(t, NoCell)
           V == Frames(t, a)
           q == A[n].prov
           F == Front(S \o A)
           k == Len(S)
<1>1. /\ Stacked(t, a, p, R) /\ Queued(t, a, p, S, R) /\ Looped(t, a, p, NoCell)
      /\ Keeps(t, a, p, NoCell, NoCell, NoCell, NoCell)
  BY DEF Plain, Shape
<1>2. NoCell \notin Cells /\ Root \notin Cells /\ Cells \subseteq Int /\ a # NoCell
  BY DrainAssumption DEF Cells, NoCell, Root
<1>3. /\ Acts(t, a, p, V) /\ StandsOn(t, p, V, R)
      /\ \A d \in V : IsFrame(t, d, Below(V, d), R)
  BY <1>1, <1>2 DEF Stacked
<1>4. W = V \cup {a} /\ a \notin V /\ V \subseteq Cells
  BY <1>2, <1>3 DEF Frames, Acts
<1>5. \A d \in V : t.prov[d].parent # a
  BY <1>1, <1>2, <1>4, FrameFacts
<1>6. /\ \A i \in 1 .. k : IsAsked(t, p, S[i], V, R)
      /\ \A i, j \in 1 .. k : i < j => Above(S[j].prov, S[i].prov)
      /\ \A c \in V : \A s \in DOMAIN R[c] : R[c][s].is = "empty" =>
            \/ Serves(p, c, s)
            \/ \E d \in V : Serves(t.prov[d], c, s)
            \/ \E i \in 1 .. k : Serves(S[i].prov, c, s)
  <2>1. DOMAIN S = 1 .. k
    OBVIOUS
  <2> QED
    BY <1>1, <2>1 DEF Queued
<1>7. /\ k \in Nat /\ Len(F) = k + n - 1 /\ DOMAIN F = 1 .. k + n - 1
      /\ \A i \in 1 .. k + n - 1 : F[i] = IF i <= k THEN S[i] ELSE A[i - k]
  <2>1. A # <<>> /\ k \in Nat
    OBVIOUS
  <2>2. AllButLast(F, S, A, k, Len(A))
    BY <2>1, FrontJoined, Zenon
  <2> HIDE DEF F, k
  <2> QED
    BY <2>1, <2>2 DEF AllButLast
<1>8. \A c \in V : c < a
  BY <1>3 DEF Acts
<1> HIDE DEF V, W, F, k
<1>a. \A c \in W : c <= a
  <2>1. \A c \in V : c \in Int /\ a \in Int /\ c < a
    BY <1>2, <1>4, <1>8
  <2>2. \A c \in V : c <= a
    BY <2>1
  <2> QED
    BY <1>2, <1>4, <2>2
<1>9. /\ Below(W, a) = V
      /\ \A d \in V : Below(W, d) = Below(V, d)
  <2>1. W \in SUBSET Int /\ a \in W
    BY <1>2, <1>4
  <2>2. Below(W, a) = W \ {a}
    BY <1>a, <2>1, BelowTop
  <2>3. \A d \in W : Below(W, d) = Below(W \ {a}, d)
    BY <1>a, <2>1, BelowTop
  <2>4. W \ {a} = V
    BY <1>4
  <2> QED
    BY <1>4, <2>2, <2>3, <2>4
<1>10. IsFrame(t, a, V, R)
  <2>1. AnswersAt(R[a], 1) /\ 1 \in DOMAIN R[a] /\ \A s \in DOMAIN R[a] : R[a][s].is = "empty"
    BY DEF AnswersAt, Empty
  <2> QED
    BY <1>3, <2>1 DEF IsFrame, Acts
<1>11. \A i \in 1 .. n : A[i].prov.home \in Anchors(t, W)
  <2>1. p.home \in Anchors(t, W) /\ a \in Anchors(t, W)
    BY <1>3, <1>4 DEF StandsOn, Anchors
  <2>2. p.loop # NoCell => p.loop \in Anchors(t, W)
    BY <1>3, <1>4 DEF Acts, Anchors
  <2> QED
    BY <2>1, <2>2 DEF Some
<1>12. n \in 1 .. n /\ q.parent = a /\ q.slot = 1 /\ q.loop = NoCell /\ q.home \in Anchors(t, W)
  BY <1>11
<1>13. Stacked(t, NoCell, q, R)
  <2>1. \A d \in W : IsFrame(t, d, Below(W, d), R)
    BY <1>3, <1>4, <1>9, <1>10
  <2>2. AnswersAt(R[a], 1)
    BY DEF AnswersAt, Empty
  <2>4. StandsOn(t, q, W, R)
    BY <1>a, <1>4, <1>12, <2>2 DEF StandsOn, Reports
  <2> QED
    BY <2>1, <2>4 DEF Stacked, W
<1>14. Queued(t, NoCell, q, F, R)
  <2>1. ASSUME NEW i \in 1 .. k PROVE IsAsked(t, q, S[i], W, R)
    <3>1. IsAsked(t, p, S[i], V, R)
      BY <1>6
    <3>2. S[i].prov.parent \in V /\ S[i].prov.parent # a
      BY <1>4, <3>1 DEF IsAsked
    <3>3. ~Serves(q, S[i].prov.parent, S[i].prov.slot)
      BY <1>12, <3>2 DEF Serves
    <3>4. \A d \in W : ~Serves(t.prov[d], S[i].prov.parent, S[i].prov.slot)
      BY <1>3, <1>4, <3>1 DEF IsAsked, Acts
    <3>5. S[i].prov.parent \in W /\ Below(W, S[i].prov.parent) = Below(V, S[i].prov.parent)
      BY <1>4, <1>9, <3>2
    <3> HIDE DEF q
    <3> QED
      BY <3>1, <3>3, <3>4, <3>5 DEF IsAsked
  <2>2. ASSUME NEW i \in 1 .. n - 1 PROVE IsAsked(t, q, A[i], W, R)
    <3>1. i \in 1 .. n /\ i # n /\ n + 1 - i \in 2 .. n
      OBVIOUS
    <3>2. /\ A[i] = Asked(A[i].prov, A[i].place, a, NoCell, NoCell)
          /\ A[i].prov.parent = a /\ A[i].prov.slot = n + 1 - i /\ A[i].prov.loop = NoCell
          /\ A[i].prov.home \in Anchors(t, W)
      BY <1>11, <3>1
    <3>3. n + 1 - i \in DOMAIN R[a] /\ R[a][n + 1 - i].is = "empty"
      BY <3>1 DEF Empty
    <3>4. ~Serves(q, a, n + 1 - i)
      BY <1>12, <3>1 DEF Serves
    <3>5. \A d \in W : ~Serves(t.prov[d], a, n + 1 - i)
      <4>1. t.prov[a] = p /\ p.parent # a
        BY <1>2, <1>3, <1>4 DEF Acts, StandsOn, Reports
      <4> QED
        BY <1>4, <1>5, <4>1 DEF Serves
    <3>6. a \in W /\ Below(W, a) \cup {a} = W
      BY <1>4, <1>9
    <3> HIDE DEF q
    <3> QED
      BY <3>2, <3>3, <3>4, <3>5, <3>6 DEF IsAsked
  <2>3. ASSUME NEW i \in 1 .. k + n - 1 PROVE IsAsked(t, q, F[i], W, R)
    <3>1. CASE i <= k
      BY <1>7, <2>1, <3>1
    <3>2. CASE ~(i <= k)
      <4>1. i - k \in 1 .. n - 1
        BY <1>7, <3>2
      <4> QED
        BY <1>7, <2>2, <3>2, <4>1
    <3> QED
      BY <3>1, <3>2
  <2>4. ASSUME NEW i \in 1 .. k + n - 1, NEW j \in 1 .. k + n - 1, i < j
        PROVE  Above(F[j].prov, F[i].prov)
    <3>1. CASE j <= k
      BY <1>6, <1>7, <2>4, <3>1
    <3>2. CASE ~(j <= k)
      <4>1. j - k \in 1 .. n /\ F[j].prov.parent = a /\ F[j].prov.slot = n + 1 - (j - k)
        <5>1. j - k \in 1 .. n
          BY <1>7, <3>2
        <5> QED
          BY <1>7, <3>2, <5>1
      <4>2. CASE i <= k
        <5>1. F[i].prov.parent \in V
          <6>1. i \in 1 .. k /\ F[i] = S[i]
            BY <1>7, <4>2
          <6> QED
            BY <1>6, <6>1 DEF IsAsked
        <5> QED
          BY <1>8, <4>1, <5>1 DEF Above
      <4>3. CASE ~(i <= k)
        <5>1. i - k \in 1 .. n
          BY <1>7, <4>3
        <5>2. F[i].prov.parent = a /\ F[i].prov.slot = n + 1 - (i - k)
          BY <1>7, <4>3, <5>1
        <5> QED
          BY <1>7, <2>4, <4>1, <5>2 DEF Above
      <4> QED
        BY <4>2, <4>3
    <3> QED
      BY <3>1, <3>2
  <2>5. ASSUME NEW c \in W, NEW s \in DOMAIN R[c], R[c][s].is = "empty"
        PROVE  \/ Serves(q, c, s)
               \/ \E d \in W : Serves(t.prov[d], c, s)
               \/ \E i \in 1 .. k + n - 1 : Serves(F[i].prov, c, s)
    <3>1. CASE c = a
      <4>1. s \in 1 .. n
        BY <3>1
      <4>2. CASE s = 1
        BY <1>12, <3>1, <4>2 DEF Serves
      <4>3. CASE s # 1
        <5> DEFINE i == k + (n + 1 - s)
        <5>1. i \in 1 .. k + n - 1 /\ ~(i <= k) /\ i - k = n + 1 - s /\ n + 1 - s \in 1 .. n
          <6>1. k \in Nat /\ s \in 2 .. n
            BY <1>7, <4>1, <4>3
          <6> QED
            BY <6>1
        <5>2. F[i] = A[n + 1 - s]
          BY <1>7, <5>1
        <5>3. A[n + 1 - s].prov.parent = a /\ A[n + 1 - s].prov.slot = n + 1 - (n + 1 - s)
          BY <5>1
        <5> QED
          BY <3>1, <4>1, <5>1, <5>2, <5>3 DEF Serves
      <4> QED
        BY <4>2, <4>3
    <3>2. CASE c \in V
      <4>1. CASE Serves(p, c, s)
        BY <1>3, <1>4, <4>1 DEF Acts
      <4>2. CASE \E d \in V : Serves(t.prov[d], c, s)
        BY <1>4, <4>2
      <4>3. CASE \E i \in 1 .. k : Serves(S[i].prov, c, s)
        <5>1. PICK i \in 1 .. k : Serves(S[i].prov, c, s)
          BY <4>3
        <5>2. i \in 1 .. k + n - 1 /\ F[i] = S[i]
          BY <1>7
        <5> QED
          BY <5>1, <5>2
      <4> QED
        BY <1>6, <2>5, <3>2, <4>1, <4>2, <4>3
    <3> QED
      BY <1>4, <3>1, <3>2
  <2> QED
    BY <1>7, <2>3, <2>4, <2>5 DEF Queued, W
<1>15. Looped(t, NoCell, q, NoCell)
  <2>1. t.prov[a] = p
    BY <1>3 DEF Acts
  <2>2. \A c, d \in W : t.prov[c].loop = t.prov[d].loop /\ t.prov[c].loop # NoCell => c = d
    BY <1>1, <1>4, <2>1 DEF Looped, V
  <2>3. ASSUME NEW c \in Cells, Standing(t, c), c \notin t.held
        PROVE  \E d \in W : t.prov[d].loop = c
    <3>1. c = p.loop \/ \E d \in V : t.prov[d].loop = c
      BY <1>1, <1>2, <2>3 DEF Looped, V
    <3> QED
      BY <1>4, <2>1, <3>1
  <2> QED
    BY <1>12, <2>2, <2>3 DEF Looped, W
<1>16. Keeps(t, NoCell, q, NoCell, NoCell, NoCell, NoCell)
  <2>1. KeptCells(t, NoCell, NoCell, NoCell) = KeptCells(t, a, NoCell, NoCell)
    BY <1>2 DEF KeptCells
  <2> QED
    BY <1>1, <1>2, <1>12, <2>1 DEF Keeps, Floor
<1> QED
  BY <1>13, <1>14, <1>15, <1>16 DEF Plain, Shape, F

-----------------------------------------------------------------------------
\* Room: the cells born and the requests still unborn.

Requests(S) == {i \in 1 .. Len(S) : S[i].is = "unborn"}

\* An entry more on the stack is a request more at most.
LEMMA RequestsGrow ==
    ASSUME NEW S \in Seq(Entry), NEW e
    PROVE  /\ Cardinality(Requests(S)) \in Nat
           /\ Cardinality(Requests(Append(S, e)))
                = Cardinality(Requests(S)) + IF e.is = "unborn" THEN 1 ELSE 0
<1> DEFINE n == Len(S)
           T == Append(S, e)
<1>1. n \in Nat /\ Len(T) = n + 1 /\ T[n + 1] = e /\ \A i \in 1 .. n : T[i] = S[i]
  OBVIOUS
<1>2. IsFiniteSet(1 .. n + 1) /\ Requests(S) \in SUBSET (1 .. n + 1) /\ n + 1 \notin Requests(S)
  BY <1>1, FS_Interval, SMTT(60) DEF Requests
<1> HIDE DEF T, n
<1>3. Requests(T) = Requests(S) \cup (IF e.is = "unborn" THEN {n + 1} ELSE {})
  <2>1. 1 .. n + 1 = (1 .. n) \cup {n + 1}
    BY <1>1
  <2> QED
    BY <1>1, <2>1 DEF Requests, n
<1>4. n + 1 \in 1 .. n + 1
  BY <1>1
<1>5. Cardinality(Requests(S)) \in Nat
  BY <1>2, CountZero
<1>6. CASE e.is = "unborn"
  BY <1>2, <1>3, <1>4, <1>5, <1>6, CountUp DEF T
<1>7. CASE e.is # "unborn"
  <2>1. Requests(T) = Requests(S)
    BY <1>3, <1>7
  <2> QED
    BY <1>5, <1>7, <2>1 DEF T
<1> QED
  BY <1>5, <1>6, <1>7

\* Sequences of the same length and elements are the same.
LEMMA SeqSame ==
    ASSUME NEW X, NEW S \in Seq(X), NEW T \in Seq(X), Len(S) = Len(T),
           \A i \in 1 .. Len(S) : S[i] = T[i]
    PROVE  S = T
OBVIOUS

\* A stack of its front and its top.
LEMMA FrontAndTop ==
    ASSUME NEW S \in Seq(Entry), S # <<>>
    PROVE  /\ Front(S) \in Seq(Entry) /\ Last(S) \in Entry
           /\ Len(Front(S)) = Len(S) - 1 /\ Len(S) \in Nat \ {0}
           /\ \A i \in 1 .. Len(S) - 1 : Front(S)[i] = S[i]
           /\ S = Append(Front(S), Last(S))
<1> DEFINE n == Len(S)
           F == Front(S)
<1>1. n \in Nat \ {0} /\ DOMAIN S = 1 .. n /\ S[n] \in Entry
  OBVIOUS
<1>2. F \in Seq(Entry) /\ Len(F) = n - 1 /\ \A i \in 1 .. n - 1 : F[i] = S[i]
  BY <1>1, SMTT(60) DEF Front
<1> HIDE DEF F, n
<1>3. S = Append(F, S[n])
  <2>1. /\ Append(F, S[n]) \in Seq(Entry) /\ Len(Append(F, S[n])) = n
        /\ \A i \in 1 .. n : Append(F, S[n])[i] = S[i]
    BY <1>1, <1>2
  <2> QED
    BY <1>1, <2>1, SeqSame DEF n
<1> QED
  BY <1>1, <1>2, <1>3 DEF F, n, Last

\* An entry pushed is the top, over the stack as it was.
LEMMA PushedTop ==
    ASSUME NEW S \in Seq(Entry), NEW e \in Entry
    PROVE  /\ Append(S, e) \in Seq(Entry) /\ Append(S, e) # <<>>
           /\ Last(Append(S, e)) = e /\ Front(Append(S, e)) = S
BY DEF Front, Last

\* Part of a stack holds no more requests than it, and a stack laid on one no more than both.
LEMMA RequestsPart ==
    ASSUME NEW S \in Seq(Entry), NEW m \in 0 .. Len(S)
    PROVE  /\ SubSeq(S, 1, m) \in Seq(Entry)
           /\ Cardinality(Requests(SubSeq(S, 1, m))) <= Cardinality(Requests(S))
<1>1. /\ SubSeq(S, 1, m) \in Seq(Entry) /\ Len(SubSeq(S, 1, m)) = m
      /\ \A i \in 1 .. m : SubSeq(S, 1, m)[i] = S[i]
  OBVIOUS
<1>2. Requests(SubSeq(S, 1, m)) \in SUBSET Requests(S)
  BY <1>1 DEF Requests
<1>3. IsFiniteSet(Requests(S))
  <2>1. IsFiniteSet(1 .. Len(S)) /\ Requests(S) \in SUBSET (1 .. Len(S))
    BY FS_Interval DEF Requests
  <2> QED
    BY <2>1, FS_Subset
<1> QED
  BY <1>1, <1>2, <1>3, FS_Subset

\* Pushing the requests of a park adds at most as many unborn as it asks for.
LEMMA RequestsJoined ==
    ASSUME NEW S \in Seq(Entry), NEW A \in Seq(Entry)
    PROVE  Cardinality(Requests(S \o A)) <= Cardinality(Requests(S)) + Len(A)
<1> DEFINE k == Len(S)
           n == Len(A)
           T == S \o A
           B == k + 1 .. k + n
<1>1. k \in Nat /\ n \in Nat /\ Len(T) = k + n /\ \A i \in 1 .. k : T[i] = S[i]
  OBVIOUS
<1>2. IsFiniteSet(1 .. k) /\ IsFiniteSet(B) /\ Cardinality(B) = n
  <2> HIDE DEF n, k
  <2>1. IsFiniteSet(1 .. k)
    BY <1>1, FS_Interval
  <2>2. k + 1 \in Int /\ k + n \in Int
    BY <1>1
  <2>3. /\ IsFiniteSet(k + 1 .. k + n)
        /\ Cardinality(k + 1 .. k + n) = IF k + 1 > k + n THEN 0 ELSE (k + n) - (k + 1) + 1
    BY <2>2, FS_Interval
  <2>4. (IF k + 1 > k + n THEN 0 ELSE (k + n) - (k + 1) + 1) = n
    BY <1>1
  <2> QED
    BY <2>1, <2>3, <2>4
<1> HIDE DEF T, n, k
<1>3. Requests(T) \in SUBSET (Requests(S) \cup B)
  BY <1>1 DEF Requests, k
<1>4. Requests(S) \in SUBSET (1 .. k)
  BY DEF Requests, k
<1>5. IsFiniteSet(Requests(S)) /\ Cardinality(Requests(S)) \in Nat
  BY <1>2, <1>4, FS_Subset, FS_CardinalityType
<1>6. Requests(S) \cap B = {}
  BY <1>1, <1>4
<1>7. IsFiniteSet(Requests(S) \cup B)
      /\ Cardinality(Requests(S) \cup B) = Cardinality(Requests(S)) + n
  <2>1. /\ IsFiniteSet(Requests(S) \cup B)
        /\ Cardinality(Requests(S) \cup B) =
             Cardinality(Requests(S)) + Cardinality(B) - Cardinality(Requests(S) \cap B)
    BY <1>2, <1>5, FS_Union
  <2>2. Cardinality(Requests(S) \cap B) = 0
    BY <1>6, FS_EmptySet
  <2> HIDE DEF B
  <2> QED
    BY <1>1, <1>2, <1>5, <2>1, <2>2
<1>8. Cardinality(Requests(T)) <= Cardinality(Requests(S) \cup B)
  BY <1>3, <1>7, FS_Subset
<1> QED
  BY <1>7, <1>8 DEF T, n

Used(l) == {c \in Cells : l[c] # "free"}

\* The next cell is born: there is one birth more, and what was standing stands below it.
LEMMA NextBorn ==
    ASSUME Typed, BornInOrder, Births < MaxCells
    PROVE  /\ Births \in Nat /\ NextCell \in Cells /\ life[NextCell] = "free"
           /\ NextCell \notin lost /\ NextCell \notin held /\ run[NextCell] = <<>>
           /\ \A c \in Cells : life[c] # "free" => c < NextCell
           /\ Cardinality(Used(life) \cup {NextCell}) = Births + 1
<1>1. IsFiniteSet(Cells) /\ Used(life) \in SUBSET Cells /\ Births = Cardinality(Used(life))
  BY DrainAssumption, FS_Interval DEF Cells, Used, Births
<1>2. Births \in Nat
  BY <1>1, CountZero
<1>3. NextCell \in Cells /\ ~(NextCell <= Births)
  BY <1>2, DrainAssumption DEF Cells, NextCell
<1>4. life[NextCell] = "free" /\ NextCell \notin lost /\ run[NextCell] = <<>>
  BY <1>2, <1>3 DEF BornInOrder, NextCell
<1>5. NextCell \notin held /\ NextCell \notin Used(life)
  BY <1>3, <1>4 DEF BornInOrder, Used
<1>6. \A c \in Cells : life[c] # "free" => c < NextCell
  BY <1>2 DEF BornInOrder, NextCell, Cells
<1> QED
  BY <1>1, <1>2, <1>3, <1>4, <1>5, <1>6, CountUp

-----------------------------------------------------------------------------
\* The table of a state.

\* The table's fields are the variables,
LEMMA TableFields ==
    /\ Table.life = life /\ Table.kind = kind /\ Table.under = under /\ Table.prov = prov
    /\ Table.rests = rests /\ Table.held = held /\ Table.lost = lost /\ Table.below = below
BY DEF Table

\* before a step and after it.
LEMMA TableFieldsNext ==
    /\ Table'.life = life' /\ Table'.kind = kind' /\ Table'.under = under' /\ Table'.prov = prov'
    /\ Table'.rests = rests' /\ Table'.held = held' /\ Table'.lost = lost'
    /\ Table'.below = below'
BY DEF Table

\* The region a cell writes to.
HomeOf(t, c) == IF c = Root \/ t.kind[c] = "tree" THEN c ELSE t.under[c]

\* `write_home` reads the table.
LEMMA WriteHomeOf == \A c : WriteHome(c) = HomeOf(Table, c)
BY TableFields DEF WriteHome, HomeOf

\* What stands is live.
LEMMA StandingLives == \A c : Standing(Table, c) => IsLive(c) /\ c \in Cells /\ c \notin lost
BY TableFields DEF Standing, IsLive

\* Wherever a value may be placed there is a cell of this run.
LEMMA AnchorsStand ==
    ASSUME NEW t \in Tables, NEW a, NEW p, NEW R, Stacked(t, a, p, R)
    PROVE  /\ \A x \in Anchors(t, Frames(t, a)) \cup Some(p.loop) :
                x = Root \/ (Standing(t, x) /\ (x \in Frames(t, a) \/ IsLoop(t, x)))
           /\ p.home \in Anchors(t, Frames(t, a))
           /\ p.parent = Root \/ p.parent \in Frames(t, a)
<1> DEFINE W == Frames(t, a)
<1>1. \A d \in W : Standing(t, d)
  BY DEF Frames
<1>2. \A d \in W : t.prov[d].loop # NoCell => IsLoop(t, t.prov[d].loop)
  BY FrameFacts
<1>3. /\ p.loop # NoCell => IsLoop(t, p.loop)
      /\ p.home \in Anchors(t, W)
      /\ p.parent = Root \/ p.parent \in W
  BY DEF Stacked, StandsOn, Reports
<1>4. \A c : IsLoop(t, c) => Standing(t, c)
  BY DEF IsLoop
<1> HIDE DEF W
<1>5. ASSUME NEW x \in Anchors(t, W) \cup Some(p.loop)
      PROVE  x = Root \/ (Standing(t, x) /\ (x \in W \/ IsLoop(t, x)))
  BY <1>1, <1>2, <1>3, <1>4, <1>5 DEF Anchors, Some
<1> QED
  BY <1>3, <1>5 DEF W

\* A frame writes where a value may be placed under it; so does a successor where it is born.
LEMMA HomesAnchored ==
    ASSUME NEW t \in Tables, NEW a, NEW p, NEW R, Stacked(t, a, p, R)
    PROVE  /\ \A d \in Frames(t, a) : HomeOf(t, d) \in Anchors(t, Frames(t, a))
           /\ HomeOf(t, p.parent) \in Anchors(t, Frames(t, a))
           /\ HomeOf(t, BirthPlace(p)) \in Anchors(t, Frames(t, a)) \cup Some(p.loop)
           /\ BirthPlace(p) \in Anchors(t, Frames(t, a)) \cup Some(p.loop)
<1> DEFINE W == Frames(t, a)
<1>1. ASSUME NEW d \in W PROVE HomeOf(t, d) \in Anchors(t, W)
  <2>1. IsFrame(t, d, Below(W, d), R)
    BY DEF Stacked
  <2>2. t.under[d] \in Anchors(t, Below(W, d)) \cup Some(t.prov[d].loop)
    BY <2>1 DEF IsFrame
  <2>3. t.under[d] \in Anchors(t, W)
    <3> HIDE DEF W
    <3> QED
      BY <1>1, <2>2 DEF Anchors, Some, Below
  <2>4. d \in Anchors(t, W)
    BY DEF Anchors
  <2> QED
    BY <2>3, <2>4 DEF HomeOf
<1>2. p.parent = Root \/ p.parent \in W
  BY AnchorsStand
<1>3. HomeOf(t, p.parent) \in Anchors(t, W) /\ p.parent \in Anchors(t, W)
  BY <1>1, <1>2 DEF HomeOf, Anchors
<1>4. p.loop # NoCell => IsLoop(t, p.loop)
  BY DEF Stacked, StandsOn
<1> QED
  BY <1>1, <1>3, <1>4 DEF BirthPlace, HomeOf, IsLoop, Some

\* A predecessor wrote to a region that stands.
LEMMA BeforeStands ==
    ASSUME NEW t \in Tables, NEW p, NEW S, NEW R, NEW af \in Cell, NEW od \in Cell,
           Shape(t, NoCell, p, S, R, af, od, NoCell, NoCell)
    PROVE  /\ af # NoCell => HomeOf(t, af) = Root \/ Standing(t, HomeOf(t, af))
           /\ od # NoCell => Standing(t, od)
<1>1. Stacked(t, NoCell, p, R) /\ Looped(t, NoCell, p, od)
      /\ Keeps(t, NoCell, p, af, od, NoCell, NoCell)
  BY DEF Shape
<1>2. od # NoCell => Standing(t, od)
  BY <1>1 DEF Looped, IsLoop
<1>3. ASSUME af # NoCell PROVE HomeOf(t, af) = Root \/ Standing(t, HomeOf(t, af))
  <2>1. IsBefore(t, af, NoCell, p, od, Frames(t, NoCell))
    BY <1>1, <1>3 DEF Keeps
  <2>2. CASE t.kind[af] = "tree"
    BY <2>1, <2>2 DEF HomeOf, IsBefore
  <2>3. CASE t.under[af] \in Anchors(t, Frames(t, NoCell)) \cup Some(p.loop)
    <3>1. t.under[af] = Root \/ Standing(t, t.under[af])
      BY <1>1, <2>3, AnchorsStand
    <3> QED
      BY <2>1, <3>1 DEF HomeOf, IsBefore
  <2>4. CASE t.under[af] \in Some(od)
    BY <1>2, <2>1, <2>4 DEF HomeOf, IsBefore, Some
  <2> QED
    BY <2>1, <2>2, <2>3, <2>4 DEF IsBefore
<1> QED
  BY <1>2, <1>3

-----------------------------------------------------------------------------
\* Pop: no entry is refused.

\* Where a request on top is born there is a cell, and its work may be placed there.
LEMMA BirthStands ==
    ASSUME Typed, NEW e \in Entry, NEW S, UnbornTop(e, S)
    PROVE  /\ IsLive(e.under)
           /\ HomeOf(Table, e.under) \in
                Anchors(Table, Frames(Table, NoCell)) \cup Some(e.prov.loop)
           /\ \A c \in Reads(e) \ {NoCell} : IsLive(c)
<1> DEFINE p == e.prov
           W == Frames(Table, NoCell)
<1>1. Table \in Tables /\ e.after \in Cell /\ e.old \in Cell
  BY DEF Typed, Entry, UnbornTop
<1>2. /\ Shape(Table, NoCell, p, S, run, e.after, e.old, NoCell, NoCell)
      /\ Stacked(Table, NoCell, p, run)
  BY DEF UnbornTop, Shape
<1>3. e.under = p.parent \/ e.under = BirthPlace(p)
  BY DEF UnbornTop
<1>4. HomeOf(Table, e.under) \in Anchors(Table, W) \cup Some(p.loop)
  BY <1>1, <1>2, <1>3, HomesAnchored
<1>5. e.under = Root \/ Standing(Table, e.under)
  <2>1. CASE e.under = p.parent
    <3>1. p.parent = Root \/ p.parent \in W
      BY <1>1, <1>2, AnchorsStand
    <3> QED
      BY <2>1, <3>1 DEF Frames
  <2>2. CASE e.under = BirthPlace(p)
    <3>1. BirthPlace(p) \in Anchors(Table, W) \cup Some(p.loop)
      BY <1>1, <1>2, HomesAnchored
    <3> QED
      BY <1>1, <1>2, <2>2, <3>1, AnchorsStand
  <2> QED
    BY <1>3, <2>1, <2>2
<1>6. IsLive(e.under)
  BY <1>5, StandingLives DEF IsLive
<1>7. ASSUME NEW c \in Reads(e) \ {NoCell} PROVE IsLive(c)
  <2>1. c = (IF e.after = NoCell THEN e.under ELSE WriteHome(e.after)) \/ c = e.old
    BY <1>7 DEF Reads, UnbornTop
  <2>2. CASE c = e.old
    BY <1>1, <1>2, <1>7, <2>2, BeforeStands, StandingLives
  <2>3. CASE e.after # NoCell /\ c = WriteHome(e.after)
    <3>1. c = Root \/ Standing(Table, c)
      BY <1>1, <1>2, <2>3, BeforeStands, WriteHomeOf
    <3> QED
      BY <3>1, StandingLives DEF IsLive
  <2> QED
    BY <1>6, <2>1, <2>2, <2>3
<1> QED
  BY <1>4, <1>6, <1>7

\* A kept cell is another region than the work's.
LEMMA KeptApart ==
    ASSUME Typed, NEW a \in Cells, NEW p, NEW S, NEW R, NEW k \in Cells,
           Plain(Table, a, p, S, R, k)
    PROVE  IsLive(a) /\ IsLive(k) /\ k # a /\ HomeOf(Table, k) = k /\ HomeOf(Table, a) # k
<1>1. NoCell \notin Cells /\ Root \notin Cells /\ Table \in Tables
  BY DrainAssumption DEF Cells, NoCell, Root, Typed
<1>2. k \in KeptCells(Table, a, NoCell, NoCell)
  BY <1>1, TakeUp
<1>3. Table.kind[k] = "tree"
  BY <1>2 DEF Plain, Shape, Keeps, Raised
<1>4. Stacked(Table, a, p, R) /\ Acts(Table, a, p, Frames(Table, a))
  BY <1>1 DEF Plain, Shape, Stacked
<1>5. Table.under[a] # k
  <2>1. \/ Table.under[a] = Root
        \/ Table.under[a] \in Frames(Table, a) \/ IsLoop(Table, Table.under[a])
    BY <1>1, <1>4, AnchorsStand DEF Acts
  <2> QED
    BY <1>1, <1>2, <2>1 DEF KeptCells, Frames, IsLoop
<1>6. Standing(Table, a) /\ Standing(Table, k) /\ k # a
  BY <1>2, <1>4 DEF Acts, KeptCells
<1> QED
  BY <1>1, <1>3, <1>5, <1>6, StandingLives DEF HomeOf

\* `drive` stalls at no entry: the stack is not empty, and what its top needs to be born under,
\* entered or read is there.
LEMMA PopGoes ==
    ASSUME Typed, AtPop, phase = "pop"
    PROVE  Refusal(ready) = "none"
<1> DEFINE e == Last(ready)
           S == Front(ready)
<1>1. ready # <<>> /\ (UnbornTop(e, S) \/ LiveTop(e, S) \/ BesideTop(e, S))
  BY DEF AtPop
<1>2. e \in Entry /\ Table \in Tables
  BY <1>1, FrontAndTop DEF Typed
<1> HIDE DEF e, S
<1>3. CASE UnbornTop(e, S)
  <2>1. e.is = "unborn"
    BY <1>3 DEF UnbornTop
  <2>2. IsLive(e.under) /\ \A c \in Reads(e) \ {NoCell} : IsLive(c)
    BY <1>2, <1>3, BirthStands
  <2> QED
    BY <1>1, <2>1, <2>2 DEF Refusal, e
<1>4. CASE LiveTop(e, S)
  <2>1. e.is = "live" /\ e.cell \in Cells /\ rests[e.cell] # "none"
    BY <1>2, <1>4 DEF LiveTop, Entry
  <2>2. PICK sd \in Cell : Plain(Table, e.cell, prov[e.cell], S, run, sd)
    BY <1>4 DEF LiveTop
  <2>3. Stacked(Table, e.cell, prov[e.cell], run)
    BY <2>2 DEF Plain, Shape
  <2>4. Standing(Table, e.cell)
    BY <2>1, <2>3, DrainAssumption DEF Stacked, Acts, Cells, NoCell
  <2>5. ASSUME NEW c \in Reads(e) \ {NoCell} PROVE IsLive(c)
    <3>1. PICK s \in Filled(e.cell) \ Faulted(e.cell) : c = run[e.cell][s].at
      BY <2>1, <2>5 DEF Reads
    <3>2. run[e.cell][s].is = "value"
      <4>1. run[e.cell] \in Seq(Fills) /\ s \in 1 .. Len(run[e.cell])
        BY <2>1, <3>1 DEF Typed, Filled, Slots
      <4>2. run[e.cell][s] \in Fills
        BY <4>1
      <4>3. run[e.cell][s].is # "empty" /\ run[e.cell][s].is # "fault"
        BY <3>1 DEF Filled, Faulted
      <4> QED
        BY <4>2, <4>3 DEF Fills, Empty
    <3>3. c \in Anchors(Table, Frames(Table, e.cell) \cup {e.cell})
      BY <1>4, <3>1, <3>2 DEF LiveTop, Filled
    <3>4. c \in Anchors(Table, Frames(Table, e.cell)) \cup Some(prov[e.cell].loop) \cup {e.cell}
      BY <3>3, TableFields DEF Anchors, Some
    <3>5. c = Root \/ Standing(Table, c)
      BY <1>2, <2>3, <2>4, <3>4, AnchorsStand
    <3> QED
      BY <3>5, StandingLives DEF IsLive
  <2> QED
    BY <1>1, <2>1, <2>4, <2>5, StandingLives DEF Refusal, e
<1>5. CASE BesideTop(e, S)
  <2>1. e.is = "beside" /\ e.cell \in Cells /\ e.kept \in Cells /\ rests[e.cell] # "none"
    BY <1>2, <1>5 DEF BesideTop, Entry
  <2>2. Plain(Table, e.cell, prov[e.cell], S, run, e.kept)
    BY <1>5 DEF BesideTop
  <2>3. IsLive(e.cell) /\ IsLive(e.kept) /\ WriteHome(e.kept) # WriteHome(e.cell)
    BY <2>1, <2>2, KeptApart, WriteHomeOf
  <2>4. Reads(e) = {}
    BY <2>1 DEF Reads
  <2> QED
    BY <1>1, <2>1, <2>3, <2>4 DEF Refusal, e
<1> QED
  BY <1>1, <1>3, <1>4, <1>5

-----------------------------------------------------------------------------
\* What every step keeps of the books.

\* The table is typed where the variables are, before a step and after it.
LEMMA TableTyped ==
    /\ Table \in Tables <=>
          /\ life \in [Cells -> {"free", "live", "dead"}] /\ kind \in [Cells -> {"tree", "tenant"}]
          /\ under \in [Cells -> Home] /\ prov \in [Cells -> Provenance]
          /\ rests \in [Cells -> {"none", "birth", "parked", "beside"}]
          /\ held \in SUBSET Cells /\ lost \in SUBSET Cells /\ below \in [Cells -> Cell]
    /\ Table' \in Tables <=>
          /\ life' \in [Cells -> {"free", "live", "dead"}] /\ kind' \in [Cells -> {"tree", "tenant"}]
          /\ under' \in [Cells -> Home] /\ prov' \in [Cells -> Provenance]
          /\ rests' \in [Cells -> {"none", "birth", "parked", "beside"}]
          /\ held' \in SUBSET Cells /\ lost' \in SUBSET Cells /\ below' \in [Cells -> Cell]
BY DEF Table, Tables

\* Where no cell is born the births are as many and in order.
LEMMA BornSame ==
    ASSUME Typed, BornInOrder,
           \A c \in Cells : life'[c] = "free" <=> life[c] = "free",
           \A c \in Cells : life[c] = "free" =>
              run'[c] = run[c] /\ rests'[c] = rests[c] /\ (c \in lost' => c \in lost),
           \A c \in held' : c \in Cells => life'[c] = "live"
    PROVE  Births' = Births /\ BornInOrder'
<1>1. Births' = Births
  BY DEF Births
<1>2. ASSUME NEW c \in Cells
      PROVE  /\ life'[c] = "free" <=> c > Births'
             /\ life'[c] = "free" => run'[c] = <<>> /\ rests'[c] = "none" /\ c \notin lost'
             /\ c \in held' => life'[c] = "live"
  BY <1>1 DEF BornInOrder
<1> QED
  BY <1>1, <1>2 DEF BornInOrder

\* Where one is, they are one more.
LEMMA BornOne ==
    ASSUME Typed, BornInOrder, Births < MaxCells,
           life'[NextCell] = "live",
           \A c \in Cells \ {NextCell} : life'[c] = "free" <=> life[c] = "free",
           \A c \in Cells \ {NextCell} : life[c] = "free" =>
              run'[c] = run[c] /\ rests'[c] = rests[c] /\ (c \in lost' => c \in lost),
           \A c \in held' : c \in Cells => life'[c] = "live"
    PROVE  Births' = Births + 1 /\ BornInOrder'
<1>1. /\ Births \in Nat /\ NextCell \in Cells
      /\ Cardinality(Used(life) \cup {NextCell}) = Births + 1
  BY NextBorn
<1>2. Used(life') = Used(life) \cup {NextCell}
  BY <1>1 DEF Used
<1>3. Births' = Births + 1
  BY <1>1, <1>2 DEF Births, Used
<1>4. ASSUME NEW c \in Cells
      PROVE  /\ life'[c] = "free" <=> c > Births'
             /\ life'[c] = "free" => run'[c] = <<>> /\ rests'[c] = "none" /\ c \notin lost'
             /\ c \in held' => life'[c] = "live"
  <2>1. CASE c = NextCell
    BY <1>1, <1>3, <2>1 DEF NextCell
  <2>2. CASE c # NextCell
    <3>1. c > Births' <=> c > Births
      BY <1>1, <1>3, <2>2 DEF NextCell, Cells
    <3> QED
      BY <2>2, <3>1 DEF BornInOrder
  <2> QED
    BY <2>1, <2>2
<1> QED
  BY <1>3, <1>4 DEF BornInOrder

\* No more than two of anything are among two.
LEMMA AmongTwo ==
    ASSUME NEW T, NEW x, NEW y, T \subseteq {x, y}
    PROVE  Cardinality(T) <= 2
<1>1. IsFiniteSet({x}) /\ Cardinality({x}) = 1
  BY FS_Singleton
<1>2. {x, y} = {x} \cup {y}
  OBVIOUS
<1>3. IsFiniteSet({x, y}) /\ Cardinality({x, y}) <= 2
  BY <1>1, <1>2, FS_AddElement
<1> QED
  BY <1>3, FS_Subset, FS_CardinalityType

Hops(c, s) ==
    {d \in Cells \ lost : life[d] = "live" /\ d \in held /\ prov[d].parent = c /\ prov[d].slot = s}

\* What is not filed or parked anew is in order.
LEMMA OrderKept ==
    ASSUME InOrder,
           \A c \in Cells \ lost' : life'[c] = "live" /\ rests'[c] = "parked" =>
              \/ /\ c \notin lost /\ life[c] = "live" /\ rests[c] = "parked"
                 /\ run'[c] = run[c]
              \/ AllEmpty(run'[c])
    PROVE  InOrder'
<1> SUFFICES ASSUME NEW c \in Cells \ lost', life'[c] = "live", rests'[c] = "parked",
                    NEW s \in Filled(c)', NEW r \in 1 .. s - 1
             PROVE  run'[c][r].is = "value"
  BY DEF InOrder
<1>1. CASE AllEmpty(run'[c])
  BY <1>1 DEF AllEmpty, Filled, Slots
<1>2. CASE c \notin lost /\ life[c] = "live" /\ rests[c] = "parked" /\ run'[c] = run[c]
  <2>1. s \in Filled(c)
    BY <1>2 DEF Filled, Slots
  <2> QED
    BY <1>2, <2>1 DEF InOrder
<1> QED
  BY <1>1, <1>2

\* Where nothing is born the hops are no more than they were.
LEMMA HopsKept ==
    ASSUME Typed, TwoHops, lost \subseteq lost', held' \subseteq held, prov' = prov,
           \A c \in Cells : life'[c] = "live" => life[c] = "live" \/ c \notin held'
    PROVE  TwoHops'
<1> SUFFICES ASSUME NEW c \in Cells, NEW s \in 1 .. MaxCells
             PROVE  /\ Cardinality(Hops(c, s)') <= 2
                    /\ Cardinality({prov'[d].loop : d \in Hops(c, s)'} \ {NoCell}) <= 2
  BY DEF TwoHops, Hops
<1> DEFINE loops == {prov[d].loop : d \in Hops(c, s)} \ {NoCell}
<1>1. Hops(c, s)' \subseteq Hops(c, s)
  BY DEF Hops
<1>2. IsFiniteSet(Cells)
  BY DrainAssumption, FS_Interval DEF Cells
<1>3. Hops(c, s) \in SUBSET Cells
  BY DEF Hops
<1>4. prov \in [Cells -> Provenance]
  BY TableTyped DEF Typed
<1>5. loops \in SUBSET Cells
  BY <1>3, <1>4 DEF Provenance
<1>6. Cardinality(Hops(c, s)) <= 2 /\ Cardinality(loops) <= 2
  BY DEF TwoHops, Hops
<1>7. loops' \subseteq loops
  BY <1>1
<1>8. IsFiniteSet(Hops(c, s)) /\ IsFiniteSet(loops)
  BY <1>2, <1>3, <1>5, FS_Subset
<1>9. Cardinality(Hops(c, s)') <= Cardinality(Hops(c, s)) /\ Cardinality(loops') <= Cardinality(loops)
  BY <1>1, <1>7, <1>8, FS_Subset
<1>10. IsFiniteSet(Hops(c, s)') /\ IsFiniteSet(loops')
  BY <1>1, <1>7, <1>8, FS_Subset
<1>11. /\ Cardinality(Hops(c, s)) \in Nat /\ Cardinality(Hops(c, s)') \in Nat
       /\ Cardinality(loops) \in Nat /\ Cardinality(loops') \in Nat
  BY <1>8, <1>10, FS_CardinalityType
<1> QED
  BY <1>6, <1>9, <1>11

-----------------------------------------------------------------------------
\* Pop: the work of the top entry is entered.

\* A frame is the parent of one frame at most, and the topmost of none.
LEMMA OneChild ==
    ASSUME NEW t \in Tables, NEW a, NEW p, NEW R, Stacked(t, a, p, R),
           NEW c \in Cells, NEW d \in Frames(t, a), NEW e \in Frames(t, a),
           t.prov[d].parent = c, t.prov[e].parent = c
    PROVE  d = e
<1> DEFINE W == Frames(t, a)
<1>1. W \subseteq Cells /\ Cells \subseteq Int /\ Root \notin Cells
  BY DrainAssumption DEF Frames, Cells, Root
<1>2. \A f \in W : t.prov[f].parent = c => c < f /\ \A g \in Below(W, f) : g <= c
  <2>1. ASSUME NEW f \in W, t.prov[f].parent = c PROVE c < f /\ \A g \in Below(W, f) : g <= c
    <3>1. IsFrame(t, f, Below(W, f), R)
      BY DEF Stacked
    <3>2. Reports(t.prov[f], Below(W, f), R)
      BY <3>1 DEF IsFrame, StandsOn
    <3> QED
      BY <1>1, <2>1, <3>2 DEF Reports, Below
  <2> QED
    BY <2>1
<1>a. d \in W /\ e \in W
  OBVIOUS
<1> HIDE DEF W
<1>b. d \in Int /\ e \in Int /\ c \in Int
  BY <1>1, <1>a
<1>3. ASSUME NEW x \in W, NEW y \in W, x < y, x \in Int, t.prov[x].parent = c,
             t.prov[y].parent = c
      PROVE  FALSE
  <2>1. x \in Below(W, y)
    BY <1>3 DEF Below
  <2>2. x <= c /\ c < x
    BY <1>2, <1>3, <2>1
  <2> QED
    BY <1>b, <1>3, <2>2
<1>4. ~(d < e) /\ ~(e < d)
  BY <1>3, <1>a, <1>b
<1> QED
  BY <1>b, <1>4

\* A pop whose entry has no cell: one is born and entered.
LEMMA PopBorn ==
    ASSUME IInv, Pop, phase = "pop", UnbornTop(Last(ready), Front(ready))
    PROVE  IInv'
<1> DEFINE e == Last(ready)
           S == Front(ready)
           n == NextCell
           W == Frames(Table, NoCell)
<1>1. Typed /\ BornInOrder /\ Roomy /\ Quiet /\ AtPop /\ InOrder /\ TwoHops
  BY DEF IInv
<1>2. ready \in Seq(Entry) /\ ready # <<>> /\ UnbornTop(e, S)
  BY <1>1 DEF AtPop, Typed
<1>3. e \in Entry /\ S \in Seq(Entry) /\ ready = Append(S, e)
  BY <1>2, FrontAndTop
<1>4. e.is = "unborn" /\ e \in [is : {"unborn"}, prov : Provenance, place : {"Fresh", "Shares"},
                                under : Home, after : Cell, old : Cell]
  BY <1>2, <1>3 DEF UnbornTop, Entry
<1>5. /\ Refusal(ready) = "none" /\ outcome' = "none" /\ ready' = S /\ phase' = "step"
      /\ BornAt(n, e.prov, e.place, e.under, "none") /\ run' = run
      /\ turn' = [cell |-> n, beside |-> NoCell, after |-> e.after, old |-> e.old,
                  owes |-> NoCell, first |-> TRUE]
      /\ UNCHANGED <<below, ended, ending, runs, lost>>
  <2>1. Refusal(ready) = "none"
    BY <1>1, PopGoes
  <2>2. Enter(e) /\ outcome' = "none" /\ ready' = S /\ phase' = "step"
        /\ UNCHANGED <<below, ended, ending, runs, lost>>
    BY <2>1 DEF Pop, books
  <2>3. Owes(e) = NoCell
    BY <1>4 DEF Owes
  <2> QED
    BY <1>4, <2>1, <2>2, <2>3 DEF Enter, CellOf
<1>6. Cardinality(Requests(ready)) = Cardinality(Requests(S)) + 1
      /\ Cardinality(Requests(S)) \in Nat
  BY <1>3, <1>4, RequestsGrow
<1>7. Births \in Nat /\ Births + Cardinality(Requests(ready)) <= MaxCells
  <2>1. IsFiniteSet(Cells) /\ Used(life) \in SUBSET Cells /\ Births = Cardinality(Used(life))
    BY DrainAssumption, FS_Interval DEF Cells, Used, Births
  <2>2. Births \in Nat
    BY <2>1, CountZero
  <2>3. Need = 0 /\ Unborn = Requests(ready)
    BY DEF Need, Pop, Unborn, Requests
  <2> QED
    BY <1>1, <1>6, <2>2, <2>3 DEF Roomy, Pop
<1>8. Births < MaxCells
  BY <1>6, <1>7, DrainAssumption
<1>9. /\ n \in Cells /\ life[n] = "free" /\ n \notin lost /\ n \notin held /\ run[n] = <<>>
      /\ \A c \in Cells : life[c] # "free" => c < n
  BY <1>1, <1>8, NextBorn
<1> HIDE DEF e, S, n, W
<1>10. Table \in Tables /\ Table' \in Tables
  <2>1. Table \in Tables /\ WriteHome(e.under) \in Home
    <3>1. Table \in Tables
      BY <1>1 DEF Typed
    <3> QED
      BY <1>4, <3>1, TableTyped DEF WriteHome, Home
  <2> QED
    BY <1>4, <1>5, <1>9, <2>1, TableTyped DEF BornAt
<1>11. Typed'
  <2>1. turn' \in Turn /\ ready' \in Seq(Entry)
    BY <1>3, <1>4, <1>5, <1>9 DEF Turn, Cell
  <2> QED
    BY <1>1, <1>5, <1>10, <2>1 DEF Typed
<1>12. Births' = Births + 1 /\ BornInOrder'
  <2>1. /\ life'[n] = "live"
        /\ \A c \in Cells \ {n} : life'[c] = life[c] /\ rests'[c] = rests[c]
    BY <1>5, <1>9, <1>10, TableTyped DEF BornAt
  <2>2. \A c \in held' : c \in Cells => life'[c] = "live"
    BY <1>1, <1>5, <1>9, <2>1 DEF BornAt, BornInOrder
  <2> QED
    BY <1>1, <1>5, <1>8, <2>1, <2>2, BornOne DEF n
<1>13. Roomy'
  <2>1. Need' = 0 /\ Unborn' = Requests(S)
    BY <1>5 DEF Need, Unborn, Requests
  <2> QED
    BY <1>6, <1>7, <1>12, <2>1 DEF Roomy
<1>14. Quiet'
  BY <1>1, <1>5 DEF Quiet, Pop
<1>15. Shape(Table', n, e.prov, S, run, e.after, e.old, NoCell, NoCell)
  <2>1. Shape(Table, NoCell, e.prov, S, run, e.after, e.old, NoCell, NoCell)
    BY <1>2 DEF UnbornTop
  <2>2. HomeOf(Table, e.under) \in Anchors(Table, Frames(Table, NoCell)) \cup Some(e.prov.loop)
    BY <1>1, <1>2, <1>3, BirthStands
  <2>3. \A c \in Cells : Standing(Table, c) => c < n
    BY <1>9, TableFields DEF Standing
  <2>4. /\ Table'.lost = Table.lost /\ Table'.below = Table.below
        /\ Table'.held = Table.held \cup {n}
        /\ \A c \in Cells \ {n} :
              /\ Table'.life[c] = Table.life[c] /\ Table'.kind[c] = Table.kind[c]
              /\ Table'.under[c] = Table.under[c] /\ Table'.prov[c] = Table.prov[c]
              /\ Table'.rests[c] = Table.rests[c]
        /\ Table'.life[n] = "live" /\ Table'.prov[n] = e.prov /\ Table'.rests[n] = "none"
        /\ Table'.under[n] = HomeOf(Table, e.under)
    <3>1. /\ life' = [life EXCEPT ![n] = "live"] /\ prov' = [prov EXCEPT ![n] = e.prov]
          /\ under' = [under EXCEPT ![n] = WriteHome(e.under)]
          /\ rests' = [rests EXCEPT ![n] = "none"] /\ held' = held \cup {n}
          /\ \A c \in Cells \ {n} : kind'[c] = kind[c]
      BY <1>5, <1>9, <1>10, TableTyped DEF BornAt
    <3> QED
      BY <1>5, <1>9, <1>10, <3>1, TableTyped, TableFields, TableFieldsNext, WriteHomeOf
  <2>5. Table.life[n] = "free" /\ n \notin Table.lost /\ n \notin Table.held
    BY <1>9, TableFields
  <2>6. e.after \in Cell /\ e.old \in Cell
    BY <1>4
  <2> DEFINE u == Table'
  <2>7. u \in Tables
    BY <1>10
  <2> HIDE DEF u
  <2> QED
    BY <1>9, <1>10, <2>1, <2>2, <2>3, <2>4, <2>5, <2>6, <2>7, Enters DEF u
<1>16. prov'[n] = e.prov /\ rests'[n] = "none"
  BY <1>5, <1>9, <1>10, TableTyped DEF BornAt
<1>17. AtStep'
  <2>1. Here' = n /\ n # NoCell
    BY <1>5, <1>9, DrainAssumption DEF Here, Cells, NoCell
  <2>2. AllEmpty(run'[n])
    BY <1>5, <1>9 DEF AllEmpty
  <2>3. turn'.after = e.after /\ turn'.old = e.old /\ turn'.beside = NoCell /\ turn'.owes = NoCell
    BY <1>5
  <2> QED
    BY <1>5, <1>15, <1>16, <2>1, <2>2, <2>3 DEF AtStep, InTurn
<1>18. AtPop' /\ AtSettle' /\ AtOver'
  BY <1>5 DEF AtPop, AtSettle, AtOver
<1>19. InOrder'
  <2> SUFFICES ASSUME NEW c \in Cells \ lost', life'[c] = "live", rests'[c] = "parked",
                      NEW s \in Filled(c)', NEW r \in 1 .. s - 1
               PROVE  run'[c][r].is = "value"
    BY DEF InOrder
  <2>1. c # n /\ life[c] = "live" /\ rests[c] = "parked" /\ s \in Filled(c)
    BY <1>5, <1>9, <1>10, <1>16, TableTyped DEF BornAt, Filled, Slots
  <2> QED
    BY <1>1, <1>5, <2>1 DEF InOrder
<1>20. TwoHops'
  <2> SUFFICES ASSUME NEW c \in Cells, NEW s \in 1 .. MaxCells
               PROVE  /\ Cardinality(Hops(c, s)') <= 2
                      /\ Cardinality({prov'[d].loop : d \in Hops(c, s)'} \ {NoCell}) <= 2
    BY DEF TwoHops, Hops
  <2> DEFINE u == Table'
             V == Frames(u, n)
  <2>1. /\ Stacked(u, n, e.prov, run) /\ Keeps(u, n, e.prov, e.after, e.old, NoCell, NoCell)
    BY <1>15 DEF Shape
  <2>2. NoCell \notin Cells /\ Root \notin Cells
    BY DrainAssumption DEF Cells, NoCell, Root
  <2>3. KeptCells(u, n, e.after, NoCell) = {}
    BY <2>1, <2>2 DEF Keeps, FaultChain, KeptCells
  <2>4. \A d \in Hops(c, s)' : d \in V \cup {n} \cup Some(e.after)
    <3> SUFFICES ASSUME NEW d \in Hops(c, s)', d \notin V, d # n, d # e.after PROVE FALSE
      BY <2>2 DEF Some, Hops
    <3>1. d \in Cells /\ Standing(u, d) /\ d \in u.held
      BY TableFieldsNext DEF Hops, Standing
    <3> QED
      BY <2>2, <2>3, <3>1 DEF KeptCells, Frames
  <2>5. \A d \in Hops(c, s)' : u.prov[d].parent = c
    BY TableFieldsNext DEF Hops
  <2>6. u.prov[n] = e.prov
    BY <1>16, TableFieldsNext
  <2>7. e.after # NoCell => u.prov[e.after].parent = e.prov.parent
    BY <2>1 DEF Keeps, IsBefore
  <2>8. u \in Tables
    BY <1>10
  <2>9. \E x, y : Hops(c, s)' \subseteq {x, y}
    <3>1. CASE c = e.prov.parent
      <4>1. e.prov.slot # 0
        <5>1. AnswersAt(run[c], e.prov.slot)
          BY <2>1, <2>2, <3>1 DEF Stacked, StandsOn, Reports
        <5>2. run[c] \in Seq(Fills)
          BY <1>1 DEF Typed
        <5> QED
          BY <5>1, <5>2 DEF AnswersAt
      <4>2. \A d \in V : u.prov[d].parent # c
        <5> HIDE DEF u
        <5> QED
          BY <2>1, <2>8, <3>1, <4>1, TopFrame
      <4>3. Hops(c, s)' \subseteq {n, e.after}
        BY <2>4, <2>5, <4>2 DEF Some
      <4> QED
        BY <4>3
    <3>2. CASE c # e.prov.parent
      <4>1. Hops(c, s)' \subseteq V
        BY <2>4, <2>5, <2>6, <2>7, <3>2 DEF Some
      <4>2. \A d, f \in Hops(c, s)' : d = f
        <5> HIDE DEF u
        <5> QED
          BY <2>1, <2>5, <2>8, <4>1, OneChild
      <4>3. \E x : Hops(c, s)' \subseteq {x}
        BY <4>2
      <4> QED
        BY <4>3
    <3> QED
      BY <3>1, <3>2
  <2>10. PICK x, y : Hops(c, s)' \subseteq {x, y}
    BY <2>9
  <2>11. {prov'[d].loop : d \in Hops(c, s)'} \ {NoCell} \subseteq {prov'[x].loop, prov'[y].loop}
    BY <2>10
  <2>12. Cardinality(Hops(c, s)') <= 2
    BY <2>10, AmongTwo
  <2> DEFINE loops == {prov'[d].loop : d \in Hops(c, s)'} \ {NoCell}
  <2>13. loops \subseteq {prov'[x].loop, prov'[y].loop}
    BY <2>11
  <2> HIDE DEF loops
  <2>14. Cardinality(loops) <= 2
    BY <2>13, AmongTwo
  <2> QED
    BY <2>12, <2>14 DEF loops
<1> QED
  BY <1>11, <1>12, <1>13, <1>14, <1>17, <1>18, <1>19, <1>20 DEF IInv

\* A wait that is over is taken whole, and answers for the fault it met.
LEMMA TakenWhole ==
    ASSUME Typed, NEW c \in Cells, NEW sd \in Cell, WaitOver(run[c], sd),
           NEW e, e.is = "live", e.cell = c
    PROVE  /\ Owes(e) = sd
           /\ Taken(c) \in Seq(Fills) /\ AllEmpty(Taken(c))
<1> DEFINE r == run[c]
<1>1. r \in Seq(Fills) /\ DOMAIN r = Slots(c) /\ \A s \in Slots(c) : r[s] \in Fills
  BY DEF Typed, Slots
<1>2. Empty \in Fills /\ Empty.is = "empty"
  BY DEF Fills, Empty
<1>3. /\ Taken(c) \in Seq(Fills) /\ DOMAIN Taken(c) = Slots(c)
      /\ \A s \in Slots(c) : Taken(c)[s] = IF \E f \in Faulted(c) : f < s THEN r[s] ELSE Empty
  BY <1>1, <1>2 DEF Taken, Slots
<1>4. CASE Answered(r) /\ sd = NoCell
  <2>1. Faulted(c) = {}
    BY <1>1, <1>4 DEF Answered, Faulted
  <2> QED
    BY <1>2, <1>3, <1>4, <2>1 DEF Owes, AllEmpty
<1>5. CASE \E f \in DOMAIN r : FaultsAt(r, f) /\ sd = r[f].at
  <2>1. PICK f \in Slots(c) : FaultsAt(r, f) /\ sd = r[f].at
    BY <1>1, <1>5
  <2>2. Faulted(c) = {f}
    BY <1>1, <2>1 DEF FaultsAt, Faulted, Slots
  <2>3. \A s \in Slots(c) : f < s => r[s].is = "empty"
    BY <1>1, <2>1 DEF FaultsAt, Slots
  <2>4. AllEmpty(Taken(c))
    BY <1>2, <1>3, <2>2, <2>3 DEF AllEmpty
  <2>5. (CHOOSE s \in Faulted(c) : TRUE) = f
    BY <2>2
  <2>6. Owes(e) = sd
    BY <2>1, <2>2, <2>5 DEF Owes
  <2> QED
    BY <1>3, <2>4, <2>6
<1> QED
  BY <1>4, <1>5 DEF WaitOver

\* An entry that is no request leaves as much room.
LEMMA RoomKept ==
    ASSUME Typed, Roomy, phase = "pop", ready # <<>>, Last(ready).is # "unborn",
           ready' = Front(ready), phase' = "step", Births' = Births
    PROVE  Roomy'
<1>1. ready = Append(Front(ready), Last(ready)) /\ Front(ready) \in Seq(Entry)
  BY FrontAndTop DEF Typed
<1>2. Cardinality(Requests(ready)) = Cardinality(Requests(Front(ready)))
  <2> DEFINE F == Front(ready)
             e == Last(ready)
  <2>1. F \in Seq(Entry) /\ e.is # "unborn" /\ ready = Append(F, e)
    BY <1>1
  <2> HIDE DEF F, e
  <2>2. /\ Cardinality(Requests(F)) \in Nat
        /\ Cardinality(Requests(Append(F, e)))
             = Cardinality(Requests(F)) + IF e.is = "unborn" THEN 1 ELSE 0
    BY <2>1, RequestsGrow
  <2>3. Cardinality(Requests(Append(F, e))) = Cardinality(Requests(F))
    BY <2>1, <2>2
  <2> QED
    BY <2>1, <2>3 DEF F
<1>3. Unborn = Requests(ready) /\ Unborn' = Requests(Front(ready)) /\ Need = 0 /\ Need' = 0
  BY DEF Unborn, Requests, Need
<1> QED
  BY <1>2, <1>3 DEF Roomy

\* What an entry that is no request changes: the rest and the run of its cell, and the turn.
LEMMA PopResumes ==
    ASSUME IInv, Pop, phase = "pop", NEW a \in Cells, NEW sd \in Cell, NEW bs \in Cell,
           ready' = Front(ready), phase' = "step", outcome' = "none", Last(ready).is # "unborn",
           Shape(Table, a, prov[a], Front(ready), run, NoCell, NoCell, bs, sd),
           turn' \in Turn, turn'.cell = a, turn'.beside = bs, turn'.after = NoCell,
           turn'.old = NoCell, turn'.owes = sd,
           rests' = [rests EXCEPT ![a] = "none"],
           run' \in [Cells -> Seq(Fills)], \A c \in Cells \ {a} : run'[c] = run[c],
           AllEmpty(run'[a]),
           UNCHANGED <<life, kind, under, prov, held, below, ended, ending, books>>
    PROVE  IInv'
<1>1. Typed /\ BornInOrder /\ Roomy /\ Quiet /\ AtPop /\ InOrder /\ TwoHops
  BY DEF IInv
<1>2. ready \in Seq(Entry) /\ ready # <<>>
  BY <1>1 DEF AtPop, Typed
<1>3. Front(ready) \in Seq(Entry)
  BY <1>2, FrontAndTop
<1>4. a # NoCell
  BY DrainAssumption DEF Cells, NoCell
<1>5. Table \in Tables /\ Table' \in Tables
  <2>1. Table \in Tables
    BY <1>1 DEF Typed
  <2> QED
    BY <2>1, TableTyped DEF books
<1>6. /\ rests'[a] = "none" /\ \A c \in Cells \ {a} : rests'[c] = rests[c]
  BY <1>5, TableTyped
<1>7. Typed'
  BY <1>1, <1>3, <1>5 DEF Typed, books
<1>8. life[a] = "live"
  <2>1. Acts(Table, a, prov[a], Frames(Table, a))
    BY <1>4 DEF Shape, Stacked
  <2> QED
    BY <2>1, TableFields DEF Acts, Standing
<1>9. Births' = Births /\ BornInOrder'
  <2>1. \A c \in Cells : life[c] = "free" =>
              run'[c] = run[c] /\ rests'[c] = rests[c] /\ (c \in lost' => c \in lost)
    BY <1>6, <1>8 DEF books
  <2>2. \A c \in held' : c \in Cells => life'[c] = "live"
    BY <1>1 DEF BornInOrder
  <2> QED
    BY <1>1, <2>1, <2>2, BornSame
<1>10. Roomy'
  BY <1>1, <1>2, <1>9, RoomKept
<1>11. Quiet'
  BY <1>1 DEF Quiet
<1>12. InOrder' /\ TwoHops'
  <2>1. \A c \in Cells \ lost' : life'[c] = "live" /\ rests'[c] = "parked" =>
              life[c] = "live" /\ rests[c] = "parked" /\ run'[c] = run[c]
    BY <1>6
  <2>2. InOrder'
    BY <1>1, <2>1, OrderKept DEF books
  <2> QED
    BY <1>1, <2>2, HopsKept DEF books
<1>13. AtStep'
  <2> DEFINE u == Table'
  <2>1. /\ u.life = Table.life /\ u.kind = Table.kind /\ u.under = Table.under
        /\ u.prov = Table.prov /\ u.held = Table.held /\ u.lost = Table.lost
        /\ \A c \in Cells \ {a} : u.rests[c] = Table.rests[c] /\ u.below[c] = Table.below[c]
    BY <1>6, TableFields, TableFieldsNext DEF books
  <2>2. \A c \in Frames(Table, a) : run'[c] = run[c]
    BY DEF Frames
  <2>3. u \in Tables
    BY <1>5
  <2> HIDE DEF u
  <2>4. NoCell \in Cell
    BY DEF Cell
  <2>5. Shape(u, a, prov[a], Front(ready), run', NoCell, NoCell, bs, sd)
    BY <1>5, <2>1, <2>2, <2>3, <2>4, ActorMoves
  <2> QED
    BY <1>4, <1>6, <2>5 DEF AtStep, InTurn, Here, u
<1>14. AtPop' /\ AtSettle' /\ AtOver'
  BY DEF AtPop, AtSettle, AtOver
<1> QED
  BY <1>7, <1>9, <1>10, <1>11, <1>12, <1>13, <1>14 DEF IInv

\* A pop of a cell woken by its birth or by the end of its wait, whose run it takes.
LEMMA PopWoken ==
    ASSUME IInv, Pop, phase = "pop", LiveTop(Last(ready), Front(ready))
    PROVE  IInv'
<1> DEFINE e == Last(ready)
           a == e.cell
<1>1. Typed /\ AtPop
  BY DEF IInv
<1>2. e \in Entry
  BY <1>1, FrontAndTop DEF AtPop, Typed
<1>3. e.is = "live" /\ a \in Cells
  BY <1>2 DEF LiveTop, Entry
<1>4. PICK sd \in Cell : /\ WaitOver(run[a], sd)
                         /\ Plain(Table, a, prov[a], Front(ready), run, sd)
  BY DEF LiveTop
<1> HIDE DEF e
<1>5. Owes(e) = sd /\ Taken(a) \in Seq(Fills) /\ AllEmpty(Taken(a))
  BY <1>1, <1>3, <1>4, TakenWhole
<1>6. Refusal(ready) = "none"
  BY <1>1, PopGoes
<1>7. /\ outcome' = "none" /\ ready' = Front(ready) /\ phase' = "step"
      /\ UNCHANGED <<below, ended, ending, books>> /\ Enter(e)
  BY <1>6 DEF Pop, e
<1>8. /\ rests' = [rests EXCEPT ![a] = "none"] /\ run' = [run EXCEPT ![a] = Taken(a)]
      /\ UNCHANGED <<life, kind, under, prov, held>>
      /\ turn' = [cell |-> a, beside |-> NoCell, after |-> NoCell, old |-> NoCell,
                  owes |-> sd, first |-> rests[a] = "birth"]
  BY <1>3, <1>5, <1>7 DEF Enter, CellOf
<1>9. run \in [Cells -> Seq(Fills)]
  BY <1>1 DEF Typed
<1>10. /\ run' \in [Cells -> Seq(Fills)] /\ run'[a] = Taken(a)
       /\ \A c \in Cells \ {a} : run'[c] = run[c]
  BY <1>3, <1>5, <1>8, <1>9
<1>11. NoCell \in Cell /\ turn' \in Turn
  BY <1>3, <1>8 DEF Turn, Cell
<1>12. Shape(Table, a, prov[a], Front(ready), run, NoCell, NoCell, NoCell, sd)
  BY <1>4 DEF Plain
<1> HIDE DEF a
<1> QED
  BY <1>3, <1>5, <1>7, <1>8, <1>10, <1>11, <1>12, PopResumes DEF e

\* A pop of a cell entered beside the kept cell it is to read.
LEMMA PopBeside ==
    ASSUME IInv, Pop, phase = "pop", BesideTop(Last(ready), Front(ready))
    PROVE  IInv'
<1> DEFINE e == Last(ready)
           a == e.cell
           k == e.kept
<1>1. Typed /\ AtPop
  BY DEF IInv
<1>2. e \in Entry
  BY <1>1, FrontAndTop DEF AtPop, Typed
<1>3. e.is = "beside" /\ a \in Cells /\ k \in Cells
  BY <1>2 DEF BesideTop, Entry
<1>4. AllEmpty(run[a]) /\ Plain(Table, a, prov[a], Front(ready), run, k)
  BY DEF BesideTop
<1> HIDE DEF e
<1>5. Owes(e) = below[k] /\ Table \in Tables /\ below[k] \in Cell
  BY <1>1, <1>3, TableTyped DEF Owes, Typed
<1>6. Refusal(ready) = "none"
  BY <1>1, PopGoes
<1>7. /\ outcome' = "none" /\ ready' = Front(ready) /\ phase' = "step"
      /\ UNCHANGED <<below, ended, ending, books>> /\ Enter(e)
  BY <1>6 DEF Pop, e
<1>8. /\ rests' = [rests EXCEPT ![a] = "none"] /\ run' = run
      /\ UNCHANGED <<life, kind, under, prov, held>>
      /\ turn' = [cell |-> a, beside |-> k, after |-> NoCell, old |-> NoCell,
                  owes |-> below[k], first |-> rests[a] = "birth"]
  BY <1>3, <1>5, <1>7 DEF Enter, CellOf
<1>9. run \in [Cells -> Seq(Fills)]
  BY <1>1 DEF Typed
<1>11. NoCell \in Cell /\ turn' \in Turn /\ k \in Cell
  BY <1>3, <1>5, <1>8 DEF Turn, Cell
<1>12. Shape(Table, a, prov[a], Front(ready), run, NoCell, NoCell, k, below[k])
  BY <1>3, <1>4, <1>5, TakeUp, TableFields
<1> HIDE DEF a, k
<1> QED
  BY <1>3, <1>4, <1>5, <1>7, <1>8, <1>9, <1>11, <1>12, PopResumes DEF e

\* The pop of `drive` keeps the invariant.
LEMMA PopIInv == IInv /\ Pop => IInv'
<1> SUFFICES ASSUME IInv, Pop PROVE IInv'
  OBVIOUS
<1>1. phase = "pop"
  BY DEF Pop
<1>2. \/ UnbornTop(Last(ready), Front(ready)) \/ LiveTop(Last(ready), Front(ready))
      \/ BesideTop(Last(ready), Front(ready))
  BY <1>1 DEF IInv, AtPop
<1> QED
  BY <1>1, <1>2, PopBorn, PopWoken, PopBeside

-----------------------------------------------------------------------------
\* A step of the cell entered: no end is refused.

\* The cell entered, its work, and the slot it reports to.
LEMMA StepFacts ==
    ASSUME IInv, phase = "step", NEW p, p = prov[Here]
    PROVE  /\ Here \in Cells /\ life[Here] = "live" /\ rests[Here] = "none"
           /\ AllEmpty(run[Here]) /\ Filled(Here) = {} /\ p \in Provenance
           /\ Shape(Table, Here, p, ready, run, turn.after, turn.old, turn.beside, turn.owes)
           /\ IsLive(p.home) /\ p.home \in Home
           /\ p.slot # 0 =>
                /\ Deliverable(p) /\ p.parent \in Cells /\ p.parent # Here
                /\ AnswersAt(run[p.parent], p.slot)
                /\ p.parent \in Frames(Table, Here)
<1>1. Typed /\ AtStep /\ Table \in Tables
  BY DEF IInv, Typed
<1>2. NoCell \notin Cells /\ Root \notin Cells
  BY DrainAssumption DEF Cells, NoCell, Root
<1>3. Here \in Cells /\ rests[Here] = "none" /\ AllEmpty(run[Here])
      /\ Shape(Table, Here, p, ready, run, turn.after, turn.old, turn.beside, turn.owes)
  BY <1>1 DEF AtStep, InTurn, Typed, Turn, Cell, Here
<1>4. Stacked(Table, Here, p, run) /\ Acts(Table, Here, p, Frames(Table, Here))
  BY <1>2, <1>3 DEF Shape, Stacked
<1>5. life[Here] = "live"
  BY <1>4, TableFields DEF Acts, Standing
<1>6. p \in Provenance
  BY <1>1, <1>3, TableTyped
<1>7. IsLive(p.home)
  <2>1. p.home = Root \/ Standing(Table, p.home)
    BY <1>1, <1>4, AnchorsStand
  <2> QED
    BY <2>1, StandingLives DEF IsLive
<1>8. ASSUME p.slot # 0
      PROVE  /\ Deliverable(p) /\ p.parent \in Cells /\ p.parent # Here
             /\ AnswersAt(run[p.parent], p.slot) /\ p.parent \in Frames(Table, Here)
  <2>1. p.parent \in Frames(Table, Here) /\ AnswersAt(run[p.parent], p.slot)
    <3>1. /\ p.parent \in Frames(Table, Here)
          /\ AnswersAt(run[p.parent], p.slot)
      BY <1>1, <1>4, <1>8, TopFrame
    <3> QED
      BY <3>1
  <2>2. p.parent \in Cells /\ p.parent # Here /\ Standing(Table, p.parent)
    BY <2>1 DEF Frames
  <2>3. IsLive(p.parent)
    BY <2>2, StandingLives
  <2>4. run[p.parent] \in Seq(Fills)
    BY <1>1, <2>2 DEF Typed
  <2>5. p.slot \in Slots(p.parent) /\ run[p.parent][p.slot].is = "empty"
    BY <1>6, <2>1, <2>4 DEF AnswersAt, Slots, Provenance
  <2> QED
    BY <1>2, <2>1, <2>2, <2>3, <2>5 DEF Deliverable
<1>9. Filled(Here) = {}
  <2>1. run[Here] \in Seq(Fills)
    BY <1>1, <1>3 DEF Typed
  <2> QED
    BY <1>3, <2>1 DEF AllEmpty, Filled, Slots
<1> QED
  BY <1>3, <1>5, <1>6, <1>7, <1>8, <1>9 DEF Provenance, Home

\* The invariant at the settling of an end, from what the step moves.
LEMMA StepIInv ==
    ASSUME IInv, phase = "step", phase' = "settle", outcome' = "none", ended' \in End,
           ending' \in Cell, ended'.is \notin {"left", "done"} => ending' = ending,
           UNCHANGED <<life, kind, under, prov, held, lost, runs, ready, turn>>,
           rests' \in [Cells -> {"none", "birth", "parked", "beside"}],
           below' \in [Cells -> Cell],
           run' \in [Cells -> Seq(Fills)],
           \A c \in Cells : life[c] = "free" => run'[c] = run[c] /\ rests'[c] = rests[c],
           Births + Cardinality(Unborn) + Need' <= MaxCells,
           InOrder', AtSettle'
    PROVE  IInv'
<1>1. Typed /\ BornInOrder /\ Quiet /\ TwoHops /\ Table \in Tables
  BY DEF IInv, Typed
<1>2. Table' \in Tables
  BY <1>1, TableTyped
<1>3. Typed'
  BY <1>1, <1>2 DEF Typed
<1>4. Births' = Births /\ BornInOrder'
  <2>1. \A c \in held' : c \in Cells => life'[c] = "live"
    BY <1>1 DEF BornInOrder
  <2> QED
    BY <1>1, <2>1, BornSame
<1>5. Roomy'
  <2>1. Unborn' = Unborn
    BY DEF Unborn
  <2> QED
    BY <1>4, <2>1 DEF Roomy
<1>6. Quiet'
  BY <1>1 DEF Quiet
<1>7. TwoHops'
  BY <1>1, HopsKept
<1>8. AtPop' /\ AtStep' /\ AtOver'
  BY DEF AtPop, AtStep, AtOver
<1> QED
  BY <1>3, <1>4, <1>5, <1>6, <1>7, <1>8 DEF IInv

\* What a step moves of its own cell leaves the shape of the turn, over the runs as they were.
LEMMA TurnKept ==
    ASSUME IInv, phase = "step", NEW R,
           \A c \in Frames(Table, Here) : R[c] = run[c],
           UNCHANGED <<life, kind, under, prov, held, lost, ready, turn>>,
           rests' \in [Cells -> {"none", "birth", "parked", "beside"}],
           below' \in [Cells -> Cell],
           \A c \in Cells \ {Here} : rests'[c] = rests[c] /\ below'[c] = below[c]
    PROVE  /\ Here' = Here /\ prov'[Here'] = prov[Here]
           /\ Shape(Table', Here, prov[Here], ready, R, turn.after, turn.old, turn.beside,
                    turn.owes)
<1> DEFINE u == Table'
           a == Here
<1>1. Table \in Tables /\ turn \in Turn
  BY DEF IInv, Typed
<1>2. a \in Cells
      /\ Shape(Table, a, prov[a], ready, run, turn.after, turn.old, turn.beside, turn.owes)
  BY StepFacts
<1>3. /\ u \in Tables /\ u.life = Table.life /\ u.kind = Table.kind /\ u.under = Table.under
      /\ u.prov = Table.prov /\ u.held = Table.held /\ u.lost = Table.lost
      /\ \A c \in Cells \ {a} : u.rests[c] = Table.rests[c] /\ u.below[c] = Table.below[c]
  BY <1>1, TableTyped, TableFields, TableFieldsNext
<1>4. turn.after \in Cell /\ turn.old \in Cell /\ turn.beside \in Cell
  BY <1>1 DEF Turn
<1>5. Here' = a
  BY DEF Here
<1> HIDE DEF u, a
<1>6. Shape(u, a, prov[a], ready, R, turn.after, turn.old, turn.beside, turn.owes)
  BY <1>1, <1>2, <1>3, <1>4, ActorMoves DEF a
<1> QED
  BY <1>5, <1>6 DEF a, u

\* The births so far and those asked for are within the bound while a step runs.
LEMMA StepRoom ==
    ASSUME IInv, phase = "step"
    PROVE  /\ Births + Cardinality(Unborn) <= MaxCells
           /\ Births \in Nat /\ Cardinality(Unborn) \in Nat
<1>1. IsFiniteSet(Cells) /\ Used(life) \in SUBSET Cells /\ Births = Cardinality(Used(life))
  BY DrainAssumption, FS_Interval DEF Cells, Used, Births
<1>2. Births \in Nat
  BY <1>1, CountZero
<1>3. Len(ready) \in Nat
  BY DEF IInv, Typed
<1>4. IsFiniteSet(1 .. Len(ready)) /\ Unborn \in SUBSET (1 .. Len(ready))
  BY <1>3, FS_Interval DEF Unborn
<1>5. Cardinality(Unborn) \in Nat
  BY <1>4, CountZero
<1>6. Need = 0
  BY DEF Need
<1> QED
  BY <1>2, <1>5, <1>6 DEF IInv, Roomy

\* A fill filed in the slot the work reports to.
LEMMA Delivered ==
    ASSUME IInv, phase = "step", NEW p, p = prov[Here], p.slot # 0, NEW f \in Fills,
           f.is # "empty", Deliver(p, f), UNCHANGED <<life, rests, lost>>
    PROVE  /\ run' \in [Cells -> Seq(Fills)]
           /\ \A c \in Cells \ {p.parent} : run'[c] = run[c]
           /\ DOMAIN run'[p.parent] = DOMAIN run[p.parent]
           /\ run'[p.parent][p.slot] = f
           /\ \A s \in DOMAIN run[p.parent] : s # p.slot => run'[p.parent][s] = run[p.parent][s]
           /\ Unfiled(p)' = run
           /\ InOrder'
<1> DEFINE w == p.parent
           s == p.slot
<1>1. /\ Deliverable(p) /\ w \in Cells /\ AnswersAt(run[w], s) /\ w \in Frames(Table, Here)
      /\ p \in Provenance
  BY StepFacts
<1>2. run \in [Cells -> Seq(Fills)] /\ run' = [run EXCEPT ![w][s] = f] /\ InOrder
  BY <1>1 DEF IInv, Typed, Deliver
<1>3. run[w] \in Seq(Fills) /\ s \in DOMAIN run[w] /\ DOMAIN run[w] = 1 .. Len(run[w])
  BY <1>1, <1>2 DEF AnswersAt
<1> HIDE DEF w, s
<1>4. /\ run'[w] \in Seq(Fills) /\ DOMAIN run'[w] = DOMAIN run[w] /\ run'[w][s] = f
      /\ \A i \in DOMAIN run[w] : i # s => run'[w][i] = run[w][i]
      /\ \A c \in Cells \ {w} : run'[c] = run[c]
  BY <1>1, <1>2, <1>3 DEF w
<1>5. run' \in [Cells -> Seq(Fills)]
  BY <1>1, <1>2, <1>4 DEF w
<1>6. run[w][s] = Empty
  <2>1. run[w][s] \in Fills /\ run[w][s].is = "empty"
    BY <1>1, <1>3 DEF AnswersAt, w, s
  <2> QED
    BY <2>1 DEF Fills, Empty
<1>7. [run' EXCEPT ![w][s] = Empty] = run
  <2> DEFINE r == [run'[w] EXCEPT ![s] = Empty]
  <2>1. r = run[w]
    BY <1>3, <1>4, <1>6
  <2>2. [run' EXCEPT ![w] = r] = run
    <3> HIDE DEF r
    <3> QED
      BY <1>1, <1>2, <1>4, <1>5, <2>1 DEF w
  <2> QED
    BY <2>2
<1>8. InOrder'
  <2> SUFFICES ASSUME NEW c \in Cells \ lost', life'[c] = "live", rests'[c] = "parked",
                      NEW i \in Filled(c)', NEW r \in 1 .. i - 1
               PROVE  run'[c][r].is = "value"
    BY DEF InOrder
  <2>a. run[c] \in Seq(Fills) /\ i \in 1 .. Len(run'[c]) /\ run'[c][i].is # "empty"
    BY <1>2 DEF Filled, Slots
  <2>1. CASE c # w
    <3>1. i \in Filled(c) /\ run'[c] = run[c]
      BY <1>4, <2>1, <2>a DEF Filled, Slots
    <3> QED
      BY <1>2, <3>1 DEF InOrder
  <2>2. CASE c = w
    <3>1. \A j \in 1 .. Len(run[w]) : run[w][j].is = IF j < s THEN "value" ELSE "empty"
      BY <1>1, <1>3 DEF AnswersAt, w, s
    <3>2. Len(run'[w]) = Len(run[w]) /\ Len(run[w]) \in Nat
      BY <1>3, <1>4
    <3>3. i <= s
      BY <1>3, <1>4, <2>2, <2>a, <3>1, <3>2
    <3>4. r \in 1 .. Len(run[w]) /\ r < s
      BY <1>3, <2>2, <2>a, <3>2, <3>3
    <3> QED
      BY <1>3, <1>4, <2>2, <3>1, <3>4
  <2> QED
    BY <2>1, <2>2
<1> QED
  BY <1>4, <1>5, <1>7, <1>8 DEF Unfiled, w, s

\* `finish` files its value in the consumer's empty slot.
LEMMA FinishIInv == IInv /\ Finish => IInv'
<1> SUFFICES ASSUME IInv, Finish PROVE IInv'
  OBVIOUS
<1> PICK p : p = prov[Here]
  OBVIOUS
<1> DEFINE w == p.parent
           f == Value(p.home)
<1>1. /\ phase = "step" /\ turn.owes = NoCell /\ p.slot # 0 /\ Deliver(p, f)
      /\ UNCHANGED <<life, kind, under, prov, rests, held, below, ready, turn, ending, runs, lost>>
  BY DEF Finish, cells, books
<1>2. /\ IsLive(p.home) /\ p.home \in Home /\ Deliverable(p) /\ AnswersAt(run[w], p.slot)
      /\ Here \in Cells /\ rests[Here] = "none" /\ life[Here] = "live" /\ p \in Provenance
      /\ w \in Cells
  BY <1>1, StepFacts
<1>3. /\ outcome' = "none" /\ phase' = "settle"
      /\ ended' = [is |-> "finished", completed |-> Complete(p)]
  BY <1>2 DEF Finish, EndsWith
<1>4. Typed /\ BornInOrder /\ Quiet
  BY DEF IInv
<1>5. ended' \in End
  BY <1>3 DEF End, Complete
<1>6. f \in Fills /\ f.is = "value"
  BY <1>2 DEF Value, Fills
<1>7. /\ run' \in [Cells -> Seq(Fills)] /\ \A c \in Cells \ {w} : run'[c] = run[c]
      /\ DOMAIN run'[w] = DOMAIN run[w] /\ run'[w][p.slot] = f /\ Unfiled(p)' = run /\ InOrder'
  BY <1>1, <1>6, Delivered
<1>8. Complete(p) <=> p.slot = Len(run'[w])
  <2>1. run[w] \in Seq(Fills) /\ run'[w] \in Seq(Fills)
    BY <1>2, <1>4, <1>7 DEF Typed
  <2>2. Len(run'[w]) = Len(run[w]) /\ Len(run[w]) \in Nat /\ DOMAIN run[w] = 1 .. Len(run[w])
    BY <1>7, <2>1
  <2>3. p.slot \in 1 .. Len(run[w])
          /\ \A j \in 1 .. Len(run[w]) : run[w][j].is # "empty" <=> j < p.slot
    BY <1>2, <2>2 DEF AnswersAt
  <2>4. Filled(w) \cup {p.slot} = {j \in 1 .. Len(run[w]) : j <= p.slot}
    BY <2>2, <2>3 DEF Filled, Slots
  <2>5. Complete(p) <=> {j \in 1 .. Len(run[w]) : j <= p.slot} = 1 .. Len(run[w])
    BY <2>4 DEF Complete, Slots
  <2>6. ASSUME {j \in 1 .. Len(run[w]) : j <= p.slot} = 1 .. Len(run[w])
        PROVE  p.slot = Len(run[w])
    <3>1. Len(run[w]) \in 1 .. Len(run[w])
      BY <2>2, <2>3
    <3>2. Len(run[w]) <= p.slot
      BY <2>6, <3>1
    <3> QED
      BY <2>2, <2>3, <3>2
  <2> QED
    BY <2>2, <2>5, <2>6
<1>9. AtSettle'
  <2>1. /\ Here' = Here /\ prov'[Here'] = p
        /\ Shape(Table', Here, p, ready, run, turn.after, turn.old, turn.beside, turn.owes)
    BY <1>1, <1>4, TurnKept, TableTyped DEF Typed
  <2>2. Here # NoCell
    BY <1>2, DrainAssumption DEF Cells, NoCell
  <2>3. InTurn(Unfiled(p))'
    BY <1>1, <1>7, <2>1 DEF InTurn
  <2>4. Finishes(p)'
    BY <1>1, <1>2, <1>3, <1>7, <1>8, <2>1, <2>3 DEF Finishes
  <2> QED
    BY <2>1, <2>2, <2>4 DEF AtSettle
<1>10. Need' = 0
  BY <1>3 DEF Need
<1>11. life[w] # "free"
  <2>1. IsLive(w)
    BY <1>2 DEF Deliverable
  <2> QED
    BY <1>2, <2>1, DrainAssumption DEF IsLive, Cells, Root
<1> QED
  BY <1>1, <1>2, <1>3, <1>4, <1>5, <1>7, <1>9, <1>10, <1>11, StepIInv, StepRoom, TableTyped
     DEF Typed

\* `fault` lays the link of the cell it keeps above the one it was handed.
LEMMA RaiseIInv == IInv /\ Raise => IInv'
<1> SUFFICES ASSUME IInv, Raise PROVE IInv'
  OBVIOUS
<1> PICK p : p = prov[Here]
  OBVIOUS
<1> DEFINE w == p.parent
           f == FaultFill(Here)
           kept == kind[Here] = "tree"
<1>1. /\ phase = "step" /\ p.slot # 0 /\ Deliver(p, f)
      /\ below' = IF kept THEN [below EXCEPT ![Here] = turn.owes] ELSE below
      /\ UNCHANGED <<life, kind, under, prov, rests, held, ready, turn, ending, runs, lost>>
  BY DEF Raise, cells, books
<1>2. /\ Deliverable(p) /\ AnswersAt(run[w], p.slot)
      /\ Here \in Cells /\ rests[Here] = "none" /\ life[Here] = "live" /\ p \in Provenance
      /\ w \in Cells
  BY <1>1, StepFacts
<1>3. /\ outcome' = "none" /\ phase' = "settle"
      /\ ended' = [is |-> "faulted", kept |-> kept]
  BY <1>2 DEF Raise, EndsWith
<1>4. Typed /\ BornInOrder /\ Quiet /\ turn.owes \in Cell
  BY DEF IInv, Typed, Turn
<1>5. ended' \in End
  BY <1>3 DEF End
<1>6. f \in Fills /\ f.is = "fault" /\ f = Fault(IF kept THEN Here ELSE turn.owes)
  BY <1>2, <1>4 DEF FaultFill, Fault, Fills, Cell
<1>7. /\ run' \in [Cells -> Seq(Fills)] /\ \A c \in Cells \ {w} : run'[c] = run[c]
      /\ run'[w][p.slot] = f /\ Unfiled(p)' = run /\ InOrder'
  BY <1>1, <1>6, Delivered
<1>8. /\ below' \in [Cells -> Cell] /\ \A c \in Cells \ {Here} : below'[c] = below[c]
      /\ kept => below'[Here] = turn.owes
  <2>1. below \in [Cells -> Cell]
    BY <1>4, TableTyped DEF Typed
  <2> QED
    BY <1>1, <1>2, <1>4, <2>1
<1>9. AtSettle'
  <2>1. /\ Here' = Here /\ prov'[Here'] = p
        /\ Shape(Table', Here, p, ready, run, turn.after, turn.old, turn.beside, turn.owes)
    BY <1>1, <1>4, <1>8, TurnKept, TableTyped DEF Typed
  <2>2. Here # NoCell
    BY <1>2, DrainAssumption DEF Cells, NoCell
  <2>3. InTurn(Unfiled(p))'
    BY <1>1, <1>7, <2>1 DEF InTurn
  <2>4. Faults(p)'
    BY <1>1, <1>2, <1>3, <1>6, <1>7, <1>8, <2>1, <2>3 DEF Faults
  <2> QED
    BY <2>1, <2>2, <2>4 DEF AtSettle
<1>10. Need' = 0
  BY <1>3 DEF Need
<1>11. life[w] # "free"
  <2>1. IsLive(w)
    BY <1>2 DEF Deliverable
  <2> QED
    BY <1>2, <2>1, DrainAssumption DEF IsLive, Cells, Root
<1> QED
  BY <1>1, <1>2, <1>3, <1>4, <1>5, <1>7, <1>8, <1>9, <1>10, <1>11, StepIInv, StepRoom, TableTyped
     DEF Typed

\* `park` puts the cell to rest over a run with every slot empty.
LEMMA ParkIInv == ASSUME IInv, NEW asks \in Asks, Park(asks) PROVE IInv'
<1> DEFINE p == prov[Here]
           n == Len(asks)
           r == [s \in 1 .. n |-> Empty]
<1>1. /\ phase = "step" /\ turn.owes = NoCell /\ Room(n)
      /\ UNCHANGED <<life, kind, under, prov, held, below, ready, turn, ending, runs, lost>>
  BY DEF Park, books
<1>2. /\ Here \in Cells /\ rests[Here] = "none" /\ life[Here] = "live" /\ Filled(Here) = {}
  BY <1>1, StepFacts
<1>3. /\ outcome' = "none" /\ phase' = "settle" /\ ended' = [is |-> "parked", asks |-> asks]
      /\ run' = [run EXCEPT ![Here] = r] /\ rests' = [rests EXCEPT ![Here] = "parked"]
  BY <1>2 DEF Park, EndsWith
<1>4. Typed /\ BornInOrder /\ Quiet /\ InOrder
  BY DEF IInv
<1>5. ended' \in End /\ n \in Nat
  BY <1>3, DrainAssumption DEF End
<1>6. Empty \in Fills /\ Empty.is = "empty"
  BY DEF Empty, Fills
<1>7. r \in Seq(Fills) /\ AllEmpty(r)
  BY <1>5, <1>6 DEF AllEmpty
<1> HIDE DEF r
<1>8. /\ run' \in [Cells -> Seq(Fills)] /\ run'[Here] = r
      /\ \A c \in Cells \ {Here} : run'[c] = run[c]
  BY <1>2, <1>3, <1>4, <1>7 DEF Typed
<1>9. /\ rests' \in [Cells -> {"none", "birth", "parked", "beside"}] /\ rests'[Here] = "parked"
      /\ \A c \in Cells \ {Here} : rests'[c] = rests[c]
  <2>1. rests \in [Cells -> {"none", "birth", "parked", "beside"}]
    BY <1>4, TableTyped DEF Typed
  <2> QED
    BY <1>2, <1>3, <2>1
<1>10. InOrder'
  <2>1. \A c \in Cells : c = Here \/ (rests'[c] = rests[c] /\ run'[c] = run[c])
    BY <1>8, <1>9
  <2> QED
    BY <1>1, <1>4, <1>7, <1>8, <2>1, OrderKept
<1>11. AtSettle'
  <2>1. /\ Here' = Here /\ prov'[Here'] = p
        /\ Shape(Table', Here, p, ready, run', turn.after, turn.old, turn.beside, turn.owes)
    <3>1. \A c \in Frames(Table, Here) : run'[c] = run[c]
      BY <1>8 DEF Frames
    <3> QED
      BY <1>1, <1>4, <1>9, <3>1, TurnKept, TableTyped DEF Typed
  <2>2. Here # NoCell
    BY <1>2, DrainAssumption DEF Cells, NoCell
  <2>3. InTurn(run)'
    BY <1>1, <2>1 DEF InTurn
  <2>4. Parks'
    BY <1>1, <1>3, <1>8, <1>9, <2>1, <2>3 DEF Parks, r
  <2> QED
    BY <2>2, <2>4, <2>1 DEF AtSettle
<1>12. Births + Cardinality(Unborn) + Need' <= MaxCells
  BY <1>1, <1>3 DEF Need, Room
<1> QED
  BY <1>1, <1>2, <1>3, <1>4, <1>5, <1>8, <1>9, <1>10, <1>11, <1>12, StepIInv, TableTyped
     DEF Typed

\* `read_beside` puts the cell to rest until the kept cell is entered with it.
LEMMA ReadBesideIInv == IInv /\ ReadBeside => IInv'
<1> SUFFICES ASSUME IInv, ReadBeside PROVE IInv'
  OBVIOUS
<1> DEFINE p == prov[Here]
<1>1. /\ phase = "step" /\ turn.owes # NoCell
      /\ rests' = [rests EXCEPT ![Here] = "beside"]
      /\ UNCHANGED <<life, kind, under, prov, held, run, below, ready, turn, ending, runs, lost>>
      /\ outcome' = "none" /\ phase' = "settle" /\ ended' = [is |-> "beside", kept |-> turn.owes]
  BY DEF ReadBeside, EndsWith, books
<1>2. Here \in Cells /\ AllEmpty(run[Here]) /\ life[Here] = "live"
  BY <1>1, StepFacts
<1>3. Typed /\ BornInOrder /\ Quiet /\ InOrder /\ turn.owes \in Cells
  BY <1>1 DEF IInv, Typed, Turn, Cell
<1>4. ended' \in End
  BY <1>1, <1>3 DEF End
<1>5. /\ rests' \in [Cells -> {"none", "birth", "parked", "beside"}] /\ rests'[Here] = "beside"
      /\ \A c \in Cells \ {Here} : rests'[c] = rests[c]
  <2>1. rests \in [Cells -> {"none", "birth", "parked", "beside"}]
    BY <1>3, TableTyped DEF Typed
  <2> QED
    BY <1>1, <1>2, <2>1
<1>6. InOrder'
  <2>1. \A c \in Cells : rests'[c] = "parked" => rests[c] = "parked"
    BY <1>5
  <2> QED
    BY <1>1, <1>3, <2>1, OrderKept
<1>7. AtSettle'
  <2>1. /\ Here' = Here /\ prov'[Here'] = p
        /\ Shape(Table', Here, p, ready, run, turn.after, turn.old, turn.beside, turn.owes)
    BY <1>1, <1>3, <1>5, TurnKept, TableTyped DEF Typed
  <2>2. Here # NoCell
    BY <1>2, DrainAssumption DEF Cells, NoCell
  <2>3. InTurn(run)'
    BY <1>1, <2>1 DEF InTurn
  <2>4. ReadsBeside'
    BY <1>1, <1>2, <1>5, <2>1, <2>3 DEF ReadsBeside
  <2> QED
    BY <2>2, <2>4, <2>1 DEF AtSettle
<1>8. Need' = 0
  BY <1>1 DEF Need
<1> QED
  BY <1>1, <1>2, <1>3, <1>4, <1>5, <1>6, <1>7, <1>8, StepIInv, StepRoom, TableTyped DEF Typed

\* The ends that leave the cells as they are.
LEMMA LeavesIInv ==
    ASSUME IInv, phase = "step", phase' = "settle", outcome' = "none",
           ended' \in End, ended'.is \in {"hop", "rebirth", "left", "done"},
           ended'.is # "left" => turn.owes = NoCell,
           (ended'.is = "hop" /\ ended'.threads) \/ ended'.is = "rebirth" => prov[Here].slot # 0,
           ended'.is \in {"left", "done"} => prov[Here].slot = 0 /\ ending' = turn.owes,
           ended'.is \notin {"left", "done"} => ending' = ending,
           Births + Cardinality(Unborn) + Need' <= MaxCells,
           UNCHANGED <<cells, run, below, ready, turn, books>>
    PROVE  IInv'
<1> DEFINE p == prov[Here]
<1>1. UNCHANGED <<life, kind, under, prov, rests, held, run, below, ready, turn, runs, lost>>
  BY DEF cells, books
<1>2. Here \in Cells /\ rests[Here] = "none"
  BY StepFacts
<1>3. Typed /\ BornInOrder /\ Quiet /\ InOrder /\ turn.owes \in Cell /\ ending \in Cell
  BY DEF IInv, Typed, Turn
<1>4. InOrder'
  BY <1>1, <1>3, OrderKept
<1>5. AtSettle'
  <2>1. /\ Here' = Here /\ prov'[Here'] = p
        /\ Shape(Table', Here, p, ready, run, turn.after, turn.old, turn.beside, turn.owes)
    BY <1>1, <1>3, TurnKept, TableTyped DEF Typed
  <2>2. Here # NoCell
    BY <1>2, DrainAssumption DEF Cells, NoCell
  <2>3. InTurn(run)'
    BY <1>1, <2>1 DEF InTurn
  <2>4. Leaves(p)'
    BY <1>1, <1>2, <2>1, <2>3 DEF Leaves
  <2> QED
    BY <2>2, <2>4, <2>1 DEF AtSettle
<1>6. ending' \in Cell
  BY <1>3
<1> QED
  BY <1>1, <1>3, <1>4, <1>5, <1>6, StepIInv, TableTyped DEF Typed

\* Every way a step may end keeps the invariant.
LEMMA StepKeepsIInv == IInv /\ Step => IInv'
<1> SUFFICES ASSUME IInv, Step PROVE IInv'
  OBVIOUS
<1>0. Quiet /\ Typed /\ InOrder /\ TwoHops /\ BornInOrder
  BY DEF IInv
<1>1. ASSUME NEW threads \in BOOLEAN, Hop(threads) PROVE IInv'
  <2>1. /\ phase = "step" /\ turn.owes = NoCell /\ Room(2) /\ (threads => prov[Here].slot # 0)
        /\ ended' = [is |-> "hop", threads |-> threads] /\ outcome' = "none" /\ phase' = "settle"
        /\ UNCHANGED <<cells, run, below, ready, turn, ending, books>>
    BY <1>1 DEF Hop, EndsWith
  <2>2. Need' = 2 /\ ended' \in End
    BY <2>1 DEF Need, End
  <2> QED
    BY <2>1, <2>2, LeavesIInv DEF Room
<1>2. CASE Rebirth
  <2>1. /\ phase = "step" /\ turn.owes = NoCell /\ Room(1) /\ prov[Here].slot # 0
        /\ ended' = [is |-> "rebirth"] /\ outcome' = "none" /\ phase' = "settle"
        /\ UNCHANGED <<cells, run, below, ready, turn, ending, books>>
    BY <1>2 DEF Rebirth, EndsWith
  <2>2. Need' = 1 /\ ended' \in End
    BY <2>1 DEF Need, End
  <2> QED
    BY <2>1, <2>2, LeavesIInv DEF Room
<1>3. CASE Leave
  <2>1. /\ phase = "step" /\ prov[Here].slot = 0 /\ ending' = turn.owes
        /\ ended' = [is |-> "left"]
        /\ UNCHANGED <<cells, run, below, ready, turn, books>>
    BY <1>3 DEF Leave, EndsWith
  <2>2. Need' = 0 /\ ended' \in End
    BY <2>1 DEF Need, End
  <2>3. outcome' = "none" /\ phase' = "settle"
    BY <1>3, <2>1, StepFacts DEF Leave, EndsWith
  <2> QED
    BY <2>1, <2>2, <2>3, LeavesIInv, StepRoom
<1>4. CASE Done
  <2>1. /\ phase = "step" /\ turn.owes = NoCell /\ prov[Here].slot = 0
        /\ ended' = [is |-> "done"] /\ outcome' = "none" /\ phase' = "settle"
        /\ UNCHANGED <<cells, run, below, ready, turn, ending, books>>
    BY <1>4 DEF Done, EndsWith
  <2>2. Need' = 0 /\ ended' \in End /\ ending' = turn.owes
    BY <1>0, <2>1 DEF Need, End, Quiet
  <2> QED
    BY <2>1, <2>2, LeavesIInv, StepRoom
<1>5. CASE Fail
  <2>1. /\ phase = "step" /\ ended' = [is |-> "failed"] /\ outcome' = "failed" /\ phase' = "over"
        /\ UNCHANGED <<life, kind, under, prov, rests, held, run, below, ready, turn, ending,
                       runs, lost>>
    BY <1>5 DEF Fail, EndsWith, cells, books
  <2>2. Typed'
    <3>1. Table' = Table
      BY <2>1 DEF Table
    <3>2. ended' \in End
      BY <2>1 DEF End
    <3> QED
      BY <1>0, <2>1, <3>1, <3>2 DEF Typed
  <2>3. BornInOrder'
    <3>1. \A c \in held' : c \in Cells => life'[c] = "live"
      BY <1>0, <2>1 DEF BornInOrder
    <3> QED
      BY <1>0, <2>1, <3>1, BornSame
  <2>4. InOrder' /\ TwoHops'
    <3>1. InOrder'
      BY <1>0, <2>1, OrderKept
    <3> QED
      BY <1>0, <2>1, <3>1, HopsKept
  <2>5. Quiet' /\ Roomy' /\ AtPop' /\ AtStep' /\ AtSettle' /\ AtOver'
    BY <1>0, <2>1 DEF Quiet, Roomy, AtPop, AtStep, AtSettle, AtOver
  <2> QED
    BY <2>2, <2>3, <2>4, <2>5 DEF IInv
<1> QED
  BY <1>1, <1>2, <1>3, <1>4, <1>5, FinishIInv, RaiseIInv, ParkIInv, ReadBesideIInv DEF Step

-----------------------------------------------------------------------------
\* Settling: what an end releases is live, and released once.

\* Releasing twice over is releasing what either does.
LEMMA DeadTwice ==
    ASSUME NEW t \in Tables, NEW A, NEW B
    PROVE  Dead(Dead(t, A), B) = Dead(t, A \cup B)
<1> DEFINE u == Dead(t, A)
           l1 == [c \in Cells |-> IF c \in B THEN "dead" ELSE u.life[c]]
           l2 == [c \in Cells |-> IF c \in A \cup B THEN "dead" ELSE t.life[c]]
           l0 == [c \in Cells |-> IF c \in A THEN "dead" ELSE t.life[c]]
<1>1. u.life = [c \in Cells |-> IF c \in A THEN "dead" ELSE t.life[c]] /\ u.held = t.held \ A
  BY DEF Dead, Tables
<1>2. l1 = l2
  BY <1>1
<1>3. u.held \ B = t.held \ (A \cup B)
  BY <1>1
<1>4. /\ Dead(u, B) = [u EXCEPT !.life = l1, !.held = u.held \ B]
      /\ Dead(t, A \cup B) = [t EXCEPT !.life = l2, !.held = t.held \ (A \cup B)]
  BY DEF Dead
<1>5. \A l, h, v : v = [t EXCEPT !.life = l, !.held = h] =>
          \A k, m : [v EXCEPT !.life = k, !.held = m] = [t EXCEPT !.life = k, !.held = m]
  BY DEF Tables
<1>6. u = [t EXCEPT !.life = l0, !.held = t.held \ A]
  BY DEF Dead
<1> HIDE DEF u, l0, l1, l2
<1>7. \A k, m : [u EXCEPT !.life = k, !.held = m] = [t EXCEPT !.life = k, !.held = m]
  BY <1>5, <1>6
<1> QED
  BY <1>2, <1>3, <1>4, <1>7 DEF u

\* Nothing released.
LEMMA DeadNone ==
    ASSUME NEW t \in Tables, NEW D, D \cap Cells = {}
    PROVE  Dead(t, D) = t
<1> DEFINE l == [c \in Cells |-> IF c \in D THEN "dead" ELSE t.life[c]]
<1>1. l = t.life
  BY DEF Tables
<1>2. t.held \ D = t.held
  BY DEF Tables
<1>3. Dead(t, D) = [t EXCEPT !.life = l, !.held = t.held \ D]
  BY DEF Dead
<1>4. [t EXCEPT !.life = t.life, !.held = t.held] = t
  BY DEF Tables
<1> HIDE DEF l
<1> QED
  BY <1>1, <1>2, <1>3, <1>4

\* What an end releases of its own: the cell, its loop cell, both or none.
Owned(D) ==
    \/ OwnEnd = <<>> /\ D = {}
    \/ OwnEnd = <<Here>> /\ D = {Here}
    \/ OwnEnd = <<Loop>> /\ D = {Loop}
    \/ OwnEnd = <<Here, Loop>> /\ D = {Here, Loop}

\* The releases of an end, laid out: three held aside and one of its own,
LEMMA OneMore ==
    ASSUME NEW X, NEW S \in Seq(X), NEW A \in Seq(X), NEW T \in Seq(X),
           Len(S) = 3, Len(A) = 1, Len(T) = 4,
           T[1] = S[1], T[2] = S[2], T[3] = S[3], T[4] = A[1]
    PROVE  S \o A = T
<1> DEFINE C == S \o A
<1>1. /\ C \in Seq(X) /\ Len(C) = Len(S) + Len(A)
      /\ \A i \in 1 .. Len(S) + Len(A) : C[i] = IF i <= Len(S) THEN S[i] ELSE A[i - Len(S)]
  BY Joined, Zenon
<1> HIDE DEF C
<1>2. /\ Len(C) = 4 /\ \A i \in 1 .. 4 : C[i] = IF i <= 3 THEN S[i] ELSE A[i - 3]
  BY <1>1
<1>3. \A i \in 1 .. 4 : C[i] = T[i]
  <2>1. \A i \in 1 .. 4 : i = 1 \/ i = 2 \/ i = 3 \/ i = 4
    OBVIOUS
  <2> QED
    BY <1>2, <2>1
<1> QED
  BY <1>1, <1>2, <1>3, SeqSame DEF C

\* or two,
LEMMA TwoMore ==
    ASSUME NEW X, NEW S \in Seq(X), NEW A \in Seq(X), NEW T \in Seq(X),
           Len(S) = 3, Len(A) = 2, Len(T) = 5,
           T[1] = S[1], T[2] = S[2], T[3] = S[3], T[4] = A[1], T[5] = A[2]
    PROVE  S \o A = T
<1> DEFINE C == S \o A
<1>1. /\ C \in Seq(X) /\ Len(C) = Len(S) + Len(A)
      /\ \A i \in 1 .. Len(S) + Len(A) : C[i] = IF i <= Len(S) THEN S[i] ELSE A[i - Len(S)]
  BY Joined, Zenon
<1> HIDE DEF C
<1>2. /\ Len(C) = 5 /\ \A i \in 1 .. 5 : C[i] = IF i <= 3 THEN S[i] ELSE A[i - 3]
  BY <1>1
<1>3. \A i \in 1 .. 5 : C[i] = T[i]
  <2>1. \A i \in 1 .. 5 : i = 1 \/ i = 2 \/ i = 3 \/ i = 4 \/ i = 5
    OBVIOUS
  <2> QED
    BY <1>2, <2>1
<1> QED
  BY <1>1, <1>2, <1>3, SeqSame DEF C

\* as the sequences the drain releases.
LEMMA AsideAnd ==
    ASSUME NEW x, NEW y, NEW z, NEW v, NEW w
    PROVE  /\ <<x, y, z>> \o <<v>> = <<x, y, z, v>>
           /\ <<x, y, z>> \o <<v, w>> = <<x, y, z, v, w>>
<1> DEFINE X == {x, y, z, v, w}
           S == <<x, y, z>>
           A == <<v>>
           B == <<v, w>>
           T == <<x, y, z, v>>
           U == <<x, y, z, v, w>>
<1>1. S \in Seq(X) /\ A \in Seq(X) /\ B \in Seq(X) /\ T \in Seq(X) /\ U \in Seq(X)
  OBVIOUS
<1>2. Len(S) = 3 /\ Len(A) = 1 /\ Len(B) = 2 /\ Len(T) = 4 /\ Len(U) = 5
  OBVIOUS
<1>3. T[1] = S[1] /\ T[2] = S[2] /\ T[3] = S[3] /\ T[4] = A[1]
  OBVIOUS
<1>4. U[1] = S[1] /\ U[2] = S[2] /\ U[3] = S[3] /\ U[4] = B[1] /\ U[5] = B[2]
  OBVIOUS
<1> HIDE DEF S, A, B, T, U, X
<1>5. S \o A = T
  BY <1>1, <1>2, <1>3, OneMore, Zenon
<1>6. S \o B = U
  BY <1>1, <1>2, <1>4, TwoMore, Zenon
<1> QED
  BY <1>5, <1>6 DEF S, A, B, T, U

\* Nothing an end releases is gone or released twice: what lies aside, the cell and its loop cell are
\* live and apart.
LEMMA Releases ==
    ASSUME Typed, Here \in Cells, NEW R, NEW D, Owned(D),
           Shape(Table, Here, prov[Here], ready, R, turn.after, turn.old, turn.beside, turn.owes)
    PROVE  /\ Releasable(Released)
           /\ Range(Released) = {turn.after, turn.old, turn.beside} \cup D
<1> DEFINE a == Here
           af == turn.after
           od == turn.old
           bs == turn.beside
           p == prov[a]
<1>1. NoCell \notin Cells /\ Table \in Tables
  BY DrainAssumption DEF Cells, NoCell, Typed
<1>2. /\ Looped(Table, a, p, od) /\ Keeps(Table, a, p, af, od, bs, turn.owes)
      /\ Acts(Table, a, p, Frames(Table, a)) /\ (p.loop # NoCell => IsLoop(Table, p.loop))
  BY <1>1 DEF Shape, Stacked, StandsOn
<1>3. /\ a \in held /\ IsLive(a)
      /\ p.loop # NoCell => IsLive(p.loop) /\ p.loop \notin held
      /\ od # NoCell => IsLive(od) /\ od \notin held /\ od # p.loop
      /\ af # NoCell => IsLive(af) /\ af \in held /\ af # a
      /\ bs # NoCell => IsLive(bs) /\ bs \in held /\ bs # a /\ af = NoCell
  BY <1>2, TableFields, StandingLives DEF Looped, Keeps, Acts, IsLoop, IsBefore, IsBeside
<1>4. Released = <<bs, af, od>> \o OwnEnd
  BY DEF Released, HeldAside
<1>5. p.loop = Loop
  BY DEF Loop
<1> HIDE DEF a, af, od, bs, p
<1>6. CASE OwnEnd = <<>> /\ D = {}
  <2>1. Released = <<bs, af, od>>
    BY <1>4, <1>6
  <2> QED
    BY <1>3, <1>6, <2>1 DEF Releasable, Range, af, od, bs
<1>7. CASE OwnEnd = <<Here>> /\ D = {Here}
  <2>1. Released = <<bs, af, od, a>>
    BY <1>4, <1>7, AsideAnd, Zenon DEF a
  <2> QED
    BY <1>3, <1>7, <2>1 DEF Releasable, Range, a, af, od, bs
<1>8. CASE OwnEnd = <<Loop>> /\ D = {Loop}
  <2>1. Released = <<bs, af, od, p.loop>>
    BY <1>4, <1>5, <1>8, AsideAnd, Zenon
  <2> QED
    BY <1>3, <1>5, <1>8, <2>1 DEF Releasable, Range, af, od, bs
<1>9. CASE OwnEnd = <<Here, Loop>> /\ D = {Here, Loop}
  <2>1. Released = <<bs, af, od, a, p.loop>>
    BY <1>4, <1>5, <1>9, AsideAnd, Zenon DEF a
  <2> QED
    BY <1>3, <1>5, <1>9, <2>1 DEF Releasable, Range, a, af, od, bs
<1> QED
  BY <1>6, <1>7, <1>8, <1>9 DEF Owned

\* A table is its fields.
LEMMA TablesSame ==
    ASSUME NEW t \in Tables, NEW u \in Tables,
           t.life = u.life, t.kind = u.kind, t.under = u.under, t.prov = u.prov,
           t.rests = u.rests, t.held = u.held, t.lost = u.lost, t.below = u.below
    PROVE  t = u
BY DEF Tables

\* The cells after the releases of an end are the table with those cells dead.
LEMMA TableReleased ==
    ASSUME Typed, NEW X, life' = [c \in Cells |-> IF c \in X THEN "dead" ELSE life[c]],
           held' = held \ X, UNCHANGED <<kind, under, prov, rests, lost, below>>
    PROVE  Table' = Dead(Table, X)
<1>1. Table \in Tables
  BY DEF Typed
<1>2. /\ Dead(Table, X) \in Tables
      /\ Dead(Table, X).kind = kind /\ Dead(Table, X).under = under
      /\ Dead(Table, X).prov = prov /\ Dead(Table, X).rests = rests
      /\ Dead(Table, X).lost = lost /\ Dead(Table, X).below = below
      /\ Dead(Table, X).held = held'
      /\ \A c \in Cells : Dead(Table, X).life[c] = life'[c]
  BY <1>1, DeadTable, TableFields
<1>3. life' \in [Cells -> {"free", "live", "dead"}] /\ held' \in SUBSET Cells
  BY <1>1, TableTyped
<1>4. Table' \in Tables
  BY <1>1, <1>3, TableTyped
<1>5. Dead(Table, X).life = life'
  BY <1>2, <1>3 DEF Tables
<1> DEFINE u == Table'
<1>6. /\ u \in Tables /\ u.kind = kind /\ u.under = under /\ u.prov = prov /\ u.rests = rests
      /\ u.lost = lost /\ u.below = below /\ u.held = held' /\ u.life = life'
  BY <1>4, TableFieldsNext
<1> HIDE DEF u
<1>7. u = Dead(Table, X)
  BY <1>2, <1>5, <1>6, TablesSame
<1> QED
  BY <1>7 DEF u

\* The end acted on: what was aside and what the end releases is gone, and the stack is to be popped.
LEMMA SettledIInv ==
    ASSUME IInv, phase = "settle", ended.is \notin {"left", "done"}, Here \in Cells,
           NEW stack \in Seq(Entry), Settled(stack), NEW R, NEW D, Owned(D),
           Shape(Table, Here, prov[Here], ready, R, turn.after, turn.old, turn.beside, turn.owes),
           Births + Cardinality(Requests(stack)) <= MaxCells
    PROVE  /\ phase' = "pop" /\ ready' = stack /\ UNCHANGED <<run, below, prov>>
           /\ Table' = Dead(Dead(Table, {turn.after, turn.old, turn.beside}), D)
           /\ AtPop' => IInv'
<1>1. Typed /\ BornInOrder /\ Quiet /\ InOrder /\ TwoHops /\ Table \in Tables
  BY DEF IInv, Typed
<1> DEFINE X == {turn.after, turn.old, turn.beside} \cup D
<1>2. Releasable(Released) /\ Range(Released) = X
  BY <1>1, Releases
<1>3. /\ phase' = "pop" /\ ready' = stack /\ outcome' = "none" /\ turn' = Idle /\ ended' = NoEnd
      /\ UNCHANGED <<run, below, ending, runs, lost, kind, under, prov, rests>>
      /\ life' = [c \in Cells |-> IF c \in X THEN "dead" ELSE life[c]]
      /\ held' = held \ X
  BY <1>2 DEF Settled, Settling, AfterRelease, HeldAfter, books
<1> HIDE DEF X
<1>4. Table' = Dead(Table, X)
  BY <1>1, <1>3, TableReleased
<1>5. Table' = Dead(Dead(Table, {turn.after, turn.old, turn.beside}), D)
  BY <1>1, <1>4, DeadTwice DEF X
<1>6. ASSUME AtPop' PROVE IInv'
  <2>1. Table' \in Tables
    BY <1>1, <1>4, DeadTable
  <2>2. turn' \in Turn /\ ended' \in End
    BY <1>3 DEF Idle, NoEnd, Turn, End, Cell
  <2>3. Typed'
    BY <1>1, <1>3, <2>1, <2>2 DEF Typed
  <2>4. \A c \in Cells : /\ c \in X => life'[c] = "dead"
                         /\ c \notin X => life'[c] = life[c]
    BY <1>3
  <2>5. \A c \in X : c \in Cells => life[c] = "live"
    <3>1. \A i \in DOMAIN Released : Released[i] # NoCell => IsLive(Released[i])
      BY <1>2 DEF Releasable
    <3>2. \A c \in X : \E i \in DOMAIN Released : Released[i] = c
      BY <1>2 DEF Range
    <3> QED
      BY <3>1, <3>2, DrainAssumption DEF IsLive, Cells, Root, NoCell
  <2>6. Births' = Births /\ BornInOrder'
    <3>1. \A c \in Cells : life'[c] = "free" <=> life[c] = "free"
      BY <2>4, <2>5
    <3>2. \A c \in held' : c \in Cells => life'[c] = "live"
      BY <1>1, <1>3, <2>4 DEF BornInOrder
    <3> QED
      BY <1>1, <1>3, <3>1, <3>2, BornSame
  <2>7. Roomy'
    <3>1. Unborn' = Requests(stack) /\ Need' = 0
      BY <1>3 DEF Unborn, Requests, Need
    <3>2. Births + Cardinality(Requests(stack)) + 0 <= MaxCells
      <4>1. IsFiniteSet(Cells) /\ Used(life) \in SUBSET Cells /\ Births = Cardinality(Used(life))
        BY DrainAssumption, FS_Interval DEF Cells, Used, Births
      <4>2. Births \in Nat /\ Cardinality(Requests(stack)) \in Nat
        BY <4>1, CountZero, RequestsGrow
      <4> QED
        BY <4>2
    <3> QED
      BY <2>6, <3>1, <3>2 DEF Roomy
  <2>8. Quiet'
    BY <1>1, <1>3 DEF Quiet
  <2>9. InOrder'
    BY <1>1, <1>3, <2>4, OrderKept
  <2>10. TwoHops'
    BY <1>1, <1>3, <2>4, HopsKept
  <2>11. AtStep' /\ AtSettle' /\ AtOver'
    BY <1>3 DEF AtStep, AtSettle, AtOver
  <2> QED
    BY <1>6, <2>3, <2>6, <2>7, <2>8, <2>9, <2>10, <2>11 DEF IInv
<1> QED
  BY <1>3, <1>5, <1>6

\* The cell whose end is being acted on, and the room its end has.
LEMMA SettleFacts ==
    ASSUME IInv, phase = "settle"
    PROVE  /\ Here \in Cells /\ prov[Here] \in Provenance /\ NoCell \in Cell
           /\ turn.after \in Cell /\ turn.old \in Cell /\ turn.beside \in Cell
           /\ turn.owes \in Cell
           /\ Births \in Nat /\ Cardinality(Requests(ready)) \in Nat
           /\ Births + Cardinality(Requests(ready)) + Need <= MaxCells
<1>1. Typed /\ Roomy /\ AtSettle
  BY DEF IInv
<1>2. Here \in Cells
  BY <1>1 DEF Typed, AtSettle, Turn, Cell, Here
<1>3. prov[Here] \in Provenance
  BY <1>1, <1>2, TableTyped DEF Typed
<1>4. IsFiniteSet(Cells) /\ Used(life) \in SUBSET Cells /\ Births = Cardinality(Used(life))
  BY DrainAssumption, FS_Interval DEF Cells, Used, Births
<1>5. Births \in Nat /\ Cardinality(Requests(ready)) \in Nat
  BY <1>1, <1>4, CountZero, RequestsGrow DEF Typed
<1>6. Unborn = Requests(ready)
  BY DEF Unborn, Requests
<1>7. /\ turn.after \in Cell /\ turn.old \in Cell /\ turn.beside \in Cell
      /\ turn.owes \in Cell /\ NoCell \in Cell
  BY <1>1 DEF Typed, Turn, Cell
<1> QED
  BY <1>1, <1>2, <1>3, <1>5, <1>6, <1>7 DEF Roomy

\* A stack of a live entry over the old one has the same room.
LEMMA WokenRoom ==
    ASSUME IInv, phase = "settle", NEW m \in 0 .. Len(ready), NEW e \in Entry, e.is # "unborn"
    PROVE  /\ Append(SubSeq(ready, 1, m), e) \in Seq(Entry)
           /\ SubSeq(ready, 1, m) \in Seq(Entry)
           /\ Births + Cardinality(Requests(Append(SubSeq(ready, 1, m), e))) <= MaxCells
<1> DEFINE S == SubSeq(ready, 1, m)
<1>1. ready \in Seq(Entry)
  BY DEF IInv, Typed
<1>2. S \in Seq(Entry) /\ Cardinality(Requests(S)) <= Cardinality(Requests(ready))
  BY <1>1, RequestsPart
<1> HIDE DEF S
<1>3. /\ Cardinality(Requests(S)) \in Nat
      /\ Cardinality(Requests(Append(S, e))) = Cardinality(Requests(S)) + 0
  BY <1>2, RequestsGrow
<1>4. /\ Births \in Nat /\ Cardinality(Requests(ready)) \in Nat
      /\ Births + Cardinality(Requests(ready)) + Need <= MaxCells
  BY SettleFacts
<1>5. Need \in Nat
  <2>1. ended.is = "parked" => Len(ended.asks) \in Nat
    BY DrainAssumption DEF IInv, Typed, End
  <2> QED
    BY <2>1 DEF Need
<1> QED
  BY <1>2, <1>3, <1>4, <1>5, DrainAssumption DEF S

\* The runs before an end was filed.
LEMMA UnfiledRuns ==
    ASSUME Typed, NEW p, p.parent \in Cells, NEW q, q.parent = p.parent, q.slot = p.slot
    PROVE  /\ Unfiled(p) \in [Cells -> Seq(Fills)]
           /\ IsFiled(run, Unfiled(p), q, run[p.parent][p.slot])
<1> DEFINE w == p.parent
           r == [run[w] EXCEPT ![p.slot] = Empty]
<1>1. run \in [Cells -> Seq(Fills)] /\ run[w] \in Seq(Fills) /\ Empty \in Fills
  BY DEF Typed, Fills
<1>2. /\ r \in Seq(Fills) /\ DOMAIN r = DOMAIN run[w]
      /\ \A s \in DOMAIN r : run[w][s] = IF s = p.slot THEN run[w][p.slot] ELSE r[s]
  <2> DEFINE g == run[w]
             k == p.slot
  <2>1. g \in [1 .. Len(g) -> Fills] /\ Len(g) \in Nat /\ Empty \in Fills
    BY <1>1
  <2> HIDE DEF g, k
  <2>2. [g EXCEPT ![k] = Empty] \in [1 .. Len(g) -> Fills]
    BY <2>1
  <2>3. \A s \in 1 .. Len(g) : g[s] = IF s = k THEN g[k] ELSE [g EXCEPT ![k] = Empty][s]
    BY <2>1
  <2>4. [g EXCEPT ![k] = Empty] \in Seq(Fills)
    BY <2>1, <2>2
  <2> QED
    BY <2>1, <2>2, <2>3, <2>4 DEF g, k
<1>3. Unfiled(p) = [run EXCEPT ![w] = r]
  BY DEF Unfiled
<1> HIDE DEF r
<1>4. /\ Unfiled(p) \in [Cells -> Seq(Fills)] /\ Unfiled(p)[w] = r
      /\ \A c \in Cells \ {w} : run[c] = Unfiled(p)[c]
  BY <1>1, <1>2, <1>3
<1> QED
  BY <1>2, <1>4 DEF IsFiled

\* The top of the next stack.
LEMMA TopNext ==
    ASSUME NEW e, NEW S, ready' # <<>>, Last(ready') = e, Front(ready') = S,
           UnbornTop(e, S)' \/ LiveTop(e, S)' \/ BesideTop(e, S)'
    PROVE  AtPop'
BY DEF AtPop, UnbornTop, LiveTop, BesideTop

\* The shape once the cell that ended is gone, or kept, over the runs before its end was filed.
LEMMA EndShape ==
    ASSUME Typed, Here \in Cells, NEW p, p = prov[Here], p.slot # 0, NEW sd,
           NEW t, t = Dead(Table, {turn.after, turn.old, turn.beside}),
           InTurn(Unfiled(p)), sd = turn.owes,
           NEW D, \/ D = {Here, p.loop}
                  \/ D = {p.loop} /\ kind[Here] = "tree" /\ rests[Here] = "none"
                       /\ below[Here] = sd
    PROVE  /\ Plain(Dead(t, D), NoCell, [p EXCEPT !.loop = NoCell], ready, Unfiled(p),
                    IF Here \in D THEN sd ELSE Here)
           /\ t \in Tables /\ Dead(t, D) \in Tables
           /\ p \in Provenance
           /\ p.parent \in Cells /\ AnswersAt(Unfiled(p)[p.parent], p.slot)
<1> DEFINE q == [p EXCEPT !.loop = NoCell]
           R == Unfiled(p)
           u == Dead(t, D)
<1>1. Table \in Tables /\ turn.after \in Cell /\ turn.old \in Cell /\ turn.beside \in Cell
  BY DEF Typed, Turn
<1>2. p \in Provenance
  BY <1>1, TableTyped
<1>3. q.parent = p.parent /\ q.slot = p.slot /\ q.home = p.home /\ q.loop = NoCell
  BY <1>2 DEF Provenance
<1>4. Shape(Table, Here, p, ready, R, turn.after, turn.old, turn.beside, sd)
  BY DEF InTurn
<1>5. /\ t \in Tables /\ t.kind = kind /\ t.rests = rests /\ t.below = below
  BY <1>1, DeadTable, TableFields
<1>6. Plain(t, Here, p, ready, R, sd)
  <2> HIDE DEF R
  <2>1. Here \in Cell
    BY DEF Cell
  <2> QED
    BY <1>1, <1>4, <2>1, ReleaseAside
<1>7. u \in Tables
  BY <1>5, DeadTable
<1>8. Plain(u, NoCell, q, ready, R, IF Here \in D THEN sd ELSE Here)
  <2> HIDE DEF R, q
  <2> QED
    BY <1>3, <1>5, <1>6, ActorEnds
<1>9. p.parent \in Cells /\ AnswersAt(R[p.parent], p.slot)
  <2> HIDE DEF R
  <2>1. Stacked(Table, Here, p, R)
    BY <1>4 DEF Shape
  <2>2. p.parent \in Frames(Table, Here) /\ AnswersAt(R[p.parent], p.slot)
    <3>1. /\ p.parent \in Frames(Table, Here)
          /\ AnswersAt(R[p.parent], p.slot)
      BY <1>1, <2>1, TopFrame
    <3> QED
      BY <3>1
  <2> QED
    BY <2>2 DEF Frames
<1> QED
  BY <1>2, <1>5, <1>7, <1>8, <1>9

\* The waiter woken, as the work on top of the stack.
LEMMA WokenTop ==
    ASSUME Typed, NEW u \in Tables, NEW q, NEW sd \in Cell, NEW m \in 0 .. Len(ready), NEW R,
           R \in [Cells -> Seq(Fills)],
           Plain(u, NoCell, q, ready, R, sd), q.slot # 0, q.loop = NoCell, NEW f,
           IsFiled(run, R, q, f), f.is = "value" => f.at = q.home,
           \A i \in 1 .. m : ready[i].prov.parent # q.parent,
           \A i \in m + 1 .. Len(ready) : ready[i].prov.parent = q.parent,
           WaitOver(run[q.parent], sd),
           Table' = u, run' = run, ready' = Append(SubSeq(ready, 1, m), Woken(q.parent))
    PROVE  AtPop'
<1> PICK S : S = SubSeq(ready, 1, m)
  OBVIOUS
<1> PICK w : w = q.parent
  OBVIOUS
<1> PICK e : e = Woken(w)
  OBVIOUS
<1>1. ready \in Seq(Entry) /\ run \in [Cells -> Seq(Fills)]
  BY DEF Typed
<1>2. /\ w \in Cells /\ u.rests[w] = "parked" /\ Plain(u, w, u.prov[w], S, run, sd)
      /\ \A s \in DOMAIN R[w] : R[w][s].is = "value" =>
           R[w][s].at \in Anchors(u, Frames(u, w) \cup {w})
      /\ q.home \in Anchors(u, Frames(u, w) \cup {w})
  BY <1>1, Wakes
<1>3. e \in Entry /\ S \in Seq(Entry) /\ e.is = "live" /\ e.cell = w
  BY <1>1, <1>2 DEF Woken, Entry
<1>4. ready' # <<>> /\ Last(ready') = e /\ Front(ready') = S
  <2>1. ready' = Append(S, e)
    OBVIOUS
  <2> QED
    BY <1>3, <2>1, PushedTop
<1>5. \A s \in DOMAIN run[w] : run[w][s].is = "value" =>
         run[w][s].at \in Anchors(u, Frames(u, w) \cup {w})
  <2>1. /\ DOMAIN run[w] = DOMAIN R[w]
        /\ \A s \in DOMAIN R[w] : run[w][s] = IF s = q.slot THEN f ELSE R[w][s]
    BY DEF IsFiled
  <2> QED
    BY <1>2, <2>1
<1>6. DOMAIN run[w] = 1 .. Len(run[w])
  BY <1>1, <1>2
<1>7. LiveTop(e, S)'
  <2>1. rests'[w] = "parked" /\ prov'[w] = u.prov[w]
    BY <1>2, TableFieldsNext
  <2> QED
    BY <1>2, <1>3, <1>5, <1>6, <2>1, ZenonT(60) DEF LiveTop, Slots
<1> QED
  BY <1>4, <1>7, TopNext

\* A value filed: the next sibling is on top, or the consumer is woken with its run full.
LEMMA SettleFinishIInv == IInv /\ SettleFinish => IInv'
<1> SUFFICES ASSUME IInv, SettleFinish PROVE IInv'
  OBVIOUS
<1> PICK p : p = prov[Here]
  OBVIOUS
<1> PICK w : w = p.parent
  OBVIOUS
<1> PICK R : R = Unfiled(p)
  OBVIOUS
<1> PICK t : t = Dead(Table, {turn.after, turn.old, turn.beside})
  OBVIOUS
<1> PICK q : q = [p EXCEPT !.loop = NoCell]
  OBVIOUS
<1> PICK D : D = {Here, p.loop}
  OBVIOUS
<1> PICK u : u = Dead(t, D)
  OBVIOUS
<1> PICK n : n = Len(ready)
  OBVIOUS
<1> PICK stack : stack = IF ended.completed THEN Append(ready, Woken(w)) ELSE ready
  OBVIOUS
<1>1. phase = "settle" /\ ended.is = "finished" /\ Settled(stack)
  BY DEF SettleFinish, Settled, Settling, Parent
<1>2. /\ Typed /\ Here \in Cells /\ NoCell \in Cell
      /\ Births \in Nat /\ Cardinality(Requests(ready)) \in Nat
      /\ Births + Cardinality(Requests(ready)) + Need <= MaxCells
  BY <1>1, SettleFacts DEF IInv
<1>3. /\ p.slot # 0 /\ turn.owes = NoCell /\ rests[Here] = "none" /\ InTurn(R)
      /\ run[w][p.slot] = Value(p.home) /\ (ended.completed <=> p.slot = Len(run[w]))
  <2>1. Finishes(p)
    BY <1>1 DEF IInv, AtSettle, Finishes, Faults, Parks, ReadsBeside, Leaves
  <2> QED
    BY <2>1 DEF Finishes
<1>4. /\ Plain(u, NoCell, q, ready, R, NoCell) /\ u \in Tables
      /\ q.parent = w /\ q.slot = p.slot /\ q.home = p.home /\ q.loop = NoCell
      /\ w \in Cells /\ AnswersAt(R[w], p.slot)
  <2>1. InTurn(Unfiled(p)) /\ turn.owes = NoCell /\ p.slot # 0 /\ Typed /\ Here \in Cells
    BY <1>2, <1>3
  <2>2. /\ Plain(Dead(t, D), NoCell, [p EXCEPT !.loop = NoCell], ready, Unfiled(p),
                 IF Here \in D THEN turn.owes ELSE Here)
        /\ t \in Tables /\ Dead(t, D) \in Tables
        /\ p \in Provenance
        /\ p.parent \in Cells /\ AnswersAt(Unfiled(p)[p.parent], p.slot)
    BY <2>1, EndShape
  <2>3. (IF Here \in D THEN turn.owes ELSE Here) = NoCell
    BY <2>1
  <2>4. Plain(u, NoCell, q, ready, R, NoCell) /\ u \in Tables
        /\ w \in Cells /\ AnswersAt(R[w], p.slot)
    BY <2>2, <2>3
  <2>5. q.parent = w /\ q.slot = p.slot /\ q.home = p.home /\ q.loop = NoCell
    BY <2>2 DEF Provenance
  <2> QED
    BY <2>4, <2>5
<1>5. R \in [Cells -> Seq(Fills)] /\ IsFiled(run, R, q, Value(p.home))
  BY <1>2, <1>3, <1>4, UnfiledRuns
<1>6. Owned(D)
  BY <1>1 DEF Owned, OwnEnd, Loop
<1>7. Shape(Table, Here, prov[Here], ready, R, turn.after, turn.old, turn.beside, turn.owes)
  BY <1>3 DEF InTurn
<1>8. ready \in Seq(Entry) /\ run \in [Cells -> Seq(Fills)] /\ n \in Nat
      /\ DOMAIN ready = 1 .. n
  BY <1>2 DEF Typed
<1>9. Need = 0
  BY <1>1 DEF Need
<1>10. /\ DOMAIN R[w] = 1 .. Len(R[w]) /\ Len(R[w]) = Len(run[w]) /\ DOMAIN run[w] = 1 .. Len(run[w])
       /\ \A s \in 1 .. Len(R[w]) : run[w][s] = IF s = p.slot THEN Value(p.home) ELSE R[w][s]
       /\ p.slot \in 1 .. Len(R[w])
       /\ \A s \in 1 .. Len(R[w]) : R[w][s].is = IF s < p.slot THEN "value" ELSE "empty"
  <2>1. /\ R[w] \in Seq(Fills) /\ run[w] \in Seq(Fills)
    BY <1>4, <1>5, <1>8
  <2>2. /\ DOMAIN run[w] = DOMAIN R[w]
        /\ \A s \in DOMAIN R[w] : run[w][s] = IF s = p.slot THEN Value(p.home) ELSE R[w][s]
    BY <1>4, <1>5 DEF IsFiled
  <2>3. DOMAIN R[w] = 1 .. Len(R[w]) /\ Len(R[w]) = Len(run[w]) /\ DOMAIN run[w] = 1 .. Len(run[w])
    BY <2>1, <2>2
  <2> QED
    BY <1>4, <2>2, <2>3 DEF AnswersAt
<1>11. CASE ended.completed
  <2>1. stack = Append(ready, Woken(w)) /\ Woken(w) \in Entry /\ Woken(w).is = "live"
    BY <1>4, <1>11 DEF Woken, Entry
  <2>2. SubSeq(ready, 1, n) = ready
    BY <1>8
  <2>3. stack \in Seq(Entry) /\ Births + Cardinality(Requests(stack)) <= MaxCells
    <3>1. n \in 0 .. Len(ready)
      BY <1>8
    <3>2. /\ Append(SubSeq(ready, 1, n), Woken(w)) \in Seq(Entry)
          /\ Births + Cardinality(Requests(Append(SubSeq(ready, 1, n), Woken(w)))) <= MaxCells
      BY <1>1, <2>1, <3>1, WokenRoom
    <3> QED
      BY <2>1, <2>2, <3>2
  <2>4. ready' = stack /\ run' = run /\ Table' = u /\ (AtPop' => IInv')
    BY <1>1, <1>2, <1>6, <1>7, <2>3, SettledIInv
  <2>5. \A i \in 1 .. n : ready[i].prov.parent # w
    <3> SUFFICES ASSUME NEW i \in 1 .. n, ready[i].prov.parent = w PROVE FALSE
      OBVIOUS
    <3>1. IsAsked(u, q, ready[i], Frames(u, NoCell), R)
      BY <1>4, <1>8 DEF Plain, Shape, Queued
    <3>2. /\ ready[i].prov.slot \in DOMAIN R[w] /\ R[w][ready[i].prov.slot].is = "empty"
          /\ ready[i].prov.slot # p.slot
      BY <1>4, <3>1 DEF IsAsked, Serves
    <3>3. p.slot = Len(R[w])
      BY <1>3, <1>10, <1>11
    <3> QED
      BY <1>10, <3>2, <3>3
  <2>6. WaitOver(run[w], NoCell)
    <3>1. ASSUME NEW s \in DOMAIN run[w] PROVE run[w][s].is = "value"
      <4>1. s \in 1 .. Len(R[w]) /\ (s = p.slot \/ s < p.slot)
        BY <1>3, <1>10, <1>11
      <4> QED
        BY <1>10, <4>1 DEF Value
    <3> QED
      BY <3>1 DEF WaitOver, Answered
  <2>7. AtPop'
    <3>1. n \in 0 .. Len(ready) /\ (\A i \in n + 1 .. Len(ready) : ready[i].prov.parent = q.parent)
      BY <1>8
    <3>2. ready' = Append(SubSeq(ready, 1, n), Woken(q.parent))
      BY <1>4, <2>1, <2>2, <2>4
    <3>3. Value(p.home).is = "value" => Value(p.home).at = q.home
      BY <1>4 DEF Value
    <3>4. q.slot # 0 /\ (\A i \in 1 .. n : ready[i].prov.parent # q.parent)
          /\ WaitOver(run[q.parent], NoCell)
      BY <1>3, <1>4, <2>5, <2>6
    <3> QED
      BY <1>2, <1>4, <1>5, <2>4, <3>1, <3>2, <3>3, <3>4, WokenTop, ZenonT(60)
  <2> QED
    BY <2>4, <2>7
<1>12. CASE ~ended.completed
  <2>1. stack = ready /\ stack \in Seq(Entry)
        /\ Births + Cardinality(Requests(stack)) <= MaxCells
    BY <1>2, <1>8, <1>9, <1>12
  <2>2. ready' = ready /\ run' = run /\ Table' = u /\ (AtPop' => IInv')
    BY <1>1, <1>2, <1>6, <1>7, <2>1, SettledIInv
  <2> PICK e : e = ready[n]
    OBVIOUS
  <2> PICK F : F = Front(ready)
    OBVIOUS
  <2>3. q.slot # 0 /\ q.slot # Len(R[q.parent]) /\ IsFiled(run, R, q, Value(q.home))
    BY <1>3, <1>4, <1>5, <1>10, <1>12
  <2>4. /\ ready # <<>> /\ e.prov.parent = w /\ IsAsked(u, q, e, Frames(u, NoCell), R)
        /\ Plain(u, NoCell, e.prov, F, run, NoCell)
    <3>1. /\ ready # <<>> /\ ready[Len(ready)].prov.parent = q.parent
          /\ IsAsked(u, q, ready[Len(ready)], Frames(u, NoCell), R)
          /\ Plain(u, NoCell, ready[Len(ready)].prov, Front(ready), run, NoCell)
      BY <1>4, <1>5, <1>8, <2>3, NextAsked, ZenonT(60)
    <3> QED
      BY <1>4, <3>1
  <2>5. e = Last(ready)
    BY DEF Last
  <2>6. /\ e = Asked(e.prov, e.place, e.prov.parent, NoCell, NoCell) /\ e.prov.loop = NoCell
        /\ e.prov.slot # 0
    <3>1. e.prov.slot \in 1 .. Len(R[w])
      BY <1>10, <2>4 DEF IsAsked
    <3> QED
      BY <2>4, <3>1 DEF IsAsked
  <2>7. UnbornTop(e, F)'
    <3>1. /\ e.is = "unborn" /\ e.after = NoCell /\ e.old = NoCell /\ e.under = e.prov.parent
      BY <2>6 DEF Asked
    <3>2. Shape(Table', NoCell, e.prov, F, run', e.after, e.old, NoCell, NoCell)
      BY <2>2, <2>4, <3>1 DEF Plain
    <3> QED
      BY <2>6, <3>1, <3>2 DEF UnbornTop
  <2>8. AtPop'
    BY <2>2, <2>4, <2>5, <2>7, TopNext
  <2> QED
    BY <2>2, <2>8
<1> QED
  BY <1>11, <1>12

\* What a waiter asked for and nobody began is what lies on top of the stack.
LEMMA DroppedIs ==
    ASSUME NEW t \in Tables, NEW q, NEW S \in Seq(Entry), NEW R, NEW sd,
           Plain(t, NoCell, q, S, R, sd), q.slot # 0
    PROVE  \E m \in 0 .. Len(S) :
             /\ Dropped(S, q.parent) = SubSeq(S, 1, m)
             /\ \A i \in 1 .. m : S[i].prov.parent # q.parent
             /\ \A i \in m + 1 .. Len(S) : S[i].prov.parent = q.parent
<1> DEFINE w == q.parent
           k == Len(S)
           W == Frames(t, NoCell)
           Drops(e) == e.is = "unborn" /\ e.after = NoCell /\ e.prov.parent = w
           stays == {n \in 0 .. k : n = 0 \/ ~Drops(S[n])}
           top == CHOOSE n \in stays : \A m \in stays : m <= n
<1>1. /\ w \in W /\ (\A c \in W : c <= w) /\ W \subseteq Int
  <2>1. Stacked(t, NoCell, q, R)
    BY DEF Plain, Shape
  <2>2. w \in W /\ W \subseteq Cells
    BY <2>1, TopFrame
  <2>3. \A c \in W : c <= w
    BY <2>1, TopFrame
  <2>4. Cells \subseteq Int
    BY DEF Cells
  <2> QED
    BY <2>2, <2>3, <2>4
<1>2. k \in Nat /\ DOMAIN S = 1 .. k
  OBVIOUS
<1>3. /\ \A i \in 1 .. k : IsAsked(t, q, S[i], W, R)
      /\ \A i, j \in 1 .. k : i < j => Above(S[j].prov, S[i].prov)
  BY <1>2 DEF Plain, Shape, Queued
<1> HIDE DEF W, k, w
<1>4. \A i \in 1 .. k : /\ S[i].is = "unborn" /\ S[i].after = NoCell
                        /\ S[i].prov.parent \in W
  <2> SUFFICES ASSUME NEW i \in 1 .. k
               PROVE  /\ S[i].is = "unborn" /\ S[i].after = NoCell
                      /\ S[i].prov.parent \in W
    OBVIOUS
  <2> PICK e : e = S[i]
    OBVIOUS
  <2>1. IsAsked(t, q, e, W, R)
    BY <1>3
  <2>2. /\ e = Asked(e.prov, e.place, e.prov.parent, NoCell, NoCell)
        /\ e.prov.parent \in W
    BY <2>1 DEF IsAsked
  <2>3. e.is = "unborn" /\ e.after = NoCell
    BY <2>2 DEF Asked
  <2> QED
    BY <2>2, <2>3
<1>5. \A i \in 1 .. k : Drops(S[i]) <=> S[i].prov.parent = w
  BY <1>4
<1>6. \E n \in stays : \A m \in stays : m <= n
  <2> DEFINE N == {k - n : n \in stays}
  <2>1. 0 \in stays /\ stays \subseteq 0 .. k
    BY <1>2
  <2> HIDE DEF stays
  <2>2. N \in SUBSET Nat /\ N # {}
    BY <1>2, <2>1
  <2>3. PICK x \in N : \A y \in N : x <= y
    BY <2>2, LeastNat
  <2>4. PICK n \in stays : x = k - n
    OBVIOUS
  <2>5. ASSUME NEW m \in stays PROVE m <= n
    <3>1. k - m \in N
      OBVIOUS
    <3>2. k - n <= k - m
      BY <2>3, <2>4, <3>1
    <3>3. m \in Int /\ n \in Int /\ k \in Int
      BY <1>2, <2>1
    <3> QED
      BY <3>2, <3>3
  <2> QED
    BY <2>5
<1>7. top \in stays /\ \A m \in stays : m <= top
  BY <1>6
<1>8. Dropped(S, w) = SubSeq(S, 1, top)
  BY DEF Dropped, k
<1> HIDE DEF top
<1>9. ASSUME NEW i \in 1 .. top PROVE S[i].prov.parent # w
  <2>1. top \in 1 .. k /\ S[top].prov.parent # w /\ i \in 1 .. k
    BY <1>2, <1>5, <1>7
  <2> PICK b : b = S[top].prov.parent
    OBVIOUS
  <2> PICK c : c = S[i].prov.parent
    OBVIOUS
  <2>2. b \in W /\ c \in W
    BY <1>4, <2>1
  <2>3. b < w /\ b \in Int /\ c \in Int /\ w \in Int
    BY <1>1, <2>1, <2>2
  <2>4. i = top \/ i < top
    BY <2>1
  <2>5. i = top \/ c <= b
    <3>1. i < top => Above(S[top].prov, S[i].prov)
      BY <1>3, <2>1
    <3> QED
      BY <2>3, <2>4, <3>1 DEF Above
  <2> QED
    BY <2>3, <2>5
<1>10. ASSUME NEW i \in top + 1 .. k PROVE S[i].prov.parent = w
  <2>1. i \in 1 .. k /\ i \notin stays
    BY <1>2, <1>7
  <2> QED
    BY <1>5, <2>1
<1> QED
  BY <1>7, <1>8, <1>9, <1>10 DEF w, k

\* A fault filed: the siblings still unborn are dropped and the consumer woken.
LEMMA SettleFaultIInv == IInv /\ SettleFault => IInv'
<1> SUFFICES ASSUME IInv, SettleFault PROVE IInv'
  OBVIOUS
<1>a. PICK p : p = prov[Here]
  OBVIOUS
<1>b. PICK w : w = p.parent
  OBVIOUS
<1>c. PICK R : R = Unfiled(p)
  OBVIOUS
<1>d. PICK t : t = Dead(Table, {turn.after, turn.old, turn.beside})
  OBVIOUS
<1>e. PICK q : q = [p EXCEPT !.loop = NoCell]
  OBVIOUS
<1>f. PICK D : D = IF ended.kept THEN {p.loop} ELSE {Here, p.loop}
  OBVIOUS
<1>g. PICK u : u = Dead(t, D)
  OBVIOUS
<1>h. PICK sd : sd = IF Here \in D THEN turn.owes ELSE Here
  OBVIOUS
<1>i. PICK f : f = run[w][p.slot]
  OBVIOUS
<1>j. PICK stack : stack = Append(Dropped(ready, w), Woken(w))
  OBVIOUS
<1>1. phase = "settle" /\ ended.is = "faulted" /\ Settled(stack)
  BY <1>a, <1>b, <1>j DEF SettleFault, Settled, Settling, Parent
<1>2. /\ Typed /\ Here \in Cells /\ turn.owes \in Cell
      /\ Births \in Nat /\ Cardinality(Requests(ready)) \in Nat
  BY <1>1, SettleFacts DEF IInv
<1>3. /\ p.slot # 0 /\ rests[Here] = "none" /\ InTurn(R)
      /\ ended.kept <=> kind[Here] = "tree"
      /\ f = Fault(IF ended.kept THEN Here ELSE turn.owes)
      /\ ended.kept => below[Here] = turn.owes
  <2>1. Faults(p)
    BY <1>1, <1>a DEF IInv, AtSettle, Finishes, Faults, Parks, ReadsBeside, Leaves
  <2> QED
    BY <1>b, <1>c, <1>i, <2>1 DEF Faults
<1>4. \/ D = {Here, p.loop}
      \/ D = {p.loop} /\ kind[Here] = "tree" /\ rests[Here] = "none" /\ below[Here] = turn.owes
  BY <1>3, <1>f
<1>5. /\ Plain(u, NoCell, q, ready, R, sd) /\ u \in Tables
      /\ q.parent = w /\ q.slot = p.slot /\ q.home = p.home /\ q.loop = NoCell
      /\ w \in Cells /\ AnswersAt(R[w], p.slot)
  <2>1. InTurn(Unfiled(p)) /\ p.slot # 0 /\ Typed /\ Here \in Cells
        /\ p = prov[Here] /\ t = Dead(Table, {turn.after, turn.old, turn.beside})
    BY <1>2, <1>3, <1>a, <1>c, <1>d
  <2>2. /\ Plain(Dead(t, D), NoCell, [p EXCEPT !.loop = NoCell], ready, Unfiled(p),
                 IF Here \in D THEN turn.owes ELSE Here)
        /\ t \in Tables /\ Dead(t, D) \in Tables
        /\ p \in Provenance
        /\ p.parent \in Cells /\ AnswersAt(Unfiled(p)[p.parent], p.slot)
    <3>1. CASE D = {Here, p.loop}
      BY <2>1, <3>1, EndShape
    <3>2. CASE D = {p.loop} /\ kind[Here] = "tree" /\ rests[Here] = "none"
                 /\ below[Here] = turn.owes
      BY <2>1, <3>2, EndShape
    <3> QED
      BY <1>4, <3>1, <3>2
  <2>4. Plain(u, NoCell, q, ready, R, sd) /\ u \in Tables
        /\ w \in Cells /\ AnswersAt(R[w], p.slot)
    BY <2>2, <1>b, <1>c, <1>e, <1>g, <1>h
  <2>5. q.parent = w /\ q.slot = p.slot /\ q.home = p.home /\ q.loop = NoCell
    BY <2>2, <1>b, <1>e DEF Provenance
  <2> QED
    BY <2>4, <2>5
<1>6. R \in [Cells -> Seq(Fills)] /\ IsFiled(run, R, q, f)
  BY <1>2, <1>5, <1>b, <1>c, <1>i, UnfiledRuns
<1>7. Owned(D)
  <2>1. CASE ended.kept
    BY <1>1, <1>a, <1>f, <2>1 DEF Owned, OwnEnd, Loop
  <2>2. CASE ~ended.kept
    BY <1>1, <1>a, <1>f, <2>2 DEF Owned, OwnEnd, Loop
  <2> QED
    BY <2>1, <2>2
<1>8. Shape(Table, Here, prov[Here], ready, R, turn.after, turn.old, turn.beside, turn.owes)
  BY <1>3 DEF InTurn
<1>9. ready \in Seq(Entry) /\ run \in [Cells -> Seq(Fills)]
  BY <1>2 DEF Typed
<1>10. p.loop # Here /\ sd = (IF ended.kept THEN Here ELSE turn.owes) /\ sd \in Cell
  <2>1. Here # NoCell
    BY <1>2, DrainAssumption DEF Cells, NoCell
  <2>2. Here \in held /\ (p.loop # NoCell => p.loop \notin held)
    BY <1>8, <1>a, <2>1, TableFields DEF Shape, Stacked, Acts, StandsOn, IsLoop
  <2>3. p.loop # Here
    BY <2>1, <2>2
  <2> QED
    BY <1>2, <1>f, <1>h, <2>3 DEF Cell
<1>11. PICK m \in 0 .. Len(ready) :
             /\ Dropped(ready, w) = SubSeq(ready, 1, m)
             /\ \A i \in 1 .. m : ready[i].prov.parent # w
             /\ \A i \in m + 1 .. Len(ready) : ready[i].prov.parent = w
  <2>1. q.slot # 0 /\ Plain(u, NoCell, q, ready, R, sd) /\ u \in Tables
        /\ ready \in Seq(Entry)
    BY <1>3, <1>5, <1>9
  <2>2. \E m \in 0 .. Len(ready) :
             /\ Dropped(ready, q.parent) = SubSeq(ready, 1, m)
             /\ \A i \in 1 .. m : ready[i].prov.parent # q.parent
             /\ \A i \in m + 1 .. Len(ready) : ready[i].prov.parent = q.parent
    BY <2>1, DroppedIs
  <2>3. q.parent = w
    BY <1>5
  <2> QED
    BY <2>2, <2>3
<1>12. stack = Append(SubSeq(ready, 1, m), Woken(w)) /\ Woken(w) \in Entry /\ Woken(w).is = "live"
  BY <1>5, <1>11, <1>j DEF Woken, Entry
<1>13. stack \in Seq(Entry) /\ Births + Cardinality(Requests(stack)) <= MaxCells
  BY <1>1, <1>12, WokenRoom
<1>14. ready' = stack /\ run' = run /\ Table' = u /\ (AtPop' => IInv')
  BY <1>1, <1>2, <1>7, <1>8, <1>13, <1>d, <1>g, SettledIInv
<1>15. WaitOver(run[w], sd) /\ f.is = "fault" /\ f.at = sd
  <2>1. f.is = "fault" /\ f.at = sd
    BY <1>3, <1>10 DEF Fault
  <2>2. /\ DOMAIN run[w] = DOMAIN R[w]
        /\ \A s \in DOMAIN R[w] : run[w][s] = IF s = p.slot THEN f ELSE R[w][s]
    BY <1>5, <1>6 DEF IsFiled
  <2>3. p.slot \in DOMAIN R[w] /\ DOMAIN R[w] = 1 .. Len(R[w])
          /\ \A s \in DOMAIN R[w] : R[w][s].is = IF s < p.slot THEN "value" ELSE "empty"
    <3>1. R[w] \in Seq(Fills)
      BY <1>5, <1>6
    <3> QED
      BY <1>5, <3>1 DEF AnswersAt
  <2>4. FaultsAt(run[w], p.slot)
    <3>1. ASSUME NEW s \in DOMAIN run[w]
          PROVE  run[w][s].is = IF s < p.slot THEN "value"
                                ELSE IF s = p.slot THEN "fault" ELSE "empty"
      BY <2>1, <2>2, <2>3
    <3> QED
      BY <2>2, <2>3, <3>1 DEF FaultsAt
  <2>5. run[w][p.slot] = f
    BY <2>2, <2>3
  <2> QED
    BY <2>1, <2>2, <2>3, <2>4, <2>5 DEF WaitOver
<1>16. AtPop'
  <2>1. q.slot # 0 /\ (\A i \in 1 .. m : ready[i].prov.parent # q.parent)
        /\ (\A i \in m + 1 .. Len(ready) : ready[i].prov.parent = q.parent)
        /\ WaitOver(run[q.parent], sd) /\ (f.is = "value" => f.at = q.home)
        /\ ready' = Append(SubSeq(ready, 1, m), Woken(q.parent))
    BY <1>3, <1>5, <1>11, <1>12, <1>14, <1>15
  <2> QED
    BY <1>2, <1>5, <1>6, <1>10, <1>14, <2>1, WokenTop
<1> QED
  BY <1>14, <1>16

\* The shape once what was aside is gone, the cell that ended still there.
LEMMA StayShape ==
    ASSUME IInv, phase = "settle", InTurn(run),
           NEW t, t = Dead(Dead(Table, {turn.after, turn.old, turn.beside}), {})
    PROVE  /\ Plain(t, Here, prov[Here], ready, run, turn.owes) /\ t \in Tables
           /\ t.prov = prov /\ t.rests = rests /\ t.kind = kind /\ t.under = under
           /\ t.lost = lost /\ t.below = below
           /\ t.held = held \ {turn.after, turn.old, turn.beside}
           /\ \A c : Standing(t, c) <=>
                Standing(Table, c) /\ c \notin {turn.after, turn.old, turn.beside}
           /\ Shape(Table, Here, prov[Here], ready, run, turn.after, turn.old, turn.beside,
                    turn.owes)
<1> PICK D : D = {turn.after, turn.old, turn.beside}
  OBVIOUS
<1>1. Typed /\ Here \in Cells /\ Table \in Tables
      /\ turn.after \in Cell /\ turn.old \in Cell /\ turn.beside \in Cell
  BY SettleFacts DEF IInv, Typed
<1>2. Shape(Table, Here, prov[Here], ready, run, turn.after, turn.old, turn.beside, turn.owes)
  BY DEF InTurn
<1>3. Dead(Table, D) \in Tables /\ Dead(Table, D).prov = prov /\ Dead(Table, D).rests = rests
      /\ Dead(Table, D).kind = kind /\ Dead(Table, D).under = under
      /\ Dead(Table, D).lost = lost /\ Dead(Table, D).below = below
      /\ Dead(Table, D).held = held \ D
      /\ \A c : Standing(Dead(Table, D), c) <=> Standing(Table, c) /\ c \notin D
  BY <1>1, DeadTable, TableFields
<1>4. t = Dead(Table, D)
  BY <1>3, DeadNone
<1>5. Plain(Dead(Table, D), Here, prov[Here], ready, run, turn.owes)
  <2>1. Here \in Cell
    BY <1>1 DEF Cell
  <2> QED
    BY <1>1, <1>2, <2>1, ReleaseAside
<1> QED
  BY <1>2, <1>3, <1>4, <1>5

\* The cell is pushed to be entered beside the kept cell, which stays.
LEMMA SettleBesideIInv == IInv /\ SettleBeside => IInv'
<1> SUFFICES ASSUME IInv, SettleBeside PROVE IInv'
  OBVIOUS
<1> PICK e : e = Beside(Here, ended.kept)
  OBVIOUS
<1> PICK S : S = ready
  OBVIOUS
<1> PICK t : t = Dead(Dead(Table, {turn.after, turn.old, turn.beside}), {})
  OBVIOUS
<1>1. phase = "settle" /\ ended.is = "beside" /\ Settled(Append(ready, e))
  BY DEF SettleBeside, Settled, Settling
<1>2. Typed /\ Here \in Cells /\ ready \in Seq(Entry)
  BY <1>1, SettleFacts DEF IInv, Typed
<1>3. rests[Here] = "beside" /\ AllEmpty(run[Here]) /\ InTurn(run) /\ ended.kept = turn.owes
  <2>1. ReadsBeside
    BY <1>1 DEF IInv, AtSettle, Finishes, Faults, Parks, ReadsBeside, Leaves
  <2> QED
    BY <2>1 DEF ReadsBeside
<1>4. /\ Plain(t, Here, prov[Here], ready, run, turn.owes) /\ t \in Tables
      /\ t.prov = prov /\ t.rests = rests
      /\ Shape(Table, Here, prov[Here], ready, run, turn.after, turn.old, turn.beside, turn.owes)
  BY <1>1, <1>3, StayShape
<1>5. e \in Entry /\ e.is = "beside" /\ e.cell = Here /\ e.kept = turn.owes
  <2>1. ended.kept \in Cells
    BY <1>1, <1>2 DEF Typed, End
  <2> QED
    BY <1>2, <1>3, <2>1 DEF Beside, Entry
<1>6. /\ Append(ready, e) \in Seq(Entry)
      /\ Births + Cardinality(Requests(Append(ready, e))) <= MaxCells
  <2>1. SubSeq(ready, 1, Len(ready)) = ready /\ Len(ready) \in 0 .. Len(ready)
    BY <1>2
  <2>2. e.is # "unborn"
    BY <1>5
  <2>3. /\ Append(SubSeq(ready, 1, Len(ready)), e) \in Seq(Entry)
        /\ Births + Cardinality(Requests(Append(SubSeq(ready, 1, Len(ready)), e))) <= MaxCells
    BY <1>1, <1>5, <2>1, <2>2, WokenRoom
  <2> QED
    BY <2>1, <2>3
<1>7. Owned({})
  BY <1>1 DEF Owned, OwnEnd
<1>8. ready' = Append(ready, e) /\ UNCHANGED <<run, prov>> /\ Table' = t /\ (AtPop' => IInv')
  BY <1>1, <1>2, <1>4, <1>6, <1>7, SettledIInv
<1>9. BesideTop(e, S)'
  <2>1. rests' = rests
    BY <1>4, <1>8, TableFieldsNext
  <2> QED
    BY <1>3, <1>4, <1>5, <1>8, <2>1 DEF BesideTop
<1>10. ready' # <<>> /\ Last(ready') = e /\ Front(ready') = S
  BY <1>2, <1>5, <1>8, PushedTop
<1> QED
  BY <1>8, <1>9, <1>10, TopNext

\* A request on top of the old stack takes one of the births there is room for.
LEMMA RequestRoom ==
    ASSUME IInv, phase = "settle", NEW e \in Entry, Need \in Nat \ {0}
    PROVE  /\ Append(ready, e) \in Seq(Entry)
           /\ Births \in Nat /\ Cardinality(Requests(Append(ready, e))) \in Nat
           /\ Births + Cardinality(Requests(Append(ready, e))) + (Need - 1) <= MaxCells
<1>1. ready \in Seq(Entry)
  BY DEF IInv, Typed
<1>2. /\ Cardinality(Requests(ready)) \in Nat
      /\ \/ Cardinality(Requests(Append(ready, e))) = Cardinality(Requests(ready)) + 1
         \/ Cardinality(Requests(Append(ready, e))) = Cardinality(Requests(ready)) + 0
  BY <1>1, RequestsGrow
<1>3. Births \in Nat /\ Births + Cardinality(Requests(ready)) + Need <= MaxCells
  BY SettleFacts
<1> QED
  BY <1>1, <1>2, <1>3, DrainAssumption

\* The request of a tail is an entry, born where its cell writes.
LEMMA TailEntry ==
    ASSUME NEW q \in Provenance, NEW place \in {"Fresh", "Shares"}, NEW c \in Cells,
           NEW old \in Cell, NEW e, e = Asked(q, place, BirthPlace(q), c, old)
    PROVE  /\ e \in Entry /\ e.is = "unborn" /\ e.prov = q /\ e.after = c /\ e.old = old
           /\ e.under = BirthPlace(e.prov) /\ e.after # NoCell
<1>1. BirthPlace(q) \in Home /\ c # NoCell /\ c \in Cell
  BY DrainAssumption DEF BirthPlace, Provenance, Home, Cells, NoCell, Cell
<1> QED
  BY <1>1 DEF Asked, Entry

\* The work of a first step is pushed to be born again, its predecessor kept aside.
LEMMA SettleRebirthIInv == IInv /\ SettleRebirth => IInv'
<1> SUFFICES ASSUME IInv, SettleRebirth PROVE IInv'
  OBVIOUS
<1>a. PICK p : p = prov[Here]
  OBVIOUS
<1>b. PICK e : e = Asked(p, Placement(Here), BirthPlace(p), Here, NoCell)
  OBVIOUS
<1>c. PICK S : S = ready
  OBVIOUS
<1>d. PICK c : c = Here
  OBVIOUS
<1>e. PICK t : t = Dead(Dead(Table, {turn.after, turn.old, turn.beside}), {})
  OBVIOUS
<1>1. phase = "settle" /\ ended.is = "rebirth" /\ Settled(Append(ready, e))
  BY <1>a, <1>b DEF SettleRebirth, Settled, Settling
<1>2. Typed /\ c \in Cells /\ ready \in Seq(Entry) /\ p \in Provenance /\ NoCell \in Cell
  BY <1>1, <1>a, <1>d, SettleFacts DEF IInv, Typed
<1>3. rests[c] = "none" /\ InTurn(run) /\ turn.owes = NoCell
  <2>1. Leaves(p)
    BY <1>1, <1>a DEF IInv, AtSettle, Finishes, Faults, Parks, ReadsBeside, Leaves
  <2> QED
    BY <1>1, <1>d, <2>1 DEF Leaves
<1>4. /\ Plain(t, c, p, ready, run, NoCell) /\ t \in Tables
      /\ t.prov = prov /\ t.rests = rests
      /\ Shape(Table, Here, prov[Here], ready, run, turn.after, turn.old, turn.beside, turn.owes)
  <2>1. /\ Plain(t, Here, prov[Here], ready, run, turn.owes) /\ t \in Tables
        /\ t.prov = prov /\ t.rests = rests
        /\ Shape(Table, Here, prov[Here], ready, run, turn.after, turn.old, turn.beside, turn.owes)
    BY <1>1, <1>3, <1>e, StayShape
  <2> QED
    BY <1>3, <1>a, <1>d, <2>1
<1>5. /\ e \in Entry /\ e.is = "unborn" /\ e.prov = p /\ e.after = c /\ e.old = NoCell
      /\ e.under = BirthPlace(e.prov) /\ e.after # NoCell
  <2>1. Placement(Here) \in {"Fresh", "Shares"}
    BY DEF Placement
  <2>2. e = Asked(p, Placement(Here), BirthPlace(p), c, NoCell)
    BY <1>b, <1>d
  <2> QED
    BY <1>2, <2>1, <2>2, TailEntry
<1>6. /\ Append(ready, e) \in Seq(Entry)
      /\ Births + Cardinality(Requests(Append(ready, e))) <= MaxCells
  <2>1. Need = 1
    BY <1>1 DEF Need
  <2>2. /\ Append(ready, e) \in Seq(Entry)
        /\ Births \in Nat /\ Cardinality(Requests(Append(ready, e))) \in Nat
        /\ Births + Cardinality(Requests(Append(ready, e))) + (Need - 1) <= MaxCells
    BY <1>1, <1>5, <2>1, RequestRoom
  <2> QED
    BY <2>1, <2>2
<1>7. Owned({})
  BY <1>1 DEF Owned, OwnEnd
<1>8. ready' = Append(S, e) /\ UNCHANGED <<run, prov>> /\ Table' = t /\ (AtPop' => IInv')
  <2>1. Here \in Cells /\ ended.is \notin {"left", "done"}
    BY <1>1, <1>2, <1>d
  <2>2. /\ ready' = Append(ready, e) /\ UNCHANGED <<run, prov>>
        /\ Table' = Dead(Dead(Table, {turn.after, turn.old, turn.beside}), {})
        /\ (AtPop' => IInv')
    BY <1>1, <1>4, <1>6, <1>7, <2>1, SettledIInv
  <2> QED
    BY <1>c, <1>e, <2>2
<1>9. Shape(t, NoCell, p, S, run, c, NoCell, NoCell, NoCell)
  BY <1>2, <1>3, <1>4, <1>c, HopOn
<1>10. UnbornTop(e, S)'
  <2>1. Shape(Table', NoCell, e.prov, S, run', e.after, e.old, NoCell, NoCell)
    BY <1>5, <1>8, <1>9
  <2> QED
    BY <1>5, <2>1 DEF UnbornTop
<1>11. ready' # <<>> /\ Last(ready') = e /\ Front(ready') = S
  <2>1. S \in Seq(Entry)
    BY <1>2, <1>c
  <2> QED
    BY <1>5, <1>8, <2>1, PushedTop
<1> QED
  BY <1>8, <1>10, <1>11, TopNext

\* A hop whose loop cell stands, or that has none.
LEMMA HopFacts ==
    ASSUME IInv, phase = "settle", ended.is = "hop", NEW p, p = prov[Here],
           NEW t, t = Dead(Dead(Table, {turn.after, turn.old, turn.beside}), {})
    PROVE  /\ p \in Provenance /\ Need = 2 /\ turn.owes = NoCell /\ rests[Here] = "none"
           /\ ended.threads \in BOOLEAN /\ (ended.threads => p.slot # 0)
           /\ (p.loop # NoCell => IsLive(p.loop) /\ p.slot # 0)
           /\ IsLive(p.parent)
           /\ Plain(t, Here, p, ready, run, NoCell) /\ t \in Tables
           /\ Shape(t, NoCell, p, ready, run, Here, NoCell, NoCell, NoCell)
           /\ Shape(Table, Here, p, ready, run, turn.after, turn.old, turn.beside, turn.owes)
           /\ Owned({}) /\ Releasable(Released)
           /\ Range(Released) = {turn.after, turn.old, turn.beside}
<1>1. Typed /\ Here \in Cells /\ p \in Provenance /\ NoCell \in Cell
  BY SettleFacts DEF IInv
<1>2. /\ rests[Here] = "none" /\ InTurn(run) /\ turn.owes = NoCell
      /\ ended.threads => p.slot # 0
  <2>1. Leaves(p)
    BY DEF IInv, AtSettle, Finishes, Faults, Parks, ReadsBeside, Leaves
  <2> QED
    BY <2>1 DEF Leaves
<1>3. /\ Plain(t, Here, p, ready, run, NoCell) /\ t \in Tables /\ t.rests = rests
      /\ Shape(Table, Here, p, ready, run, turn.after, turn.old, turn.beside, turn.owes)
  <2>1. /\ Plain(t, Here, prov[Here], ready, run, turn.owes) /\ t \in Tables /\ t.rests = rests
        /\ Shape(Table, Here, prov[Here], ready, run, turn.after, turn.old, turn.beside, turn.owes)
    BY <1>2, StayShape
  <2> QED
    BY <1>2, <2>1
<1>4. Stacked(Table, Here, p, run) /\ StandsOn(Table, p, Frames(Table, Here), run)
  BY <1>3 DEF Shape, Stacked
<1>5. p.loop # NoCell => IsLive(p.loop) /\ p.slot # 0
  <2> SUFFICES ASSUME p.loop # NoCell PROVE IsLive(p.loop) /\ p.slot # 0
    OBVIOUS
  <2>1. IsLoop(Table, p.loop)
    BY <1>4 DEF StandsOn
  <2>2. p.parent \in Frames(Table, Here) /\ AnswersAt(run[p.parent], p.slot)
    BY <1>4 DEF StandsOn, Reports
  <2>3. run[p.parent] \in Seq(Fills)
    BY <1>1, <2>2 DEF Typed, Frames
  <2>4. p.slot # 0
    BY <2>2, <2>3 DEF AnswersAt
  <2> QED
    BY <2>1, <2>4, StandingLives DEF IsLoop
<1>6. IsLive(p.parent)
  <2>1. p.parent = Root \/ p.parent \in Frames(Table, Here)
    BY <1>4 DEF StandsOn, Reports
  <2> QED
    BY <2>1, StandingLives DEF Frames, IsLive
<1>7. Need = 2 /\ Owned({}) /\ ended.threads \in BOOLEAN
  BY <1>1 DEF Need, Owned, OwnEnd, Typed, End
<1>8. Releasable(Released) /\ Range(Released) = {turn.after, turn.old, turn.beside}
  <2>1. Releasable(Released) /\ Range(Released) = {turn.after, turn.old, turn.beside} \cup {}
    BY <1>1, <1>3, <1>7, Releases
  <2> QED
    BY <2>1
<1>9. Shape(t, NoCell, p, ready, run, Here, NoCell, NoCell, NoCell)
  <2>1. t.rests[Here] = "none"
    BY <1>2, <1>3
  <2> QED
    BY <1>1, <1>3, <2>1, HopOn
<1> QED
  BY <1>1, <1>2, <1>3, <1>5, <1>6, <1>7, <1>8, <1>9

\* A hop that makes no loop cell.
LEMMA HopStays ==
    ASSUME IInv, NEW grown \in BOOLEAN, SettleHop(grown), ended.is = "hop",
           ~MakesLoop(ended.threads, grown, prov[Here])
    PROVE  IInv'
<1>a. PICK p : p = prov[Here]
  OBVIOUS
<1>b. PICK q : q = Hopped(p, FALSE, NextCell)
  OBVIOUS
<1>c. PICK S : S = ready
  OBVIOUS
<1>d. PICK c : c = Here
  OBVIOUS
<1>e. PICK t : t = Dead(Dead(Table, {turn.after, turn.old, turn.beside}), {})
  OBVIOUS
<1>f. PICK e : e = Asked(q, "Fresh", BirthPlace(q), c, NoCell)
  OBVIOUS
<1>1. phase = "settle"
  BY DEF SettleHop
<1>2. /\ p \in Provenance /\ Need = 2 /\ rests[Here] = "none"
      /\ (p.loop # NoCell => IsLive(p.loop))
      /\ Plain(t, Here, p, ready, run, NoCell) /\ t \in Tables
      /\ Shape(t, NoCell, p, ready, run, Here, NoCell, NoCell, NoCell)
      /\ Shape(Table, Here, p, ready, run, turn.after, turn.old, turn.beside, turn.owes)
      /\ Owned({})
  BY <1>1, <1>a, <1>e, HopFacts
<1>3. Typed /\ c \in Cells /\ Here \in Cells /\ ready \in Seq(Entry) /\ NoCell \in Cell
  BY <1>1, <1>d, SettleFacts DEF IInv, Typed
<1>4. /\ q \in Provenance /\ q.parent = p.parent /\ q.slot = p.slot /\ q.home = p.home
      /\ q.loop = p.loop
  BY <1>2, <1>b DEF Hopped, Provenance
<1>5. /\ e \in Entry /\ e.is = "unborn" /\ e.prov = q /\ e.after = c /\ e.old = NoCell
      /\ e.under = BirthPlace(e.prov) /\ e.after # NoCell
  BY <1>3, <1>4, <1>f, TailEntry
<1>6. Settled(Append(ready, e))
  <2>1. MakesLoop(ended.threads, grown, p) = FALSE
    <3>1. MakesLoop(ended.threads, grown, p) \in BOOLEAN
      BY <1>2, <1>1, <1>a, <1>e, HopFacts DEF MakesLoop, Provenance
    <3>2. ~MakesLoop(ended.threads, grown, p)
      BY <1>a
    <3> QED
      BY <3>1, <3>2
  <2> PICK x : x = CASE p.loop # NoCell /\ ~IsLive(p.loop) -> "Unreleasable"
                    [] FALSE /\ ~IsLive(p.parent) -> "Unspawnable"
                    [] OTHER -> "none"
    OBVIOUS
  <2>4. x = "none"
    BY <1>2
  <2>5. Settling(Append(ready, Asked(q, "Fresh", BirthPlace(q), Here, NoCell)), x)
    BY <1>a, <1>b, <2>1 DEF SettleHop
  <2>2. Settling(Append(ready, e), "none")
    BY <1>d, <1>f, <2>4, <2>5
  <2>3. life' = AfterRelease /\ UNCHANGED <<kind, under, prov, rests>>
    BY <1>a, <2>1 DEF SettleHop
  <2> QED
    BY <2>2, <2>3 DEF Settled
<1>7. /\ Append(ready, e) \in Seq(Entry)
      /\ Births + Cardinality(Requests(Append(ready, e))) <= MaxCells
  <2>1. /\ Append(ready, e) \in Seq(Entry)
        /\ Births \in Nat /\ Cardinality(Requests(Append(ready, e))) \in Nat
        /\ Births + Cardinality(Requests(Append(ready, e))) + (Need - 1) <= MaxCells
    BY <1>1, <1>2, <1>5, RequestRoom
  <2> QED
    BY <1>2, <2>1, DrainAssumption
<1>8. ready' = Append(S, e) /\ UNCHANGED <<run, prov>> /\ Table' = t /\ (AtPop' => IInv')
  <2>1. ended.is \notin {"left", "done"} /\ Shape(Table, Here, prov[Here], ready, run,
                turn.after, turn.old, turn.beside, turn.owes)
    BY <1>2, <1>a
  <2>2. /\ ready' = Append(ready, e) /\ UNCHANGED <<run, prov>>
        /\ Table' = Dead(Dead(Table, {turn.after, turn.old, turn.beside}), {})
        /\ (AtPop' => IInv')
    BY <1>1, <1>2, <1>3, <1>6, <1>7, <2>1, SettledIInv
  <2> QED
    BY <1>c, <1>e, <2>2
<1>9. Shape(t, NoCell, q, S, run, c, NoCell, NoCell, NoCell)
  <2>2. t.rests[c] = "none"
    <3>1. InTurn(run)
      BY <1>2, <1>a DEF InTurn
    <3>2. t.rests = rests
      BY <1>1, <1>e, <3>1, StayShape
    <3> QED
      BY <1>2, <1>d, <3>2
  <2>3. Plain(t, c, p, S, run, NoCell)
    BY <1>2, <1>c, <1>d
  <2> QED
    BY <1>2, <1>3, <1>4, <2>2, <2>3, HopOn
<1>10. UnbornTop(e, S)'
  <2>1. Shape(Table', NoCell, e.prov, S, run', e.after, e.old, NoCell, NoCell)
    BY <1>5, <1>8, <1>9
  <2> QED
    BY <1>5, <2>1 DEF UnbornTop
<1>11. ready' # <<>> /\ Last(ready') = e /\ Front(ready') = S
  <2>1. S \in Seq(Entry)
    BY <1>3, <1>c
  <2> QED
    BY <1>5, <1>8, <2>1, PushedTop
<1> QED
  BY <1>8, <1>10, <1>11, TopNext

\* A hop that makes a loop cell: the next cell born, live but lent no borrow.
LEMMA HopMade ==
    ASSUME IInv, NEW grown \in BOOLEAN, SettleHop(grown), ended.is = "hop",
           MakesLoop(ended.threads, grown, prov[Here])
    PROVE  \E p, n, q, D :
           /\ p = prov[Here] /\ n = NextCell /\ q = Hopped(p, TRUE, n)
           /\ D = {turn.after, turn.old, turn.beside}
           /\ p.slot # 0
           /\ Settling(Append(ready, Asked(q, "Fresh", BirthPlace(q), Here, p.loop)), "none")
           /\ \A c \in Cells \ {n} : life'[c] = IF c \in D THEN "dead" ELSE life[c]
           /\ life' \in [Cells -> {"free", "live", "dead"}] /\ (n \in Cells => life'[n] = "live")
           /\ kind' = [kind EXCEPT ![n] = "tree"]
           /\ under' = [under EXCEPT ![n] = WriteHome(p.parent)]
           /\ UNCHANGED <<prov, rests>>
           /\ held' = held \ D
<1> PICK p : p = prov[Here]
  OBVIOUS
<1> PICK n : n = NextCell
  OBVIOUS
<1> PICK q : q = Hopped(p, TRUE, n)
  OBVIOUS
<1> PICK D : D = {turn.after, turn.old, turn.beside}
  OBVIOUS
<1>1. phase = "settle"
  BY DEF SettleHop
<1>e. PICK t : t = Dead(Dead(Table, {turn.after, turn.old, turn.beside}), {})
  OBVIOUS
<1>2. /\ p \in Provenance /\ ended.threads \in BOOLEAN /\ (ended.threads => p.slot # 0)
      /\ (p.loop # NoCell => IsLive(p.loop) /\ p.slot # 0)
      /\ IsLive(p.parent) /\ Range(Released) = D
  BY <1>1, <1>e, HopFacts
<1>3. MakesLoop(ended.threads, grown, p) = TRUE
  <2>1. MakesLoop(ended.threads, grown, p) \in BOOLEAN
    BY <1>2 DEF MakesLoop, Provenance
  <2> QED
    BY <2>1
<1>4. p.slot # 0
  <2>1. p.loop = NoCell => ended.threads
    BY <1>3 DEF MakesLoop
  <2> QED
    BY <1>2, <2>1
<1> PICK x : x = CASE p.loop # NoCell /\ ~IsLive(p.loop) -> "Unreleasable"
                  [] TRUE /\ ~IsLive(p.parent) -> "Unspawnable"
                  [] OTHER -> "none"
  OBVIOUS
<1>5. x = "none"
  BY <1>2
<1>6. Settling(Append(ready, Asked(q, "Fresh", BirthPlace(q), Here, p.loop)), x)
  BY <1>3 DEF SettleHop
<1>7. life' = [AfterRelease EXCEPT ![n] = "live"] /\ kind' = [kind EXCEPT ![n] = "tree"]
      /\ under' = [under EXCEPT ![n] = WriteHome(p.parent)] /\ UNCHANGED <<prov, rests>>
  BY <1>3 DEF SettleHop
<1>8. AfterRelease = [c \in Cells |-> IF c \in D THEN "dead" ELSE life[c]]
  BY <1>2 DEF AfterRelease
<1>9. held' = held \ D
  BY <1>2, <1>6 DEF Settling, HeldAfter
<1>10. /\ \A c \in Cells \ {n} : life'[c] = IF c \in D THEN "dead" ELSE life[c]
       /\ life' \in [Cells -> {"free", "live", "dead"}] /\ (n \in Cells => life'[n] = "live")
  <2>1. life \in [Cells -> {"free", "live", "dead"}]
    BY TableTyped DEF IInv, Typed
  <2> QED
    BY <1>7, <1>8, <2>1
<1>11. Settling(Append(ready, Asked(q, "Fresh", BirthPlace(q), Here, p.loop)), "none")
  BY <1>5, <1>6
<1> WITNESS p, n, q, D
<1> QED
  BY <1>4, <1>7, <1>9, <1>10, <1>11

\* A hop that makes a loop cell: the successor holds the new one, the old lies aside with the
\* predecessor.
LEMMA HopGrows ==
    ASSUME IInv, NEW grown \in BOOLEAN, SettleHop(grown), ended.is = "hop",
           MakesLoop(ended.threads, grown, prov[Here])
    PROVE  IInv'
<1>h. PICK p, n, q, D :
       /\ p = prov[Here] /\ n = NextCell /\ q = Hopped(p, TRUE, n)
       /\ D = {turn.after, turn.old, turn.beside}
       /\ p.slot # 0
       /\ Settling(Append(ready, Asked(q, "Fresh", BirthPlace(q), Here, p.loop)), "none")
       /\ \A x \in Cells \ {n} : life'[x] = IF x \in D THEN "dead" ELSE life[x]
       /\ life' \in [Cells -> {"free", "live", "dead"}] /\ (n \in Cells => life'[n] = "live")
       /\ kind' = [kind EXCEPT ![n] = "tree"]
       /\ under' = [under EXCEPT ![n] = WriteHome(p.parent)]
       /\ UNCHANGED <<prov, rests>>
       /\ held' = held \ D
  BY HopMade
<1>a. p = prov[Here]
  BY <1>h
<1>b. n = NextCell
  BY <1>h
<1>q. q = Hopped(p, TRUE, n)
  BY <1>h
<1>D. D = {turn.after, turn.old, turn.beside}
  BY <1>h
<1>c. PICK S : S = ready
  OBVIOUS
<1>d. PICK c : c = Here
  OBVIOUS
<1>e. PICK t : t = Dead(Dead(Table, {turn.after, turn.old, turn.beside}), {})
  OBVIOUS
<1>f. PICK e : e = Asked(q, "Fresh", BirthPlace(q), c, p.loop)
  OBVIOUS
<1>1. phase = "settle" /\ Typed /\ BornInOrder /\ Quiet /\ InOrder /\ TwoHops /\ Table \in Tables
  BY DEF SettleHop, IInv, Typed
<1>2. /\ p \in Provenance /\ Need = 2
      /\ Plain(t, Here, p, ready, run, NoCell) /\ t \in Tables
      /\ Shape(t, NoCell, p, ready, run, Here, NoCell, NoCell, NoCell)
      /\ Shape(Table, Here, p, ready, run, turn.after, turn.old, turn.beside, turn.owes)
      /\ Releasable(Released) /\ Range(Released) = D
  BY <1>1, <1>a, <1>e, <1>D, HopFacts
<1>3. c \in Cells /\ Here \in Cells /\ ready \in Seq(Entry) /\ NoCell \in Cell
  BY <1>1, <1>d, SettleFacts DEF Typed
<1>4. p.loop \in Cell
  BY <1>2 DEF Provenance, Cell
<1>5. /\ Births \in Nat /\ Births < MaxCells
  <2>1. /\ Births \in Nat /\ Cardinality(Requests(ready)) \in Nat
        /\ Births + Cardinality(Requests(ready)) + Need <= MaxCells
    BY <1>1, SettleFacts
  <2> QED
    BY <1>2, <2>1, DrainAssumption
<1>6. /\ n \in Cells /\ life[n] = "free" /\ n \notin lost /\ n \notin held
      /\ NextCell \in Cells
  BY <1>1, <1>5, <1>b, NextBorn
<1>7. n \notin D
  <2>1. \A i \in DOMAIN Released : Released[i] # NoCell => IsLive(Released[i])
    BY <1>2 DEF Releasable
  <2>2. \A x \in D : \E i \in DOMAIN Released : Released[i] = x
    BY <1>2 DEF Range
  <2> QED
    BY <1>6, <2>1, <2>2, DrainAssumption DEF IsLive, Cells, Root, NoCell
<1>8. /\ q \in Provenance /\ q.parent = p.parent /\ q.slot = p.slot /\ q.home = p.home
      /\ q.loop = n
  BY <1>2, <1>6, <1>q DEF Hopped, Provenance
<1>9. /\ e \in Entry /\ e.is = "unborn" /\ e.prov = q /\ e.after = c /\ e.old = p.loop
      /\ e.under = BirthPlace(e.prov) /\ e.after # NoCell
  BY <1>3, <1>4, <1>8, <1>f, TailEntry
<1>10. /\ p.slot # 0
       /\ Settling(Append(ready, e), "none")
       /\ \A x \in Cells \ {n} : life'[x] = IF x \in D THEN "dead" ELSE life[x]
       /\ life' \in [Cells -> {"free", "live", "dead"}] /\ (n \in Cells => life'[n] = "live")
       /\ kind' = [kind EXCEPT ![n] = "tree"]
       /\ under' = [under EXCEPT ![n] = WriteHome(p.parent)]
       /\ UNCHANGED <<prov, rests>>
       /\ held' = held \ D
  <2>2. Settling(Append(ready, e), "none")
    BY <1>d, <1>f, <1>h
  <2> QED
    BY <1>h, <2>2
<1>11. /\ phase' = "pop" /\ ready' = Append(S, e) /\ outcome' = "none" /\ turn' = Idle
       /\ ended' = NoEnd /\ UNCHANGED <<run, below, ending, runs, lost>>
  BY <1>2, <1>10, <1>c DEF Settling, books
<1>12. /\ \A x \in Cells \ {n} : /\ life'[x] = IF x \in D THEN "dead" ELSE life[x]
                                 /\ kind'[x] = kind[x] /\ under'[x] = under[x]
       /\ life'[n] = "live" /\ kind'[n] = "tree"
       /\ life' \in [Cells -> {"free", "live", "dead"}] /\ kind' \in [Cells -> {"tree", "tenant"}]
       /\ under' \in [Cells -> Home]
  <2>1. /\ life \in [Cells -> {"free", "live", "dead"}] /\ kind \in [Cells -> {"tree", "tenant"}]
        /\ under \in [Cells -> Home]
    BY <1>1, TableTyped
  <2>2. WriteHome(p.parent) \in Home
    BY <1>2, <2>1 DEF WriteHome, Home, Provenance, Root
  <2> QED
    BY <1>6, <1>10, <2>1, <2>2
<1>13. Table' \in Tables
  <2>1. /\ prov \in [Cells -> Provenance]
        /\ rests \in [Cells -> {"none", "birth", "parked", "beside"}]
        /\ held \in SUBSET Cells /\ lost \in SUBSET Cells /\ below \in [Cells -> Cell]
    BY <1>1, TableTyped
  <2>2. held' \in SUBSET Cells
    BY <1>10, <2>1
  <2>3. /\ prov' \in [Cells -> Provenance]
        /\ rests' \in [Cells -> {"none", "birth", "parked", "beside"}]
        /\ lost' \in SUBSET Cells /\ below' \in [Cells -> Cell]
    BY <1>10, <1>11, <2>1
  <2> QED
    BY <1>12, <2>2, <2>3, TableTyped
<1>14. /\ t.prov = prov /\ t.rests = rests /\ t.kind = kind /\ t.under = under
       /\ t.lost = lost /\ t.below = below /\ t.held = held \ D
       /\ \A x \in Cells : t.life[x] = IF x \in D THEN "dead" ELSE life[x]
  <2>1. t = Dead(Table, D)
    <3>1. Dead(Table, D) \in Tables
      BY <1>1, DeadTable
    <3> QED
      BY <1>e, <1>D, <3>1, DeadNone
  <2> QED
    BY <1>1, <2>1, DeadTable, TableFields
<1>15. Shape(Table', NoCell, q, S, run, c, p.loop, NoCell, NoCell)
  <2> PICK u : u = Table'
    OBVIOUS
  <2>1. /\ u.lost = t.lost /\ u.below = t.below /\ u.held = t.held /\ u.prov = t.prov
        /\ u.rests = t.rests /\ u.life = life' /\ u.kind = kind' /\ u.under = under'
    BY <1>10, <1>11, <1>14, TableFieldsNext
  <2>2. \A x \in Cells \ {n} : /\ u.life[x] = t.life[x] /\ u.kind[x] = t.kind[x]
                               /\ u.under[x] = t.under[x]
    BY <1>12, <1>14, <2>1
  <2>3. u.life[n] = "live" /\ u.kind[n] = "tree" /\ t.life[n] = "free" /\ n \notin t.held
        /\ n \notin t.lost
    BY <1>6, <1>7, <1>12, <1>14, <2>1
  <2>4. u.rests[n] = "none"
    BY <1>1, <1>6, <1>14, <2>1 DEF BornInOrder
  <2>5. u \in Tables /\ c \in Cell
    BY <1>3, <1>13 DEF Cell
  <2>6. Shape(t, NoCell, p, S, run, c, NoCell, NoCell, NoCell)
    BY <1>2, <1>c, <1>d
  <2>7. /\ u.lost = t.lost /\ u.below = t.below /\ u.held = t.held /\ u.prov = t.prov
        /\ u.rests = t.rests
    BY <2>1
  <2>8. Shape(u, NoCell, q, S, run, c, p.loop, NoCell, NoCell)
    BY <1>2, <1>6, <1>8, <1>10, <2>2, <2>3, <2>4, <2>5, <2>6, <2>7, LoopMade
  <2> QED
    BY <2>8
<1>16. AtPop'
  <2>1. UnbornTop(e, S)'
    <3>1. Shape(Table', NoCell, e.prov, S, run', e.after, e.old, NoCell, NoCell)
      BY <1>9, <1>11, <1>15
    <3> QED
      BY <1>9, <3>1 DEF UnbornTop
  <2>2. ready' # <<>> /\ Last(ready') = e /\ Front(ready') = S
    <3>1. S \in Seq(Entry)
      BY <1>3, <1>c
    <3> QED
      BY <1>9, <1>11, <3>1, PushedTop
  <2> QED
    BY <2>1, <2>2, TopNext
<1>17. ready' \in Seq(Entry) /\ Births' = Births + 1 /\ BornInOrder' /\ Roomy'
  <2>1. /\ Append(ready, e) \in Seq(Entry)
        /\ Births \in Nat /\ Cardinality(Requests(Append(ready, e))) \in Nat
        /\ Births + Cardinality(Requests(Append(ready, e))) + (Need - 1) <= MaxCells
    BY <1>1, <1>2, <1>9, RequestRoom
  <2>2. Births' = Births + 1 /\ BornInOrder'
    <3>1. \A x \in D : x \in Cells => life[x] = "live"
      <4>1. \A i \in DOMAIN Released : Released[i] # NoCell => IsLive(Released[i])
        BY <1>2 DEF Releasable
      <4>2. \A x \in D : \E i \in DOMAIN Released : Released[i] = x
        BY <1>2 DEF Range
      <4> QED
        BY <4>1, <4>2, DrainAssumption DEF IsLive, Cells, Root, NoCell
    <3>2. \A x \in Cells \ {n} : life'[x] = "free" <=> life[x] = "free"
      BY <1>12, <3>1
    <3>3. \A x \in held' : x \in Cells => life'[x] = "live"
      BY <1>1, <1>6, <1>10, <1>12 DEF BornInOrder
    <3> QED
      BY <1>1, <1>5, <1>b, <1>10, <1>11, <1>12, <3>2, <3>3, BornOne
  <2>3. Unborn' = Requests(Append(ready, e)) /\ Need' = 0
    BY <1>11, <1>c DEF Unborn, Requests, Need
  <2>4. Roomy'
    BY <1>2, <2>1, <2>2, <2>3, DrainAssumption DEF Roomy
  <2> QED
    BY <1>11, <1>c, <2>1, <2>2, <2>4
<1>18. Typed'
  <2>1. turn' \in Turn /\ ended' \in End
    BY <1>11 DEF Idle, NoEnd, Turn, End, Cell
  <2> QED
    BY <1>1, <1>11, <1>13, <1>17, <2>1 DEF Typed
<1>19. Quiet' /\ AtStep' /\ AtSettle' /\ AtOver'
  <2>1. Quiet'
    <3>1. ending = NoCell
      BY <1>1 DEF Quiet
    <3> QED
      BY <1>11, <3>1 DEF Quiet
  <2> QED
    BY <1>11, <2>1 DEF AtStep, AtSettle, AtOver
<1>20. InOrder'
  <2>1. rests[n] = "none"
    BY <1>1, <1>6 DEF BornInOrder
  <2> QED
    BY <1>1, <1>10, <1>11, <1>12, <2>1, OrderKept
<1>21. TwoHops'
  <2>1. \A x \in Cells : life'[x] = "live" => life[x] = "live" \/ x \notin held'
    BY <1>6, <1>10, <1>12
  <2> QED
    BY <1>1, <1>10, <1>11, <2>1, HopsKept
<1> QED
  BY <1>16, <1>17, <1>18, <1>19, <1>20, <1>21 DEF IInv

\* A hop pushes its successor, under the loop cell where there is one.
LEMMA SettleHopIInv == \A grown \in BOOLEAN : IInv /\ SettleHop(grown) => IInv'
<1> SUFFICES ASSUME NEW grown \in BOOLEAN, IInv, SettleHop(grown) PROVE IInv'
  OBVIOUS
<1>1. ended.is = "hop"
  BY DEF SettleHop
<1> QED
  BY <1>1, HopStays, HopGrows

\* What a cell asks for, as entries: its slots, the first on top.
LEMMA AskedFor ==
    ASSUME Typed, NEW asks \in Asks, NEW c \in Cells, NEW A, A = AskedBy(c, asks),
           NEW n, n = Len(asks)
    PROVE  /\ n \in Nat \ {0} /\ A \in Seq(Entry) /\ Len(A) = n
           /\ \A i \in 1 .. n :
                 /\ A[i] = Asked(A[i].prov, A[i].place, c, NoCell, NoCell)
                 /\ A[i].prov.parent = c /\ A[i].prov.slot = n + 1 - i
                 /\ A[i].prov.loop = NoCell
                 /\ A[i].prov.home \in {c, prov[c].home} \cup Some(prov[c].loop)
<1> DEFINE P(s) == [parent |-> c, slot |-> s, home |-> Target(c, asks[s].use),
                    loop |-> NoCell, weighed |-> FALSE]
           E(s) == Asked(P(s), asks[s].place, c, NoCell, NoCell)
           T == [s \in 1 .. Len(asks) |-> E(s)]
<1>1. asks \in Seq(Request) /\ n \in Nat \ {0} /\ \A s \in 1 .. n : asks[s] \in Request
  BY DrainAssumption
<1>2. prov[c] \in Provenance
  BY TableTyped DEF Typed
<1>3. ASSUME NEW s \in 1 .. n
      PROVE  /\ Target(c, asks[s].use) \in {c, prov[c].home} \cup Some(prov[c].loop)
             /\ Target(c, asks[s].use) \in Home
  BY <1>2 DEF Target, Provenance, Home, Some
<1>4. ASSUME NEW s \in 1 .. n PROVE E(s) \in Entry
  <2>1. P(s) \in Provenance
    BY <1>1, <1>3 DEF Provenance, Home
  <2>2. asks[s].place \in {"Fresh", "Shares"} /\ c \in Home /\ NoCell \in Cell
    BY <1>1 DEF Request, Home, Cell
  <2> HIDE DEF P
  <2> QED
    BY <2>1, <2>2 DEF Entry, Asked
<1>5. A = [i \in 1 .. n |-> E((n - i) + 1)]
  <2> HIDE DEF E
  <2>1. T \in Seq({E(s) : s \in 1 .. n}) /\ Len(T) = n /\ \A s \in 1 .. n : T[s] = E(s)
    BY <1>1
  <2>2. A = Reverse(T)
    BY DEF AskedBy, E
  <2> HIDE DEF T
  <2>3. A = [i \in 1 .. n |-> T[(n - i) + 1]]
    BY <2>1, <2>2 DEF Reverse
  <2>4. \A i \in 1 .. n : (n - i) + 1 \in 1 .. n
    BY <1>1
  <2> QED
    BY <2>1, <2>3, <2>4
<1>6. ASSUME NEW i \in 1 .. n PROVE (n - i) + 1 \in 1 .. n /\ A[i] = E((n - i) + 1)
  <2> HIDE DEF E
  <2> QED
    BY <1>1, <1>5
<1>7. A \in Seq(Entry) /\ Len(A) = n
  <2> HIDE DEF E
  <2>1. A \in [1 .. n -> Entry]
    BY <1>4, <1>5, <1>6
  <2> QED
    BY <1>1, <2>1
<1>8. ASSUME NEW i \in 1 .. n
      PROVE  /\ A[i] = Asked(A[i].prov, A[i].place, c, NoCell, NoCell)
             /\ A[i].prov.parent = c /\ A[i].prov.slot = n + 1 - i
             /\ A[i].prov.loop = NoCell
             /\ A[i].prov.home \in {c, prov[c].home} \cup Some(prov[c].loop)
  <2> PICK s : s = (n - i) + 1
    OBVIOUS
  <2>1. s \in 1 .. n /\ A[i] = E(s) /\ s = n + 1 - i
    BY <1>1, <1>6
  <2>2. A[i].prov = P(s) /\ A[i].place = asks[s].place
    BY <2>1 DEF Asked
  <2>3. A[i] = Asked(A[i].prov, A[i].place, c, NoCell, NoCell)
    <3> HIDE DEF P
    <3> QED
      BY <2>1, <2>2
  <2>4. P(s).parent = c /\ P(s).slot = s /\ P(s).loop = NoCell
        /\ P(s).home = Target(c, asks[s].use)
    OBVIOUS
  <2> QED
    BY <1>3, <2>1, <2>2, <2>3, <2>4
<1> QED
  BY <1>1, <1>7, <1>8

\* A park pushes its requests, the first on top, and becomes a frame.
LEMMA SettleParkIInv == IInv /\ SettlePark => IInv'
<1> SUFFICES ASSUME IInv, SettlePark PROVE IInv'
  OBVIOUS
<1>a. PICK p : p = prov[Here]
  OBVIOUS
<1>b. PICK c : c = Here
  OBVIOUS
<1>c. PICK S : S = ready
  OBVIOUS
<1>d. PICK A : A = AskedBy(Here, ended.asks)
  OBVIOUS
<1>e. PICK t : t = Dead(Dead(Table, {turn.after, turn.old, turn.beside}), {})
  OBVIOUS
<1>f. PICK n : n = Len(ended.asks)
  OBVIOUS
<1>g. PICK R : R = run
  OBVIOUS
<1>1. phase = "settle" /\ ended.is = "parked" /\ Settled(S \o A)
  BY <1>c, <1>d DEF SettlePark, Settled, Settling, Pushed
<1>2. Typed /\ c \in Cells /\ S \in Seq(Entry) /\ R \in [Cells -> Seq(Fills)]
      /\ ended.asks \in Asks
  BY <1>1, <1>b, <1>c, <1>g, SettleFacts DEF IInv, Typed, End
<1>3. /\ rests[c] = "parked" /\ InTurn(run) /\ turn.owes = NoCell
      /\ R[c] = [s \in 1 .. n |-> Empty]
  <2>1. Parks
    BY <1>1 DEF IInv, AtSettle, Finishes, Faults, Parks, ReadsBeside, Leaves
  <2> QED
    BY <1>b, <1>f, <1>g, <2>1 DEF Parks
<1>4. /\ Plain(t, c, p, S, R, NoCell) /\ t \in Tables
      /\ t.prov = prov /\ t.rests = rests
      /\ Shape(Table, Here, prov[Here], ready, run, turn.after, turn.old, turn.beside, turn.owes)
  <2>1. /\ Plain(t, Here, prov[Here], ready, run, turn.owes) /\ t \in Tables
        /\ t.prov = prov /\ t.rests = rests
        /\ Shape(Table, Here, prov[Here], ready, run, turn.after, turn.old, turn.beside, turn.owes)
    BY <1>1, <1>3, <1>e, StayShape
  <2> QED
    BY <1>3, <1>a, <1>b, <1>c, <1>g, <2>1
<1>5. /\ n \in Nat \ {0} /\ A \in Seq(Entry) /\ Len(A) = n
      /\ \A i \in 1 .. n :
            /\ A[i] = Asked(A[i].prov, A[i].place, c, NoCell, NoCell)
            /\ A[i].prov.parent = c /\ A[i].prov.slot = n + 1 - i
            /\ A[i].prov.loop = NoCell
            /\ A[i].prov.home \in {c, p.home} \cup Some(p.loop)
  <2>1. A = AskedBy(c, ended.asks) /\ p = prov[c]
    BY <1>a, <1>b, <1>d
  <2> QED
    BY <1>2, <1>f, <2>1, AskedFor
<1>6. Plain(t, NoCell, A[n].prov, Front(S \o A), R, NoCell)
  <2>1. t.rests[c] = "parked"
    BY <1>3, <1>4
  <2> QED
    BY <1>2, <1>3, <1>4, <1>5, <2>1, ParksOn, ZenonT(60)
<1>7. S \o A \in Seq(Entry) /\ Births + Cardinality(Requests(S \o A)) <= MaxCells
  <2>1. S \o A \in Seq(Entry)
    BY <1>2, <1>5
  <2>2. Cardinality(Requests(S \o A)) <= Cardinality(Requests(S)) + n
    BY <1>2, <1>5, RequestsJoined
  <2>3. Cardinality(Requests(S)) \in Nat /\ Cardinality(Requests(S \o A)) \in Nat
    BY <1>2, <2>1, RequestsGrow
  <2>4. Births \in Nat /\ Births + Cardinality(Requests(S)) + n <= MaxCells
    <3>1. Need = n
      BY <1>1, <1>f DEF Need
    <3> QED
      BY <1>1, <1>c, <3>1, SettleFacts
  <2> QED
    BY <1>5, <2>1, <2>2, <2>3, <2>4, DrainAssumption
<1>8. ready' = S \o A /\ run' = R /\ Table' = t /\ (AtPop' => IInv')
  <2>1. Here \in Cells /\ ended.is \notin {"left", "done"} /\ Owned({})
    BY <1>1, <1>2, <1>b DEF Owned, OwnEnd
  <2>2. /\ ready' = S \o A /\ UNCHANGED run
        /\ Table' = Dead(Dead(Table, {turn.after, turn.old, turn.beside}), {})
        /\ (AtPop' => IInv')
    BY <1>1, <1>4, <1>7, <2>1, SettledIInv
  <2> QED
    BY <1>e, <1>g, <2>2
<1>h. PICK e : e = A[n]
  OBVIOUS
<1>i. PICK F : F = Front(S \o A)
  OBVIOUS
<1>9. /\ e.is = "unborn" /\ e.after = NoCell /\ e.old = NoCell /\ e.under = e.prov.parent
      /\ e.prov.loop = NoCell /\ e.prov.slot # 0
  <2>1. /\ e = Asked(e.prov, e.place, c, NoCell, NoCell) /\ e.prov.parent = c
        /\ e.prov.slot = n + 1 - n /\ e.prov.loop = NoCell
    BY <1>5, <1>h
  <2>2. n + 1 - n = 1
    BY <1>5
  <2>3. e.is = "unborn" /\ e.after = NoCell /\ e.old = NoCell /\ e.under = c
    BY <2>1 DEF Asked
  <2> QED
    BY <2>1, <2>2, <2>3
<1>10. UnbornTop(e, F)'
  <2>1. Shape(Table', NoCell, e.prov, F, run', e.after, e.old, NoCell, NoCell)
    BY <1>6, <1>8, <1>9, <1>h, <1>i DEF Plain
  <2> QED
    BY <1>9, <2>1 DEF UnbornTop
<1>11. ready' # <<>> /\ Last(ready') = e /\ Front(ready') = F
  <2>1. Len(S \o A) = Len(S) + n /\ Len(S) \in Nat
    <3>1. S \in Seq(Entry) /\ A \in Seq(Entry)
      BY <1>2, <1>5
    <3>2. Len(S \o A) = Len(S) + Len(A)
      BY <3>1, Joined
    <3> QED
      BY <1>5, <3>1, <3>2
  <2>2. (S \o A)[Len(S) + n] = A[n]
    BY <1>2, <1>5
  <2>3. S \o A # <<>>
    BY <1>5, <1>7, <2>1
  <2> QED
    BY <1>8, <1>h, <1>i, <2>1, <2>2, <2>3 DEF Last
<1> QED
  BY <1>8, <1>10, <1>11, TopNext

-----------------------------------------------------------------------------
\* Between runs.

\* The books of a release alone.
LEMMA ReleasedBooks ==
    ASSUME Typed, BornInOrder, InOrder, TwoHops, NEW X,
           \A c \in X : c \in Cells => life[c] = "live",
           life' = [c \in Cells |-> IF c \in X THEN "dead" ELSE life[c]], held' = held \ X,
           UNCHANGED <<kind, under, prov, rests, run, lost, below>>
    PROVE  /\ Table' = Dead(Table, X) /\ Table' \in Tables
           /\ BornInOrder' /\ InOrder' /\ TwoHops'
<1>1. Table \in Tables
  BY DEF Typed
<1>2. Table' = Dead(Table, X)
  BY TableReleased
<1>3. Table' \in Tables
  BY <1>1, <1>2, DeadTable
<1>4. \A c \in Cells : /\ c \in X => life'[c] = "dead"
                       /\ c \notin X => life'[c] = life[c]
  OBVIOUS
<1>5. BornInOrder'
  <2>1. \A c \in Cells : life'[c] = "free" <=> life[c] = "free"
    BY <1>4
  <2>2. \A c \in held' : c \in Cells => life'[c] = "live"
    BY <1>4 DEF BornInOrder
  <2> QED
    BY <2>1, <2>2, BornSame
<1>6. InOrder'
  BY <1>4, OrderKept
<1>7. TwoHops'
  BY <1>4, HopsKept
<1> QED
  BY <1>2, <1>3, <1>5, <1>6, <1>7

\* The root work is all that is left when it ends, but for what a fault kept.
LEMMA RootEnds ==
    ASSUME NEW t \in Tables, NEW a \in Cells, NEW p, NEW S \in Seq(Entry), NEW R, NEW sd,
           R \in [Cells -> Seq(Fills)],
           Plain(t, a, p, S, R, sd), t.rests[a] = "none", p.slot = 0,
           NEW u, NEW D, u = Dead(t, D), D = {a} \/ D = {a, p.loop}
    PROVE  /\ S = <<>>
           /\ \A c \in Cells : Standing(u, c) => c \in KeptCells(u, NoCell, NoCell, NoCell)
           /\ FaultChain(u, KeptCells(u, NoCell, NoCell, NoCell), sd)
           /\ Raised(u, KeptCells(u, NoCell, NoCell, NoCell), Root)
<1> DEFINE W == Frames(t, a)
           K == KeptCells(t, a, NoCell, NoCell)
<1>1. /\ Stacked(t, a, p, R) /\ Queued(t, a, p, S, R) /\ Looped(t, a, p, NoCell)
      /\ FaultChain(t, K, sd) /\ Raised(t, K \cup Some(NoCell), a)
  <2>1. a # NoCell
    BY DrainAssumption DEF Cells, NoCell
  <2> QED
    BY <2>1 DEF Plain, Shape, Keeps, Floor
<1>2. NoCell \notin Cells /\ Cells \subseteq Int
  BY DrainAssumption DEF Cells, NoCell
<1>3. W = {} /\ p.loop = NoCell
  <2>1. Reports(p, W, R)
    BY <1>1 DEF Stacked, StandsOn
  <2>2. ASSUME p.parent \in W, AnswersAt(R[p.parent], p.slot) PROVE FALSE
    <3>1. R[p.parent] \in Seq(Fills)
      BY <2>2 DEF Frames
    <3> QED
      BY <2>2, <3>1 DEF AnswersAt
  <2> QED
    BY <2>1, <2>2 DEF Reports
<1>4. S = <<>>
  <2>1. ASSUME NEW i \in DOMAIN S PROVE FALSE
    <3>1. IsAsked(t, p, S[i], W, R)
      BY <1>1 DEF Queued
    <3> QED
      BY <1>3, <3>1 DEF IsAsked
  <2>2. DOMAIN S = 1 .. Len(S) /\ Len(S) \in Nat
    OBVIOUS
  <2>3. Len(S) = 0
    <3>1. 1 \notin DOMAIN S
      BY <2>1
    <3> QED
      BY <2>2, <3>1
  <2> QED
    BY <2>3
<1>5. /\ u.below = t.below /\ u.kind = t.kind /\ u.prov = t.prov /\ u.rests = t.rests
      /\ u.held = t.held \ D
      /\ \A c : Standing(u, c) <=> Standing(t, c) /\ c \notin D
  BY DeadTable
<1>6. \A c : Standing(t, c) /\ c # a => c \in t.held /\ t.rests[c] = "none"
  <2> SUFFICES ASSUME NEW c, Standing(t, c), c # a PROVE c \in t.held /\ t.rests[c] = "none"
    OBVIOUS
  <2>1. c \in Cells
    BY DEF Standing
  <2>2. c \in t.held
    BY <1>1, <1>2, <1>3, <2>1 DEF Looped
  <2>3. t.rests[c] = "none"
    BY <1>3, <2>1 DEF Frames
  <2> QED
    BY <2>2, <2>3
<1>7. KeptCells(u, NoCell, NoCell, NoCell) = K
  <2>1. \A c \in Cells : c \in D <=> c = a
    BY <1>2, <1>3
  <2>2. ASSUME NEW c \in K PROVE c \in KeptCells(u, NoCell, NoCell, NoCell)
    BY <1>2, <1>5, <2>1 DEF KeptCells
  <2>3. ASSUME NEW c \in KeptCells(u, NoCell, NoCell, NoCell) PROVE c \in K
    BY <1>2, <1>5, <2>1 DEF KeptCells
  <2> QED
    BY <2>2, <2>3
<1>8. \A c \in Cells : Standing(u, c) => c \in K
  <2> SUFFICES ASSUME NEW c \in Cells, Standing(u, c) PROVE c \in K
    OBVIOUS
  <2>1. Standing(t, c) /\ c # a
    BY <1>5
  <2> QED
    BY <1>2, <1>6, <2>1 DEF KeptCells
<1>9. FaultChain(u, K, sd)
  BY <1>1, <1>5 DEF FaultChain
<1>10. Raised(u, K, Root)
  <2>1. \A k \in K : Root < k /\ Root <= t.prov[k].parent
    <3>1. \A k \in K : k \in Cells /\ t.prov[k] \in Provenance
      BY DEF KeptCells, Tables
    <3>2. \A k \in Cells : Root < k
      BY DEF Cells, Root
    <3>3. \A q \in Provenance : Root <= q.parent
      BY DEF Provenance, Cells, Root
    <3> QED
      BY <3>1, <3>2, <3>3
  <2> HIDE DEF K
  <2> QED
    BY <1>1, <1>5, <2>1 DEF Raised
<1> HIDE DEF K
<1> QED
  BY <1>4, <1>7, <1>8, <1>9, <1>10

\* The root work's end leaves what a fault kept and nothing else.
LEMMA SettleLeaveIInv == IInv /\ SettleLeave => IInv'
<1> SUFFICES ASSUME IInv, SettleLeave PROVE IInv'
  OBVIOUS
<1>a. PICK p : p = prov[Here]
  OBVIOUS
<1>b. PICK D : D = IF ended.is = "left" THEN {Here} ELSE {Here, p.loop}
  OBVIOUS
<1>c. PICK X : X = {turn.after, turn.old, turn.beside} \cup D
  OBVIOUS
<1>d. PICK t : t = Dead(Table, {turn.after, turn.old, turn.beside})
  OBVIOUS
<1>e. PICK a : a = Here
  OBVIOUS
<1>f. PICK sd : sd = turn.owes
  OBVIOUS
<1>g. PICK S : S = ready
  OBVIOUS
<1>1. phase = "settle" /\ ended.is \in {"left", "done"}
  BY DEF SettleLeave
<1>2. /\ Typed /\ BornInOrder /\ InOrder /\ TwoHops /\ Table \in Tables /\ Here \in Cells
      /\ turn.after \in Cell /\ turn.old \in Cell /\ turn.beside \in Cell
      /\ run \in [Cells -> Seq(Fills)] /\ S \in Seq(Entry)
  BY <1>1, <1>g, SettleFacts DEF IInv, Typed
<1>3. /\ rests[Here] = "none" /\ InTurn(run) /\ p.slot = 0 /\ ending = sd
  <2>1. Leaves(p)
    BY <1>1, <1>a DEF IInv, AtSettle, Finishes, Faults, Parks, ReadsBeside, Leaves
  <2> QED
    BY <1>1, <1>f, <2>1 DEF Leaves
<1>4. Owned(D)
  BY <1>1, <1>a, <1>b DEF Owned, OwnEnd, Loop
<1>5. Shape(Table, Here, prov[Here], ready, run, turn.after, turn.old, turn.beside, turn.owes)
  BY <1>3 DEF InTurn
<1>6. Releasable(Released) /\ Range(Released) = X
  BY <1>2, <1>4, <1>5, <1>c, Releases
<1>7. \A c \in X : c \in Cells => life[c] = "live"
  <2>1. \A i \in DOMAIN Released : Released[i] # NoCell => IsLive(Released[i])
    BY <1>6 DEF Releasable
  <2>2. \A c \in X : \E i \in DOMAIN Released : Released[i] = c
    BY <1>6 DEF Range
  <2> QED
    BY <2>1, <2>2, DrainAssumption DEF IsLive, Cells, Root, NoCell
<1>8. /\ phase' = "over" /\ outcome' = "left" /\ turn' = Idle /\ ended' = NoEnd
      /\ life' = [c \in Cells |-> IF c \in X THEN "dead" ELSE life[c]] /\ held' = held \ X
      /\ UNCHANGED <<kind, under, prov, rests, run, below, ready, ending, runs, lost>>
  BY <1>6 DEF SettleLeave, AfterRelease, HeldAfter, books
<1>9. /\ Table' = Dead(Table, X) /\ Table' \in Tables
      /\ BornInOrder' /\ InOrder' /\ TwoHops'
  BY <1>2, <1>7, <1>8, ReleasedBooks
<1>10. /\ t \in Tables /\ t.rests = rests /\ Table' = Dead(t, D)
       /\ Plain(t, a, p, S, run, sd)
  <2>1. t \in Tables /\ t.rests = rests
    BY <1>2, <1>d, DeadTable, TableFields
  <2>2. Table' = Dead(t, D)
    BY <1>2, <1>9, <1>c, <1>d, DeadTwice
  <2>3. Here \in Cell
    BY <1>2 DEF Cell
  <2>4. Plain(Dead(Table, {turn.after, turn.old, turn.beside}), Here, prov[Here], ready, run,
              turn.owes)
    BY <1>2, <1>5, <2>3, ReleaseAside
  <2> QED
    BY <1>a, <1>d, <1>e, <1>f, <1>g, <2>1, <2>2, <2>4
<1>h. PICK u : u = Table'
  OBVIOUS
<1>i. PICK K : K = KeptCells(u, NoCell, NoCell, NoCell)
  OBVIOUS
<1>11. /\ S = <<>> /\ (\A c \in Cells : Standing(u, c) => c \in K)
       /\ FaultChain(u, K, sd) /\ Raised(u, K, Root)
  <2>1. D = {a} \/ D = {a, p.loop}
    BY <1>b, <1>e
  <2>2. u = Dead(t, D) /\ a \in Cells /\ t.rests[a] = "none"
    BY <1>2, <1>3, <1>10, <1>e, <1>h
  <2> QED
    BY <1>2, <1>3, <1>10, <1>i, <2>1, <2>2, RootEnds
<1>12. Outlived'
  <2>1. ready' = <<>> /\ ending' = sd
    BY <1>3, <1>8, <1>11, <1>g
  <2>2. KeptCells(Table, NoCell, NoCell, NoCell)' = K
    BY <1>h, <1>i
  <2> QED
    BY <1>11, <1>h, <2>1, <2>2 DEF Outlived
<1>13. Typed'
  <2>1. turn' \in Turn /\ ended' \in End
    BY <1>8 DEF Idle, NoEnd, Turn, End, Cell
  <2> QED
    BY <1>2, <1>8, <1>9, <2>1 DEF Typed
<1>14. Roomy' /\ Quiet' /\ AtPop' /\ AtStep' /\ AtSettle' /\ AtOver'
  BY <1>8, <1>12 DEF Roomy, Quiet, AtPop, AtStep, AtSettle, AtOver
<1> QED
  BY <1>9, <1>13, <1>14 DEF IInv

\* The drop of an outcome releases the outermost kept cell and goes on to the one it leads to.
LEMMA DropIInv == IInv /\ Drop => IInv'
<1> SUFFICES ASSUME IInv, Drop PROVE IInv'
  OBVIOUS
<1>a. PICK k : k = ending
  OBVIOUS
<1>b. PICK t : t = Table
  OBVIOUS
<1>c. PICK K : K = KeptCells(t, NoCell, NoCell, NoCell)
  OBVIOUS
<1>1. /\ phase = "over" /\ outcome = "left" /\ k # NoCell
      /\ Typed /\ BornInOrder /\ Quiet /\ InOrder /\ TwoHops /\ t \in Tables /\ k \in Cells
  BY <1>a, <1>b DEF Drop, IInv, Typed, Cell
<1>2. /\ ready = <<>> /\ (\A c \in Cells : Standing(t, c) => c \in K)
      /\ FaultChain(t, K, k) /\ Raised(t, K, Root)
  BY <1>1, <1>a, <1>b, <1>c DEF IInv, AtOver, Outlived
<1>3. k \in K /\ (\A j \in K : k <= j) /\ IsLive(k) /\ life[k] = "live"
  <2>1. k \in K /\ \A j \in K : k <= j
    BY <1>1, <1>2 DEF FaultChain
  <2>2. Standing(t, k)
    BY <1>c, <2>1 DEF KeptCells
  <2> QED
    BY <1>b, <2>1, <2>2, TableFields, StandingLives DEF Standing
<1>4. /\ phase' = phase /\ outcome' = "left" /\ ending' = t.below[k]
      /\ life' = [life EXCEPT ![k] = "dead"] /\ held' = held \ {k}
      /\ UNCHANGED <<kind, under, prov, rests, run, below, ready, turn, ended, runs, lost>>
  BY <1>3, <1>a, <1>b, TableFields DEF Drop, books
<1>5. life' = [c \in Cells |-> IF c \in {k} THEN "dead" ELSE life[c]]
  <2>1. life \in [Cells -> {"free", "live", "dead"}]
    BY <1>1, TableTyped DEF Typed
  <2> QED
    BY <1>4, <2>1
<1>6. /\ Table' = Dead(t, {k}) /\ Table' \in Tables
      /\ BornInOrder' /\ InOrder' /\ TwoHops'
  <2>1. \A c \in {k} : c \in Cells => life[c] = "live"
    BY <1>3
  <2>2. /\ Table' = Dead(Table, {k}) /\ Table' \in Tables
        /\ BornInOrder' /\ InOrder' /\ TwoHops'
    BY <1>1, <1>4, <1>5, <2>1, ReleasedBooks
  <2> QED
    BY <1>b, <2>2
<1>d. PICK u : u = Table'
  OBVIOUS
<1>e. PICK L : L = KeptCells(u, NoCell, NoCell, NoCell)
  OBVIOUS
<1>7. /\ u.below = t.below /\ u.kind = t.kind /\ u.prov = t.prov /\ u.rests = t.rests
      /\ u.held = t.held \ {k}
      /\ \A c : Standing(u, c) <=> Standing(t, c) /\ c # k
  BY <1>1, <1>6, <1>d, DeadTable
<1>8. L = K \ {k}
  <2>1. ASSUME NEW c \in L PROVE c \in K \ {k}
    BY <1>7, <1>c, <1>e DEF KeptCells
  <2>2. ASSUME NEW c \in K \ {k} PROVE c \in L
    BY <1>7, <1>c, <1>e DEF KeptCells
  <2> QED
    BY <2>1, <2>2
<1>9. K \subseteq Int /\ NoCell \notin K
  <2>1. K \subseteq Cells
    BY <1>c DEF KeptCells
  <2> QED
    BY <2>1, DrainAssumption DEF Cells, NoCell
<1>10. FaultChain(u, L, t.below[k])
  <2> PICK b : b = t.below
    OBVIOUS
  <2>1. \A i \in K : \/ b[i] = NoCell /\ \A j \in K : j <= i
                     \/ b[i] \in K /\ i < b[i] /\ \A j \in K : j <= i \/ b[i] <= j
    BY <1>2 DEF FaultChain
  <2>2. \/ b[k] = NoCell /\ L = {}
        \/ b[k] \in L /\ \A i \in L : b[k] <= i
    <3>1. CASE b[k] = NoCell /\ \A j \in K : j <= k
      <4>1. \A j \in K : j = k
        BY <1>3, <1>9, <3>1
      <4> QED
        BY <1>8, <3>1, <4>1
    <3>2. CASE b[k] \in K /\ k < b[k] /\ \A j \in K : j <= k \/ b[k] <= j
      <4>1. b[k] # k
        BY <1>3, <1>9, <3>2
      <4>2. ASSUME NEW i \in L PROVE b[k] <= i
        <5>1. i \in K /\ i # k /\ k <= i
          BY <1>3, <1>8
        <5>2. ~(i <= k)
          BY <1>3, <1>9, <5>1
        <5> QED
          BY <3>2, <5>1, <5>2
      <4> QED
        BY <1>8, <3>2, <4>1, <4>2
    <3> QED
      BY <1>3, <2>1, <3>1, <3>2
  <2>3. ASSUME NEW i \in L
        PROVE  \/ b[i] = NoCell /\ \A j \in L : j <= i
               \/ b[i] \in L /\ i < b[i] /\ \A j \in L : j <= i \/ b[i] <= j
    <3>1. i \in K /\ k <= i
      BY <1>3, <1>8
    <3>2. CASE b[i] = NoCell /\ \A j \in K : j <= i
      BY <1>8, <3>2
    <3>3. CASE b[i] \in K /\ i < b[i] /\ \A j \in K : j <= i \/ b[i] <= j
      <4>1. b[i] # k
        BY <1>3, <1>9, <3>1, <3>3
      <4> QED
        BY <1>8, <3>3, <4>1
    <3> QED
      BY <2>1, <3>1, <3>2, <3>3
  <2> QED
    BY <1>7, <2>2, <2>3 DEF FaultChain
<1>11. Raised(u, L, Root)
  BY <1>2, <1>7, <1>8 DEF Raised
<1>12. \A c \in Cells : Standing(u, c) => c \in L
  BY <1>2, <1>7, <1>8
<1>13. Outlived'
  <2>1. ready' = <<>> /\ ending' = t.below[k]
    BY <1>2, <1>4
  <2>2. KeptCells(Table, NoCell, NoCell, NoCell)' = L
    BY <1>d, <1>e
  <2> QED
    BY <1>10, <1>11, <1>12, <1>d, <2>1, <2>2 DEF Outlived
<1>14. Typed'
  <2>1. t.below[k] \in Cell
    BY <1>1 DEF Tables
  <2> QED
    BY <1>1, <1>4, <1>6, <2>1 DEF Typed
<1>15. Roomy' /\ Quiet' /\ AtPop' /\ AtStep' /\ AtSettle' /\ AtOver'
  BY <1>1, <1>4, <1>13 DEF Roomy, Quiet, AtPop, AtStep, AtSettle, AtOver
<1> QED
  BY <1>6, <1>14, <1>15 DEF IInv

\* A root work alone.
LEMMA Alone ==
    ASSUME NEW t \in Tables, NEW n \in Cells, \A c : Standing(t, c) <=> c = n,
           n \in t.held, t.prov[n] = RootWork, t.under[n] = Root, NEW R
    PROVE  Plain(t, n, RootWork, <<>>, R, NoCell)
<1>1. n # NoCell /\ NoCell \notin Cells
  BY DrainAssumption DEF Cells, NoCell
<1>2. Frames(t, n) = {} /\ KeptCells(t, n, NoCell, NoCell) = {}
  BY DEF Frames, KeptCells
<1>3. RootWork.parent = Root /\ RootWork.slot = 0 /\ RootWork.home = Root
      /\ RootWork.loop = NoCell
  BY DEF RootWork
<1>4. StandsOn(t, RootWork, {}, R)
  BY <1>3 DEF StandsOn, Reports, Anchors
<1>5. Acts(t, n, RootWork, {})
  BY DEF Acts, Anchors
<1>6. Stacked(t, n, RootWork, R)
  BY <1>2, <1>4, <1>5 DEF Stacked
<1>7. Queued(t, n, RootWork, <<>>, R)
  BY <1>2 DEF Queued
<1>8. Looped(t, n, RootWork, NoCell)
  BY <1>2, <1>3 DEF Looped
<1>9. Keeps(t, n, RootWork, NoCell, NoCell, NoCell, NoCell)
  BY <1>2 DEF Keeps, FaultChain, Raised, Some
<1> QED
  BY <1>6, <1>7, <1>8, <1>9 DEF Plain, Shape

\* The root work put on the stack.
LEMMA RootTop ==
    ASSUME NEW n \in Cells, Table' \in Tables, run' \in [Cells -> Seq(Fills)],
           \A c : Standing(Table', c) <=> c = n,
           n \in held', prov'[n] = RootWork, under'[n] = Root, rests'[n] = "birth",
           run'[n] = <<>>, ready' = <<Woken(n)>>
    PROVE  AtPop' /\ ready' \in Seq(Entry) /\ Unborn' = {} /\ Cardinality({}) = 0
<1>a. PICK e : e = Woken(n)
  OBVIOUS
<1>1. e \in Entry /\ e.is = "live" /\ e.cell = n
  BY <1>a DEF Woken, Entry
<1>2. <<e>> \in Seq(Entry) /\ <<e>> = Append(<<>>, e) /\ <<>> \in Seq(Entry)
  BY <1>1
<1>3. ready' # <<>> /\ Last(ready') = e /\ Front(ready') = <<>>
  <2>1. ready' = Append(<<>>, e)
    BY <1>2, <1>a, Zenon
  <2>2. /\ Append(<<>>, e) # <<>> /\ Last(Append(<<>>, e)) = e
        /\ Front(Append(<<>>, e)) = <<>>
    BY <1>1, <1>2, PushedTop
  <2> QED
    BY <2>1, <2>2, Zenon
<1>4. Plain(Table', n, RootWork, <<>>, run', NoCell)
  <2>1. n \in Table'.held /\ Table'.prov[n] = RootWork /\ Table'.under[n] = Root
    BY TableFieldsNext
  <2> PICK u : u = Table'
    OBVIOUS
  <2> PICK R : R = run'
    OBVIOUS
  <2>2. Plain(u, n, RootWork, <<>>, R, NoCell)
    BY <2>1, Alone
  <2> QED
    BY <2>2
<1>5. WaitOver(run'[n], NoCell)
  BY DEF WaitOver, Answered
<1>6. LiveTop(e, <<>>)'
  <2>1. NoCell \in Cell
    BY DEF Cell
  <2>2. \E sd \in Cell : /\ WaitOver(run'[n], sd)
                         /\ Plain(Table', n, prov'[n], <<>>, run', sd)
    BY <1>4, <1>5, <2>1
  <2> QED
    BY <1>1, <2>2 DEF LiveTop, Slots
<1>7. AtPop'
  BY <1>3, <1>6, TopNext
<1>8. Unborn' = {}
  <2>1. Len(ready') = 1 /\ ready'[1] = e
    BY <1>a
  <2> QED
    BY <1>1, <2>1 DEF Unborn
<1> QED
  BY <1>2, <1>7, <1>8, <1>a, FS_EmptySet

\* A later run starts over cells it does not count as its own.
LEMMA RerunIInv == \A place \in {"Fresh", "Shares"} : IInv /\ Rerun(place) => IInv'
<1> SUFFICES ASSUME NEW place \in {"Fresh", "Shares"}, IInv, Rerun(place) PROVE IInv'
  OBVIOUS
<1>b. PICK n : n = NextCell
  OBVIOUS
<1>1. /\ phase = "over" /\ runs < MaxRuns /\ Births < MaxCells
      /\ Typed /\ BornInOrder /\ Table \in Tables /\ ending = NoCell
  BY DEF Rerun, IInv, Typed, AtOver
<1>2. /\ Births \in Nat /\ n \in Cells /\ life[n] = "free"
      /\ n \notin lost /\ n \notin held /\ run[n] = <<>>
  BY <1>1, <1>b, NextBorn
<1>3. /\ life \in [Cells -> {"free", "live", "dead"}] /\ kind \in [Cells -> {"tree", "tenant"}]
      /\ under \in [Cells -> Home] /\ prov \in [Cells -> Provenance]
      /\ rests \in [Cells -> {"none", "birth", "parked", "beside"}]
      /\ held \in SUBSET Cells /\ lost \in SUBSET Cells /\ below \in [Cells -> Cell]
  BY <1>1, TableTyped
<1>4. /\ life' = [life EXCEPT ![n] = "live"]
      /\ kind' = [kind EXCEPT ![n] = IF place = "Fresh" THEN "tree" ELSE "tenant"]
      /\ under' = [under EXCEPT ![n] = Root]
      /\ prov' = [prov EXCEPT ![n] = RootWork]
      /\ rests' = [rests EXCEPT ![n] = "birth"]
      /\ held' = held \cup {n}
  BY <1>b DEF Rerun, BornAt, WriteHome
<1>5. /\ ready' = <<Woken(n)>> /\ runs' = runs + 1 /\ turn' = Idle /\ phase' = "pop"
      /\ outcome' = "none" /\ lost' = lost \cup {c \in Cells : life[c] = "live"}
      /\ UNCHANGED <<run, below, ended, ending>>
  BY <1>b DEF Rerun, Cleared
<1>6. RootWork \in Provenance
  BY DEF RootWork, Provenance
<1>7. Table' \in Tables
  <2>1. /\ life' \in [Cells -> {"free", "live", "dead"}]
        /\ kind' \in [Cells -> {"tree", "tenant"}]
        /\ under' \in [Cells -> Home] /\ prov' \in [Cells -> Provenance]
    BY <1>3, <1>4, <1>6 DEF Home
  <2>2. /\ rests' \in [Cells -> {"none", "birth", "parked", "beside"}]
        /\ held' \in SUBSET Cells /\ lost' \in SUBSET Cells /\ below' \in [Cells -> Cell]
    BY <1>2, <1>3, <1>4, <1>5
  <2> QED
    BY <2>1, <2>2, TableTyped
<1>8. \A c : Standing(Table', c) <=> c = n
  BY <1>2, <1>3, <1>4, <1>5, TableFieldsNext DEF Standing
<1>9. AtPop' /\ ready' \in Seq(Entry) /\ Unborn' = {} /\ Cardinality({}) = 0
  <2>1. n \in held' /\ prov'[n] = RootWork /\ under'[n] = Root /\ rests'[n] = "birth"
        /\ run'[n] = <<>> /\ run' \in [Cells -> Seq(Fills)]
    BY <1>1, <1>2, <1>3, <1>4, <1>5 DEF Typed
  <2> QED
    BY <1>2, <1>5, <1>7, <1>8, <2>1, RootTop
<1>10. Births' = Births + 1 /\ BornInOrder'
  <2>1. \A c \in Cells \ {n} : life'[c] = "free" <=> life[c] = "free"
    BY <1>3, <1>4
  <2>2. \A c \in Cells \ {n} : life[c] = "free" =>
           run'[c] = run[c] /\ rests'[c] = rests[c] /\ (c \in lost' => c \in lost)
    BY <1>3, <1>4, <1>5
  <2>3. \A c \in held' : c \in Cells => life'[c] = "live"
    BY <1>1, <1>3, <1>4 DEF BornInOrder
  <2>4. life'[n] = "live"
    BY <1>2, <1>3, <1>4
  <2> QED
    BY <1>1, <1>b, <2>1, <2>2, <2>3, <2>4, BornOne
<1>11. Roomy'
  <2>1. Need' = 0
    BY <1>5 DEF Need
  <2>2. (Births + 1) + 0 + 0 <= MaxCells
    BY <1>1, <1>2, DrainAssumption
  <2> QED
    BY <1>9, <1>10, <2>1, <2>2 DEF Roomy
<1>12. Typed'
  <2>1. turn' \in Turn
    BY <1>5 DEF Idle, Turn, Cell
  <2>2. runs' \in 1 .. MaxRuns
    BY <1>1, <1>5, DrainAssumption DEF Typed
  <2> QED
    BY <1>1, <1>5, <1>7, <1>9, <2>1, <2>2 DEF Typed
<1>13. Quiet' /\ AtStep' /\ AtSettle' /\ AtOver'
  BY <1>1, <1>5 DEF Quiet, AtStep, AtSettle, AtOver
<1>14. \A c \in Cells \ lost' : life'[c] = "live" => c = n
  BY <1>3, <1>4, <1>5
<1>15. InOrder'
  <2>1. rests'[n] = "birth"
    BY <1>2, <1>3, <1>4
  <2> QED
    BY <1>14, <2>1 DEF InOrder
<1>16. TwoHops'
  <2> SUFFICES ASSUME NEW c \in Cells, NEW s \in 1 .. MaxCells
               PROVE  /\ Cardinality(Hops(c, s)') <= 2
                      /\ Cardinality({prov'[d].loop : d \in Hops(c, s)'} \ {NoCell}) <= 2
    BY DEF TwoHops, Hops
  <2>1. prov'[n].slot = 0
    BY <1>2, <1>3, <1>4 DEF RootWork
  <2>2. Hops(c, s)' = {}
    BY <1>14, <2>1 DEF Hops
  <2>3. {prov'[d].loop : d \in Hops(c, s)'} \ {NoCell} = {}
    BY <2>2
  <2> QED
    BY <2>2, <2>3, FS_EmptySet
<1> QED
  BY <1>9, <1>10, <1>11, <1>12, <1>13, <1>15, <1>16 DEF IInv

\* Nothing moves.
LEMMA StayIInv == IInv /\ UNCHANGED vars => IInv'
<1> SUFFICES ASSUME IInv, UNCHANGED vars PROVE IInv'
  OBVIOUS
<1>1. UNCHANGED <<life, kind, under, prov, rests, held, run, below, ready, turn, ended, phase,
                  outcome, ending, runs, lost>>
  BY DEF vars, cells, books
<1>2. Table' = Table /\ Births' = Births /\ Unborn' = Unborn /\ Need' = Need /\ Here' = Here
  BY <1>1 DEF Table, Births, Unborn, Need, Here
<1>3. Typed' /\ BornInOrder' /\ Roomy' /\ Quiet'
  BY <1>1, <1>2 DEF IInv, Typed, BornInOrder, Roomy, Quiet
<1>4. InOrder' /\ TwoHops'
  <2>1. InOrder'
    BY <1>1, OrderKept DEF IInv
  <2>2. TwoHops'
    BY <1>1, HopsKept DEF IInv
  <2> QED
    BY <2>1, <2>2
<1>5. \A e, S : /\ UnbornTop(e, S)' <=> UnbornTop(e, S)
                /\ LiveTop(e, S)' <=> LiveTop(e, S)
                /\ BesideTop(e, S)' <=> BesideTop(e, S)
  BY <1>1, <1>2 DEF UnbornTop, LiveTop, BesideTop, Slots
<1>6. AtPop'
  BY <1>1, <1>5 DEF IInv, AtPop
<1>7. \A R : InTurn(R)' <=> InTurn(R)
  BY <1>1, <1>2 DEF InTurn
<1>8. AtStep'
  BY <1>1, <1>2, <1>7 DEF IInv, AtStep
<1>9. AtSettle'
  <2>1. \A p : /\ Finishes(p)' <=> Finishes(p)
               /\ Faults(p)' <=> Faults(p)
               /\ Leaves(p)' <=> Leaves(p)
    BY <1>1, <1>2, <1>7 DEF Finishes, Faults, Leaves, Unfiled
  <2>2. Parks' <=> Parks
    BY <1>1, <1>2, <1>7 DEF Parks
  <2>3. ReadsBeside' <=> ReadsBeside
    BY <1>1, <1>2, <1>7 DEF ReadsBeside
  <2> QED
    BY <1>1, <1>2, <2>1, <2>2, <2>3 DEF IInv, AtSettle
<1>10. AtOver'
  BY <1>1, <1>2 DEF IInv, AtOver, Outlived
<1> QED
  BY <1>3, <1>4, <1>6, <1>8, <1>9, <1>10 DEF IInv

\* A drain starts as the root work alone.
LEMMA InitIInv == Init => IInv
<1> SUFFICES ASSUME Init PROVE IInv
  OBVIOUS
<1>1. 1 \in Cells /\ Cells \subseteq Int /\ NoCell \notin Cells /\ MaxCells \in Nat
  BY DrainAssumption DEF Cells, NoCell
<1>a. PICK e : e = Woken(1)
  OBVIOUS
<1>2. e \in Entry /\ e.is = "live" /\ e.cell = 1
  BY <1>1, <1>a DEF Woken, Entry
<1>3. /\ \A c \in Cells : /\ life[c] = IF c = 1 THEN "live" ELSE "free"
                          /\ under[c] = Root /\ prov[c] = RootWork
                          /\ rests[c] = IF c = 1 THEN "birth" ELSE "none"
                          /\ run[c] = <<>>
      /\ held = {1} /\ lost = {} /\ ready = <<e>> /\ turn = Idle /\ ended = NoEnd
      /\ phase = "pop" /\ outcome = "none" /\ ending = NoCell /\ runs = 1
  BY <1>a DEF Init
<1>4. Table \in Tables
  <2>1. RootWork \in Provenance
    BY DEF RootWork, Provenance
  <2>2. /\ life \in [Cells -> {"free", "live", "dead"}] /\ kind \in [Cells -> {"tree", "tenant"}]
        /\ under \in [Cells -> Home] /\ prov \in [Cells -> Provenance]
    BY <2>1 DEF Init, Home
  <2>3. /\ rests \in [Cells -> {"none", "birth", "parked", "beside"}]
        /\ held \in SUBSET Cells /\ lost \in SUBSET Cells /\ below \in [Cells -> Cell]
    BY <1>1 DEF Init, Cell
  <2> QED
    BY <2>2, <2>3, TableTyped
<1>5. run \in [Cells -> Seq(Fills)]
  BY DEF Init
<1>6. \A c : Standing(Table, c) <=> c = 1
  BY <1>1, <1>3, TableFields DEF Standing
<1>7. <<e>> \in Seq(Entry) /\ <<e>> = Append(<<>>, e) /\ <<>> \in Seq(Entry)
  BY <1>2
<1>8. ready # <<>> /\ Last(ready) = e /\ Front(ready) = <<>>
  <2>1. ready = Append(<<>>, e)
    BY <1>3, <1>7, Zenon
  <2>2. /\ Append(<<>>, e) # <<>> /\ Last(Append(<<>>, e)) = e
        /\ Front(Append(<<>>, e)) = <<>>
    BY <1>2, <1>7, PushedTop
  <2> QED
    BY <2>1, <2>2, Zenon
<1>9. AtPop
  <2>1. Plain(Table, 1, RootWork, <<>>, run, NoCell)
    <3>1. 1 \in Table.held /\ Table.prov[1] = RootWork /\ Table.under[1] = Root
      BY <1>1, <1>3, TableFields
    <3> QED
      BY <1>1, <1>4, <1>6, <3>1, Alone
  <2>2. WaitOver(run[1], NoCell) /\ NoCell \in Cell
    BY <1>1, <1>3 DEF WaitOver, Answered, Cell
  <2>3. LiveTop(e, <<>>)
    <3>1. \E sd \in Cell : /\ WaitOver(run[1], sd)
                           /\ Plain(Table, 1, prov[1], <<>>, run, sd)
      BY <1>1, <1>3, <2>1, <2>2
    <3>2. rests[1] = "birth" /\ Slots(1) = {}
      BY <1>1, <1>3 DEF Slots
    <3> QED
      BY <1>2, <3>1, <3>2 DEF LiveTop
  <2> QED
    BY <1>8, <2>3 DEF AtPop
<1>10. Births = 1
  <2>1. {c \in Cells : life[c] # "free"} = {1}
    BY <1>1, <1>3
  <2> QED
    BY <2>1, FS_Singleton DEF Births
<1>11. BornInOrder
  <2>1. \A c \in Cells : c > 1 <=> c # 1
    BY DEF Cells
  <2> QED
    BY <1>3, <1>10, <2>1 DEF BornInOrder
<1>12. Roomy
  <2>1. Unborn = {}
    <3>1. Len(ready) = 1 /\ ready[1] = e
      BY <1>3
    <3> QED
      BY <1>2, <3>1 DEF Unborn
  <2>2. Need = 0 /\ Cardinality({}) = 0
    BY <1>3, FS_EmptySet DEF Need
  <2>3. 1 + 0 + 0 <= MaxCells
    BY DrainAssumption
  <2> QED
    BY <1>10, <2>1, <2>2, <2>3 DEF Roomy
<1>13. Typed
  <2>1. turn \in Turn /\ ended \in End
    BY <1>3 DEF Idle, NoEnd, Turn, End, Cell
  <2>2. runs \in 1 .. MaxRuns /\ ending \in Cell
    BY <1>3, DrainAssumption DEF Cell
  <2> QED
    BY <1>3, <1>4, <1>5, <1>7, <2>1, <2>2 DEF Typed
<1>14. Quiet /\ AtStep /\ AtSettle /\ AtOver
  BY <1>3 DEF Quiet, AtStep, AtSettle, AtOver
<1>15. InOrder
  BY <1>3 DEF InOrder
<1>16. TwoHops
  <2> SUFFICES ASSUME NEW c \in Cells, NEW s \in 1 .. MaxCells
               PROVE  /\ Cardinality(Hops(c, s)) <= 2
                      /\ Cardinality({prov[d].loop : d \in Hops(c, s)} \ {NoCell}) <= 2
    BY DEF TwoHops, Hops
  <2>1. Hops(c, s) = {}
    BY <1>3 DEF Hops, RootWork
  <2>2. {prov[d].loop : d \in Hops(c, s)} \ {NoCell} = {}
    BY <2>1
  <2> QED
    BY <2>1, <2>2, FS_EmptySet
<1> QED
  BY <1>9, <1>11, <1>12, <1>13, <1>14, <1>15, <1>16 DEF IInv

\* Every step of the drain keeps the invariant.
LEMMA NextIInv == IInv /\ [Next]_vars => IInv'
<1> SUFFICES ASSUME IInv, [Next]_vars PROVE IInv'
  OBVIOUS
<1>1. CASE Pop
  BY <1>1, PopIInv
<1>2. CASE Step
  BY <1>2, StepKeepsIInv
<1>3. CASE Settle
  <2>1. CASE SettleFinish
    BY <2>1, SettleFinishIInv
  <2>2. CASE SettleFault
    BY <2>2, SettleFaultIInv
  <2>3. CASE SettlePark
    BY <2>3, SettleParkIInv
  <2>4. CASE SettleBeside
    BY <2>4, SettleBesideIInv
  <2>5. CASE SettleRebirth
    BY <2>5, SettleRebirthIInv
  <2>6. CASE SettleLeave
    BY <2>6, SettleLeaveIInv
  <2>7. ASSUME NEW grown \in BOOLEAN, SettleHop(grown) PROVE IInv'
    BY <2>7, SettleHopIInv
  <2> QED
    BY <1>3, <2>1, <2>2, <2>3, <2>4, <2>5, <2>6, <2>7 DEF Settle
<1>4. CASE Drop
  BY <1>4, DropIInv
<1>5. ASSUME NEW place \in {"Fresh", "Shares"}, Rerun(place) PROVE IInv'
  BY <1>5, RerunIInv
<1>6. CASE Over
  BY <1>6, StayIInv DEF Over
<1>7. CASE UNCHANGED vars
  BY <1>7, StayIInv
<1> QED
  BY <1>1, <1>2, <1>3, <1>4, <1>5, <1>6, <1>7 DEF Next

\* The drain is, in every state it reaches, the call stack the invariant says: whatever is parked,
\* faulted, tailed, reborn, dropped or run again.
THEOREM Invariant == Spec => []IInv
<1> QED
  BY InitIInv, NextIInv, PTL DEF Spec

-----------------------------------------------------------------------------
\* What the invariant says of the runs' properties.

\* Typed states are typed as the runs say.
LEMMA TypesFollow == Typed => TypeOK
<1> SUFFICES ASSUME Typed PROVE TypeOK
  OBVIOUS
<1>1. /\ life \in [Cells -> {"free", "live", "dead"}] /\ kind \in [Cells -> {"tree", "tenant"}]
      /\ under \in [Cells -> Home] /\ prov \in [Cells -> Provenance]
      /\ rests \in [Cells -> {"none", "birth", "parked", "beside"}]
      /\ held \in SUBSET Cells /\ lost \in SUBSET Cells /\ below \in [Cells -> Cell]
  BY TableTyped DEF Typed
<1>2. run \in [Cells -> Seq(Fill)]
  <2>1. Fills \subseteq Fill
    BY DEF Fills, Fill, Empty, Cell, Home
  <2>2. \A c \in Cells : run[c] \in Seq(Fill)
    <3> HIDE DEF Fills, Fill
    <3> QED
      BY <2>1 DEF Typed
  <2> QED
    BY <2>2 DEF Typed
<1>3. \A i \in 1 .. Len(ready) : ready[i].is \in {"live", "beside", "unborn"}
  <2> SUFFICES ASSUME NEW i \in 1 .. Len(ready)
               PROVE  ready[i].is \in {"live", "beside", "unborn"}
    OBVIOUS
  <2>1. ready[i] \in Entry
    BY DEF Typed
  <2> QED
    BY <2>1 DEF Entry
<1> QED
  BY <1>1, <1>2, <1>3 DEF TypeOK, Typed, Home, Cell

\* No call to the cell graph is refused, since no state of the invariant is at a stall.
LEMMA NothingRefused == IInv => NeverStalls
BY DEF IInv, Quiet, AtOver, NeverStalls, Stalls

\* At a pop: the work of the top entry, the rest of the stack, and what lies aside for it.
TopIs(e, S, a, p, af, od, sd) ==
    /\ ready = Append(S, e) /\ e \in Entry /\ S \in Seq(Entry)
    /\ a \in Cell /\ af \in Cell /\ od \in Cell /\ sd \in Cell
    /\ Shape(Table, a, p, S, run, af, od, NoCell, sd)
    /\ \/ /\ e.is = "unborn" /\ a = NoCell /\ sd = NoCell
          /\ p = e.prov /\ af = e.after /\ od = e.old
       \/ /\ e.is = "live" /\ a = e.cell /\ p = prov[a] /\ af = NoCell /\ od = NoCell
          /\ rests[a] \in {"birth", "parked"} /\ WaitOver(run[a], sd)
       \/ /\ e.is = "beside" /\ a = e.cell /\ p = prov[a] /\ af = NoCell /\ od = NoCell
          /\ rests[a] = "beside" /\ AllEmpty(run[a]) /\ sd = e.kept

\* At a pop the top is one of the three kinds of entry, over the shape the invariant gives it.
LEMMA PopView ==
    ASSUME IInv, phase = "pop"
    PROVE  \E e, S, a, p, af, od, sd : TopIs(e, S, a, p, af, od, sd)
<1>1. ready # <<>> /\ ready \in Seq(Entry)
      /\ \/ UnbornTop(Last(ready), Front(ready))
         \/ LiveTop(Last(ready), Front(ready))
         \/ BesideTop(Last(ready), Front(ready))
  BY DEF IInv, Typed, AtPop
<1>a. PICK e : e = Last(ready)
  OBVIOUS
<1>b. PICK S : S = Front(ready)
  OBVIOUS
<1>2. e \in Entry /\ S \in Seq(Entry) /\ ready = Append(S, e) /\ NoCell \in Cell
  BY <1>1, <1>a, <1>b, FrontAndTop DEF Cell
<1>3. CASE UnbornTop(e, S)
  <2>1. /\ e.is = "unborn" /\ e.after \in Cell /\ e.old \in Cell
        /\ Shape(Table, NoCell, e.prov, S, run, e.after, e.old, NoCell, NoCell)
    BY <1>2, <1>3 DEF UnbornTop, Entry
  <2>2. TopIs(e, S, NoCell, e.prov, e.after, e.old, NoCell)
    BY <1>2, <2>1 DEF TopIs
  <2> QED
    BY <2>2
<1>4. CASE LiveTop(e, S)
  <2>1. e.is = "live" /\ e.cell \in Cell /\ rests[e.cell] \in {"birth", "parked"}
    BY <1>2, <1>4 DEF LiveTop, Entry, Cell
  <2>2. PICK sd \in Cell : /\ WaitOver(run[e.cell], sd)
                           /\ Plain(Table, e.cell, prov[e.cell], S, run, sd)
    BY <1>4 DEF LiveTop
  <2>3. Shape(Table, e.cell, prov[e.cell], S, run, NoCell, NoCell, NoCell, sd)
    BY <2>2 DEF Plain
  <2>4. TopIs(e, S, e.cell, prov[e.cell], NoCell, NoCell, sd)
    BY <1>2, <2>1, <2>2, <2>3 DEF TopIs
  <2> QED
    BY <2>4
<1>5. CASE BesideTop(e, S)
  <2>1. /\ e.is = "beside" /\ e.cell \in Cell /\ rests[e.cell] = "beside"
        /\ AllEmpty(run[e.cell]) /\ e.kept \in Cell
        /\ Shape(Table, e.cell, prov[e.cell], S, run, NoCell, NoCell, NoCell, e.kept)
    BY <1>2, <1>5 DEF BesideTop, Entry, Cell, Plain
  <2>2. TopIs(e, S, e.cell, prov[e.cell], NoCell, NoCell, e.kept)
    BY <1>2, <2>1 DEF TopIs
  <2> QED
    BY <2>2
<1> QED
  BY <1>1, <1>3, <1>4, <1>5, <1>a, <1>b

\* What lies where at a pop: the rest of the stack is requests, and of what rests all but the one
\* whose entry is on top waits.
LEMMA PopFacts ==
    ASSUME IInv, phase = "pop", NEW e, NEW S, NEW a, NEW p, NEW af, NEW od, NEW sd,
           TopIs(e, S, a, p, af, od, sd)
    PROVE  /\ Len(S) \in Nat /\ DOMAIN S = 1 .. Len(S)
           /\ Len(ready) = Len(S) + 1 /\ ready[Len(S) + 1] = e
           /\ \A i \in 1 .. Len(S) :
                /\ ready[i] = S[i] /\ IsAsked(Table, p, S[i], Frames(Table, a), run)
                /\ S[i].is = "unborn" /\ S[i].after = NoCell /\ S[i].old = NoCell
                /\ S[i].prov.loop = NoCell
           /\ Resting = Frames(Table, a) \cup Some(a)
           /\ a # NoCell => a \in Cells /\ a \notin Frames(Table, a) /\ ~Waits(a) /\ prov[a] = p
           /\ a # NoCell <=> e.is # "unborn"
           /\ a # NoCell => e.cell = a
           /\ \A d \in Frames(Table, a) : Waits(d)
<1>0. Typed /\ ready = Append(S, e) /\ S \in Seq(Entry) /\ e \in Entry /\ a \in Cell
  BY DEF IInv, TopIs
<1>1. /\ Stacked(Table, a, p, run) /\ Queued(Table, a, p, S, run)
  BY DEF TopIs, Shape
<1>2. /\ Len(S) \in Nat /\ DOMAIN S = 1 .. Len(S)
      /\ Len(ready) = Len(S) + 1 /\ ready[Len(S) + 1] = e
      /\ \A i \in 1 .. Len(S) : ready[i] = S[i]
  BY <1>0
<1>3. /\ a # NoCell <=> e.is # "unborn"
      /\ a # NoCell => e.cell = a
  <2>1. e.is # "unborn" => e.cell \in Cells /\ e.cell # NoCell
    BY <1>0 DEF Entry, Cells, NoCell
  <2> QED
    BY <2>1 DEF TopIs
<1>4. a # NoCell => a \in Cells /\ a \notin Frames(Table, a) /\ prov[a] = p /\ rests[a] # "none"
                    /\ Standing(Table, a)
  <2>1. a # NoCell => a \in Cells
    BY <1>0 DEF Cell
  <2>2. a # NoCell => Standing(Table, a)
    BY <1>1 DEF Stacked, Acts
  <2> QED
    BY <2>1, <2>2 DEF TopIs, Frames
<1>5. \A i \in 1 .. Len(S) :
        /\ IsAsked(Table, p, S[i], Frames(Table, a), run)
        /\ S[i].is = "unborn" /\ S[i].after = NoCell /\ S[i].old = NoCell
        /\ S[i].prov.loop = NoCell
  <2> SUFFICES ASSUME NEW i \in 1 .. Len(S)
               PROVE  /\ IsAsked(Table, p, S[i], Frames(Table, a), run)
                      /\ S[i].is = "unborn" /\ S[i].after = NoCell /\ S[i].old = NoCell
                      /\ S[i].prov.loop = NoCell
    OBVIOUS
  <2>1. IsAsked(Table, p, S[i], Frames(Table, a), run)
    BY <1>1, <1>2 DEF Queued
  <2>2. S[i] = Asked(S[i].prov, S[i].place, S[i].prov.parent, NoCell, NoCell)
        /\ S[i].prov.loop = NoCell
    BY <2>1 DEF IsAsked
  <2>3. S[i].is = "unborn" /\ S[i].after = NoCell /\ S[i].old = NoCell
    BY <2>2 DEF Asked
  <2> QED
    BY <2>1, <2>2, <2>3
<1>6. Resting = Frames(Table, a) \cup Some(a)
  <2>1. Frames(Table, a) = {c \in Cells : c \in Cells \ lost /\ life[c] = "live"
                                           /\ rests[c] # "none" /\ c # a}
    BY TableFields DEF Frames, Standing
  <2>2. a # NoCell => a \in Resting
    BY <1>4, TableFields DEF Resting, Standing
  <2>3. NoCell \notin Cells
    BY DEF NoCell, Cells
  <2> QED
    BY <2>1, <2>2, <2>3 DEF Resting, Some
<1>7. ASSUME NEW d \in Frames(Table, a) PROVE Waits(d)
  <2>1. IsFrame(Table, d, Below(Frames(Table, a), d), run) /\ d \in Cells
    BY <1>1 DEF Stacked, Frames
  <2>2. PICK s \in DOMAIN run[d] : AnswersAt(run[d], s)
    BY <2>1 DEF IsFrame
  <2>3. DOMAIN run[d] = Slots(d)
    BY <1>0, <2>1 DEF Typed, Slots
  <2>4. s \in Slots(d) /\ s \notin Filled(d)
    <3>1. ~(s < s)
      BY <2>2, <2>3 DEF Slots
    <3> QED
      BY <2>2, <2>3, <3>1 DEF AnswersAt, Filled
  <2>5. Faulted(d) = {}
    BY <2>2, <2>3 DEF AnswersAt, Faulted
  <2> QED
    BY <2>1, <2>4, <2>5, TableFields DEF Waits, IsFrame
<1>8. a # NoCell => ~Waits(a)
  <2> SUFFICES ASSUME a # NoCell, Waits(a) PROVE FALSE
    OBVIOUS
  <2>1. rests[a] = "parked" /\ WaitOver(run[a], sd)
    BY DEF Waits, TopIs
  <2>2. DOMAIN run[a] = Slots(a)
    BY <1>0, <1>4 DEF Typed, Slots
  <2>3. CASE Answered(run[a])
    BY <2>2, <2>3 DEF Answered, Filled, Waits
  <2>4. CASE \E f \in DOMAIN run[a] : FaultsAt(run[a], f)
    <3>1. PICK f \in DOMAIN run[a] : FaultsAt(run[a], f)
      BY <2>4
    <3>2. f \in Faulted(a)
      <4>1. ~(f < f)
        BY <2>2 DEF Slots
      <4> QED
        BY <2>2, <3>1, <4>1 DEF FaultsAt, Faulted
    <3> QED
      BY <3>2 DEF Waits
  <2> QED
    BY <2>1, <2>3, <2>4 DEF WaitOver
<1> QED
  BY <1>2, <1>3, <1>4, <1>5, <1>6, <1>7, <1>8

\* A waiting cell is on no stack and one that may run is on it once.
LEMMA WokenOnce == IInv => OneWake
<1> SUFFICES ASSUME IInv, phase = "pop", NEW c \in Resting
             PROVE  Cardinality(Entries(c)) = IF Waits(c) THEN 0 ELSE 1
  BY DEF OneWake
<1>1. PICK e, S, a, p, af, od, sd : TopIs(e, S, a, p, af, od, sd)
  BY PopView
<1>2. /\ Len(S) \in Nat
      /\ Len(ready) = Len(S) + 1 /\ ready[Len(S) + 1] = e
      /\ \A i \in 1 .. Len(S) : ready[i] = S[i] /\ S[i].is = "unborn"
      /\ c \in Frames(Table, a) \cup Some(a)
      /\ a # NoCell => a \notin Frames(Table, a) /\ ~Waits(a)
      /\ a # NoCell <=> e.is # "unborn"
      /\ a # NoCell => e.cell = a
      /\ \A d \in Frames(Table, a) : Waits(d)
  <2> HIDE DEF Resting
  <2> QED
    BY <1>1, PopFacts
<1>3. \A i \in 1 .. Len(ready) : ready[i].is # "unborn" => i = Len(S) + 1
  BY <1>2
<1>4. CASE c \in Frames(Table, a)
  <2>1. Entries(c) = {}
    BY <1>2, <1>3, <1>4 DEF Entries
  <2> QED
    BY <1>2, <1>4, <2>1, FS_EmptySet
<1>5. CASE c \in Some(a)
  <2>1. c = a /\ a # NoCell
    BY <1>5 DEF Some
  <2>2. Entries(c) = {Len(S) + 1}
    BY <1>2, <1>3, <2>1 DEF Entries
  <2> QED
    BY <1>2, <2>1, <2>2, FS_Singleton
<1> QED
  BY <1>2, <1>4, <1>5

\* Whoever serves a slot, the work, a frame or a request, it is an empty slot of a frame.
LEMMA ServedEmpty ==
    ASSUME IInv, phase = "pop", NEW e, NEW S, NEW a, NEW p, NEW af, NEW od, NEW sd,
           TopIs(e, S, a, p, af, od, sd), NEW c \in Cells, NEW s,
           \/ Serves(p, c, s)
           \/ \E d \in Frames(Table, a) : Serves(prov[d], c, s)
           \/ \E i \in 1 .. Len(S) : Serves(S[i].prov, c, s)
    PROVE  c \in Frames(Table, a) /\ s \in DOMAIN run[c] /\ run[c][s].is = "empty"
<1> DEFINE W == Frames(Table, a)
<1>1. /\ \A d \in W : d \in Cells /\ StandsOn(Table, prov[d], Below(W, d), run)
      /\ StandsOn(Table, p, W, run)
  BY TableFields DEF TopIs, Shape, Stacked, IsFrame, Frames
<1>2. c # Root
  BY DEF Root, Cells
<1>3. \A q, X : Reports(q, X, run) /\ q.parent = c /\ q.slot = s =>
                 c \in X /\ s \in DOMAIN run[c] /\ run[c][s].is = "empty"
  <2> SUFFICES ASSUME NEW q, NEW X, Reports(q, X, run), q.parent = c, q.slot = s
               PROVE  c \in X /\ s \in DOMAIN run[c] /\ run[c][s].is = "empty"
    OBVIOUS
  <2>1. c \in X /\ AnswersAt(run[c], s)
    BY <1>2 DEF Reports
  <2>2. DOMAIN run[c] = 1 .. Len(run[c])
    BY DEF IInv, Typed
  <2>3. s \in DOMAIN run[c] /\ ~(s < s)
    BY <2>1, <2>2 DEF AnswersAt
  <2> QED
    BY <2>1, <2>3 DEF AnswersAt
<1>4. CASE Serves(p, c, s)
  BY <1>1, <1>3, <1>4 DEF Serves, StandsOn
<1>5. CASE \E d \in W : Serves(prov[d], c, s)
  <2>1. PICK d \in W : Serves(prov[d], c, s)
    BY <1>5
  <2>2. c \in Below(W, d) /\ s \in DOMAIN run[c] /\ run[c][s].is = "empty"
    BY <1>1, <1>3, <2>1 DEF Serves, StandsOn
  <2> QED
    BY <2>2 DEF Below
<1>6. CASE \E i \in 1 .. Len(S) : Serves(S[i].prov, c, s)
  <2>1. PICK i \in 1 .. Len(S) : Serves(S[i].prov, c, s)
    BY <1>6
  <2>2. IsAsked(Table, p, S[i], W, run)
    BY PopFacts
  <2> QED
    BY <2>1, <2>2 DEF IsAsked, Serves
<1> QED
  BY <1>4, <1>5, <1>6

\* A slot has one server at most.
LEMMA ServedOnce ==
    ASSUME IInv, phase = "pop", NEW e, NEW S, NEW a, NEW p, NEW af, NEW od, NEW sd,
           TopIs(e, S, a, p, af, od, sd), NEW c \in Cells, NEW s \in Nat \ {0}
    PROVE  /\ Serves(p, c, s) => \A d \in Frames(Table, a) : ~Serves(prov[d], c, s)
           /\ \A i \in 1 .. Len(S) : Serves(S[i].prov, c, s) =>
                /\ ~Serves(p, c, s) /\ \A d \in Frames(Table, a) : ~Serves(prov[d], c, s)
                /\ \A j \in 1 .. Len(S) : Serves(S[j].prov, c, s) => i = j
           /\ \A d, f \in Frames(Table, a) : Serves(prov[d], c, s) /\ Serves(prov[f], c, s) => d = f
<1> DEFINE W == Frames(Table, a)
<1>1. Table \in Tables /\ Stacked(Table, a, p, run) /\ Queued(Table, a, p, S, run)
  BY DEF TopIs, Shape, IInv, Typed
<1>2. Serves(p, c, s) => \A d \in W : ~Serves(prov[d], c, s)
  <2> SUFFICES ASSUME Serves(p, c, s), NEW d \in W PROVE prov[d].parent # c
    BY DEF Serves
  <2>1. p.slot # 0 /\ p.parent = c
    BY DEF Serves
  <2>2. \A x \in Frames(Table, a) : Table.prov[x].parent # p.parent
    BY <1>1, <2>1, TopFrame
  <2> QED
    BY <2>1, <2>2, TableFields
<1>3. \A d, f \in W : Serves(prov[d], c, s) /\ Serves(prov[f], c, s) => d = f
  <2> SUFFICES ASSUME NEW d \in W, NEW f \in W, prov[d].parent = c, prov[f].parent = c
               PROVE  d = f
    BY DEF Serves
  <2> QED
    BY <1>1, OneChild, TableFields
<1>4. ASSUME NEW i \in 1 .. Len(S), Serves(S[i].prov, c, s)
      PROVE  /\ ~Serves(p, c, s) /\ \A d \in W : ~Serves(prov[d], c, s)
             /\ \A j \in 1 .. Len(S) : Serves(S[j].prov, c, s) => i = j
  <2>1. IsAsked(Table, p, S[i], W, run)
    BY PopFacts
  <2>2. ~Serves(p, c, s) /\ \A d \in W : ~Serves(prov[d], c, s)
    BY <1>4, <2>1, TableFields DEF IsAsked, Serves
  <2>3. ASSUME NEW j \in 1 .. Len(S), Serves(S[j].prov, c, s), i # j PROVE FALSE
    <3>1. ~Above(S[j].prov, S[i].prov) /\ ~Above(S[i].prov, S[j].prov)
      BY <1>4, <2>3 DEF Above, Serves, Cells
    <3>2. DOMAIN S = 1 .. Len(S) /\ Len(S) \in Nat
      BY PopFacts
    <3>3. i < j \/ j < i
      BY <2>3, <3>2
    <3> QED
      BY <1>1, <3>1, <3>2, <3>3 DEF Queued
  <2> QED
    BY <2>2, <2>3
<1> QED
  BY <1>2, <1>3, <1>4

\* Among cells `D` and requests `U` just one is found.
LEMMA JustOne ==
    ASSUME NEW D, NEW U, NEW x,
           \/ D = {x} /\ U = {}
           \/ D = {} /\ U = {x}
    PROVE  Cardinality(D \cup {<<i>> : i \in U}) = 1
<1>1. CASE D = {x} /\ U = {}
  <2>1. D \cup {<<i>> : i \in U} = {x}
    BY <1>1
  <2> QED
    BY <2>1, FS_Singleton
<1>2. CASE D = {} /\ U = {x}
  <2>1. D \cup {<<i>> : i \in U} = {<<x>>}
    BY <1>2
  <2> QED
    BY <2>1, FS_Singleton
<1> QED
  BY <1>1, <1>2

\* An empty slot of a waiting cell has one that will fill it, a filled slot none.
LEMMA ReportedOnce == IInv => OneReporter
<1> SUFFICES ASSUME IInv, phase = "pop", NEW c \in Resting, NEW s \in Slots(c)
             PROVE  Cardinality(Reporting(c, s)) = IF Waits(c) /\ s \notin Filled(c) THEN 1 ELSE 0
  BY DEF OneReporter
<1>1. PICK e, S, a, p, af, od, sd : TopIs(e, S, a, p, af, od, sd)
  BY PopView
<1> DEFINE W == Frames(Table, a)
           n == Len(S) + 1
           D == {d \in Resting : prov[d].parent = c /\ prov[d].slot = s}
           U == {j \in Unborn : ready[j].prov.parent = c /\ ready[j].prov.slot = s}
<1>2. Reporting(c, s) = D \cup {<<i>> : i \in U}
  BY DEF Reporting
<1>3. /\ c \in Cells /\ Slots(c) = DOMAIN run[c] /\ s \in Nat \ {0}
  BY DEF Resting, Slots, IInv, Typed
<1>4. /\ Len(S) \in Nat /\ DOMAIN S = 1 .. Len(S)
      /\ Len(ready) = n /\ ready[n] = e
      /\ \A i \in 1 .. Len(S) : ready[i] = S[i] /\ S[i].is = "unborn"
      /\ Resting = W \cup Some(a)
      /\ a # NoCell => a \notin W /\ ~Waits(a) /\ prov[a] = p
      /\ a # NoCell <=> e.is # "unborn"
      /\ \A d \in W : Waits(d)
  <2> HIDE DEF Resting
  <2> QED
    BY <1>1, PopFacts
<1>5. a = NoCell => p = e.prov
  BY <1>1, <1>4 DEF TopIs
<1>6. \A d : d \in D <=> (d \in W /\ Serves(prov[d], c, s)) \/ (d = a /\ a # NoCell /\ Serves(p, c, s))
  BY <1>4 DEF Serves, Some
<1>7. \A i : i \in U <=> (i \in 1 .. Len(S) /\ Serves(S[i].prov, c, s))
                      \/ (i = n /\ a = NoCell /\ Serves(p, c, s))
  BY <1>4, <1>5 DEF Serves, Unborn
<1> HIDE DEF D, U
<1>8. CASE Waits(c) /\ s \notin Filled(c)
  <2>1. c \in W /\ run[c][s].is = "empty"
    BY <1>3, <1>4, <1>8 DEF Some, Filled
  <2>2. \/ Serves(p, c, s)
        \/ \E d \in W : Serves(prov[d], c, s)
        \/ \E i \in 1 .. Len(S) : Serves(S[i].prov, c, s)
    <3>1. Queued(Table, a, p, S, run)
      BY <1>1 DEF TopIs, Shape
    <3> QED
      BY <1>3, <1>4, <2>1, <3>1, TableFields DEF Queued
  <2>3. /\ Serves(p, c, s) => \A d \in W : ~Serves(prov[d], c, s)
        /\ \A i \in 1 .. Len(S) : Serves(S[i].prov, c, s) =>
             /\ ~Serves(p, c, s) /\ \A d \in W : ~Serves(prov[d], c, s)
             /\ \A j \in 1 .. Len(S) : Serves(S[j].prov, c, s) => i = j
        /\ \A d, f \in W : Serves(prov[d], c, s) /\ Serves(prov[f], c, s) => d = f
    BY <1>1, <1>3, ServedOnce
  <2> HIDE DEF W, n
  <2>4. \E x : (D = {x} /\ U = {}) \/ (D = {} /\ U = {x})
    <3>1. CASE Serves(p, c, s) /\ a # NoCell
      <4>1. D = {a} /\ U = {}
        BY <1>6, <1>7, <2>3, <3>1
      <4> QED
        BY <4>1
    <3>2. CASE Serves(p, c, s) /\ a = NoCell
      <4>1. D = {} /\ U = {n}
        BY <1>6, <1>7, <2>3, <3>2
      <4> QED
        BY <4>1
    <3>3. CASE \E d \in W : Serves(prov[d], c, s)
      <4>1. PICK d \in W : Serves(prov[d], c, s)
        BY <3>3
      <4>2. D = {d} /\ U = {}
        BY <1>6, <1>7, <2>3, <4>1
      <4> QED
        BY <4>2
    <3>4. CASE \E i \in 1 .. Len(S) : Serves(S[i].prov, c, s)
      <4>1. PICK i \in 1 .. Len(S) : Serves(S[i].prov, c, s)
        BY <3>4
      <4>2. D = {} /\ U = {i}
        BY <1>6, <1>7, <2>3, <4>1
      <4> QED
        BY <4>2
    <3> QED
      BY <2>2, <3>1, <3>2, <3>3, <3>4
  <2> QED
    BY <1>2, <1>8, <2>4, JustOne
<1>9. CASE ~(Waits(c) /\ s \notin Filled(c))
  <2>1. ~(c \in W /\ run[c][s].is = "empty")
    BY <1>3, <1>4, <1>9 DEF Filled
  <2>2. /\ ~Serves(p, c, s)
        /\ \A d \in W : ~Serves(prov[d], c, s)
        /\ \A i \in 1 .. Len(S) : ~Serves(S[i].prov, c, s)
    BY <1>1, <1>3, <2>1, ServedEmpty
  <2>3. D = {} /\ U = {}
    BY <1>6, <1>7, <2>2
  <2>4. D \cup {<<i>> : i \in U} = {}
    BY <2>3
  <2> QED
    BY <1>2, <1>9, <2>4, FS_EmptySet
<1> QED
  BY <1>8, <1>9

\* Together: each wait is answered once, in order, and woken by the last.
LEMMA AllAnswered == IInv => WaitsAnswered
BY WokenOnce, ReportedOnce DEF IInv, WaitsAnswered

\* The loop cells are exactly those a hop at rest, a request or a successor may still read.
LEMMA LoopsHeld == IInv => LoopsOwned
<1> SUFFICES ASSUME IInv, phase = "pop"
             PROVE  LoopCells \ lost =
                      ({prov[c].loop : c \in Resting}
                       \cup UNION {{ready[i].prov.loop, ready[i].old} : i \in Unborn}) \ {NoCell}
  BY DEF LoopsOwned
<1>1. PICK e, S, a, p, af, od, sd : TopIs(e, S, a, p, af, od, sd)
  BY PopView
<1> DEFINE W == Frames(Table, a)
           n == Len(S) + 1
<1>2. /\ Len(S) \in Nat
      /\ Len(ready) = n /\ ready[n] = e
      /\ \A i \in 1 .. Len(S) :
            ready[i] = S[i] /\ S[i].is = "unborn" /\ S[i].old = NoCell /\ S[i].prov.loop = NoCell
      /\ Resting = W \cup Some(a)
      /\ a # NoCell => a \notin W /\ prov[a] = p
      /\ a # NoCell <=> e.is # "unborn"
  <2> HIDE DEF Resting
  <2> QED
    BY <1>1, PopFacts
<1>3. /\ a = NoCell => p = e.prov /\ od = e.old
      /\ a # NoCell => od = NoCell
      /\ Stacked(Table, a, p, run) /\ Looped(Table, a, p, od) /\ Table \in Tables
  BY <1>1, <1>2 DEF TopIs, Shape, IInv, Typed
<1>4. /\ \A d \in W : prov[d].loop # NoCell => IsLoop(Table, prov[d].loop)
      /\ p.loop # NoCell => IsLoop(Table, p.loop)
      /\ od # NoCell => IsLoop(Table, od)
  <2>1. \A d \in W : prov[d].loop # NoCell => IsLoop(Table, prov[d].loop)
    BY <1>3, FrameFacts, TableFields
  <2> QED
    BY <1>3, <2>1 DEF Stacked, StandsOn, Looped
<1>5. \A c : c \in LoopCells \ lost <=> Standing(Table, c) /\ c \notin Table.held
  BY TableFields DEF LoopCells, Standing
<1>6. \A c : IsLoop(Table, c) => c \in LoopCells \ lost
  BY <1>5 DEF IsLoop
<1>7. \A i : i \in Unborn <=> i \in 1 .. Len(S) \/ (i = n /\ a = NoCell)
  BY <1>2 DEF Unborn
<1>8. ASSUME NEW x \in LoopCells \ lost
      PROVE  /\ x # NoCell
             /\ \/ \E d \in Resting : x = prov[d].loop
                \/ \E i \in Unborn : x = ready[i].prov.loop \/ x = ready[i].old
  <2>1. x \in Cells /\ x # NoCell
    BY DEF LoopCells, Cells, NoCell
  <2>2. x \in {p.loop, od} \/ \E d \in W : prov[d].loop = x
    BY <1>3, <1>5, <2>1, TableFields DEF Looped
  <2>3. CASE a = NoCell
    BY <1>2, <1>3, <1>7, <2>1, <2>2, <2>3
  <2>4. CASE a # NoCell
    BY <1>2, <1>3, <2>1, <2>2, <2>4 DEF Some
  <2> QED
    BY <2>1, <2>3, <2>4
<1>9. ASSUME NEW d \in Resting, prov[d].loop # NoCell PROVE prov[d].loop \in LoopCells \ lost
  BY <1>2, <1>4, <1>6, <1>9 DEF Some
<1>10. ASSUME NEW i \in Unborn, NEW x \in {ready[i].prov.loop, ready[i].old}, x # NoCell
       PROVE  x \in LoopCells \ lost
  BY <1>2, <1>3, <1>4, <1>6, <1>7, <1>10
<1> HIDE DEF LoopCells, Resting, Unborn
<1> QED
  BY <1>8, <1>9, <1>10

\* The cells a chain of kept cells leads to from the one `sd` it starts at are the chain.
LEMMA ChainReached ==
    ASSUME NEW t \in Tables, NEW K \in SUBSET Cells, NEW sd \in Cell, FaultChain(t, K, sd),
           NEW r, r = [k \in Cells |-> {t.below[k]} \ {NoCell}]
    PROVE  LeastClosed(Cells, Some(sd), r) = K
<1> DEFINE Closed(A) == A \in SUBSET Cells /\ Some(sd) \subseteq A /\ \A k \in A : r[k] \subseteq A
<1>1. NoCell \notin Cells /\ Cells \subseteq Nat
  BY DEF NoCell, Cells
<1>2. Closed(K)
  BY DEF FaultChain, Some
<1>3. ASSUME NEW A, Closed(A) PROVE K \subseteq A
  <2> DEFINE Out == {k \in K : k \notin A}
  <2> SUFFICES ASSUME Out # {} PROVE FALSE
    OBVIOUS
  <2>1. PICK k \in Out : \A m \in Out : k <= m
    <3>1. Out \in SUBSET Nat
      BY <1>1
    <3> QED
      BY <3>1, LeastNat
  <2>2. sd \in K /\ \A j \in K : sd <= j
    BY <2>1 DEF FaultChain
  <2>3. sd \in A /\ sd < k
    BY <1>1, <1>3, <2>1, <2>2 DEF Some
  <2> DEFINE Gaps == {k - j : j \in {i \in K : i < k}}
  <2>4. PICK g \in Gaps : \A h \in Gaps : g <= h
    <3>1. Gaps \in SUBSET Nat /\ k - sd \in Gaps
      BY <1>1, <2>1, <2>2, <2>3
    <3> QED
      BY <3>1, LeastNat
  <2>5. PICK j \in K : j < k /\ g = k - j
    BY <2>4
  <2>6. \A i \in K : i < k => i <= j
    <3> SUFFICES ASSUME NEW i \in K, i < k PROVE i <= j
      OBVIOUS
    <3>1. k \in Nat /\ i \in Nat /\ j \in Nat
      BY <1>1, <2>1
    <3>2. k - j <= k - i
      BY <2>4, <2>5
    <3> QED
      BY <3>1, <3>2
  <2>7. j \in A
    BY <1>1, <2>1, <2>5
  <2>8. t.below[j] \in K /\ j < t.below[j] /\ t.below[j] <= k
    <3>1. k \in K /\ ~(k <= j)
      BY <1>1, <2>1, <2>5
    <3> QED
      BY <3>1 DEF FaultChain
  <2>9. t.below[j] = k
    <3>a. PICK b : b = t.below[j]
      OBVIOUS
    <3>1. b \in K /\ j < b /\ b <= k /\ (b < k => b <= j)
      BY <2>6, <2>8, <3>a
    <3>2. b \in Nat /\ j \in Nat /\ k \in Nat
      BY <1>1, <2>1, <3>1
    <3> QED
      BY <3>1, <3>2, <3>a
  <2>10. k \in r[j]
    BY <1>1, <2>1, <2>5, <2>9
  <2> QED
    BY <1>3, <2>1, <2>7, <2>10
<1> QED
  BY <1>2, <1>3 DEF LeastClosed

\* The kept cells a pending fault names.
Named ==
    ((UNION {{run[c][s].at : s \in Faulted(c)} : c \in Resting})
      \cup {ready[i].kept : i \in {j \in 1 .. Len(ready) : ready[j].is = "beside"}}
      \cup {ending}) \ {NoCell}

\* What the pending faults lead to, counted off link by link as the run's property does, is the
\* chain they hold.
LEMMA NamedChain ==
    ASSUME Typed, NEW K \in SUBSET Cells, NEW sd \in Cell, FaultChain(Table, K, sd),
           Named = Some(sd)
    PROVE  KeptFrom = K
<1> DEFINE N == Cardinality(Cells)
           B == Named
           Onward(S) == S \cup ({below[k] : k \in S} \ {NoCell})
           f == CHOOSE g : g = [n \in 0 .. MaxCells |-> IF n = 0 THEN B ELSE Onward(g[n - 1])]
           r == [k \in Cells |-> {below[k]} \ {NoCell}]
<1>1. KeptFrom = f[MaxCells]
  BY DEF KeptFrom, Named
<1>2. IsFiniteSet(Cells) /\ N = MaxCells /\ N \in Nat
  <2>1. 1 \in Int /\ MaxCells \in Int /\ MaxCells >= 1
    BY DrainAssumption
  <2> QED
    BY <2>1, FS_Interval DEF Cells
<1>3. B = Some(sd)
  OBVIOUS
<1>4. below \in [Cells -> Cell]
  BY TableTyped DEF Typed
<1>5. B \in SUBSET Cells
  BY <1>3 DEF Some, Cell
<1>6. r \in [Cells -> SUBSET Cells]
  BY <1>4 DEF Cell
<1> HIDE DEF f, B
<1>7. \E h \in [0 .. N -> SUBSET Cells] :
           /\ h[0] = B
           /\ \A n \in 1 .. N : h[n] = Grow(r, h[n - 1])
           /\ h[N] = LeastClosed(Cells, B, r)
  <2> HIDE DEF r, N
  <2> QED
    BY <1>2, <1>5, <1>6, Reach, ZenonT(60) DEF N
<1>8. \A S \in SUBSET Cells : Onward(S) = Grow(r, S)
  <2> SUFFICES ASSUME NEW S \in SUBSET Cells PROVE Onward(S) = Grow(r, S)
    OBVIOUS
  <2>1. \A i \in S : r[i] = {below[i]} \ {NoCell}
    OBVIOUS
  <2> HIDE DEF r
  <2> QED
    BY <2>1 DEF Grow
<1>p. PICK h \in [0 .. N -> SUBSET Cells] :
           /\ h[0] = B
           /\ \A n \in 1 .. N : h[n] = Grow(r, h[n - 1])
           /\ h[N] = LeastClosed(Cells, B, r)
  BY <1>7
<1>9. h[N] = K
  <2>1. r = [k \in Cells |-> {Table.below[k]} \ {NoCell}]
    BY TableFields
  <2>2. Table \in Tables
    BY DEF Typed
  <2> HIDE DEF r
  <2>3. LeastClosed(Cells, Some(sd), r) = K
    BY <2>1, <2>2, ChainReached
  <2> QED
    BY <1>3, <1>p, <2>3
<1> HIDE DEF N, r, Onward
<1>10. h = [n \in 0 .. MaxCells |-> IF n = 0 THEN B ELSE Onward(h[n - 1])]
  <2>1. \A n \in 0 .. N : n # 0 => n \in 1 .. N /\ n - 1 \in 0 .. N
    BY <1>2
  <2> QED
    BY <1>2, <1>p, <1>8, <2>1
<1>11. f = [n \in 0 .. MaxCells |-> IF n = 0 THEN B ELSE Onward(f[n - 1])]
  BY <1>10 DEF f
<1>12. f[N] = h[N]
  <2> DEFINE Bad == {n \in 0 .. N : f[n] # h[n]}
  <2>1. ASSUME Bad # {} PROVE FALSE
    <3>1. PICK n \in Bad : \A m \in Bad : n <= m
      <4>1. Bad \in SUBSET Nat
        BY <1>2
      <4> QED
        BY <2>1, <4>1, LeastNat
    <3>2. n # 0 /\ n - 1 \in 0 .. N /\ n \in 0 .. N /\ n - 1 < n
      BY <1>2, <1>10, <1>11
    <3>3. n - 1 \notin Bad
      BY <1>2, <3>1, <3>2
    <3> QED
      BY <1>2, <1>10, <1>11, <3>1, <3>2, <3>3
  <2> QED
    BY <1>2, <2>1
<1> QED
  BY <1>1, <1>2, <1>9, <1>12

\* The faults of a run that was answered whole or to a fault are the one it leads from.
LEMMA FaultsOver ==
    ASSUME Typed, NEW c \in Cells, NEW sd, WaitOver(run[c], sd)
    PROVE  \A x : x # NoCell => ((\E s \in Faulted(c) : x = run[c][s].at) <=> x = sd)
<1>1. DOMAIN run[c] = Slots(c) /\ Slots(c) = 1 .. Len(run[c])
  BY DEF Typed, Slots
<1>2. CASE Answered(run[c]) /\ sd = NoCell
  <2>1. Faulted(c) = {}
    BY <1>1, <1>2 DEF Answered, Faulted
  <2> QED
    BY <1>2, <2>1
<1>3. CASE \E f \in DOMAIN run[c] : FaultsAt(run[c], f) /\ sd = run[c][f].at
  <2>1. PICK f \in DOMAIN run[c] : FaultsAt(run[c], f) /\ sd = run[c][f].at
    BY <1>3
  <2>2. \A s \in Slots(c) : run[c][s].is = "fault" <=> s = f
    BY <1>1, <2>1 DEF FaultsAt
  <2>3. Faulted(c) = {f}
    BY <1>1, <2>1, <2>2 DEF Faulted
  <2> QED
    BY <2>1, <2>3
<1> QED
  BY <1>2, <1>3 DEF WaitOver

\* At a pop only the work about to be done names a kept cell.
LEMMA NamedAtPop ==
    ASSUME IInv, phase = "pop", NEW e, NEW S, NEW a, NEW p, NEW af, NEW od, NEW sd,
           TopIs(e, S, a, p, af, od, sd)
    PROVE  Named = Some(sd)
<1> DEFINE W == Frames(Table, a)
           n == Len(S) + 1
<1>1. Typed /\ ending = NoCell
  BY DEF IInv, Quiet
<1>2. /\ Len(S) \in Nat /\ Len(ready) = n /\ ready[n] = e
      /\ \A i \in 1 .. Len(S) : ready[i] = S[i] /\ S[i].is = "unborn"
      /\ Resting = W \cup Some(a)
      /\ a # NoCell => a \in Cells
      /\ a # NoCell <=> e.is # "unborn"
      /\ \A d \in W : Faulted(d) = {}
  <2>1. /\ \A d \in W : Waits(d)
        /\ Len(S) \in Nat /\ Len(ready) = n /\ ready[n] = e
        /\ \A i \in 1 .. Len(S) : ready[i] = S[i] /\ S[i].is = "unborn"
        /\ Resting = W \cup Some(a)
        /\ a # NoCell => a \in Cells
        /\ a # NoCell <=> e.is # "unborn"
    <3> HIDE DEF Resting, Waits
    <3> QED
      BY PopFacts
  <2>2. \A d \in W : Faulted(d) = {}
    BY <2>1 DEF Waits
  <2> QED
    BY <2>1, <2>2
<1>3. \A x : x \in Named <=>
        /\ x # NoCell
        /\ \/ a # NoCell /\ \E s \in Faulted(a) : x = run[a][s].at
           \/ e.is = "beside" /\ x = e.kept
  <2>1. \A i : i \in {j \in 1 .. Len(ready) : ready[j].is = "beside"} <=> i = n /\ e.is = "beside"
    BY <1>2
  <2>2. \A x : x \in UNION {{run[c][s].at : s \in Faulted(c)} : c \in Resting}
               <=> a # NoCell /\ \E s \in Faulted(a) : x = run[a][s].at
    BY <1>2 DEF Some
  <2>3. \A x : x \in {ready[i].kept : i \in {j \in 1 .. Len(ready) : ready[j].is = "beside"}}
               <=> e.is = "beside" /\ x = e.kept
    BY <1>2, <2>1
  <2> QED
    BY <1>1, <2>2, <2>3 DEF Named
<1>4. CASE e.is = "unborn"
  BY <1>2, <1>3, <1>4 DEF TopIs, Some
<1>5. CASE e.is = "live"
  <2>1. WaitOver(run[a], sd) /\ a \in Cells
    BY <1>2, <1>5 DEF TopIs
  <2>2. \A x : x # NoCell => ((\E s \in Faulted(a) : x = run[a][s].at) <=> x = sd)
    BY <1>1, <2>1, FaultsOver
  <2>3. \A x : x \in Named <=> x \in Some(sd)
    BY <1>2, <1>3, <1>5, <2>2 DEF Some
  <2> QED
    BY <2>3
<1>6. CASE e.is = "beside"
  <2>1. AllEmpty(run[a]) /\ a \in Cells /\ sd = e.kept
    BY <1>2, <1>6 DEF TopIs
  <2>2. Faulted(a) = {}
    BY <1>1, <2>1 DEF AllEmpty, Faulted, Slots, Typed
  <2>3. \A x : x \in Named <=> x \in Some(sd)
    BY <1>3, <1>6, <2>1, <2>2 DEF Some
  <2> QED
    BY <2>3
<1> QED
  BY <1>4, <1>5, <1>6 DEF TopIs

\* The kept cells are those the pending fault, or the host's outcome, leads to.
LEMMA KeptHeld == IInv => KeptWhileNamed
<1> SUFFICES ASSUME IInv, phase \in {"pop", "over"}, outcome \notin Stalls \cup {"failed"}
             PROVE  Kept = KeptFrom
  BY DEF KeptWhileNamed
<1>0. Typed /\ NoCell \notin Cells
  BY DEF IInv, NoCell, Cells
<1>1. turn = Idle
  BY DEF IInv, Quiet, AtOver
<1>2. turn.cell = NoCell /\ turn.after = NoCell
  BY <1>1 DEF Idle
<1>3. \A c : c \in Kept <=> /\ Standing(Table, c) /\ c \in Table.held /\ Table.rests[c] = "none"
                          /\ c \notin Predecessors
  BY <1>0, <1>2, TableFields DEF Kept, Standing
<1>4. CASE phase = "pop"
  <2>1. PICK e, S, a, p, af, od, sd : TopIs(e, S, a, p, af, od, sd)
    BY <1>4, PopView
  <2> DEFINE K == KeptCells(Table, a, af, NoCell)
             n == Len(S) + 1
  <2>2. FaultChain(Table, K, sd) /\ K \in SUBSET Cells /\ sd \in Cell
    BY <2>1 DEF TopIs, Shape, Keeps, KeptCells
  <2>3. Named = Some(sd)
    BY <1>4, <2>1, NamedAtPop
  <2>4. KeptFrom = K
    <3> HIDE DEF K
    <3> QED
      BY <1>0, <2>2, <2>3, NamedChain
  <2>5. /\ Len(S) \in Nat /\ Len(ready) = n /\ ready[n] = e
        /\ \A i \in 1 .. Len(S) : ready[i] = S[i] /\ S[i].is = "unborn" /\ S[i].after = NoCell
        /\ a # NoCell <=> e.is # "unborn"
    BY <1>4, <2>1, PopFacts
  <2>6. \A c \in Cells : c \in Predecessors <=> c = af
    <3>1. \A i : i \in Unborn <=> i \in 1 .. Len(S) \/ (i = n /\ a = NoCell)
      BY <2>5 DEF Unborn
    <3>2. IF a = NoCell THEN e.after = af ELSE af = NoCell
      BY <2>1, <2>5 DEF TopIs
    <3> HIDE DEF Unborn
    <3> QED
      BY <1>0, <2>5, <3>1, <3>2 DEF Predecessors
  <2>7. a # NoCell => rests[a] # "none"
    BY <2>1 DEF TopIs
  <2>8. \A c : c \in Kept <=> c \in K
    BY <1>0, <1>3, <2>6, <2>7, TableFields DEF KeptCells, Standing
  <2> QED
    BY <2>4, <2>8
<1>5. CASE phase = "over"
  <2> DEFINE K == KeptCells(Table, NoCell, NoCell, NoCell)
  <2>1. Outlived
    BY <1>5 DEF IInv, AtOver
  <2>2. FaultChain(Table, K, ending) /\ K \in SUBSET Cells /\ ending \in Cell
    BY <1>0, <2>1 DEF Outlived, KeptCells, Typed
  <2>3. ready = <<>> /\ Unborn = {} /\ Predecessors = {}
    BY <2>1 DEF Outlived, Unborn, Predecessors
  <2>4. Resting = {}
    BY <2>1, TableFields DEF Outlived, Resting, Standing, KeptCells
  <2>5. Named = Some(ending)
    BY <2>3, <2>4 DEF Named, Some
  <2>6. KeptFrom = K
    <3> HIDE DEF K
    <3> QED
      BY <1>0, <2>2, <2>5, NamedChain
  <2>7. \A c : c \in Kept <=> c \in K
    BY <1>0, <1>3, <2>3 DEF KeptCells, Standing
  <2> QED
    BY <2>6, <2>7
<1> QED
  BY <1>4, <1>5

\* An ended run whose outcome is dropped has left nothing live and no borrow out.
LEMMA NothingLeft == IInv => EndsEmpty
<1> SUFFICES ASSUME IInv, outcome = "left"
             PROVE  /\ ready = <<>>
                    /\ ending = NoCell => held \subseteq lost
                                          /\ \A c \in Cells \ lost : life[c] # "live"
  BY DEF EndsEmpty
<1>1. phase = "over"
  BY DEF IInv, Quiet
<1>2. Outlived /\ Typed /\ BornInOrder
  BY <1>1 DEF IInv, AtOver
<1>3. ASSUME ending = NoCell, NEW c \in Cells \ lost PROVE life[c] # "live"
  <2>1. KeptCells(Table, NoCell, NoCell, NoCell) = {}
    BY <1>2, <1>3 DEF Outlived, FaultChain, KeptCells, NoCell, Cells
  <2> QED
    BY <1>2, <2>1, TableFields DEF Outlived, Standing
<1>4. held \subseteq Cells
  BY <1>2, TableTyped DEF Typed
<1>5. ending = NoCell => held \subseteq lost
  BY <1>2, <1>3, <1>4 DEF BornInOrder
<1> QED
  BY <1>2, <1>3, <1>5 DEF Outlived

-----------------------------------------------------------------------------
\* What the runs check, for every bound and every set of asks.

\* Every variable of the drain has its type in every reachable state.
THEOREM Types == Spec => []TypeOK
<1>1. IInv => TypeOK
  BY TypesFollow DEF IInv
<1> QED
  BY <1>1, Invariant, PTL

\* The drain never stalls: every create, enter, redeem, release and delivery it makes of the cell
\* graph (drain.rs `drive`, action.rs) finds its cells live and its slot empty.
THEOREM Unstalled == Spec => []NeverStalls
BY Invariant, NothingRefused, PTL

\* Every wait is answered by whoever it was left to, once and in order, and woken by the last
\* (drain.rs `drive`, `Receipts::complete`).
THEOREM Answers == Spec => []WaitsAnswered
BY Invariant, AllAnswered, PTL

\* A tail loop runs in two hops and two loop cells, and its loop cells are neither leaked nor lost
\* (drain.rs `loop_for`).
THEOREM Loops == Spec => []LoopsBounded
<1>1. IInv => LoopsBounded
  BY LoopsHeld DEF IInv, LoopsBounded
<1> QED
  BY <1>1, Invariant, PTL

\* A kept cell lives while a fault leads to it and no longer, and an ended run leaves nothing behind
\* (drain.rs `drive`, substrate.rs `Uncaught::drop`).
THEOREM Leaks == Spec => []NothingLeaks
<1>1. IInv => NothingLeaks
  BY KeptHeld, NothingLeft DEF NothingLeaks
<1> QED
  BY <1>1, Invariant, PTL

-----------------------------------------------------------------------------
\* The drain implements a call stack: its waits in the order the waiting cells were born.

\* The place of a cell of X in the order of birth, the cell at a place, and what is said of each
\* cell, in that order.
Rank(X, c) == Cardinality({d \in X : d <= c})
Nth(X, i) == CHOOSE c \in X : Rank(X, c) = i
Line(X, f) == [i \in 1 .. Cardinality(X) |-> f[Nth(X, i)]]

\* Each cell has its own place.
LEMMA OwnRank ==
    ASSUME NEW X \in SUBSET Cells
    PROVE  /\ IsFiniteSet(X) /\ Cardinality(X) \in Nat
           /\ \A c \in X : Rank(X, c) \in 1 .. Cardinality(X)
           /\ \A c, d \in X : Rank(X, c) = Rank(X, d) => c = d
<1>0. X \in SUBSET Int
  BY DEF Cells
<1>1. IsFiniteSet(Cells)
  BY DrainAssumption, FS_Interval DEF Cells
<1>2. IsFiniteSet(X) /\ Cardinality(X) \in Nat
  BY <1>1, FS_Subset, FS_CardinalityType
<1>3. ASSUME NEW c \in X PROVE Rank(X, c) \in 1 .. Cardinality(X)
  <2> DEFINE A == {d \in X : d <= c}
  <2>1. A \in SUBSET X /\ c \in A
    BY <1>0
  <2>2. Cardinality(A) \in Nat /\ Cardinality(A) <= Cardinality(X) /\ Cardinality(A) # 0
    <3> HIDE DEF A
    <3> QED
      BY <1>2, <2>1, FS_Subset, FS_CardinalityType, CountZero
  <2> QED
    BY <1>2, <2>2 DEF Rank
<1>4. ASSUME NEW c \in X, NEW d \in X, c < d PROVE Rank(X, c) # Rank(X, d)
  <2> DEFINE A == {e \in X : e <= c}
             B == {e \in X : e <= d}
  <2>1. A \subseteq B /\ d \in B /\ d \notin A /\ B \in SUBSET X
    <3>1. \A e \in X : e \in Int /\ (e <= c => e <= d)
      BY <1>0, <1>4
    <3>2. d <= d /\ ~(d <= c)
      BY <1>0, <1>4
    <3> QED
      BY <3>1, <3>2
  <2>2. Cardinality(A) # Cardinality(B)
    <3> HIDE DEF A, B
    <3>1. IsFiniteSet(B)
      BY <1>2, <2>1, FS_Subset
    <3>2. A # B
      BY <2>1
    <3> QED
      BY <2>1, <3>1, <3>2, FS_Subset
  <2> QED
    BY <2>2 DEF Rank
<1>5. \A c, d \in X : Rank(X, c) = Rank(X, d) => c = d
  <2> SUFFICES ASSUME NEW c \in X, NEW d \in X, Rank(X, c) = Rank(X, d), c # d PROVE FALSE
    OBVIOUS
  <2>1. c < d \/ d < c
    BY <1>0
  <2> QED
    BY <1>4, <2>1
<1> QED
  BY <1>2, <1>3, <1>5

\* A younger cell is last, and moves no other.
LEMMA YoungestLast ==
    ASSUME NEW X \in SUBSET Cells, NEW w \in Cells, \A c \in X : c < w
    PROVE  /\ Cardinality(X \cup {w}) = Cardinality(X) + 1
           /\ Rank(X \cup {w}, w) = Cardinality(X) + 1
           /\ \A c \in X : Rank(X \cup {w}, c) = Rank(X, c)
<1>0. X \in SUBSET Int /\ w \in Int
  BY DEF Cells
<1>1. IsFiniteSet(X) /\ w \notin X
  BY <1>0, OwnRank
<1>2. Cardinality(X \cup {w}) = Cardinality(X) + 1
  BY <1>1, FS_AddElement
<1>3. {d \in X \cup {w} : d <= w} = X \cup {w}
  <2>1. \A d \in X \cup {w} : d <= w
    BY <1>0
  <2> QED
    BY <2>1
<1>4. \A c \in X : {d \in X \cup {w} : d <= c} = {d \in X : d <= c}
  BY <1>0
<1> QED
  BY <1>2, <1>3, <1>4 DEF Rank

\* Of some cells one is the youngest.
LEMMA SomeYoungest ==
    ASSUME NEW X \in SUBSET Cells, X # {}
    PROVE  \E w \in X : \A c \in X \ {w} : c < w
<1> DEFINE S == {MaxCells - c : c \in X}
<1>0. \A c \in X : c \in Int /\ MaxCells - c \in Nat
  BY DrainAssumption DEF Cells
<1>1. S \in SUBSET Nat /\ S # {}
  BY <1>0
<1>2. PICK n \in S : \A m \in S : n <= m
  BY <1>1, LeastNat
<1>3. PICK w \in X : n = MaxCells - w
  BY <1>2
<1>4. ASSUME NEW c \in X \ {w} PROVE c < w
  <2>1. MaxCells - w <= MaxCells - c
    BY <1>2, <1>3
  <2> QED
    BY <1>0, <2>1, DrainAssumption
<1> QED
  BY <1>4

\* Every place is taken.
LEMMA EveryRank ==
    ASSUME NEW X \in SUBSET Cells, NEW i \in 1 .. Cardinality(X)
    PROVE  \E c \in X : Rank(X, c) = i
<1> DEFINE Gap(Y) == \E j \in 1 .. Cardinality(Y) : \A c \in Y : Rank(Y, c) # j
           C == {Y \in SUBSET Cells : Gap(Y)}
<1> SUFFICES ASSUME C # {} PROVE FALSE
  OBVIOUS
<1>1. PICK Y \in C : \A Z \in C : Cardinality(Y) <= Cardinality(Z)
  <2>1. IsFiniteSet(Cells)
    BY DrainAssumption, FS_Interval DEF Cells
  <2>2. C \in SUBSET SUBSET Cells
    OBVIOUS
  <2> HIDE DEF C
  <2> QED
    BY <2>1, <2>2, FewestMembers
<1>2. Y \in SUBSET Cells /\ Gap(Y)
  OBVIOUS
<1>3. Y # {}
  <2>1. Cardinality({}) = 0
    BY FS_EmptySet
  <2> QED
    BY <1>2, <2>1
<1>4. PICK w \in Y : \A c \in Y \ {w} : c < w
  BY <1>2, <1>3, SomeYoungest
<1> DEFINE Z == Y \ {w}
<1>5. Z \in SUBSET Cells /\ w \in Cells /\ Z \cup {w} = Y
  BY <1>2
<1>6. /\ Cardinality(Y) = Cardinality(Z) + 1 /\ Rank(Y, w) = Cardinality(Z) + 1
      /\ \A c \in Z : Rank(Y, c) = Rank(Z, c)
      /\ Cardinality(Z) \in Nat
  <2>1. \A c \in Z : c < w
    BY <1>4
  <2> HIDE DEF Z
  <2>2. /\ Cardinality(Z \cup {w}) = Cardinality(Z) + 1
        /\ Rank(Z \cup {w}, w) = Cardinality(Z) + 1
        /\ \A c \in Z : Rank(Z \cup {w}, c) = Rank(Z, c)
    BY <1>5, <2>1, YoungestLast
  <2>3. Cardinality(Z) \in Nat
    BY <1>5, OwnRank
  <2> QED
    BY <1>5, <2>2, <2>3
<1>7. ~Gap(Z)
  BY <1>1, <1>5, <1>6
<1> HIDE DEF Z
<1>8. PICK j \in 1 .. Cardinality(Y) : \A c \in Y : Rank(Y, c) # j
  BY <1>2
<1>9. j \in 1 .. Cardinality(Z)
  BY <1>6, <1>8
<1>10. PICK c \in Z : Rank(Z, c) = j
  BY <1>7, <1>9
<1> QED
  BY <1>5, <1>6, <1>8, <1>10

\* What is said of the cells in order is said of each at its place.
LEMMA NthIs ==
    ASSUME NEW X \in SUBSET Cells
    PROVE  /\ \A i \in 1 .. Cardinality(X) : Nth(X, i) \in X /\ Rank(X, Nth(X, i)) = i
           /\ \A c \in X : Nth(X, Rank(X, c)) = c
<1>1. \A i \in 1 .. Cardinality(X) : Nth(X, i) \in X /\ Rank(X, Nth(X, i)) = i
  BY EveryRank DEF Nth
<1> QED
  BY <1>1, OwnRank

\* A line is of what is said of its cells.
LEMMA LineSame ==
    ASSUME NEW X \in SUBSET Cells, NEW f, NEW g, \A c \in X : g[c] = f[c]
    PROVE  Line(X, g) = Line(X, f)
BY NthIs DEF Line

\* No cells make no line.
LEMMA LineNone == ASSUME NEW f PROVE Line({}, f) = <<>>
<1>1. Cardinality({}) = 0
  BY FS_EmptySet
<1> QED
  BY <1>1 DEF Line

\* The line of cells among whom the last is the youngest.
LEMMA LineGrows ==
    ASSUME NEW X \in SUBSET Cells, NEW w \in Cells, \A c \in X : c < w,
           NEW V, NEW f, \A c \in X \cup {w} : f[c] \in V
    PROVE  /\ Line(X, f) \in Seq(V) /\ Len(Line(X, f)) = Cardinality(X)
           /\ Line(X \cup {w}, f) = Append(Line(X, f), f[w])
<1> DEFINE Y == X \cup {w}
<1>1. Y \in SUBSET Cells
  OBVIOUS
<1>2. /\ Cardinality(Y) = Cardinality(X) + 1 /\ Rank(Y, w) = Cardinality(X) + 1
      /\ \A c \in X : Rank(Y, c) = Rank(X, c)
      /\ Cardinality(X) \in Nat
  BY YoungestLast, OwnRank
<1> HIDE DEF Y
<1>3. \A i \in 1 .. Cardinality(X) : Nth(X, i) \in X /\ Nth(Y, i) = Nth(X, i)
  <2> SUFFICES ASSUME NEW i \in 1 .. Cardinality(X)
               PROVE  Nth(X, i) \in X /\ Nth(Y, i) = Nth(X, i)
    OBVIOUS
  <2>1. Nth(X, i) \in X /\ Rank(X, Nth(X, i)) = i
    BY NthIs
  <2>2. Nth(X, i) \in Y /\ Rank(Y, Nth(X, i)) = i
    BY <1>2, <2>1 DEF Y
  <2>3. Nth(Y, Rank(Y, Nth(X, i))) = Nth(X, i)
    BY <1>1, <2>2, NthIs
  <2> QED
    BY <2>1, <2>2, <2>3
<1>4. Nth(Y, Cardinality(Y)) = w
  <2>1. w \in Y
    BY DEF Y
  <2> QED
    BY <1>1, <1>2, <2>1, NthIs
<1>5. Line(X, f) \in Seq(V) /\ Len(Line(X, f)) = Cardinality(X)
  BY <1>2, <1>3 DEF Line
<1>6. Line(Y, f) \in Seq(V) /\ Len(Line(Y, f)) = Cardinality(Y)
  <2>1. \A i \in 1 .. Cardinality(Y) : Nth(Y, i) \in X \cup {w}
    BY <1>1, NthIs DEF Y
  <2> QED
    BY <1>2, <2>1 DEF Line
<1>7. Append(Line(X, f), f[w]) \in Seq(V) /\ Len(Append(Line(X, f), f[w])) = Cardinality(Y)
  BY <1>2, <1>5
<1>8. ASSUME NEW i \in 1 .. Cardinality(Y) PROVE Line(Y, f)[i] = Append(Line(X, f), f[w])[i]
  <2>1. CASE i = Cardinality(Y)
    <3>1. Line(Y, f)[i] = f[w]
      BY <1>2, <1>4, <2>1 DEF Line
    <3> QED
      BY <1>2, <1>5, <2>1, <3>1
  <2>2. CASE i # Cardinality(Y)
    <3>1. i \in 1 .. Cardinality(X)
      BY <1>2, <2>2
    <3>2. Line(Y, f)[i] = f[Nth(X, i)] /\ Line(X, f)[i] = f[Nth(X, i)]
      BY <1>3, <3>1 DEF Line
    <3> QED
      BY <1>2, <1>5, <3>1, <3>2
  <2> QED
    BY <2>1, <2>2
<1>9. Line(Y, f) = Append(Line(X, f), f[w])
  BY <1>6, <1>7, <1>8, SeqSame
<1> QED
  BY <1>5, <1>9 DEF Y

\* What the drain shows of its call stack: the waits, the fault in flight, a step of the stack.
Raising == ~Ended /\ \E c \in Resting : rests[c] = "parked" /\ Faulted(c) # {}
TheWaits == [i \in 1 .. Cardinality(Waiting) |->
                [asked |-> Len(run[Waiter(i)]), answered |-> Cardinality(Filled(Waiter(i)))]]
CallsStep == [Calls!Next]_(Calls!vars)

Stays == TheWaits' = TheWaits /\ Raising' = Raising /\ Ended' = Ended
LastWait == TheWaits[Len(TheWaits)]
OuterWaits == SubSeq(TheWaits, 1, Len(TheWaits) - 1)

\* Each step of the stack of calls, said of what the drain shows: none,
LEMMA CallsStays == Stays => CallsStep
BY Zenon DEF Stays, CallsStep, Calls!vars, TheWaits, Raising

\* a call that asks,
LEMMA CallsAsk ==
    ASSUME NEW asks \in Asks, ~Ended, ~Raising, Ended' = Ended, Raising' = Raising,
           TheWaits' = Append(TheWaits, [asked |-> Len(asks), answered |-> 0])
    PROVE  CallsStep
BY Zenon DEF CallsStep, Calls!Next, Calls!Ask, TheWaits, Raising

\* one that answers before others,
LEMMA CallsAnswer ==
    ASSUME ~Ended, ~Raising, Ended' = Ended, Raising' = Raising, TheWaits # <<>>,
           LastWait.answered + 1 < LastWait.asked,
           TheWaits' = Append(OuterWaits, [LastWait EXCEPT !.answered = @ + 1])
    PROVE  CallsStep
BY Zenon DEF CallsStep, Calls!Next, Calls!Answer, Calls!Innermost, Calls!Outer, LastWait,
         OuterWaits, TheWaits, Raising

\* the last to answer,
LEMMA CallsResume ==
    ASSUME ~Ended, ~Raising, Ended' = Ended, Raising' = Raising, TheWaits # <<>>,
           LastWait.answered + 1 = LastWait.asked,
           TheWaits' = OuterWaits
    PROVE  CallsStep
BY Zenon DEF CallsStep, Calls!Next, Calls!Resume, Calls!Innermost, Calls!Outer, LastWait,
         OuterWaits, TheWaits, Raising

\* one that raises,
LEMMA CallsRaise ==
    ASSUME ~Ended, ~Raising, Ended' = Ended, Raising', TheWaits # <<>>,
           TheWaits' = OuterWaits
    PROVE  CallsStep
BY Zenon DEF CallsStep, Calls!Next, Calls!Raise, Calls!Outer, OuterWaits, TheWaits, Raising

\* one handed a fault,
LEMMA CallsHandle ==
    ASSUME Raising, ~Raising', Ended' = Ended, TheWaits' = TheWaits
    PROVE  CallsStep
BY Zenon DEF CallsStep, Calls!Next, Calls!Handle, TheWaits, Raising

\* the outermost ending,
LEMMA CallsEnd ==
    ASSUME ~Ended, ~Raising, Ended', ~Raising', TheWaits = <<>>, TheWaits' = <<>>
    PROVE  CallsStep
BY Zenon DEF CallsStep, Calls!Next, Calls!End, TheWaits, Raising

\* the run abandoned,
LEMMA CallsAbandon ==
    ASSUME ~Ended, Ended', ~Raising', TheWaits' = <<>>
    PROVE  CallsStep
BY Zenon DEF CallsStep, Calls!Next, Calls!Abandon, TheWaits, Raising

\* and the stack begun again.
LEMMA CallsAgain ==
    ASSUME Ended, ~Ended', Raising' = Raising, TheWaits' = TheWaits
    PROVE  CallsStep
<1>1. Ended' = FALSE
  OBVIOUS
<1>2. Calls!Again
  BY <1>1, Zenon DEF Calls!Again, TheWaits, Raising
<1> QED
  BY <1>2, Zenon DEF CallsStep, Calls!Next

-----------------------------------------------------------------------------
\* What a state shows of the stack.

\* What a wait asked for and has been answered.
Counts == [c \in Cells |-> [asked |-> Len(run[c]), answered |-> Cardinality(Filled(c))]]
AWait == [asked : Nat, answered : Nat]

\* The waits are the waiting cells, in the order of birth.
LEMMA WaitsLine == TheWaits = Line(Waiting, Counts)
<1>1. Waiting \in SUBSET Cells
  BY DEF Waiting, Resting
<1>2. \A i \in 1 .. Cardinality(Waiting) : Nth(Waiting, i) \in Cells
  BY <1>1, NthIs
<1>3. \A i : Waiter(i) = Nth(Waiting, i)
  BY DEF Waiter, Nth, Rank
<1>4. \A c \in Cells : Counts[c] = [asked |-> Len(run[c]), answered |-> Cardinality(Filled(c))]
  BY DEF Counts
<1> HIDE DEF Waiting
<1> QED
  BY <1>2, <1>3, <1>4 DEF TheWaits, Line

\* What is counted of a run is a wait.
LEMMA CountsTyped == Typed => \A c \in Cells : Counts[c] \in AWait
<1> SUFFICES ASSUME Typed, NEW c \in Cells PROVE Counts[c] \in AWait
  OBVIOUS
<1>1. Len(run[c]) \in Nat
  BY DEF Typed
<1>2. IsFiniteSet(1 .. Len(run[c])) /\ Filled(c) \in SUBSET (1 .. Len(run[c]))
  BY <1>1, FS_Interval DEF Filled, Slots
<1>3. Cardinality(Filled(c)) \in Nat
  BY <1>2, FS_Subset, FS_CardinalityType
<1> QED
  BY <1>1, <1>3 DEF Counts, AWait

\* A run that is not over has not ended.
LEMMA Running == IInv /\ phase # "over" => ~Ended /\ outcome = "none"
BY DEF IInv, Quiet, Ended

\* A frame waits and no fault has reached it.
LEMMA FrameWaits ==
    ASSUME Typed, NEW a, NEW p, NEW R, Stacked(Table, a, p, R), NEW d \in Frames(Table, a),
           R[d] = run[d]
    PROVE  d \in Cells /\ d \in Resting /\ Waits(d) /\ Faulted(d) = {}
<1>1. IsFrame(Table, d, Below(Frames(Table, a), d), R) /\ d \in Cells /\ d \in Resting
  BY TableFields DEF Stacked, Frames, Standing, Resting
<1>2. PICK s \in DOMAIN run[d] : AnswersAt(run[d], s)
  BY <1>1 DEF IsFrame
<1>3. DOMAIN run[d] = Slots(d)
  BY <1>1 DEF Typed, Slots
<1>4. s \in Slots(d) /\ s \notin Filled(d)
  <2>1. ~(s < s)
    BY <1>2, <1>3 DEF Slots
  <2> QED
    BY <1>2, <1>3, <2>1 DEF AnswersAt, Filled
<1>5. Faulted(d) = {}
  BY <1>2, <1>3 DEF AnswersAt, Faulted
<1> QED
  BY <1>1, <1>4, <1>5, TableFields DEF Waits, IsFrame

\* While a step runs, the frames wait.
StepView(W) ==
    /\ W \in SUBSET Cells /\ Here \in Cells /\ \A c \in W : c < Here
    /\ W = Resting /\ W = Waiting /\ Stacked(Table, Here, prov[Here], run)
    /\ \A c \in W : Waits(c) /\ Faulted(c) = {} /\ rests[c] = "parked"
    /\ ~Raising /\ ~Ended

\* That is what a step sees.
LEMMA AtStepView == IInv /\ phase = "step" => StepView(Frames(Table, Here))
<1> SUFFICES ASSUME IInv, phase = "step" PROVE StepView(Frames(Table, Here))
  OBVIOUS
<1> DEFINE W == Frames(Table, Here)
<1>1. Here \in Cells /\ rests[Here] = "none" /\ Stacked(Table, Here, prov[Here], run)
  BY StepFacts DEF Shape
<1>2. \A c \in W : c < Here
  <2>1. Here # NoCell
    BY <1>1 DEF Cells, NoCell
  <2> QED
    BY <1>1, <2>1 DEF Stacked, Acts
<1>3. \A c \in W : c \in Cells /\ c \in Resting /\ Waits(c) /\ Faulted(c) = {}
  BY <1>1, FrameWaits DEF IInv
<1>4. W = Resting
  BY <1>1, TableFields DEF Frames, Standing, Resting
<1>5. ~Ended
  BY Running
<1>6. W = Waiting
  BY <1>3, <1>4, <1>5 DEF Waiting
<1>7. \A c \in W : rests[c] = "parked"
  BY <1>3 DEF Waits
<1>8. ~Raising
  BY <1>3, <1>4 DEF Raising
<1> QED
  BY <1>1, <1>2, <1>3, <1>4, <1>5, <1>6, <1>7, <1>8 DEF StepView

\* So many numbers from one.
LEMMA UpTo == ASSUME NEW n \in Nat PROVE Cardinality(1 .. n) = n
<1>1. Cardinality(1 .. n) = IF 1 > n THEN 0 ELSE n - 1 + 1
  BY FS_Interval
<1> QED
  BY <1>1

\* Work reports to the cell P, at the slot s, and the cells of W wait below.
Innermost(P, s, W) ==
    P = prov[Here].parent /\ s = prov[Here].slot /\ s # 0 /\ W = Waiting \ {P}

\* That cell's wait is then the innermost, answered up to the slot.
LEMMA TopWait ==
    ASSUME IInv, phase = "step", NEW P, NEW s, NEW W, Innermost(P, s, W)
    PROVE  /\ P \in Cells /\ W \in SUBSET Cells /\ W \cup {P} = Waiting
           /\ \A c \in W : c < P
           /\ TheWaits # <<>> /\ OuterWaits = Line(W, Counts) /\ LastWait = Counts[P]
           /\ s \in 1 .. Len(run[P]) /\ Len(run[P]) \in Nat
           /\ \A i \in 1 .. Len(run[P]) : run[P][i].is = IF i < s THEN "value" ELSE "empty"
           /\ Counts[P] = [asked |-> Len(run[P]), answered |-> s - 1]
<1> USE DEF Innermost
<1> DEFINE F == Frames(Table, Here)
<1>1. StepView(F) /\ Typed /\ Table \in Tables
  BY AtStepView DEF IInv, Typed
<1>2. Stacked(Table, Here, prov[Here], run) /\ Waiting = F
  BY <1>1 DEF StepView
<1>3. P \in F /\ F \in SUBSET Cells /\ (\A c \in F : c <= P) /\ AnswersAt(run[P], s)
  BY <1>1, <1>2, TopFrame
<1> HIDE DEF F
<1>4. P \in Cells /\ W \in SUBSET Cells /\ W \cup {P} = Waiting
  BY <1>2, <1>3
<1>5. \A c \in W : c < P
  <2>1. \A c \in F : c \in Int
    BY <1>3 DEF Cells
  <2> QED
    BY <1>2, <1>3, <2>1
<1>6. /\ Line(W, Counts) \in Seq(AWait)
      /\ Line(W \cup {P}, Counts) = Append(Line(W, Counts), Counts[P])
  <2>1. \A c \in W \cup {P} : Counts[c] \in AWait
    BY <1>1, <1>4, CountsTyped
  <2> QED
    BY ONLY <1>4, <1>5, <2>1, LineGrows, Zenon
<1>7. TheWaits = Append(Line(W, Counts), Counts[P])
  BY <1>4, <1>6, WaitsLine
<1>8. TheWaits # <<>> /\ OuterWaits = Line(W, Counts) /\ LastWait = Counts[P]
  <2> DEFINE L == Line(W, Counts)
             k == Counts[P]
  <2>1. L \in Seq(AWait) /\ k \in AWait
    BY <1>1, <1>4, <1>6, CountsTyped
  <2> HIDE DEF L, k
  <2>2. /\ Append(L, k) # <<>> /\ Len(Append(L, k)) = Len(L) + 1
        /\ Append(L, k)[Len(L) + 1] = k /\ SubSeq(Append(L, k), 1, Len(L)) = L
    BY <2>1
  <2>3. Len(L) + 1 - 1 = Len(L)
    BY <2>1
  <2> QED
    BY <1>7, <2>2, <2>3 DEF OuterWaits, LastWait, L, k
<1>9. run[P] \in Seq(Fills) /\ DOMAIN run[P] = 1 .. Len(run[P]) /\ Len(run[P]) \in Nat
  BY <1>1, <1>4 DEF Typed
<1>10. /\ s \in 1 .. Len(run[P])
       /\ \A i \in 1 .. Len(run[P]) : run[P][i].is = IF i < s THEN "value" ELSE "empty"
  BY <1>3, <1>9 DEF AnswersAt
<1>11. Cardinality(Filled(P)) = s - 1
  <2>1. Filled(P) = 1 .. s - 1
    BY <1>9, <1>10 DEF Filled, Slots
  <2>2. Cardinality(1 .. s - 1) = s - 1
    <3>1. s - 1 \in Nat
      BY <1>9, <1>10
    <3> QED
      BY <3>1, UpTo
  <2> QED
    BY <2>1, <2>2
<1>12. Counts[P] = [asked |-> Len(run[P]), answered |-> s - 1]
  BY <1>4, <1>11 DEF Counts
<1> QED
  BY <1>4, <1>5, <1>8, <1>9, <1>10, <1>12

-----------------------------------------------------------------------------
\* What a step does to the stack.

\* After a step too the waits are the waiting cells in order.
LEMMA WaitsLineNext == TheWaits' = Line(Waiting', Counts')
<1>1. (TheWaits = Line(Waiting, Counts))'
  BY WaitsLine, PTL
<1> QED
  BY <1>1

\* A cell whose run is left alone counts as it did.
LEMMA SameRun ==
    ASSUME NEW c \in Cells, run'[c] = run[c]
    PROVE  /\ Slots(c)' = Slots(c) /\ Filled(c)' = Filled(c) /\ Faulted(c)' = Faulted(c)
           /\ Counts'[c] = Counts[c]
<1>1. Slots(c)' = Slots(c) /\ Filled(c)' = Filled(c) /\ Faulted(c)' = Faulted(c)
  BY DEF Slots, Filled, Faulted
<1> QED
  BY <1>1 DEF Counts

\* Nothing that waits is touched.
LEMMA StackStays ==
    ASSUME \A c \in Waiting : run'[c] = run[c], Waiting' = Waiting, Raising' = Raising,
           Ended' = Ended
    PROVE  CallsStep
<1>1. Waiting \in SUBSET Cells
  BY DEF Waiting, Resting
<1>2. \A c \in Waiting : Counts'[c] = Counts[c]
  BY <1>1, SameRun
<1>3. Line(Waiting', Counts') = Line(Waiting, Counts)
  <2> HIDE DEF Waiting
  <2> QED
    BY <1>1, <1>2, LineSame
<1>4. TheWaits' = TheWaits
  BY <1>3, WaitsLine, WaitsLineNext
<1> QED
  BY <1>4, CallsStays DEF Stays

\* An end filed in the slot being answered, and in no other.
LEMMA OneFiled ==
    ASSUME IInv, phase = "step", NEW P, NEW s, NEW W, Innermost(P, s, W),
           NEW f \in Fills, f.is # "empty", Deliver(prov[Here], f),
           UNCHANGED <<life, rests, lost>>, ~Ended'
    PROVE  /\ Resting' = Resting /\ P \in Resting /\ rests'[P] = "parked"
           /\ \A c \in Resting \ {P} : Faulted(c)' = {}
           /\ Faulted(P)' = IF f.is = "fault" THEN {s} ELSE {}
           /\ Waiting' = IF f.is # "fault" /\ s < Len(run[P]) THEN Waiting ELSE W
           /\ Line(W, Counts') = Line(W, Counts)
           /\ Counts'[P] = [asked |-> Len(run[P]), answered |-> s]
<1>1. /\ P \in Cells /\ W \in SUBSET Cells /\ W \cup {P} = Waiting
      /\ s \in 1 .. Len(run[P]) /\ Len(run[P]) \in Nat
      /\ \A i \in 1 .. Len(run[P]) : run[P][i].is = IF i < s THEN "value" ELSE "empty"
  BY TopWait
<1> PICK p : p = prov[Here]
  OBVIOUS
<1>0. P = p.parent /\ s = p.slot /\ s # 0 /\ Deliver(p, f) /\ P \notin W
  BY DEF Innermost
<1>2. /\ Waiting = Resting
      /\ \A c \in Waiting : Waits(c) /\ Faulted(c) = {} /\ rests[c] = "parked"
  BY AtStepView DEF StepView
<1>3. /\ run' \in [Cells -> Seq(Fills)]
      /\ \A c \in Cells \ {P} : run'[c] = run[c]
      /\ DOMAIN run'[P] = DOMAIN run[P]
      /\ run'[P][s] = f
      /\ \A i \in DOMAIN run[P] : i # s => run'[P][i] = run[P][i]
  BY <1>0, Delivered
<1>4. run \in [Cells -> Seq(Fills)]
  BY DEF IInv, Typed
<1>5. Len(run'[P]) = Len(run[P]) /\ DOMAIN run[P] = 1 .. Len(run[P])
  <2>1. run[P] \in Seq(Fills) /\ run'[P] \in Seq(Fills)
    BY <1>1, <1>3, <1>4
  <2> QED
    BY <1>3, <2>1
<1>6. \A i \in 1 .. Len(run[P]) :
         run'[P][i].is = IF i < s THEN "value" ELSE IF i = s THEN f.is ELSE "empty"
  <2> SUFFICES ASSUME NEW i \in 1 .. Len(run[P])
               PROVE  run'[P][i].is = IF i < s THEN "value" ELSE IF i = s THEN f.is ELSE "empty"
    OBVIOUS
  <2>1. CASE i = s
    <3>1. ~(i < s)
      BY <1>1, <2>1
    <3> QED
      BY <1>3, <2>1, <3>1
  <2>2. CASE i # s
    BY <1>1, <1>3, <1>5, <2>2
  <2> QED
    BY <2>1, <2>2
<1>7. Slots(P)' = 1 .. Len(run[P]) /\ Filled(P)' = 1 .. s
  BY <1>1, <1>5, <1>6 DEF Slots, Filled
<1>8. Faulted(P)' = IF f.is = "fault" THEN {s} ELSE {}
  BY <1>1, <1>5, <1>6 DEF Slots, Faulted
<1>9. \A c \in W : /\ Slots(c)' = Slots(c) /\ Filled(c)' = Filled(c) /\ Faulted(c)' = Faulted(c)
                   /\ Counts'[c] = Counts[c]
  <2>1. \A c \in W : c \in Cells /\ run'[c] = run[c]
    BY <1>0, <1>1, <1>3
  <2> QED
    BY <2>1, SameRun
<1>10. Resting' = Resting
  BY DEF Resting
<1>11. \A c \in W : Waits(c)'
  BY <1>1, <1>2, <1>9 DEF Waits
<1>12. Waits(P)' <=> f.is # "fault" /\ s < Len(run[P])
  <2>1. 1 .. s # 1 .. Len(run[P]) <=> s < Len(run[P])
    <3>1. s < Len(run[P]) => Len(run[P]) \in 1 .. Len(run[P]) /\ Len(run[P]) \notin 1 .. s
      BY <1>1
    <3>2. ~(s < Len(run[P])) => s = Len(run[P])
      BY <1>1
    <3> QED
      BY <3>1, <3>2
  <2>2. rests'[P] = "parked"
    BY <1>1, <1>2
  <2> QED
    BY <1>7, <1>8, <2>1, <2>2 DEF Waits
<1>13. Waiting' = {c \in Resting : Waits(c)'}
  BY <1>10 DEF Waiting
<1>14. Waiting' = IF f.is # "fault" /\ s < Len(run[P]) THEN Waiting ELSE W
  <2> HIDE DEF Waiting, Waits, Resting
  <2> QED
    BY <1>1, <1>2, <1>11, <1>12, <1>13
<1>15. Counts'[P] = [asked |-> Len(run[P]), answered |-> s]
  <2>1. Cardinality(Filled(P)') = s
    BY <1>1, <1>7, UpTo
  <2> QED
    BY <1>1, <1>5, <2>1 DEF Counts
<1>16. Line(W, Counts') = Line(W, Counts)
  BY <1>1, <1>9, LineSame
<1> QED
  BY <1>1, <1>2, <1>8, <1>9, <1>10, <1>14, <1>15, <1>16

\* `finish` answers a call, the last of a wait resuming its asker.
LEMMA FinishCalls == ASSUME IInv, Finish PROVE CallsStep
<1> PICK p, f : p = prov[Here] /\ f = Value(p.home)
  OBVIOUS
<1>0. p.slot # 0 => \E P, s, W : Innermost(P, s, W)
  BY DEF Innermost
<1>1. phase = "step" /\ p.slot # 0 /\ Deliver(prov[Here], f) /\ UNCHANGED <<life, rests, lost>>
  BY DEF Finish, cells, books
<1> PICK P, s, W : Innermost(P, s, W)
  BY <1>0, <1>1
<1>a. phase = "step"
  BY <1>1
<1>2. IsLive(p.home) /\ Deliverable(p) /\ p.home \in Home
  BY <1>1, StepFacts
<1>3. ~Ended'
  BY <1>2 DEF Finish, EndsWith, Ended
<1>4. f \in Fills /\ f.is = "value"
  BY <1>2 DEF Value, Fills
<1>5. /\ TheWaits # <<>> /\ OuterWaits = Line(W, Counts) /\ LastWait = Counts[P]
      /\ s \in 1 .. Len(run[P]) /\ Len(run[P]) \in Nat
      /\ Counts[P] = [asked |-> Len(run[P]), answered |-> s - 1]
      /\ P \in Cells /\ W \in SUBSET Cells /\ W \cup {P} = Waiting /\ \A c \in W : c < P
  BY <1>a, TopWait
<1>6. /\ Resting' = Resting
      /\ \A c \in Resting \ {P} : Faulted(c)' = {}
      /\ Faulted(P)' = {}
      /\ Waiting' = IF s < Len(run[P]) THEN Waiting ELSE W
      /\ Line(W, Counts') = Line(W, Counts)
      /\ Counts'[P] = [asked |-> Len(run[P]), answered |-> s]
  <2>1. f.is # "empty"
    BY <1>4
  <2>2. /\ Resting' = Resting
        /\ \A c \in Resting \ {P} : Faulted(c)' = {}
        /\ Faulted(P)' = IF f.is = "fault" THEN {s} ELSE {}
        /\ Waiting' = IF f.is # "fault" /\ s < Len(run[P]) THEN Waiting ELSE W
        /\ Line(W, Counts') = Line(W, Counts)
        /\ Counts'[P] = [asked |-> Len(run[P]), answered |-> s]
    BY <1>1, <1>3, <1>4, <2>1, OneFiled
  <2> QED
    BY <1>4, <2>2
<1>7. ~Raising /\ ~Ended
  BY <1>1, AtStepView DEF StepView
<1>8. ~Raising'
  BY <1>6 DEF Raising
<1>b. Ended' = Ended /\ Raising' = Raising
  BY <1>3, <1>7, <1>8 DEF Ended, Raising
<1>9. CASE s < Len(run[P])
  <2>1. TheWaits' = Line(W \cup {P}, Counts')
    BY <1>5, <1>6, <1>9, WaitsLineNext
  <2>2. \A c \in W \cup {P} : Counts'[c] \in AWait
    <3>1. Typed'
      BY <1>1, FinishIInv DEF IInv
    <3>2. (Typed => \A c \in Cells : Counts[c] \in AWait)'
      BY CountsTyped, PTL
    <3> QED
      BY <1>5, <3>1, <3>2
  <2>3. Line(W \cup {P}, Counts') = Append(Line(W, Counts'), Counts'[P])
    BY ONLY <1>5, <2>2, LineGrows, Zenon
  <2>4. TheWaits' = Append(OuterWaits, Counts'[P])
    BY <1>5, <1>6, <2>1, <2>3
  <2>5. [LastWait EXCEPT !.answered = @ + 1] = Counts'[P]
    BY <1>5, <1>6
  <2>6. LastWait.answered + 1 < LastWait.asked
    BY <1>5, <1>9
  <2> QED
    BY <1>5, <1>7, <1>b, <2>4, <2>5, <2>6, CallsAnswer
<1>10. CASE ~(s < Len(run[P]))
  <2>1. TheWaits' = OuterWaits
    BY <1>5, <1>6, <1>10, WaitsLineNext
  <2>2. LastWait.answered + 1 = LastWait.asked
    BY <1>5, <1>10
  <2> QED
    BY <1>5, <1>7, <1>b, <2>1, <2>2, CallsResume
<1> QED
  BY <1>9, <1>10

\* `fault` ends the wait it is filed in.
LEMMA RaiseCalls == ASSUME IInv, Raise PROVE CallsStep
<1> PICK p, f : p = prov[Here] /\ f = FaultFill(Here)
  OBVIOUS
<1>0. p.slot # 0 => \E P, s, W : Innermost(P, s, W)
  BY DEF Innermost
<1>1. phase = "step" /\ p.slot # 0 /\ Deliver(prov[Here], f) /\ UNCHANGED <<life, rests, lost>>
  BY DEF Raise, cells, books
<1> PICK P, s, W : Innermost(P, s, W)
  BY <1>0, <1>1
<1>a. phase = "step"
  BY <1>1
<1>2. Deliverable(p) /\ Here \in Cells
  BY <1>1, StepFacts
<1>3. ~Ended'
  BY <1>2 DEF Raise, EndsWith, Ended
<1>4. f \in Fills /\ f.is = "fault"
  BY <1>2 DEF FaultFill, Fault, Fills, IInv, Typed, Turn, Cell
<1>5. TheWaits # <<>> /\ OuterWaits = Line(W, Counts)
  BY <1>a, TopWait
<1>6. /\ Resting' = Resting /\ P \in Resting /\ rests'[P] = "parked" /\ Faulted(P)' = {s}
      /\ Waiting' = W /\ Line(W, Counts') = Line(W, Counts)
  <2>1. f.is # "empty"
    BY <1>4
  <2>2. /\ Resting' = Resting /\ P \in Resting /\ rests'[P] = "parked"
        /\ Faulted(P)' = IF f.is = "fault" THEN {s} ELSE {}
        /\ Waiting' = IF f.is # "fault" /\ s < Len(run[P]) THEN Waiting ELSE W
        /\ Line(W, Counts') = Line(W, Counts)
    BY <1>1, <1>3, <1>4, <2>1, OneFiled, ZenonT(60)
  <2> QED
    BY <1>4, <2>2
<1>7. ~Raising /\ ~Ended
  BY <1>1, AtStepView DEF StepView
<1>8. Raising'
  <2> HIDE DEF Resting
  <2>1. Faulted(P)' # {}
    BY <1>6
  <2> QED
    BY <1>3, <1>6, <2>1 DEF Raising
<1>9. TheWaits' = OuterWaits
  BY <1>5, <1>6, WaitsLineNext
<1>b. Ended' = Ended
  BY <1>3, <1>7 DEF Ended
<1> QED
  BY <1>5, <1>7, <1>8, <1>9, <1>b, CallsRaise

\* Once a run has ended nobody waits.
LEMMA EndedEmpty == Ended => TheWaits = <<>> /\ ~Raising
<1> SUFFICES ASSUME Ended PROVE TheWaits = <<>> /\ ~Raising
  OBVIOUS
<1>1. Waiting = {}
  BY DEF Waiting
<1> QED
  BY <1>1, WaitsLine, LineNone DEF Raising

\* After a step too.
LEMMA EndedEmptyNext == Ended' => TheWaits' = <<>> /\ ~Raising'
<1>1. (Ended => TheWaits = <<>> /\ ~Raising)'
  BY EndedEmpty, PTL
<1> QED
  BY <1>1

\* What rests is what rested, and its runs are as they were.
LEMMA RestingStays ==
    ASSUME Resting' = Resting, UNCHANGED <<run, rests>>, Ended' = Ended
    PROVE  CallsStep
<1>1. \A c : Waits(c)' <=> Waits(c)
  BY DEF Waits, Filled, Slots, Faulted
<1>2. \A c : Faulted(c)' = Faulted(c)
  BY DEF Faulted, Slots
<1>3. Waiting' = Waiting
  <2> HIDE DEF Resting, Waits
  <2> QED
    BY <1>1 DEF Waiting
<1>4. Raising' = Raising
  <2> HIDE DEF Resting
  <2> QED
    BY <1>2 DEF Raising
<1> QED
  BY <1>3, <1>4, StackStays

\* `park` opens a wait of the running call's own.
LEMMA ParkCalls == ASSUME IInv, NEW asks \in Asks, Park(asks) PROVE CallsStep
<1> PICK X, h, n : X = Waiting /\ h = Here /\ n = Len(asks)
  OBVIOUS
<1>1. phase = "step" /\ Filled(h) = {} /\ IInv'
  <2>1. phase = "step"
    BY DEF Park
  <2> QED
    BY <2>1, StepFacts, ParkIInv
<1>2. /\ run' = [run EXCEPT ![h] = [s \in 1 .. n |-> Empty]]
      /\ rests' = [rests EXCEPT ![h] = "parked"]
      /\ UNCHANGED <<life, lost>>
      /\ outcome' = "none"
  BY <1>1 DEF Park, EndsWith, books
<1>3. /\ X \in SUBSET Cells /\ h \in Cells /\ (\A c \in X : c < h)
      /\ X = Resting /\ Stacked(Table, Here, prov[Here], run)
      /\ \A c \in X : Waits(c) /\ Faulted(c) = {}
      /\ ~Raising /\ ~Ended
  BY <1>1, AtStepView DEF StepView
<1>4. n \in Nat \ {0}
  BY DrainAssumption
<1>5. run \in [Cells -> Seq(Fills)] /\ rests \in [Cells -> {"none", "birth", "parked", "beside"}]
  BY TableTyped DEF IInv, Typed
<1>6. life[h] = "live" /\ h \notin lost
  <2>1. h # NoCell
    BY <1>3 DEF Cells, NoCell
  <2>2. Standing(Table, h)
    BY <1>3, <2>1 DEF Stacked, Acts
  <2> QED
    BY <2>2, TableFields DEF Standing
<1>7. \A c \in X : c \in Cells /\ c # h
  BY <1>3 DEF Cells
<1>8. \A c \in X : run'[c] = run[c] /\ rests'[c] = rests[c]
  BY <1>2, <1>5, <1>7
<1>9. \A c \in X : /\ Slots(c)' = Slots(c) /\ Filled(c)' = Filled(c) /\ Faulted(c)' = Faulted(c)
                   /\ Counts'[c] = Counts[c]
  BY <1>7, <1>8, SameRun
<1>10. \A c \in X : Waits(c)' /\ Faulted(c)' = {}
  BY <1>3, <1>8, <1>9 DEF Waits
<1>11. run'[h] = [s \in 1 .. n |-> Empty] /\ rests'[h] = "parked"
  BY <1>2, <1>3, <1>5
<1>12. Slots(h)' = 1 .. n /\ Filled(h)' = {} /\ Faulted(h)' = {} /\ Len(run'[h]) = n
  BY <1>4, <1>11 DEF Slots, Filled, Faulted, Empty
<1>13. Waits(h)'
  <2>1. 1 \in 1 .. n
    BY <1>4
  <2> QED
    BY <1>11, <1>12, <2>1 DEF Waits
<1>14. Resting' = X \cup {h}
  <2>1. \A c \in Cells \ {h} : rests'[c] = rests[c]
    BY <1>2, <1>5
  <2> QED
    BY <1>2, <1>3, <1>6, <1>11, <2>1 DEF Resting
<1>15. ~Ended'
  BY <1>2 DEF Ended
<1>16. Waiting' = X \cup {h}
  <2> HIDE DEF Resting, Waits
  <2> QED
    BY <1>10, <1>13, <1>14, <1>15 DEF Waiting
<1>17. ~Raising'
  <2> HIDE DEF Resting
  <2> QED
    BY <1>10, <1>12, <1>14 DEF Raising
<1>18. Counts'[h] = [asked |-> n, answered |-> 0]
  BY <1>3, <1>12, FS_EmptySet DEF Counts
<1>19. \A c \in X \cup {h} : Counts'[c] \in AWait
  <2>1. Typed'
    BY <1>1 DEF IInv
  <2>2. (Typed => \A c \in Cells : Counts[c] \in AWait)'
    BY CountsTyped, PTL
  <2> QED
    BY <1>3, <2>1, <2>2
<1>20. Line(X \cup {h}, Counts') = Append(Line(X, Counts'), Counts'[h])
  BY ONLY <1>3, <1>19, LineGrows, Zenon
<1>21. Line(X, Counts') = Line(X, Counts)
  BY <1>3, <1>9, LineSame
<1>22. TheWaits' = Append(TheWaits, [asked |-> Len(asks), answered |-> 0])
  BY <1>16, <1>18, <1>20, <1>21, WaitsLine, WaitsLineNext
<1>23. Ended' = Ended
  BY <1>3, <1>15 DEF Ended
<1>24. Raising' = Raising
  BY <1>3, <1>17 DEF Raising
<1> QED
  BY <1>3, <1>22, <1>23, <1>24, CallsAsk

\* A read beside waits for nothing.
LEMMA ReadBesideCalls == ASSUME IInv, ReadBeside PROVE CallsStep
<1> PICK h : h = Here
  OBVIOUS
<1>1. phase = "step" /\ UNCHANGED <<life, lost, run>> /\ outcome' = "none"
      /\ rests' = [rests EXCEPT ![h] = "beside"]
  BY DEF ReadBeside, EndsWith, books
<1>2. /\ h \in Cells /\ Waiting = Resting /\ (\A c \in Resting : c < h)
      /\ \A c \in Resting : Waits(c) /\ Faulted(c) = {}
      /\ ~Raising /\ ~Ended
  BY <1>1, AtStepView DEF StepView
<1>3. rests \in [Cells -> {"none", "birth", "parked", "beside"}]
  BY TableTyped DEF IInv, Typed
<1>4. rests'[h] = "beside" /\ \A c \in Cells \ {h} : rests'[c] = rests[c]
  BY <1>1, <1>2, <1>3
<1>5. h \notin Resting
  BY <1>2 DEF Cells
<1>6. \A c : Filled(c)' = Filled(c) /\ Slots(c)' = Slots(c) /\ Faulted(c)' = Faulted(c)
  BY <1>1 DEF Filled, Slots, Faulted
<1>7. Resting' \ {h} = Resting
  BY <1>1, <1>4, <1>5 DEF Resting
<1>8. ~Waits(h)'
  BY <1>4 DEF Waits
<1>9. \A c \in Resting : Waits(c)'
  <2>1. \A c \in Resting : rests'[c] = rests[c]
    BY <1>4, <1>5 DEF Resting
  <2> HIDE DEF Resting
  <2> QED
    BY <1>2, <1>6, <2>1 DEF Waits
<1>10. Ended' = Ended /\ ~Ended'
  BY <1>1, <1>2 DEF Ended
<1> HIDE DEF Resting
<1>11. Waiting' = Waiting
  BY <1>2, <1>7, <1>8, <1>9, <1>10 DEF Waiting
<1>12. ~Raising'
  BY <1>2, <1>4, <1>6, <1>7 DEF Raising
<1>13. Raising' = Raising
  BY <1>2, <1>12 DEF Raising
<1> QED
  BY <1>1, <1>10, <1>11, <1>13, StackStays

\* A tail, a rebirth and the root work's leave answer nobody.
LEMMA LeavesCalls ==
    ASSUME IInv, Leave \/ Done \/ Rebirth \/ \E threads \in BOOLEAN : Hop(threads)
    PROVE  CallsStep
<1>1. phase = "step"
  BY DEF Leave, Done, Rebirth, Hop
<1>2. UNCHANGED <<life, rests, lost, run>> /\ outcome' = "none"
  <2>1. CASE Leave
    BY <1>1, <2>1, StepFacts DEF Leave, EndsWith, cells, books
  <2>2. CASE Done
    BY <2>2 DEF Done, EndsWith, cells, books
  <2>3. CASE Rebirth
    BY <2>3 DEF Rebirth, EndsWith, cells, books
  <2>4. CASE \E threads \in BOOLEAN : Hop(threads)
    BY <2>4 DEF Hop, EndsWith, cells, books
  <2> QED
    BY <2>1, <2>2, <2>3, <2>4
<1>3. Ended' = Ended
  BY <1>1, <1>2, Running DEF Ended
<1>4. Resting' = Resting
  BY <1>2 DEF Resting
<1> QED
  BY <1>2, <1>3, <1>4, RestingStays

\* `failed` abandons the run.
LEMMA FailCalls == ASSUME IInv, Fail PROVE CallsStep
<1>1. phase = "step" /\ outcome' = "failed"
  BY DEF Fail, EndsWith
<1>2. ~Ended /\ Ended'
  BY <1>1, Running DEF Ended
<1> QED
  BY <1>2, EndedEmptyNext, CallsAbandon

\* The host's drop is of a run that has ended.
LEMMA DropCalls == ASSUME IInv, Drop PROVE CallsStep
<1>1. Ended /\ IInv' /\ phase' = "over"
  BY DropIInv DEF Drop, Ended
<1>2. Ended'
  BY <1>1 DEF IInv, AtOver, Ended
<1>3. Ended' = Ended /\ Raising' = Raising
  BY <1>1, <1>2, EndedEmpty, EndedEmptyNext DEF Ended, Raising
<1> QED
  BY <1>1, <1>2, <1>3, EndedEmpty, EndedEmptyNext, CallsStays DEF Stays

\* A root work run again starts from an empty stack.
LEMMA RerunCalls == ASSUME IInv, NEW place \in {"Fresh", "Shares"}, Rerun(place) PROVE CallsStep
<1> DEFINE n == NextCell
<1>1. /\ Ended /\ ~Ended' /\ lost' = lost \cup {c \in Cells : life[c] = "live"}
      /\ life' = [life EXCEPT ![n] = "live"] /\ rests' = [rests EXCEPT ![n] = "birth"]
  BY DEF Rerun, BornAt, Ended
<1>2. life \in [Cells -> {"free", "live", "dead"}]
      /\ rests \in [Cells -> {"none", "birth", "parked", "beside"}]
  BY TableTyped DEF IInv, Typed
<1> HIDE DEF n
<1>3. \A c \in Resting' : rests'[c] = "birth"
  <2>1. \A c \in Cells : c # n => life'[c] = life[c]
    BY <1>1, <1>2
  <2>2. \A c \in Resting' : c \in Cells /\ c = n
    BY <1>1, <2>1 DEF Resting
  <2> QED
    BY <1>1, <1>2, <2>2
<1>4. Waiting' = {} /\ ~Raising'
  BY <1>3 DEF Waiting, Waits, Raising
<1>5. TheWaits' = <<>>
  BY <1>4, WaitsLineNext, LineNone
<1>6. TheWaits = <<>> /\ ~Raising
  BY <1>1, EndedEmpty
<1>7. Raising' = Raising
  BY <1>4, <1>6 DEF Raising
<1> QED
  BY <1>1, <1>5, <1>6, <1>7, CallsAgain

\* Nothing that waits or is about to run is released by a settling.
LEMMA RestingHeld == ASSUME IInv, phase = "settle" PROVE Resting \cap Range(Released) = {}
<1> PICK h : h = Here
  OBVIOUS
<1> PICK p : p = prov[Here]
  OBVIOUS
<1>1. Typed /\ Table \in Tables /\ Here \in Cells /\ NoCell \notin Cells
  BY SettleFacts, DrainAssumption DEF IInv, Typed, Cells, NoCell
<1>2. Finishes(p) \/ Faults(p) \/ Parks \/ ReadsBeside \/ Leaves(p)
  BY DEF IInv, AtSettle
<1>3. \E R : InTurn(R)
  BY <1>2 DEF Finishes, Faults, Parks, ReadsBeside, Leaves
<1>4. PICK R : Shape(Table, h, p, ready, R, turn.after, turn.old, turn.beside, turn.owes)
  BY <1>3 DEF InTurn
<1>5. \E D \in SUBSET {h, p.loop} : Owned(D) /\ (rests[h] = "none" \/ D = {})
  <2>1. Loop = p.loop
    BY DEF Loop
  <2>2. CASE Finishes(p)
    BY <2>1, <2>2 DEF Finishes, Owned, OwnEnd
  <2>3. CASE Faults(p)
    BY <2>1, <2>3 DEF Faults, Owned, OwnEnd
  <2>4. CASE Parks \/ ReadsBeside
    BY <2>4 DEF Parks, ReadsBeside, Owned, OwnEnd
  <2>5. CASE Leaves(p)
    <3>1. ended.is \in {"hop", "rebirth"} => Owned({})
      BY DEF Owned, OwnEnd
    <3>2. ended.is = "left" => Owned({h})
      BY DEF Owned, OwnEnd
    <3>3. ended.is = "done" => Owned({h, p.loop})
      BY <2>1 DEF Owned, OwnEnd
    <3> HIDE DEF Owned
    <3> QED
      BY <2>5, <3>1, <3>2, <3>3 DEF Leaves
  <2> QED
    BY <1>2, <2>2, <2>3, <2>4, <2>5
<1>6. PICK D \in SUBSET {h, p.loop} : Owned(D) /\ (rests[h] = "none" \/ D = {})
  BY <1>5
<1>7. Range(Released) = {turn.after, turn.old, turn.beside} \cup D
  BY <1>1, <1>4, <1>6, Releases
<1>8. /\ Stacked(Table, h, p, R) /\ Looped(Table, h, p, turn.old)
      /\ Keeps(Table, h, p, turn.after, turn.old, turn.beside, turn.owes)
  BY <1>4 DEF Shape
<1> SUFFICES ASSUME NEW c \in Resting PROVE c \notin Range(Released)
  OBVIOUS
<1>9. c \in Cells /\ c \notin lost /\ life[c] = "live" /\ rests[c] # "none"
  BY DEF Resting
<1>10. c # turn.after /\ c # turn.beside
  BY <1>1, <1>8, <1>9, TableFields DEF Keeps, IsBefore, IsBeside
<1>11. c = h \/ c \in Frames(Table, h)
  BY <1>9, TableFields DEF Frames, Standing
<1>12. c \in held
  <2>1. CASE c = h
    BY <1>1, <1>8, <2>1, TableFields DEF Stacked, Acts
  <2>2. CASE c \in Frames(Table, h)
    <3>1. c \in Table.held
      BY <1>1, <1>8, <2>2, FrameFacts
    <3> QED
      BY <3>1, TableFields
  <2> QED
    BY <1>11, <2>1, <2>2
<1>13. c # turn.old /\ c # p.loop
  <2>1. turn.old # NoCell => turn.old \notin held
    BY <1>8, TableFields DEF Looped, IsLoop
  <2>2. p.loop # NoCell => p.loop \notin held
    BY <1>8, TableFields DEF Stacked, StandsOn, IsLoop
  <2> QED
    BY <1>1, <1>9, <1>12, <2>1, <2>2
<1> QED
  BY <1>6, <1>7, <1>9, <1>10, <1>13

\* A settling moves nothing that rests, and leaves the stack of calls as the step left it.
LEMMA SettledCalls ==
    ASSUME IInv, phase = "settle", IInv', phase' = "pop", UNCHANGED <<run, rests, lost>>,
           \A c \in Cells \ {NextCell} :
              life'[c] = IF c \in Range(Released) THEN "dead" ELSE life[c]
    PROVE  CallsStep
<1>1. Ended' = Ended
  BY DEF IInv, Quiet, Ended
<1>2. NextCell \in Cells => rests[NextCell] = "none"
  <2>1. Births \in Nat
    BY SettleFacts
  <2> QED
    BY <2>1 DEF IInv, BornInOrder, NextCell
<1>3. Resting' = Resting
  <2>1. ASSUME NEW c \in Cells PROVE c \in Resting' <=> c \in Resting
    <3>1. CASE c = NextCell
      BY <1>2, <3>1 DEF Resting
    <3>2. CASE c # NextCell /\ c \in Range(Released)
      <4>1. life'[c] = "dead" /\ c \notin Resting
        BY <3>2, RestingHeld
      <4> QED
        BY <4>1 DEF Resting
    <3>3. CASE c # NextCell /\ c \notin Range(Released)
      BY <3>3 DEF Resting
    <3> QED
      BY <3>1, <3>2, <3>3
  <2>2. Resting' \subseteq Cells /\ Resting \subseteq Cells
    BY DEF Resting
  <2> HIDE DEF Resting
  <2> QED
    BY <2>1, <2>2
<1> QED
  BY <1>1, <1>3, RestingStays

\* The root work's end ends the outermost call.
LEMMA SettleLeaveCalls == ASSUME IInv, IInv', SettleLeave PROVE CallsStep
<1> PICK h : h = Here
  OBVIOUS
<1> PICK p : p = prov[Here]
  OBVIOUS
<1>1. phase = "settle" /\ phase' = "over" /\ ended.is \in {"left", "done"}
  BY DEF SettleLeave
<1>2. /\ Typed /\ rests[h] = "none" /\ p.slot = 0
      /\ Shape(Table, h, p, ready, run, turn.after, turn.old, turn.beside, turn.owes)
  <2>1. Leaves(p)
    BY <1>1 DEF IInv, AtSettle, Finishes, Faults, Parks, ReadsBeside, Leaves
  <2> QED
    BY <1>1, <2>1 DEF Leaves, InTurn, IInv
<1>3. Frames(Table, h) = {}
  <2>1. Reports(p, Frames(Table, h), run)
    BY <1>2 DEF Shape, Stacked, StandsOn
  <2>2. ASSUME p.parent \in Frames(Table, h), AnswersAt(run[p.parent], p.slot) PROVE FALSE
    <3>1. run[p.parent] \in Seq(Fills)
      BY <1>2, <2>2 DEF Typed, Frames
    <3> QED
      BY <1>2, <2>2, <3>1 DEF AnswersAt
  <2> QED
    BY <2>1, <2>2 DEF Reports
<1>4. Resting = {}
  BY <1>2, <1>3, TableFields DEF Resting, Frames, Standing
<1>5. Waiting = {} /\ ~Raising
  BY <1>4 DEF Waiting, Raising
<1>6. TheWaits = <<>>
  BY <1>5, WaitsLine, LineNone
<1>7. ~Ended /\ Ended'
  BY <1>1, Running DEF IInv, AtOver, Ended
<1> QED
  BY <1>5, <1>6, <1>7, EndedEmptyNext, CallsEnd

\* No settling but the root work's moves the stack of calls.
LEMMA SettleCalls == ASSUME IInv, IInv', Settle PROVE CallsStep
<1>1. phase = "settle"
  BY DEF Settle, SettleFinish, SettleFault, SettlePark, SettleBeside, SettleRebirth, SettleLeave,
         SettleHop, Settled, Settling
<1>2. ASSUME NEW stack, NEW refusal, Settling(stack, refusal),
             refusal \in {"none", "Unreleasable", "Unspawnable"}
      PROVE  phase' = "pop" /\ UNCHANGED <<run, lost>>
  <2>1. outcome' \in {"none", "Unreleasable", "Unspawnable"} /\ phase' \in {"pop", "over"}
        /\ UNCHANGED <<run, lost>>
    BY <1>2 DEF Settling, books
  <2> QED
    BY <2>1 DEF IInv, AtOver
<1>3. ASSUME NEW stack, Settled(stack) PROVE CallsStep
  <2>1. Settling(stack, "none") /\ life' = AfterRelease /\ UNCHANGED rests
    BY <1>3 DEF Settled
  <2>2. phase' = "pop" /\ UNCHANGED <<run, lost>>
    BY <1>2, <2>1
  <2>3. \A c \in Cells : life'[c] = IF c \in Range(Released) THEN "dead" ELSE life[c]
    BY <2>1 DEF AfterRelease
  <2> QED
    BY <1>1, <2>1, <2>2, <2>3, SettledCalls
<1>4. ASSUME NEW grown \in BOOLEAN, SettleHop(grown) PROVE CallsStep
  <2>1. \E stack, refusal : /\ Settling(stack, refusal)
                            /\ refusal \in {"none", "Unreleasable", "Unspawnable"}
    BY <1>4 DEF SettleHop
  <2>2. phase' = "pop" /\ UNCHANGED <<run, lost>>
    BY <1>2, <2>1
  <2>3. /\ UNCHANGED rests
        /\ life' = AfterRelease \/ life' = [AfterRelease EXCEPT ![NextCell] = "live"]
    BY <1>4 DEF SettleHop
  <2>4. \A c \in Cells \ {NextCell} :
           life'[c] = IF c \in Range(Released) THEN "dead" ELSE life[c]
    BY <2>3 DEF AfterRelease
  <2> QED
    BY <1>1, <2>2, <2>3, <2>4, SettledCalls
<1>5. CASE SettleLeave
  BY <1>5, SettleLeaveCalls
<1> QED
  BY <1>3, <1>4, <1>5
     DEF Settle, SettleFinish, SettleFault, SettlePark, SettleBeside, SettleRebirth

\* A pop enters the topmost call, handing it the fault it was woken by.
LEMMA PopCalls == ASSUME IInv, IInv', Pop PROVE CallsStep
<1>1. phase = "pop" /\ Typed /\ BornInOrder /\ ready # <<>>
  BY DEF Pop, IInv, AtPop
<1>2. phase' = "step" /\ Enter(Last(ready)) /\ UNCHANGED lost
  <2>1. Refusal(ready) \notin {"left", "failed"}
    BY DEF Refusal
  <2>2. outcome' = Refusal(ready)
    BY DEF Pop
  <2>3. phase' = "over" => outcome' \in {"left", "failed"}
    BY DEF IInv, AtOver
  <2> QED
    BY <2>1, <2>2, <2>3 DEF Pop, books
<1>3. PICK e, S, a, p, af, od, sd : TopIs(e, S, a, p, af, od, sd)
  BY <1>1, PopView
<1>4. e = Last(ready)
  <2>1. /\ Len(S) \in Nat /\ Len(ready) = Len(S) + 1 /\ ready[Len(S) + 1] = e
    BY <1>1, <1>3, PopFacts
  <2> QED
    BY <2>1 DEF Last
<1> PICK W : W = Frames(Table, a)
  OBVIOUS
<1>5. /\ Resting = W \cup Some(a)
      /\ a # NoCell => a \in Cells /\ a \notin W /\ ~Waits(a)
      /\ a # NoCell <=> e.is # "unborn"
      /\ a # NoCell => e.cell = a
      /\ \A d \in W : Waits(d)
  <2> HIDE DEF Resting
  <2> QED
    BY <1>1, <1>3, PopFacts
<1>6. ~Ended /\ ~Ended'
  BY <1>1, <1>2, Running DEF IInv, Quiet, Ended
<1>7. Waiting = W
  <2> HIDE DEF Resting, Waits
  <2> QED
    BY <1>5, <1>6 DEF Waiting, Some
<1>8. life \in [Cells -> {"free", "live", "dead"}] /\ run \in [Cells -> Seq(Fills)]
      /\ rests \in [Cells -> {"none", "birth", "parked", "beside"}]
  BY <1>1, TableTyped DEF Typed
<1>9. Resting' = W /\ \A c \in W : run'[c] = run[c] /\ rests'[c] = rests[c]
  <2>1. CASE a = NoCell
    <3>1. e.is = "unborn" /\ Resting = W
      BY <1>5, <2>1 DEF Some
    <3>2. /\ life' = [life EXCEPT ![NextCell] = "live"]
          /\ rests' = [rests EXCEPT ![NextCell] = "none"] /\ run' = run
      BY <1>2, <1>4, <3>1 DEF Enter, BornAt
    <3>3. NextCell \in Cells => rests'[NextCell] = "none" /\ life[NextCell] = "free"
      <4>1. Births \in Nat
        <5>1. IsFiniteSet(Cells) /\ Used(life) \in SUBSET Cells /\ Births = Cardinality(Used(life))
          BY DrainAssumption, FS_Interval DEF Cells, Used, Births
        <5> QED
          BY <5>1, CountZero
      <4> QED
        BY <1>1, <1>8, <3>2, <4>1 DEF BornInOrder, NextCell
    <3>4. \A c \in Cells : c # NextCell => life'[c] = life[c] /\ rests'[c] = rests[c]
      BY <1>8, <3>2
    <3>5. Resting' = Resting
      BY <1>2, <3>3, <3>4 DEF Resting
    <3>6. \A c \in Resting : c \in Cells /\ c # NextCell
      BY <3>3 DEF Resting
    <3> QED
      BY <3>1, <3>2, <3>4, <3>5, <3>6
  <2>2. CASE a # NoCell
    <3>1. /\ rests' = [rests EXCEPT ![a] = "none"] /\ life' = life
          /\ run' = run \/ run' = [run EXCEPT ![a] = Taken(a)]
      BY <1>2, <1>4, <1>5, <2>2 DEF Enter
    <3>2. rests'[a] = "none" /\ \A c \in Cells : c # a => rests'[c] = rests[c] /\ run'[c] = run[c]
      BY <1>5, <1>8, <2>2, <3>1
    <3>3. Resting' = Resting \ {a}
      BY <1>2, <1>5, <2>2, <3>1, <3>2 DEF Resting
    <3>4. Resting = W \cup {a}
      BY <1>5, <2>2 DEF Some
    <3>5. \A c \in Resting : c \in Cells
      BY DEF Resting
    <3> HIDE DEF Resting
    <3> QED
      BY <1>5, <2>2, <3>2, <3>3, <3>4, <3>5
  <2> QED
    BY <2>1, <2>2
<1>10. \A c \in W : /\ Slots(c)' = Slots(c) /\ Filled(c)' = Filled(c) /\ Faulted(c)' = Faulted(c)
                    /\ Counts'[c] = Counts[c] /\ c \in Cells
  <2>1. \A c \in W : c \in Cells /\ run'[c] = run[c]
    BY <1>9 DEF Frames
  <2> QED
    BY <2>1, SameRun
<1>11. \A c \in W : Waits(c)' /\ Faulted(c)' = {}
  BY <1>5, <1>9, <1>10 DEF Waits
<1>12. Waiting' = W
  <2> HIDE DEF Resting, Waits
  <2> QED
    BY <1>6, <1>9, <1>11 DEF Waiting
<1>13. ~Raising'
  <2> HIDE DEF Resting
  <2> QED
    BY <1>9, <1>11 DEF Raising
<1>14. TheWaits' = TheWaits
  <2>1. W \in SUBSET Cells
    BY <1>10
  <2>2. Line(W, Counts') = Line(W, Counts)
    BY <1>10, <2>1, LineSame
  <2> QED
    BY <1>7, <1>12, <2>2, WaitsLine, WaitsLineNext
<1>15. Ended' = Ended
  BY <1>6 DEF Ended
<1>16. CASE Raising
  BY <1>13, <1>14, <1>15, <1>16, CallsHandle
<1>17. CASE ~Raising
  <2>1. Raising' = Raising
    BY <1>13, <1>17 DEF Raising
  <2> QED
    BY <1>14, <1>15, <2>1, CallsStays DEF Stays
<1> QED
  BY <1>16, <1>17

\* Every step of the drain is a step of the call stack, or none.
LEMMA NextCalls == ASSUME IInv, IInv', [Next]_vars PROVE CallsStep
<1>1. CASE Pop
  BY <1>1, PopCalls
<1>2. CASE Step
  BY <1>2, FinishCalls, RaiseCalls, ReadBesideCalls, LeavesCalls, FailCalls, ParkCalls DEF Step
<1>3. CASE Settle
  BY <1>3, SettleCalls
<1>4. CASE Drop
  BY <1>4, DropCalls
<1>5. CASE \E place \in {"Fresh", "Shares"} : Rerun(place)
  BY <1>5, RerunCalls
<1>6. CASE Over \/ UNCHANGED vars
  <2>1. UNCHANGED <<life, rests, lost, run, outcome>>
    BY <1>6 DEF Over, vars, cells, books
  <2>2. Resting' = Resting /\ Ended' = Ended
    BY <2>1 DEF Resting, Ended
  <2> QED
    BY <2>1, <2>2, RestingStays
<1> QED
  BY <1>1, <1>2, <1>3, <1>4, <1>5, <1>6 DEF Next

\* At the start the outermost call runs.
LEMMA InitCalls == Init => Calls!Init
<1> SUFFICES ASSUME Init PROVE Calls!Init
  OBVIOUS
<1>1. outcome = "none" /\ run = [c \in Cells |-> <<>>]
      /\ rests = [c \in Cells |-> IF c = 1 THEN "birth" ELSE "none"]
  BY DEF Init
<1>2. \A c \in Cells : rests[c] # "parked"
  BY <1>1
<1>3. Waiting = {} /\ ~Raising /\ ~Ended
  BY <1>1, <1>2 DEF Waiting, Waits, Raising, Resting, Ended
<1>4. TheWaits = <<>>
  BY <1>3, WaitsLine, LineNone
<1>5. Raising = FALSE /\ Ended = FALSE
  BY <1>3
<1> QED
  BY <1>4, <1>5, Zenon DEF Calls!Init, TheWaits, Raising

\* The drain implements a call stack: whatever the cells, receipts, tails and ready stack do, what
\* happens is that the running call asks, answers, raises or ends (scheduler/README.md).
THEOREM CallStackKept == Spec => IsACallStack
<1>1. IInv /\ IInv' /\ [Next]_vars => [Calls!Next]_(Calls!vars)
  BY NextCalls DEF CallsStep
<1> QED
  BY <1>1, InitIInv, NextIInv, InitCalls, PTL DEF Spec, IsACallStack, Calls!Spec
=============================================================================
