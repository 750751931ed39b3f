------------------------------- MODULE Drain -------------------------------
(* The drain (src/src/scheduler/drain.rs, action.rs): one loop pops the ready *)
(* stack, creates the cell an entry asks for, runs one step of it and then    *)
(* releases and pushes what the step's end calls for.                         *)
(*                                                                            *)
(* A turn of the loop is three steps here, Pop, a step of the cell and a      *)
(* settling, so that what is still alive while a step runs is a state of the  *)
(* model.  The program is left open: a step may end any way the veneer        *)
(* allows it to.  Of a program the model keeps one rule, which program/body.rs*)
(* and dispatch/caught.rs keep: a step that holds the kept cell of a fault    *)
(* hands the fault on or reads the kept cell, and the root work leaves.       *)
(* The bytes of a region, types and the arena node of a seek are left out.    *)
EXTENDS Integers, FiniteSets, SequencesExt

CONSTANTS
    MaxCells,   \* the bound on births, loop cells included
    Asks,       \* what a step may park on: sequences of requests
    MaxRuns     \* the bound on root works run over the one graph

Root == 0       \* the slab cell every root work is born under
NoCell == -1
Cells == 1 .. MaxCells

Request == [place : {"Fresh", "Shares"}, use : {"Reads", "Keeps", "Forwards", "Threads"}]

ASSUME DrainAssumption ==
    /\ MaxCells \in Nat \ {0} /\ MaxRuns \in Nat \ {0}
    /\ Asks \subseteq Seq(Request) \ {<<>>}

\* Where a cell's result goes: slot 0 reports to nobody.
Provenance == [parent : Cells \cup {Root}, slot : Nat, home : Cells \cup {Root},
               loop : Cells \cup {NoCell}, weighed : BOOLEAN]

\* A slot of a receipt run: a value homed at a cell, or a fault, at the cell it kept.
Fill == [is : {"empty", "value", "fault"}, at : Cells \cup {Root, NoCell}]

VARIABLES
    life,       \* free, live, or dead: its release declared
    kind,       \* a tree cell, which owns a region, or a tenant of one
    under,      \* the write home a cell was created under
    prov,       \* the provenance in a cell's continuation
    rests,      \* the continuation at rest: of a birth, a park, a read beside, or none
    run,        \* the receipt run at rest
    below,      \* the kept cell that the link laid in a faulted cell leads to
    held,       \* the cells whose borrow of an arena node is outstanding
    ready,      \* the ready stack, its top last
    turn,       \* the entry being run
    ended,      \* what the step just run ended with
    phase,      \* of the turn: pop, step, settle, or over between runs
    outcome,    \* why the run is over, "none" while it runs
    ending,     \* the outermost kept cell of an uncaught fault
    runs,       \* root works run so far
    lost        \* the cells a failed run abandoned

cells == <<life, kind, under, prov, rests, held>>
books == <<runs, lost>>
vars == <<cells, run, below, ready, turn, ended, phase, outcome, ending, books>>

-----------------------------------------------------------------------------
(* Cells *)

IsLive(c) == c = Root \/ (c \in Cells /\ life[c] = "live")

\* `write_home`: a tenant writes its host.
WriteHome(c) == IF c = Root \/ kind[c] = "tree" THEN c ELSE under[c]

Births == Cardinality({c \in Cells : life[c] # "free"})

Unborn == {i \in 1 .. Len(ready) : ready[i].is = "unborn"}

\* The bound on births, the asked and the unborn counted.
Room(n) == Births + Cardinality(Unborn) + n <= MaxCells

NextCell_Skipping == Births + 2
NextCell == Births + 1

Slots(c) == 1 .. Len(run[c])
Filled(c) == {s \in Slots(c) : run[c][s].is # "empty"}
Faulted(c) == {s \in Slots(c) : run[c][s].is = "fault"}

Empty == [is |-> "empty", at |-> NoCell]
Value(home) == [is |-> "value", at |-> home]
Fault(kept) == [is |-> "fault", at |-> kept]

\* `results` takes every slot in order, up to a fault.
Taken(c) == [s \in Slots(c) |-> IF \E f \in Faulted(c) : f < s THEN run[c][s] ELSE Empty]

\* `Provenance::target`.
Target(c, use) ==
    CASE use = "Forwards" -> prov[c].home
      [] use = "Threads" /\ prov[c].loop # NoCell -> prov[c].loop
      [] OTHER -> c

\* `Step::placement`: Fresh for a cell lent its tree parent's scratch.  A tenant borrows what
\* the cell it is named under borrows, so every tenant in a tree cell's region is lent one.
Lent(c) == kind[c] = "tree" \/ WriteHome(c) # Root
Placement(c) == IF Lent(c) THEN "Fresh" ELSE "Shares"

\* The entries of the ready stack.
Woken(c) == [is |-> "live", cell |-> c]
Beside(c, kept) == [is |-> "beside", cell |-> c, kept |-> kept]
Asked(p, place, at, after, old) ==
    [is |-> "unborn", prov |-> p, place |-> place, under |-> at, after |-> after, old |-> old]

Idle == [cell |-> NoCell, beside |-> NoCell, after |-> NoCell, old |-> NoCell,
         owes |-> NoCell, first |-> FALSE]
NoEnd == [is |-> "none"]

-----------------------------------------------------------------------------
(* Pop: the top entry, its cell created where it has none, entered. *)

\* The cell of an entry.
CellOf(e) == IF e.is = "unborn" THEN NextCell ELSE e.cell

\* What a step woken by an entry answers for: the kept cell of the fault it received, or the one
\* below the kept cell it is entered beside.
Owes_Dropped(e) == NoCell
Owes(e) ==
    CASE e.is = "beside" -> below[e.kept]
      [] e.is = "live" /\ Faulted(e.cell) # {} -> run[e.cell][CHOOSE s \in Faulted(e.cell) : TRUE].at
      [] OTHER -> NoCell

\* The cells whose regions a step woken by an entry reads: where its birth was put to rest, the
\* loop cell compacted away from, and the home of every value received.
Reads(e) ==
    CASE e.is = "unborn" -> {IF e.after = NoCell THEN e.under ELSE WriteHome(e.after), e.old}
      [] e.is = "live" -> {run[e.cell][s].at : s \in Filled(e.cell) \ Faulted(e.cell)}
      [] OTHER -> {}

\* Why the drain stalls at an entry.
Refusal(stack) ==
    LET e == Last(stack) IN
    CASE stack = <<>> -> "Unfinished"
      [] e.is = "unborn" /\ ~IsLive(e.under) -> "Unspawnable"
      [] e.is # "unborn" /\ (~IsLive(e.cell) \/ rests[e.cell] = "none") -> "Unenterable"
      [] e.is = "beside" /\ (~IsLive(e.kept) \/ WriteHome(e.kept) = WriteHome(e.cell)) ->
            "Unenterable"
      [] \E c \in Reads(e) \ {NoCell} : ~IsLive(c) -> "Unredeemable"
      [] OTHER -> "none"

\* The cell table once `c` is born of `p` under `at` and has its first continuation `rest`.
BornAt(c, p, place, at, rest) ==
    /\ life' = [life EXCEPT ![c] = "live"]
    /\ kind' = [kind EXCEPT ![c] = IF place = "Fresh" THEN "tree" ELSE "tenant"]
    /\ under' = [under EXCEPT ![c] = WriteHome(at)]
    /\ prov' = [prov EXCEPT ![c] = p]
    /\ rests' = [rests EXCEPT ![c] = rest]
    /\ held' = held \cup {c}

\* An entry entered: its continuation and what it received come off the cell.
Enter(e) ==
    /\ IF e.is = "unborn"
         THEN BornAt(NextCell, e.prov, e.place, e.under, "none") /\ UNCHANGED run
         ELSE /\ rests' = [rests EXCEPT ![e.cell] = "none"]
              /\ run' = IF e.is = "live" THEN [run EXCEPT ![e.cell] = Taken(e.cell)] ELSE run
              /\ UNCHANGED <<life, kind, under, prov, held>>
    /\ turn' = [cell |-> CellOf(e),
                beside |-> IF e.is = "beside" THEN e.kept ELSE NoCell,
                after |-> IF e.is = "unborn" THEN e.after ELSE NoCell,
                old |-> IF e.is = "unborn" THEN e.old ELSE NoCell,
                owes |-> Owes(e),
                first |-> e.is = "unborn" \/ rests[e.cell] = "birth"]

Pop ==
    /\ phase = "pop"
    /\ outcome' = Refusal(ready)
    /\ IF Refusal(ready) = "none"
         THEN Enter(Last(ready)) /\ ready' = Front(ready) /\ phase' = "step"
         ELSE phase' = "over" /\ UNCHANGED <<cells, run, ready, turn>>
    /\ UNCHANGED <<below, ended, ending, books>>

-----------------------------------------------------------------------------
(* A step of the cell entered, by how it ends. *)

Here == turn.cell

\* The end of a step, or why the drain stalls at it.
EndsWith(end, refusal) ==
    /\ ended' = end
    /\ outcome' = refusal
    /\ phase' = IF refusal = "none" THEN "settle" ELSE "over"

\* `delivery_target`.
Deliverable(p) ==
    /\ IsLive(p.parent) /\ p.parent # Root
    /\ p.slot \in Slots(p.parent)
    /\ run[p.parent][p.slot].is = "empty"

Deliver(p, fill) ==
    run' = IF Deliverable(p) THEN [run EXCEPT ![p.parent][p.slot] = fill] ELSE run

\* Whether a fill of `p`'s slot completes its consumer's run.
Complete_Early(p) == TRUE
Complete_Late(p) == Filled(p.parent) = Slots(p.parent)
Complete(p) == Filled(p.parent) \cup {p.slot} = Slots(p.parent)

\* `finish`: a value placed in the home and filed in the consumer.
Finish ==
    LET p == prov[Here] IN
    /\ phase = "step" /\ turn.owes = NoCell /\ p.slot # 0
    /\ Deliver(p, Value(p.home))
    /\ EndsWith([is |-> "finished", completed |-> Complete(p)],
                CASE ~IsLive(p.home) -> "Stale"
                  [] ~Deliverable(p) -> "Undeliverable"
                  [] OTHER -> "none")
    /\ UNCHANGED <<cells, below, ready, turn, ending, books>>

\* What a fault hands its consumer: a tree cell, kept, names itself; a tenant hands on what it held.
FaultFill(c) == IF kind[c] = "tree" THEN Fault(c) ELSE Fault(turn.owes)

\* `fault`: the cell's own, or one it was handed.
Raise ==
    LET p == prov[Here] IN
    /\ phase = "step" /\ p.slot # 0
    /\ below' = IF kind[Here] = "tree" THEN [below EXCEPT ![Here] = turn.owes] ELSE below
    /\ Deliver(p, FaultFill(Here))
    /\ EndsWith([is |-> "faulted", kept |-> kind[Here] = "tree"],
                IF Deliverable(p) THEN "none" ELSE "Undeliverable")
    /\ UNCHANGED <<cells, ready, turn, ending, books>>

\* `park` on the children asked for.
Park(asks) ==
    /\ phase = "step" /\ turn.owes = NoCell /\ Room(Len(asks))
    /\ IF Filled(Here) = {}
         THEN /\ run' = [run EXCEPT ![Here] = [s \in 1 .. Len(asks) |-> Empty]]
              /\ rests' = [rests EXCEPT ![Here] = "parked"]
         ELSE UNCHANGED <<run, rests>>
    /\ EndsWith([is |-> "parked", asks |-> asks],
                IF Filled(Here) = {} THEN "none" ELSE "Undeliverable")
    /\ UNCHANGED <<life, kind, under, prov, held, below, ready, turn, ending, books>>

\* `read_beside` the kept cell a fault handed this step.
ReadBeside ==
    /\ phase = "step" /\ turn.owes # NoCell
    /\ rests' = [rests EXCEPT ![Here] = "beside"]
    /\ EndsWith([is |-> "beside", kept |-> turn.owes], "none")
    /\ UNCHANGED <<life, kind, under, prov, held, run, below, ready, turn, ending, books>>

\* `tail`, `tail_seeking`, `tail_under`: a hop, which may thread values of its own.  A root
\* work of koan's never tails into a loop that does.
Hop(threads) ==
    /\ phase = "step" /\ turn.owes = NoCell /\ Room(2)
    /\ threads => prov[Here].slot # 0
    /\ EndsWith([is |-> "hop", threads |-> threads], "none")
    /\ UNCHANGED <<cells, run, below, ready, turn, ending, books>>

\* `bounce`, `rebuild`, `replay`: the first step's work born again.
Rebirth ==
    /\ phase = "step" /\ turn.owes = NoCell /\ Room(1)
    /\ turn.first /\ prov[Here].slot # 0
    /\ EndsWith([is |-> "rebirth"], "none")
    /\ UNCHANGED <<cells, run, below, ready, turn, ending, books>>

\* `leave`: the root work's end, an uncaught fault's outermost kept cell recorded.
Leave ==
    LET p == prov[Here] IN
    /\ phase = "step" /\ p.slot = 0
    /\ ending' = turn.owes
    /\ EndsWith([is |-> "left"], IF IsLive(p.home) THEN "none" ELSE "Stale")
    /\ UNCHANGED <<cells, run, below, ready, turn, books>>

\* `done`: the root work's end with nothing left at rest.
Done ==
    /\ phase = "step" /\ turn.owes = NoCell /\ prov[Here].slot = 0
    /\ EndsWith([is |-> "done"], "none")
    /\ UNCHANGED <<cells, run, below, ready, turn, ending, books>>

\* `failed`: the machinery's own refusal, which stalls the drain.
Fail ==
    /\ phase = "step" /\ runs < MaxRuns
    /\ EndsWith([is |-> "failed"], "failed")
    /\ UNCHANGED <<cells, run, below, ready, turn, ending, books>>

-----------------------------------------------------------------------------
(* Settling: what was held aside for the step goes, and its end is acted on. *)

\* What every end releases: the kept cell read beside, the predecessor, its old loop cell.
HeldAside_NoLoop == <<turn.beside, turn.after>>
HeldAside == <<turn.beside, turn.after, turn.old>>

Parent == prov[Here].parent
Loop == prov[Here].loop

\* What an end releases of its own.
OwnEnd_HopReleased ==
    IF ended.is \in {"finished", "faulted", "done"} THEN <<Here, Loop>>
    ELSE IF ended.is \in {"left", "hop"} THEN <<Here>> ELSE <<>>
OwnEnd ==
    CASE ended.is \in {"finished", "done"} -> <<Here, Loop>>
      [] ended.is = "faulted" -> IF ended.kept THEN <<Loop>> ELSE <<Here, Loop>>
      [] ended.is = "left" -> <<Here>>
      [] OTHER -> <<>>

Released == HeldAside \o OwnEnd

\* A release refuses a cell that is not live; so does a second release of one cell.
Releasable(s) ==
    \A i \in DOMAIN s : s[i] # NoCell =>
        IsLive(s[i]) /\ \A j \in DOMAIN s : s[i] = s[j] => i = j

AfterRelease == [c \in Cells |-> IF c \in Range(Released) THEN "dead" ELSE life[c]]

\* A release by `retire` or `release_kept` gives the cell's arena borrow back.
HeldAfter == held \ Range(Released)

\* The settling of an end: the stack it leaves, or the stall of a release or a loop refused.
Settling(stack, refusal) ==
    /\ phase = "settle"
    /\ ready' = stack
    /\ held' = HeldAfter
    /\ outcome' = IF Releasable(Released) THEN refusal ELSE "Unreleasable"
    /\ phase' = IF Releasable(Released) /\ refusal = "none" THEN "pop" ELSE "over"
    /\ turn' = Idle
    /\ ended' = NoEnd
    /\ UNCHANGED <<run, below, ending, books>>

Settled(stack) ==
    /\ Settling(stack, "none")
    /\ life' = AfterRelease
    /\ UNCHANGED <<kind, under, prov, rests>>

SettleFinish ==
    /\ ended.is = "finished"
    /\ Settled(IF ended.completed THEN Append(ready, Woken(Parent)) ELSE ready)

\* What `parent` asked for and has not been born lies on top of the stack.
Dropped(stack, parent) ==
    LET Drops(e) == e.is = "unborn" /\ e.after = NoCell /\ e.prov.parent = parent
        stays == {n \in 0 .. Len(stack) : n = 0 \/ ~Drops(stack[n])}
        top == CHOOSE n \in stays : \A m \in stays : m <= n
    IN SubSeq(stack, 1, top)

SettleFault ==
    /\ ended.is = "faulted"
    /\ Settled(Append(Dropped(ready, Parent), Woken(Parent)))

\* `asked_by`: the first asked on top.
AskedBy(c, asks) ==
    Reverse([s \in 1 .. Len(asks) |->
        Asked([parent |-> c, slot |-> s, home |-> Target(c, asks[s].use),
               loop |-> NoCell, weighed |-> FALSE],
              asks[s].place, c, NoCell, NoCell)])

Pushed_Queued(stack, asked) == asked \o stack
Pushed(stack, asked) == stack \o asked

SettlePark ==
    /\ ended.is = "parked"
    /\ Settled(Pushed(ready, AskedBy(Here, ended.asks)))

SettleBeside ==
    /\ ended.is = "beside"
    /\ Settled(Append(ready, Beside(Here, ended.kept)))

\* Where a tail's successor is born: under the loop cell, else the parent.
BirthPlace(p) == IF p.loop # NoCell THEN p.loop ELSE p.parent

\* `loop_for`, where the loop cell stands: a hop past the first that finds it weighed compacts it
\* once it holds twice its live bytes, which a model of no bytes leaves open.
MakesLoop(threads, grown, p) ==
    IF p.loop = NoCell THEN threads ELSE grown /\ p.weighed

\* The provenance a hop hands its successor, the loop cell `made` where it makes one.
Hopped(p, makes, made) ==
    IF makes THEN [p EXCEPT !.loop = made, !.weighed = FALSE]
    ELSE [p EXCEPT !.weighed = p.loop # NoCell]

SettleHop(grown) ==
    LET p == prov[Here]
        makes == MakesLoop(ended.threads, grown, p)
        q == Hopped(p, makes, NextCell)
    IN  /\ phase = "settle" /\ ended.is = "hop"
        /\ grown => p.weighed
        /\ Settling(Append(ready, Asked(q, "Fresh", BirthPlace(q), Here,
                                        IF makes THEN p.loop ELSE NoCell)),
                    CASE p.loop # NoCell /\ ~IsLive(p.loop) -> "Unreleasable"
                      [] makes /\ ~IsLive(p.parent) -> "Unspawnable"
                      [] OTHER -> "none")
        /\ life' = IF makes THEN [AfterRelease EXCEPT ![NextCell] = "live"] ELSE AfterRelease
        /\ kind' = IF makes THEN [kind EXCEPT ![NextCell] = "tree"] ELSE kind
        /\ under' = IF makes THEN [under EXCEPT ![NextCell] = WriteHome(p.parent)] ELSE under
        /\ UNCHANGED <<prov, rests>>

SettleRebirth ==
    LET p == prov[Here] IN
    /\ ended.is = "rebirth"
    /\ Settled(Append(ready, Asked(p, Placement(Here), BirthPlace(p), Here, NoCell)))

\* Only a root work leaves or is done.
SettleLeave ==
    /\ phase = "settle" /\ ended.is \in {"left", "done"}
    /\ outcome' = IF Releasable(Released) THEN "left" ELSE "Unreleasable"
    /\ phase' = "over"
    /\ life' = AfterRelease
    /\ held' = HeldAfter
    /\ turn' = Idle
    /\ ended' = NoEnd
    /\ UNCHANGED <<kind, under, prov, rests, run, below, ready, ending, books>>

-----------------------------------------------------------------------------
(* Between runs. *)

\* The drop of an uncaught outcome: each kept cell read for the next before it goes.
Drop ==
    /\ phase = "over" /\ outcome = "left" /\ ending # NoCell
    /\ outcome' = IF IsLive(ending) THEN "left" ELSE "Unreleasable"
    /\ IF IsLive(ending)
         THEN /\ ending' = below[ending]
              /\ life' = [life EXCEPT ![ending] = "dead"]
              /\ held' = held \ {ending}
         ELSE UNCHANGED <<ending, life, held>>
    /\ UNCHANGED <<kind, under, prov, rests, run, below, ready, turn, ended, phase, books>>

RootWork == [parent |-> Root, slot |-> 0, home |-> Root, loop |-> NoCell, weighed |-> FALSE]

\* The entries a stalled run left are cleared.
Cleared(stack) == <<>>

\* A later root work over the same graph, once the outcome of the last is dropped.
Rerun(place) ==
    /\ phase = "over" /\ runs < MaxRuns /\ Births < MaxCells
    /\ outcome = "failed" \/ (outcome = "left" /\ ending = NoCell)
    /\ BornAt(NextCell, RootWork, place, Root, "birth")
    /\ ready' = Append(Cleared(ready), Woken(NextCell))
    /\ runs' = runs + 1
    /\ lost' = lost \cup {c \in Cells : life[c] = "live"}
    /\ turn' = Idle
    /\ phase' = "pop"
    /\ outcome' = "none"
    /\ UNCHANGED <<run, below, ended, ending>>

Over ==
    /\ phase = "over" /\ (outcome = "left" => ending = NoCell)
    /\ UNCHANGED vars

Init ==
    /\ life = [c \in Cells |-> IF c = 1 THEN "live" ELSE "free"]
    /\ kind \in [Cells -> {"tree", "tenant"}] /\ \A c \in Cells \ {1} : kind[c] = "tree"
    /\ under = [c \in Cells |-> Root]
    /\ prov = [c \in Cells |-> RootWork]
    /\ rests = [c \in Cells |-> IF c = 1 THEN "birth" ELSE "none"]
    /\ run = [c \in Cells |-> <<>>]
    /\ below = [c \in Cells |-> NoCell]
    /\ held = {1}
    /\ ready = <<Woken(1)>>
    /\ turn = Idle
    /\ ended = NoEnd
    /\ phase = "pop"
    /\ outcome = "none"
    /\ ending = NoCell
    /\ runs = 1
    /\ lost = {}

Step ==
    \/ Finish \/ Raise \/ ReadBeside \/ Rebirth \/ Leave \/ Done \/ Fail
    \/ \E asks \in Asks : Park(asks)
    \/ \E threads \in BOOLEAN : Hop(threads)

Settle ==
    \/ SettleFinish \/ SettleFault \/ SettlePark \/ SettleBeside
    \/ SettleRebirth \/ SettleLeave
    \/ \E grown \in BOOLEAN : SettleHop(grown)

Next == Pop \/ Step \/ Settle \/ Drop \/ (\E place \in {"Fresh", "Shares"} : Rerun(place)) \/ Over

\* The loop of the drain never rests between turns, and a step is a function that returns.
Spec == Init /\ [][Next]_vars /\ WF_vars(Pop) /\ WF_vars(Step) /\ WF_vars(Settle) /\ WF_vars(Drop)
-----------------------------------------------------------------------------
(* Properties *)

Stalls == {"Unfinished", "Unspawnable", "Unenterable", "Unredeemable", "Unreleasable",
           "Stale", "Undeliverable"}

TypeOK ==
    /\ life \in [Cells -> {"free", "live", "dead"}]
    /\ kind \in [Cells -> {"tree", "tenant"}]
    /\ under \in [Cells -> Cells \cup {Root}]
    /\ prov \in [Cells -> Provenance]
    /\ rests \in [Cells -> {"none", "birth", "parked", "beside"}]
    /\ run \in [Cells -> Seq(Fill)]
    /\ below \in [Cells -> Cells \cup {NoCell}]
    /\ held \subseteq Cells /\ lost \subseteq Cells
    /\ \A i \in 1 .. Len(ready) : ready[i].is \in {"live", "beside", "unborn"}
    /\ phase \in {"pop", "step", "settle", "over"}
    /\ outcome \in Stalls \cup {"none", "left", "failed"}
    /\ ending \in Cells \cup {NoCell}
    /\ runs \in 1 .. MaxRuns

\* Cells of this run at rest, and the entries that will enter a cell.
Resting == {c \in Cells \ lost : life[c] = "live" /\ rests[c] # "none"}
Entries(c) == {i \in 1 .. Len(ready) : ready[i].is # "unborn" /\ ready[i].cell = c}

\* A parked cell some slot of whose run may still be filled.
Waits(c) == rests[c] = "parked" /\ Filled(c) # Slots(c) /\ Faulted(c) = {}

\* The cells and unborn requests that report to a slot.
Reporting(c, s) ==
    {d \in Resting : prov[d].parent = c /\ prov[d].slot = s}
    \cup {<<i>> : i \in {j \in Unborn : ready[j].prov.parent = c /\ ready[j].prov.slot = s}}

\* The drain's every call to the cell graph succeeds: no create under a cell that is gone, no step
\* of one, no release twice, no fill of a slot that is not there, no value read after its home is
\* released, and the stack never empties before the root work ends.
NeverStalls == outcome \notin Stalls

\* A cell that waits is on no stack, and a cell that may run is on it once: nothing is woken
\* early, twice, or never.
OneWake ==
    phase = "pop" =>
        \A c \in Resting : Cardinality(Entries(c)) = IF Waits(c) THEN 0 ELSE 1

\* Each empty slot of a waiting cell has exactly one cell or request that will fill it, and a
\* filled one none: a tail hands its report on, and a fault leaves nobody to run after it.
OneReporter ==
    phase = "pop" =>
        \A c \in Resting : \A s \in Slots(c) :
            Cardinality(Reporting(c, s)) = IF Waits(c) /\ s \notin Filled(c) THEN 1 ELSE 0

\* A wait is answered in the order it was asked, and nothing answers after a fault.
InOrder ==
    \A c \in Cells \ lost : life[c] = "live" /\ rests[c] = "parked" =>
        \A s \in Filled(c) : \A r \in 1 .. s - 1 : run[c][r].is = "value"

\* Each wait is answered by whoever it was left to, once and in order, and woken by the last.
WaitsAnswered == OneWake /\ OneReporter /\ InOrder

\* Predecessors a successor has not run over yet.
Predecessors == {ready[i].after : i \in Unborn}

\* Loop cells: live, and born of no request.
LoopCells == {c \in Cells : life[c] = "live" /\ c \notin held}

\* Cells a fault kept: ended, and not released.
Kept == {c \in Cells \ lost : life[c] = "live" /\ c \in held /\ rests[c] = "none"}
            \ (Predecessors \cup {turn.cell, turn.after})

\* The kept cells some pending fault leads to.
KeptFrom ==
    LET named == (UNION {{run[c][s].at : s \in Faulted(c)} : c \in Resting})
                 \cup {ready[i].kept : i \in {j \in 1 .. Len(ready) : ready[j].is = "beside"}}
                 \cup {ending}
        from[n \in 0 .. MaxCells] ==
            IF n = 0 THEN named \ {NoCell}
            ELSE from[n - 1] \cup ({below[k] : k \in from[n - 1]} \ {NoCell})
    IN from[MaxCells]

\* A kept cell is live exactly while a fault in flight, a catch reading it, or the host's outcome
\* leads to it: none leaks, and none is released while something may still read it.
KeptWhileNamed == phase \in {"pop", "over"} /\ outcome \notin Stalls \cup {"failed"} => Kept = KeptFrom

\* A loop cell lives exactly as long as a hop of its loop may read it.
LoopsOwned ==
    phase = "pop" =>
        LoopCells \ lost =
            ({prov[c].loop : c \in Resting}
             \cup UNION {{ready[i].prov.loop, ready[i].old} : i \in Unborn}) \ {NoCell}

\* scheduler/README.md: at most two hops of a loop are live at once, so a loop runs in constant
\* occupancy; and at most two of its loop cells.
TwoHops ==
    \A c \in Cells, s \in 1 .. MaxCells :
        LET hops == {d \in Cells \ lost :
                        life[d] = "live" /\ d \in held /\ prov[d].parent = c /\ prov[d].slot = s}
        IN  /\ Cardinality(hops) <= 2
            /\ Cardinality({prov[d].loop : d \in hops} \ {NoCell}) <= 2

\* A loop runs in constant occupancy, and its loop cells are neither leaked nor lost.
LoopsBounded == LoopsOwned /\ TwoHops

\* Once a run has ended and its outcome is dropped the graph holds no cell of it and no borrow,
\* and the root work ended last (the drain's debug_assert).
EndsEmpty ==
    outcome = "left" =>
        /\ ready = <<>>
        /\ ending = NoCell => held \subseteq lost /\ \A c \in Cells \ lost : life[c] # "live"

\* Nothing leaks: of what a fault kept while the run goes on, of cells and borrows when it ends.
NothingLeaks == KeptWhileNamed /\ EndsEmpty

\* Every run ends, and what an uncaught fault kept is released: no cell waits for ever.
RunEnds == phase # "over" ~> phase = "over" /\ outcome \in {"left", "failed"} /\ ending = NoCell

\* The drain implements a call stack.
Ended == outcome \in {"left", "failed"}
Waiting == {c \in Resting : ~Ended /\ Waits(c)}
Waiter(i) ==
    CHOOSE c \in Waiting : Cardinality({d \in Waiting : d <= c}) = i

Calls == INSTANCE CallStack WITH
    Widths <- {Len(asks) : asks \in Asks},
    over <- Ended,
    raised <- ~Ended /\ \E c \in Resting : rests[c] = "parked" /\ Faulted(c) # {},
    waits <- [i \in 1 .. Cardinality(Waiting) |->
                [asked |-> Len(run[Waiter(i)]), answered |-> Cardinality(Filled(Waiter(i)))]]

IsACallStack == Calls!Spec
=============================================================================
