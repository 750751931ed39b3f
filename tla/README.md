# koan in TLA+

koan is an interpreter written in Rust. Its evaluator runs on three pieces of machinery that a
unit test reaches badly: a memory substrate that frees regions by who still reads them
(`cellgraph/`), a scheduler that drains a stack of run cells over that substrate
(`src/scheduler/`), and a cache of facts the run cells are born under (the build arena). Before
a program runs, its load decides what it can of every call and every MATCH from static types
alone, and a run over what is left must not be able to tell (`src/dispatch/`). A source is read
into groups by its indentation, in one pass that must come to what the rules of layout say of the
whole (`sexlex/`). This directory models that machinery in TLA+, checks it with TLC on small
instances, and proves the properties that matter most with TLAPS.

Paths below are relative to the repository; PROJECT.json spells them from the directory that
holds it (`src/...`).

- [The system and its parts](#the-system-and-its-parts)
- [How the parts interact](#how-the-parts-interact)
- [Modules](#modules)
- [Module by module](#module-by-module)
- [Runs](#runs)
- [Where the code and its documents disagree](#where-the-code-and-its-documents-disagree)
- [Proofs](#proofs)
- [What is not modelled](#what-is-not-modelled)
- [Plan](#plan)

## The system and its parts

| part | state it keeps | operations | what is hard | what makes it correct | here |
|---|---|---|---|---|---|
| slab cells (`cellgraph/src/graph.rs`, `matrix.rs`, `reach.rs`) | slots with a life (free, live, dead), a generation, a row of the pin matrix and its column tallies, a count of what lives under the slot | create, hold, allocate over pinned operands, release; at death: reclaim, absorb into the one holder, fold into the one namer, or seal | a death cascades, and every count, mask and key that spoke of the slot must follow its storage | no storage is freed that a cell can read; the counts are the sets they stand for | `CellSlab`, `Retention` |
| sealed tier (`sealed.rs`) | regions with an aggregate reach and a count of holders | seal, absorb singletons, release holds, retire | counts moved over a worklist that a step extends; rings | cascades end; nothing but a ring outlives its holders | `CellSlab` |
| dormant carriers (`dormant.rs`) | a value's home and the index of the mask of what it reads, interned per home | keep, redeem, relocate | a key kept before any number of deaths and merges | a key leads to its bytes or to nothing; a redeem covers what its value reads | `CellSlab` |
| tree pool (`tree.rs`) | tree cells with a parent, children, a pledge, tombstones | create, pin upward, keep, release, dispose and its chain up | a dead cell is disposed of when its last child, tenant or borrower goes; its bytes may splice several times | splices reach whoever reads; tombstones lead to the bytes and go with them | `TreePool`, `Retention` |
| tenants and lends (`tenant.rs`, `lend.rs`) | who writes whose region, who borrows whose region or scratch | create, lend, release, borrow, unborrow, the audit of cycles | a loan handed from a released tenant to its host's scratch | no lender disposed under a borrower; every dead cell disposed unless lends wait in a cycle | `Lends` |
| step slots, scratch, receipts (`slots.rs`, `scratch.rs`, `receipt.rs`) | a cell's slots, its one run of receipts, released runs for reuse | take, park, hold, register, fill, reset after a step | a reset must not drop what the next wake needs; a panic skips the end of a step | a run has one owner; no reset takes what something at rest names | `Lends`; the run's slots in `Drain` |
| drain (`scheduler/drain.rs`, `action.rs`, `continuation.rs`) | the ready stack of live cells and unborn requests | pop, create, step, then finish, fault, park, tail, be reborn, leave | one consumer, many children, hops that outlive their cell, faults that drop what was asked and not yet born | a call stack: answered in order, each waiter woken once, each cell released once, the run ends | `Drain`, `CallStack` |
| build arena (`scheduler/arena.rs`) | settlements and compositions, their counts and bytes, an index, a budget | insert, compose, stamp, borrow, release, evict | totals moved by turns up a chain; handles outlive nodes | nothing read is evicted; back under the budget; books exact | `BuildArena`, `ArenaStore` |
| seeks (`scheduler/seek.rs`, `drain.rs`, `program/body.rs`) | how a frame's request resolves to a node | seek, compose, pin, replay, bounce, rebuild | everything a frame was promised can be evicted before it is born | a frame runs under its own settlement; its births end | `ArenaSeek` |
| program runner (`program/`) | a body's activation, its stack | run, settle, evaluate | first steps that ask to be born again | | its first step in `ArenaSeek` |
| dispatch (`dispatch/`) | candidates, verdicts, elimination tables | narrow and select at the load, select at the run; the same for the arms of a MATCH | what the load drops must not change what the run picks | narrowed and whole selection agree | `Overloads`, `Arms`, `Narrowing` |
| build (`build/`) | a record per unit, frontiers, layers | fold, wake, read through | memoized staleness over shared cuts | what a binding changes is re-run | planned |
| scope, elaborate, knot, values, memory | shapes, groups, units, knots, values | folds and walks over data | each is sequential | | not modelled |
| layout (`sexlex/`) | the descent over a token stream, the indentation a `(` anchors to, depths of nesting | lines, brackets, closers, joined lines | one field of indentation that nested lines overwrite; brackets that switch layout off; three ways a line ends | an opener anchors to its own line; a source reads as the rules of layout say | `Layout`, `LayoutRules` |
| parse (`parse/`) | expressions | lowering, operators | | sequential, over trees | not modelled |
| `lattice/` | interned types and symbols | order, join, unify, rank | agreement of order, join and ranking | a judgement over intervals holds of every point | its ranking in `Overloads` |

The hazards each part is exposed to are listed in PROJECT.json at the line where they bite, with
the properties that would catch them going wrong. One, of a part still to be modelled, carries a
note instead.

## How the parts interact

Nothing here runs in parallel: one thread owns the graph, the arena and the ready stack. What
makes the system hard is what stays half done between two steps.

- The *drain* pops an entry, creates the cell it asks for as a tree cell or a tenant of another
  cell's region, borrows an *arena* node for it, and runs one step of it. The step is code: it may
  file a result with its consumer's receipt run, park over children it asks for, tail into a
  successor, fault. What it does to other cells, the drain does after it has returned.
- A birth *seeks*: the request its asker made is resolved against the arena as it is now, which
  may have evicted anything nobody holds. A birth the arena cannot place is placed under the root,
  and its first step asks to be born again.
- Cells hold each other's storage through the *pin matrix*; what a program value reads may outlive
  the cell it was built in. A release declares a death; the *disposal* that follows moves or frees
  the storage and everything that named it.
- A carrier kept across steps is a key; it is *redeemed* against wherever its home is now.
- A *tree cell* lies under a slab cell. It pledges its bytes to the ancestor that reads them and
  splices them there at death; at the root they become the slab's business. A *tenant* writes the
  region of its host. Both may *borrow* a scratch or a region, counted on the lender, and the
  count, not the pin matrix, is what holds the lender.
- The *load* walks a program once before it runs and leaves, for each use, what it could not
  decide. A run reads that and nothing else of the load.
- The *reader* is called by the parser, for a whole file or for one group of it (the code in a
  string), and shares nothing with the rest.

## Modules

| module | what it is |
|---|---|
| `BuildArena` | the arena's books, one action a verb, a turn of the held bytes one level a step |
| `ArenaStore` | what the books promise: nodes held by reachability, evicted least recently used first and only over the budget |
| `BuildArena_proofs` | theorems about the books: types, links and handles; who is held, the byte totals, the budget, and that the books implement `ArenaStore` |
| `Counting_proofs` | lemmas every proof about counts rests on: least counterexamples, cardinalities, weighted sums, least closed sets |
| `ArenaSeek` | how a frame finds the node it runs under, over `ArenaStore` |
| `ArenaSeek_proofs` | theorems about seeks: what frames borrow, and that modules of other code stay pinned |
| `Drain` | the drain: pop, step, settle |
| `CallStack` | what the drain promises its callers |
| `Drain_proofs` | theorems about the drain: it never stalls, answers each wait once and in order, bounds loops, leaks nothing, and implements `CallStack` |
| `CellSlab` | the two tiers of the cell graph's storage and the keys that follow it |
| `CellSlab_proofs` | theorems about the slab and its sealed tier: names, moves of storage and keys, folds, redeems, the refinement of `Retention`, and what outlives its holders |
| `TreePool` | the tree cells under a root: pledges, splices, tombstones and the disposal chain |
| `Retention` | what the slab and the tree pool promise: storage that stays reads only storage that stays |
| `TreePool_proofs` | theorems about the tree pool: pledges, keys, and that it implements `Retention` |
| `Lends` | what keeps a region and a scratch bump in place for the cells that borrow them |
| `Lends_proofs` | theorems about the counts of homes and what stays for a borrower |
| `Overloads` | how candidates of a keyworded call are judged, dropped and chosen: operators |
| `Arms` | the same for the arms of a MATCH, over `Overloads` |
| `Narrowing` | a use or a MATCH is written, narrowed and run, over `Arms` |
| `Layout` | the layout reader, a recursive descent one token a step |
| `LayoutRules` | the documented rules of layout, over a whole stream at once: an operator |
| `LayoutReads` | the one against the other |
| `Layout_proofs` | theorems about the reader |
| `MCBuildArena`, `MCArenaSeek`, `MCDrain`, `MCCellSlab`, `MCTreePool`, `MCLends`, `MCNarrowing`, `MCLayout` | small instances for TLC |

`ArenaSeek` EXTENDS nothing of the books: it INSTANCEs `ArenaStore`, the abstraction
`BuildArena` is shown to implement, so what is checked of a seek holds over the real books. `Drain`
and the three modules of the cell graph stand on their own: the drain sees of the cell graph only
whether a cell is released, and the cell graph sees of the drain only the verbs a step may call.
The reader touches none of these. `CellSlab`, `TreePool` and `Lends` share the life of a cell and meet at three edges: `CellSlab`
counts what lives under a slot without saying what it is, `TreePool` hands a root's storage over
where the root leaves its slot, and `Lends` takes of a disposal only whom it unblocks.

An operator named `X_y` is not part of a model. It is `X` as a plausible mistake would have
written it, kept beside `X` to show that the property it is paired with in PROJECT.json would
notice.

## Module by module

### BuildArena and ArenaStore

`BuildArena` keeps the slots of the arena with their generations, both indexes, the counts of
borrowers, children and pinners, the running totals of bytes and the least-recent-use stamps, as
`arena.rs` does. `Insert`, `Compose`, `Stamp`, `Borrow`, `Release` are the verbs. A count that
turns to or from zero starts a *turn* that walks pins and parents; each of its iterations is a
step (`TurnPin`, `TurnParent`), and no verb runs until it ends. `EvictToBudget` starts the loop,
`Evict` takes one victim. Generations wrap at `GenWidth` bits.

`ArenaStore` has none of this. A node is *held* when an owner's borrow reaches it, it is evictable
when it is not held and nothing reads through it, and the loop takes the least recently used one
while the unheld bytes exceed the budget. That the books implement it is where a miscounted turn,
a stale stamp or a stale index shows.

Left out: the content of settlements and compositions, and where bytes come from.

### ArenaSeek

A *callable* keeps the handle it was born under and a stamp. The model covers every way a
frame's request is resolved (`Call`, `TailCall`, `Hop`, `Eval`), the five outcomes of a seek
(`SeekKeyless`, `SeekHit`, `SeekWanting`, `SeekBarren`, `SeekSettles`), the placement with the
levels a replay holds (`HoldLevel`, `Place`, `ReleaseLevel`), the eviction a missed birth runs, and
the first step: run, `Bounce`, `Rebuild` or `Replay`. The frames of a birth are a chain; the
drain runs one birth at a time, so nothing interleaves with one.

Choices: a body has one key; a layer of composed code below a frame covers a module when its key
binds that code; a handle that anything still names is never laid again (generations are
`BuildArena`'s business); the order in which missing compositions are found is left open; the
micro-steps of one `create` are separate steps here, though the code runs them in one call, so the
properties hold between them too. `Lending::Parent`, by which blocks and evaluations run where
their asker runs, changes nothing here and is left out.

Fairness: weak fairness of the birth's steps (`Create`, `First`). The drain's loop never rests in
the middle of a birth.

### Drain and CallStack

A turn of the loop is three steps, *pop*, *step* and *settle*, so that what is alive while a step
runs is a state. A step may end in every way the veneer (`action.rs`) allows; what it computes is
left open. Of programs the model keeps one rule, which `program/body.rs` and `dispatch/caught.rs`
keep: a step holding the kept cell of a fault hands the fault on, reads the kept cell beside, or,
as the root work, leaves. A cell is fresh (a tree cell) or shares its parent's region (a tenant);
a wait is a run of receipts, one slot a child; `prov` is the provenance a continuation carries;
`held` are the borrows of arena nodes. Whether a loop cell has grown enough to be compacted is left
open once it has been weighed. Left out: bytes, types, scratch, the arena node a seek finds.

`CallStack` is the abstraction: a stack of waits, each answered in order by the youngest; a fault
unwinds it to a handler; the run ends or is abandoned.

Fairness: weak fairness of `Pop`, `Step`, `Settle` and `Drop`. The loop does nothing else, a step
is a function call that returns, and the embedder drops the outcome of a run.

### CellSlab and Retention

Every verb of the slab is an action: `Create`, `Hold`, `AllocInto`, `Rest` (keep), `Release`, and
`Attach` and `Detach` for whatever lives under a slot. `below` counts the tree children, tenants
and borrowers that keep a dead cell in its slot, without saying which they are. A disposal is one
of `Reclaim`, `AbsorbIntoCell`, `FoldIntoNamer`, `Seal`, then one step for each iteration of the
worklists (`ReleaseSealedHold`, `AbsorbSingleton`, `ReclaimUnheld`, `Flat`); no verb runs until it
ends, and within it every intermediate state is checked. Worklists are taken in any order, which
covers the last-in first-out of the code, and sealed ids are serials: the tier reuses an index,
never a serial.

The relocation map is `fate` and `first`: where a departed cell's keys lead, and where its block of
masks starts there. A lineage chain is the set of keys that lead to a region. `bundle` and `reads`
are history, not code: which cells' storage lies in each region, and which cell's storage reads
which. A carrier remembers in `over` the cells its value may read. Together they say what a
redeem must cover and what must not be freed.

Left out: bytes, pricing and the verdict it feeds (a crossing pins or copies; the copy reads
nothing new), scratch, headers, homes in tree cells.

`Retention` is the abstraction: cells are born, values cross between them, cells leave their
slots, and storage may be freed only with everything that reads it.

Fairness: weak fairness of the cascade, which runs inside the call of the verb that began it. The
embedder may stop calling, and a graph whose births are used up and dead is done, so both runs
switch the deadlock check off.

### TreePool

`Create`, `CreateTree`, `CreateTenant` are the births, `Pin` an upward or downward placement with
the pledges it makes on the way (`Unpledged`), `Keep` a carrier put to rest, `Release` and
`ReleaseTenant` the declared deaths. A disposal is a walk up the chain, one cell a step (`Splice`,
`Reclaim`, `ReclaimRoot`, `Relocate`, or `Stop` where a cell is live or held), and no verb runs
until it ends. `Resolve` follows the tombstones of a key.

A birth happens once and so stands for a handle: an index under one generation. Bytes are the
birth they were written as, `lies` says in which home's region they are now and `reads` which read
which; both are history. A value may be pinned by any step that can be running in its tree and can
hold a carrier of it (`Operands`); crossings off the chain are copies and read nothing. When a root
leaves its slot its storage is freed at once (`ReclaimRoot`), or goes wherever `CellSlab` sends it
(`Relocate`) and is freed later (`ForgetChain`). Left out: bytes and prices, lends (`Lends`).

`Retention`, which the slab implements too, is the abstraction: no bytes are freed that bytes still
there can read.

No fairness: nothing here is promised to happen. The run switches the deadlock check off, as a
graph whose births are used up and gone is done.

### Lends

Homes (slab and tree cells) and tenants, with the counts each home keeps: children, tenants, the
tenants that name its scratch, and the borrowers of its scratch and of its region. `CreateTree` and
`CreateTenant` take every lend `resolve_lend` and `resolve_tenant_lend` allow. `Step` is one entry
of a cell, from the slots it takes to the drop of its context: it may park state, hold the scratch
of a tree cell, take receipts, register a run, file a receipt in the run it has already taken, and
panic, which skips the end of the step. `Deliver` files a receipt from another cell's step.
`TailLays` lays a registration down after the end. `Release` and `ReleaseTenant` begin a disposal
walk, `SettleDeadScratch`, `DisposeRoot` and `DisposeTree` are its iterations, over the homes still
to visit in any order. `Waits` is the graph the audit of `lend_cycle.rs` builds, and `Stuck` is what
is on a cycle of it or waits on what is.

`outlived` and `torn` are history: the lends of departed tenants a scratch may still name, and
whether a reset took what something named. `MayName` and `MayRegister` bound how many cells name a
scratch and how many runs there are. A run has one slot, as what is between its slots is `Drain`'s;
left out too are the widths of runs, regions and what is in them, and the pin matrix.

Emptying is stated as safety (`EmptiesUnlessCycle`, in `OnlyCyclesHold`: when all is released and no walk is on, nothing
is left), so no fairness is needed; a walk that never ended would be found as the deadlock or the
cycle it is by `CellSlab`'s `CascadesEnd` for the part of it that extends its own lists, and here
every iteration takes a home off `visit` and puts others on only with a count that drops. The run
switches the deadlock check off for the reason given above.

### Overloads, Arms and Narrowing

`Overloads` is the ranking as operators: a candidate's shape is a type or a variable for each slot;
the use's ranking puts each slot in a class; `Walk` admits class by class, each class solving the
variables it is the first to name. `Judge` is the load's verdict over intervals of types (never,
maybe, always, and which solutions are points), `NeverRuns` what the load drops, `Survivors` the
elimination, `Narrow` the load's narrowing of a use and `Select` and `Call` what a run does with it.
`Whole` is the reference: the run's selection over every candidate, as if the load had kept all.
`Arms` says the same of a MATCH: guards, their verdicts, the arms dropped, and `TakeArm` against
`TakeOfAll`. `Narrowing` is the order of events: a use or a MATCH is written, `Load` fixes it once,
`RunCall` or `RunMatch` runs it over any types its static types allow.

A type is a set of atoms: subtyping is inclusion, join union, the least type the empty set, the
greatest all atoms. That keeps what the rules tell apart (a type below, above, disjoint from or
overlapping another) and leaves out structure. A slot is a type or one bare variable; a container of
a variable, whose solution can depend on several arguments' parts, is left out, and so are rigid
lexical arguments, the rules of builtins, surfaced heads and instance sites. The elimination the
load precomputes as a table and the one the lattice runs are one operator, `Survivors`, here: that
they agree is a property of a table's bits and not of the narrowing.

Nothing is concurrent and each step happens once: no fairness, and the run is over after its three
steps, so the deadlock check is off.

### Layout, LayoutRules and LayoutReads

The reader is a recursive descent; `stack` is its recursion, a frame for each group being read over
a base frame for the list it returns. A frame keeps the local variables of its call: the kind of
the group, whether line breaks are ignored in it, its items so far, and the indentation it is
measured against (`indent` of `layout_line`, `opener_indent` of `group`). `pos`, `layoutIndent`,
`flat` and `depth` are the fields of `Reader`. Each step is one decision of the descent: an atom,
string or comma (`Leaf`), a line that joins the one before (`Join`: in a flat group, after a comma,
before the single group that `read_group` reads), a line that opens a group (`StartLine`) or ends
one (`EndLine`), a bracket (`Open`, `Close`), a closer on a line of its own (`CloserLine`), a paren
left open at a line that cannot be in it (`Dangle`), the end of the source (`End`). Every error is an
`outcome`.

The lexer is the environment: `Lex` extends the stream by any token a source can lex to there, a
line together with the token after it, since no line is blank. The code lexes all of a source
first; handing the tokens over as they are read comes to the same, as the reader looks no further than
the token after a line and a faulty source is read up to its fault. Left out: what characters make
a token, the unclosed string (the lexer's only error, met before any reading), spans and rendering. An
item's glue, which the code computes when the item is finished by peeking at the next token, is set
here when that token is consumed. A paren's block of lines is restored to its opener's line where
the last of them ends (`EndLine`), which is when the loop of `group` is left.

`LayoutRules` says what a stream reads as with no reader: for each token the bracket it stands in, for
each line whether it is joined, a closer's own or a group, for each opener the line it is anchored
to, and from these the tree, or the first fault. It is written from the rules in the documentation of
`sexlex/lib.rs`, with a parameter for each of the two points on
which the reader parts from the documents: whether a closer's own line is held to even widths of spaces,
and whether a line is counted around a group read alone. `ReadsByRules` takes the documents' side of both,
and lets the reader take its own only in a read that stops at such a line (`StopsAtCloser`) or whose
group is too deep for a line (`TooDeepOnLine`).
Nothing is concurrent; no fairness is needed, since the outcomes are checked where a read
returns and the deadlock check is on: a reader with no rule for a token would be found.

## Runs

| run | instance | properties |
|---|---|---|
| `arena_books` | `MCBuildArena.cfg`: Three slots, two borrowers, one key and two compositions over a one-byte budget: any interleaving of inserts, hits, borrows, releases and evictions keeps the counts, the index and the held bytes exact, evicts nothing that is read and always gets back under the budget; and the books implement the store, in which counts, turns, stamps, generations and the index are replaced by what they decide: holding by reachability and least recent use. | `TypeOK`, `NoDangling`, `BooksExact`, `BudgetKept`, `ImplementsStore` |
| `seek_written` | `MCArenaSeek.cfg`: Code of the program's text, over a budget that keeps no settlement: a loop that a callable births and that births one, a body with no key that births callables, a body nothing settles for. Whatever was evicted, a frame stands under its callable's stamped levels and its own settlement and has the stamp of what it births; the three cases that fall short of the documents (a callable born with no stamp, the keyless frame that births it, the replay after a hop) are reached and named, and there are no others. | `TypeOK`, `WarmAsStamped`, `ReplaysWhereBorn` |
| `seek_composed` | `MCSeekComposed.cfg`: Three codes composed at run time, bodies of one binding a module of another, over a budget that keeps one composition: bounces, rebuilds and replays leave each frame on its composition and its stamp's chain, or, with no stamp and its composition evicted, on the composition alone; every foreign module is pinned, no borrow left behind, and every birth ends. | `StampsHold`, `BorrowsAreFrames`, `ModulesPinned`, `BirthsEnd` |
| `seek_thrash` (a violation) | `MCSeekThrash.cfg`: With two foreign modules a key binds and a stale callee, a rebuild builds one composition, and evicts the other, for ever: seek.rs says the frame is born under its settlement and parks for nothing. | `BirthsEnd` |
| `drain_calls` | `MCDrain.cfg`: Two root works of at most five cells between them, the first of which may fail part way, asking for fresh and shared children under every use, in waits of one and two, raising, catching, tailing and reborn: the drain is a call stack, wakes each waiter once, releases each kept cell once, ends, and leaves no cell and no borrow behind. | `TypeOK`, `WaitsAnswered`, `NothingLeaks`, `IsACallStack`, `RunEnds` |
| `drain_loops` | `MCDrainLoops.cfg`: Tail loops of up to seven cells that thread values and compact their loop cell: at most two hops and two loop cells of a loop are ever live, and each loop cell lives exactly as long as a hop may read it. | `NeverStalls`, `LoopsBounded` |
| `slab_counts` | `MCCellSlab.cfg`: Four births over three slots that hold each other and die in every order: through every seal, fold, absorption and cascade the counts are the sets they stand for, no name is stale, a cascade ends, and between verbs only a ring of sealed regions outlives its holders. | `NamesCounted`, `OnlyRingsStay`, `Flattened`, `CascadesEnd` |
| `slab_keys` | `MCSlabKeys.cfg`: Three births that keep carriers, redeem them, build values over them elsewhere and die, a child or a borrower holding a dead slot back: a key finds its home's bytes wherever they were moved, a redeem hands back a reach that covers the value, and no storage a cell can still read is freed. | `TypeOK`, `MovesWhole`, `RedeemCovers`, `ImplementsRetention` |
| `tree_pledges` | `MCTreePool.cfg`: One root, three tree cells, a tenant, two kept keys and two crossings: whatever is pinned upward, kept, released and disposed of, each cell between is pledged, a key finds where its bytes were spliced, a tombstone goes with them, and no bytes are freed under a reader. | `TypeOK`, `PledgesReach`, `SplicesFollowed`, `ImplementsRetention` |
| `lends` | `MCLends.cfg`: A root, a tree cell, two tenants used again and again and one receipt run, steps that park, hold, register, file and panic: counts are exact, no reset takes what something names, no lender goes under a borrower, and once all is released the graph empties unless lends wait on each other in a cycle, which then holds for ever. | `TypeOK`, `CountsExact`, `ScratchKept`, `OnlyCyclesHold` |
| `narrowing` | `MCNarrowing.cfg`: Every list of one to three of ten candidates, under three rankings and 25 pairs of static types, and every set of one to four of ten guards over every scrutinee of three atoms: what the load keeps runs, binds and fails as the whole would. | `Transparent`, `VerdictsSound`, `ArmsRunTheSame` |
| `layout` | `MCLayout.cfg`: Every source of at most three lines and five other tokens, lines at indentations 0 to 4 with a tab among them, parens and brackets nested up to and past the limit, read whole or as the one group it opens with: an opener anchors to its own line, and the read comes to the tree the documented rules give, or to the first fault they find, but where it stops at the indentation of a closer's own line or, alone, nests one deeper than a line lets it. | `Anchored`, `ReadsByRules` |

What each property says is the comment above it in its module. In short:

- `arena_books`: the counts, the index and the held bytes are what they stand for, the counts at
  every step of a turn (`BooksExact`, which is `CountsExact`, `IndexExact` and `HeldExact`); no
  handle read by anyone dangles (`NoDangling`), an eviction ends under the budget (`BudgetKept`),
  and the books implement `ArenaStore` (`ImplementsStore`).
- `seek_written`: a frame stands under the levels its callable's stamp names, in order, and its own
  settlement under them, however much was evicted; a live handle opens the node its stamp names;
  a body that births callables has their stamp (`WarmAsStamped`: `StandsUnderStamp` and `StampAtHand`);
  a replay starts from the root or the composition (`ReplaysWhereBorn`). Each names its one exception,
  where the code falls short of what the documents promise; the program reaches them all.
- `seek_composed`: a frame runs where its callee was stamped, with its one exception, and its stamp
  names the node it runs under (`StampsHold`: `RunsWhereStamped` and `StampsNameTheirNode`), it
  reads no module that is not pinned (`ModulesPinned`), only running frames borrow
  (`BorrowsAreFrames`), and a birth ends (`BirthsEnd`).
- `drain_calls`: the drain wakes a waiter once, has one cell to report to each slot, and keeps
  siblings in order (`WaitsAnswered`: `OneWake`, `OneReporter`, `InOrder`); it keeps what a fault
  kept until it is read and leaves nothing behind (`NothingLeaks`: `KeptWhileNamed` and
  `EndsEmpty`), is a call stack
  (`IsACallStack`) and ends, never in a state it has no rule for (`RunEnds`).
- `drain_loops`: no hop reaches for a cell that is gone (`NeverStalls`); a tail loop runs in
  constant occupancy and each loop cell lives as long as a hop may read it (`LoopsBounded`:
  `TwoHops` and `LoopsOwned`).
- `slab_counts`: tallies, holder counts and the naming index are exact at every step of every
  cascade, no name is stale, and a fold's release of what it holds twice is never the last
  (`NamesCounted`: `CountsExact`, `NamesLive`, `DuplicatesSurvive`); a fold leaves nothing it holds
  alone (`Flattened`), only rings outlive their holders (`OnlyRingsStay`), cascades end
  (`CascadesEnd`).
- `slab_keys`: masks at rest are covered by the row of their cell and a key leads to its bytes
  (`MovesWhole`: `MasksCovered` and `KeysFollowBytes`), a redeem covers its value (`RedeemCovers`),
  and the tiers implement `Retention` (`ImplementsRetention`).
- `tree_pledges`: whatever was pinned upward, every cell between is pledged at least as far
  (`PledgesReach`); a key finds where its bytes went, and a tombstone is there exactly as long as
  they are (`SplicesFollowed`: `KeysFollow` and `TombstonesLead`); the pool implements `Retention`.
- `lends`: every count is what it stands for (`CountsExact`); what a scratch may name is in place,
  and a receipt run has one owner (`ScratchKept`: `LendsStay` and `RunsSole`); the graph empties
  once all is released, unless lends wait in a cycle, and what waits in one waits for ever
  (`OnlyCyclesHold`, with `EmptiesUnlessCycle`).
- `narrowing`: a call over what the load kept runs, binds and fails as one over every candidate
  would, and a use the load refuses could never have run (`Transparent`); a verdict over static
  types holds of every type they allow, and so does the solution recorded with it
  (`VerdictsSound`); a MATCH takes the arm the unpruned one would take (`ArmsRunTheSame`).
- `layout`: the depths are those of the groups open, each line is deeper than the line it nests in,
  and wherever an opener may come, the one field of indentation is that of its own line, whatever
  nested, joined or closed before it (`Anchored`: `Books`, `Chained`); a read comes to the tree the
  documented rules give or to the first fault they find, with two exceptions (`ReadsByRules`).

### Bounds, and why they are enough

- `arena_books`: three slots are a chain of two with a sibling or a pin across; two borrowers race
  a release against a borrow; one bit of generation wraps at once; weights of one over a budget of
  one make every second unheld node a victim.
- `seek_*`: a settlement weighs two, a composition one, over a budget of one: whatever nobody holds
  is evicted at the first chance, which is the adversary of every promise made to a frame.
  `seek_composed` takes three codes, so that one can be evicted while another runs, and keys that
  bind a module of another; written code beside it would evict as well, but takes `BirthsEnd` past
  five minutes. Two levels of nesting are what a
  stamp of more than one level needs. Two cells suffice: a birth's chain is its newborn and the cell it
  succeeds, and a callable is born in one call and called, or tail called, in another. `MaxDeep` caps
  the chain a loop lays below itself, which nothing in the code does: a hop is
  modelled from a node two deep at most, so one replay stacks on another. Instances
  with a depth of four (2.2 million states), where two do, and with three cells and one birth
  (136,000 states) were checked once for `StandsUnderStamp`, with the same result.
- `drain_calls`: five births are a waiter with two children, one of which waits or tails, and a
  successor; two root works show what a failed run leaves to the next. `drain_loops`: a compaction
  needs a hop to make the loop cell, one to weigh it and one to compact it, each a birth: seven.
- `slab_counts`: four births over three slots reuse a slot, and make two sealed regions that name
  each other or share a holder, the smallest cascade that folds, releases a duplicate and dissolves
  a ring. `slab_keys`: three births are a home, the cell it is merged into and a reader, two
  carriers an entry each of a table that moves, one thing below holds a dead cell in its slot. Slots are
  symmetric: nothing in the code or the properties orders them.
- `tree_pledges`: three tree cells under a root are a chain with a cell between its ends, which is
  what a pledge left out needs, and two splices, so that a tombstone hangs off a cell that itself
  leaves one; two keys, two crossings and a tenant let a pledge be deepened while a key waits.
- `lends`: one root, one tree cell and two tenants used again and again make every kind of borrower,
  a lend handed to a scratch that holds it already, and the shortest cycle; one receipt run and at
  most two cells naming a scratch at once are what two owners of a run would need. Checked once with
  two tree cells and one tenant, without runs (428,000 states), with the same result.
- `narrowing`: two slots, two variables and three atoms; up to three of ten candidates, so that one
  always admits, one may and one ranks between; up to four of ten guards, every kind of guard among
  them. The static types include a point, an open and a closed interval and the greatest type.
- `layout`: three lines are a line, one nested in it or in a paren it opens, and one after; five
  other tokens open, fill and close two groups or leave more open; a line and three openers, or four
  alone, pass the limit of three. Two kinds of bracket tell a paren from a flat group and a right closer from a wrong
  one. Checked once with a limit of four (4.1 million states), with
  the same result.

## Where the code and its documents disagree

One run checks what a document says and finds the code doing otherwise; PROJECT.json's finding
quotes the lines.

- `seek_thrash`: with two foreign modules a key binds and a stale callee, a rebuild builds one
  composition and the eviction after it takes the other, for ever.

Others are exceptions that a property of a passing run names, each reached by that run: without the
disjunct the run fails, and with it TLC shows that, in that instance, the code departs from the document there and
nowhere else.

- `RunsWhereStamped` (`seek_composed`): a callable born under a composition has no stamp. Once the
  composition is evicted its call is born under the root and bounces (`program/body.rs:278`); the
  bounce enters the rebuilt composition and asks for no settlement, and with no stamp nothing
  replays, so a keyed frame runs unsettled. `design/build-storage.md:151-153` has a call after an
  eviction rebuild the settlements it ran under rather than be born cold.
- `StampAtHand` (`seek_written`): `stamped` (`program/body.rs:415`) takes a frame under a node other
  than its callee's handle for one under its own settlement. A keyless callee born by a replay runs
  under the rebuilt node, so a callable it births has no stamp. The assertion at
  `program/body.rs:426` denies it, and `program/README.md:615` says such a frame carries its callee's.
- `StandsUnderStamp` (`seek_written`): that callable, once its own node is evicted, has nothing to
  replay, and its call runs under the root, unsettled.
- `ReplaysWhereBorn` (`seek_written`): the successor of a `tail_under` hop (`program/body.rs:293`)
  arrives `Placed`, not `Replayed`, under its frame's settlement, while its callee's node is still
  gone: its first step replays the stamp from that settlement, and each hop lays the whole chain
  again below the one before. `scheduler/action.rs:954-956` says a replay starts from the root or
  the composition the callee was born of.
- `StopsAtCloser` of `ReadsByRules` (`layout`): `sexlex/src/tests/examples.rs:57` says the indentation
  of a closer's own line in a paren body is free-form; `take_layout_line`
  (`sexlex/src/reader.rs:264`) refuses an odd width or a tab there (`CloserLine`).
- `TooDeepOnLine` of `ReadsByRules` (`layout`): `sexlex/src/lib.rs:220` says a group read alone reads
  as on a line of its own. The limit on nesting is the exception: no line is counted around it
  (`sexlex/src/reader.rs:53`), so it may nest one deeper than on a line.

More were met that no run shows:

- `graph/lend_cycle.rs:44` says of cells on a lend cycle that nothing under them disposes either. A
  released child of such a cell does: only what waits on the cycle is stuck (`Stuck`).
- `cellgraph/src/graph.rs:5555` says a registration replaces only a run whose every slot was drained,
  so nothing is lost. A step that takes its receipts, registers and then files one in its own
  drained run loses it with the run (`files` of `Step`): the run is not given back for reuse and its
  bytes wait for the reset.
- `Kind::Left` (`scheduler/drain.rs:620`) never releases a loop cell of the root work's own, as
  `Finished` and `Faulted` do. Only a caller of `Scheduler::run` whose root work tails into a loop
  that threads could reach it; koan's root work does not, and `Hop` keeps to that.
- `Step::placement` (`scheduler/action.rs:967`) answers `Fresh` for a tenant of a tree cell, since
  a tenant inherits its host's lend (`cellgraph/src/graph.rs:1482`), while
  `scheduler/README.md:303` says a rebirth keeps its placement. `Rebirth` takes the code's rule.
- `arena.rs:46` speaks of unheld bytes staying within the budget; they exceed it after a release,
  and until the next miss (`BudgetKept` says what does hold: an eviction ends under it).

## Proofs

The theorems hold for every value of the constants, under the assumptions the modules name on
them, and for any interleaving. Each says `Spec => []P`, or `Spec => A` for an action property or a
refinement, by an inductive invariant: it holds at first, each action keeps it, and it implies `P`.
TLC checked each invariant on the module's run before it was proved.

| theorem | module | states |
|---|---|---|
| `TypeCorrect` | `BuildArena_proofs` | `TypeOK` |
| `NeverDangling` | `BuildArena_proofs` | `NoDangling`: what is borrowed, the parent of a live node and what it pins are live at the generation held |
| `LinksExact` | `BuildArena_proofs` | the counts of borrowers, children and pinners are the numbers of each there are |
| `BooksHold` | `BuildArena_proofs` | `BooksExact` |
| `BudgetHolds` | `BuildArena_proofs` | `BudgetKept` |
| `ArenaKeepsStore` | `BuildArena_proofs` | `ImplementsStore`, the refinement of `ArenaStore` |
| `TypeCorrect` | `ArenaSeek_proofs` | `TypeOK` |
| `BorrowsKept` | `ArenaSeek_proofs` | `BorrowsAreFrames` |
| `ModulesArePinned` | `ArenaSeek_proofs` | `ModulesPinned` |
| `Types` | `Drain_proofs` | `TypeOK` |
| `Unstalled` | `Drain_proofs` | `NeverStalls` |
| `Answers` | `Drain_proofs` | `WaitsAnswered` |
| `Loops` | `Drain_proofs` | `LoopsBounded` |
| `Leaks` | `Drain_proofs` | `NothingLeaks` |
| `CallStackKept` | `Drain_proofs` | `IsACallStack`: the refinement of `CallStack`, from the same invariant |
| `Invariant` | `Drain_proofs` | `IInv`, the inductive invariant the six are drawn from |
| `TypeCorrect` | `CellSlab_proofs` | `TypeOK` |
| `NamesHold` | `CellSlab_proofs` | `NamesCounted` |
| `MovesHold` | `CellSlab_proofs` | `MovesWhole` |
| `FlatHolds` | `CellSlab_proofs` | `Flattened`, an action property |
| `RetentionHolds` | `CellSlab_proofs` | `ImplementsRetention`, the refinement of `Retention` |
| `RedeemHolds` | `CellSlab_proofs` | `RedeemCovers` |
| `RingsHold` | `CellSlab_proofs` | `OnlyRingsStay` |
| `TypeCorrect` | `TreePool_proofs` | `TypeOK` |
| `PledgesHold` | `TreePool_proofs` | `PledgesReach` |
| `SplicesFound` | `TreePool_proofs` | `SplicesFollowed` |
| `PoolKeepsRetention` | `TreePool_proofs` | `ImplementsRetention`, the refinement of `Retention` |
| `TypeCorrect` | `Lends_proofs` | `TypeOK` |
| `CountsHold` | `Lends_proofs` | `CountsExact` |
| `ScratchHolds` | `Lends_proofs` | `ScratchKept` |
| `AnchorsKept` | `Layout_proofs` | `Anchored` |

### Counting and recursion

`Counting_proofs` stands under all components but the reader. The library's induction theorems take an
operator as a parameter and cannot be used, so an induction is a least counterexample: the set of
the numbers, or of the sizes of sets, for which a claim fails has a least member (`LeastNat`,
`FewestMembers`, from the well-foundedness of `<`), and there it does not fail. That is enough for
what the models compute recursively. A recursive function is a `CHOOSE` of a function that equals
its body: one such function is exhibited, and any is then shown to be what was meant. `FoldSums` says a fold
with `+` over a finite set is its sum, where the sum is the size of a heap that holds `w[x]` pairs
for each `x` (so the laws of sums are laws of cardinalities), and `Reach` says that `n` rounds of
adding what is reached, from a subset of `n` elements, give the least set closed under reaching.

### The build arena

The assumptions are those `BuildArena` names on its constants (`ArenaAssumption`): slots and owners
are finite, a generation has some width, a key is no digest, every weight and the budget are
positive, and `Root` and `None` are nothing else.

`NoDangling` is not inductive. An eviction looks at the counts of its victim, not at who reads it,
so the invariant must say the counts are right (`LinksCounted`); and a turn in progress carries a
handle whose node must not be evicted under it (`TurnOK`). `IInv` is the conjunction with `TypeOK`.
The proof has one lemma for each verb. A verb moves one count by as much as it moves one set.

`BooksExact` speaks only of states in which no turn is on, and is not inductive either: while
`turned` loops, the held counts above the node it has reached lag behind. `HoldsTold` says by how
much: to the parent, and to the pins not told yet, a node being told of counts as it was before it
turned. `TurnHeld` says that the node told of has indeed turned; `BytesTold` that the totals are the
sums over what is live and held, mid-turn too; `IndexExact` that each key and digest finds its node.
`PinsCompositions` (a settlement pins compositions, and a composition hangs from the root and pins
nothing) is why a node is not told of twice in one turn. `Founded` says that among any live nodes
one has none of the others below it or pinning it: a new node has nobody below it, and nothing is
ever linked to it but by a newer one.

The budget follows from `Founded` and nothing about the order of eviction: were unheld bytes left,
the unheld nodes would have one with no unheld node below or pinning it; what is held below or pins
it would hold it; so it has no child and no pinner, and is a victim. For the refinement, a turn is a
stutter: `ArenaStore` reads only who is live, what they open and the stamps. `StoreHeld` shows
that, between verbs, held by the counts is held by reachability: what is held is reached, by
`Founded` again, and what is reached is held by induction along the chain. So the same bytes are
unheld and the same nodes are victims.

`ArenaStore`'s reachability walks as many rounds as there are live nodes.

### Seeks

The assumption is `SeekAssumption`: keys are no digests, a callable's births are bodies of the
program, the code an EVAL runs has no key, a key binds finitely many compositions, and the names
for none and for the root are nothing else. Which bodies birth which, what their keys are and what
those bind are open.

`BorrowsAreFrames` speaks of the states between births only. `FramesOK` says where a cell that
borrows is at any moment: on the stack, once, or the newborn, or the cell it succeeds, never two of
these; a level of a replay is held by a birth alone. `BirthOK` ties the tasks a birth has left to its
callable (a settlement of its own is its callee's), without which a level could be handed to a frame
that seeks none, and `TypeOK` would fail at a stamp. That composed code never runs under the root,
the last conjunct of `FramesOK`, is what makes a callable's `build` a node or the load and never
nothing.

`ModulesPinned` rests on a miss leaving out what a settlement above binds already (`ToPin`). `Forest`
says that settlements inherit the base of the node above and compositions are their own, so a
settlement above that binds `d` has the same base, and had to pin `d` or rest on one that does;
and that any live nodes have one with its parent outside them, so chains end. A chain is defined
by closed sets (`Chain`), as the walks of the model are recursive: `LayersChain` and `AboveChain` show
that `Layers` and the `above` of the property follow it. A node laid is on no chain but its own
(`LaidChains`), and one evicted is under none and pinned by none (`EvictPInv`), by the guard of
`ArenaStore`'s eviction, which the books were shown to keep.

### The drain

The assumption is `DrainAssumption`: there is a bound on births and on runs, and a wait asks for
something. `Asks` may be any set of requests, of any width.

The drain keeps no call stack; it keeps a stack of entries, cells with a provenance, and runs of
slots. The invariant is the call stack that these amount to, in four parts, each stated of a *table*
(the variables about cells as one value), of the work being done and of the cell that does it.

- `Stacked`. The waiting cells, in the order they were born, are the frames. Each frame's provenance
  names the slot its predecessor is being answered at, the slots below it hold values, those above
  are empty (`AnswersAt`), and where it may write, and where the values it holds lie, is a frame
  under it, the loop cell of one, or the root (`Anchors`). The work reports to the topmost frame.
- `Queued`. The ready stack under the work is what the frames have still to be answered, ordered
  as they are: so the top is the next sibling of the work, and when the work was the last there is
  none left. That is why `asked_by` pushing in reverse, and a fault's dropping of what lies on top
  with its own parent, are right, and they are right for no other reason.
- `Looped`. Every loop cell has one holder: a frame, the work, or a successor not yet born that
  left it.
- `Keeps`. What a fault kept is one chain in the order of birth (`FaultChain`), each link to the
  next born, the first held by the work or by nothing; none of it was asked for by a frame
  (`Raised`). A predecessor or a cell read beside lies aside with it.

Nothing else stands, which is what makes leaks a matter of the same invariant as early releases.
The shape is over the table, so that one end of a step is a chain of lemmas over tables: what was
held aside goes (`ReleaseAside`), then what the end releases of its own (`ActorEnds`), then the work
moves to the next sibling (`NextAsked`), to the waiter (`Wakes`), to a child (`ParksOn`), or to a
successor (`HopOn`, `LoopMade`); `Dead` of a table is the table with some cells released. `AtPop`,
`AtStep` and `AtSettle` say which table and work a state is at; between filing a result and
settling it the runs are a slot ahead of the shape, which `Unfiled` takes back.

`BornInOrder` (the cells born are the first so many) makes the next cell younger than any frame.
`TwoHops` and `InOrder` are conjuncts themselves: that a third hop is never live needs that a
reporter's predecessor is released before its successor tails, and is not to be read off the shape
alone.

The safety theorems are drawn from it. `OneReporter` counts frames and requests that would fill a
slot: one at most by `ServedOnce`, one at least by `Queued`. `KeptFrom` is a recursion on links;
`ChainReached` shows that the least set closed under links from the fault in flight is the whole
chain, and `Reach` that `MaxCells` rounds reach it.

So is the refinement. The waits are the waiting cells in the order of birth, each with what it asked
for and has been answered; `Rank` and `Line` put cells in that order, and `LineGrows` says that a
younger cell is the line's next element. A `finish` is an `Answer`, or a `Resume` when it was the last;
a `fault` is a `Raise`, a `park` an `Ask`, a pop of a cell woken by a fault a `Handle`. The rest are
stutters, for what is released never rests (`RestingHeld`), or end a run and begin one.

### The slab

The assumption is `SlabAssumption`: the slots are finite, at least one and no numbers, the bounds are
natural numbers, and what stands for none is none of them.

The names are the conjuncts `CountsExact` and `NamesLive`. Each count is the size of a set, and an
action moves at most two members of it: out of where a region was, and into where it went
(`Replaces`). Where the second was a member already the count falls by one, and that one is what
`drops` owes; so the counts are exact in the middle of a cascade only with what is still to be
released. That a hold to be released is never the last (`DuplicatesSurvive`) needs `TargetOK`: while
a region takes others in, every hold to be released is of a region that it names itself, and every
region it alone holds is on its worklist. A popped region that is not its alone has two holders, a
fold puts back all it brings in, and a release takes a count and a debt down together; `Flattened`
is that conjunct when the worklist is empty. `SerialsOK` bounds the serials by the cells that have
left, so that an id minted by a seal is in no name.

`MovesWhole` needs to know where the bytes are: those of a birth lie in one region (`BundlesOK`), and
where a departed birth has a forwarding entry it leads there (`FatesOK`). Every action that ends a
region, be it of a slot or of a sealed region, moves its bytes and keys to another (`BytesMove`) or
frees them (`BytesFree`), and those two lemmas carry the keys. An entry lands where its key says
because the absorber's table is read before the moved block is appended to it (`Migrates`); masks
at rest are covered because the rows of their holders grow before a row goes, or, at a seal, lose the
bit and gain the id together.

That no byte goes that can be read is harder to make inductive, because a hold is not transitive: a
cell that holds a sealed region holds what is in it, and what that region holds in its turn, but a
cell that holds another cell may read only its storage. `Keeping(S, c)` is the notion that survives
every move: `c`'s bytes lie in every set of regions that includes `S` and is closed under what the
*sealed* regions in it hold. `RInv` adds to `IInv` that each read is kept under every region that
holds the reader's bytes (`ReadKept`), that what a carrier's value may read is kept by the reach a
redeem would hand back now (`ValueKept`), that a mask which names any slot names its own
(`HomesNamed`, which an absorption needs: it strips the dead slot from the absorber's masks and adds
nothing to them), and that a sealed region is held (`HeldOn`). The argument for a move of `r` into
`p` is one lemma (`KeepingMoves`): a set closed after the move, with `r` put in where `p` is, was
closed before it; the bytes it had then, it has now. `AllMoves` carries the reads and the carriers
through it, and the absorption, the fold, the seal and the singleton's absorption each show only that
names, tables and keys of `r` became those of `p` (`Moved`). Freeing a region is `AllGoes`: nothing
names it, so a closed set without it was closed before, and what others read was never in it alone.

The three properties are then drawn from `RInv`. In the refinement of `Retention` a birth is a
`Birth`; a value built over an operand a `Cross`, since the set of all regions is closed and so has
what the operand may read; a slot that is left, or a sealed region retired, a `Leave`, which frees
nothing where storage moves; anything else a stutter. `RedeemCovers` holds as the walk of `Keeps` is
a closed set (`KeepsIs`). `OnlyRingsStay` is an extremal argument: of the regions that keep an
unheld one, take one with the most under it; it is held, by no cell, so by another region of the
same kind, which has no more under it than the first, and so is under itself.

### The tree pool

The assumption is `PoolAssumption`: the roots are finite, not none, and no numbers; the bounds are
natural numbers.

A chain is a recursive function in `TreePool`, and two links make forests: `parent`, up which
pledges reach, and `into`, down which tombstones lead. The first part of the proof is about forests
alone: what is above a home is the least set closed under the link (`AncFunction`), a chain
(`AncChain`), and changes by exactly what a birth or a splice changes of the link.

`PledgesReach` says of a pin that each cell between is pledged. What keeps it true through splices
is stronger (`Safe`): whatever reads a home lies in it, below it, or above it no higher than it is
pledged. So the disposal of a cell with no pledge and no children frees nothing still read. The rest
of the invariant says which cells are in the tree and where (`Shape`), that a pledge is of an
ancestor (`PledgeOK`), where bytes and their readers may lie (`LiesOK`, `ReadsOK`), and that a
tombstone points to where its bytes went, and goes with them (`GravesOK`). `SplicesFollowed` and the
refinement of `Retention` are drawn from it: a freeing verb maps to `Leave`, a pin to `Cross`, the
others to a birth or a stutter.

### Lends

`LendsAssumption` is, as for the pool, of finite sets kept apart; that `None` is no lend is a
condition on the choice of `None`.

Each count of a home is the size of one of seven families of sets, and each step moves at
most one member in or out of each. That alone is not inductive: a run must have one owner
(`RunsOK`), or a receipt would be counted twice; a scratch is lent down the tree only, and what a
scratch holds covers what its departed tenants may have left in it (`LendsOK`); the tail of a step
and the disposal walk rely on the cell they act for (`TailOK`). That no reset tears anything is then
a property of the state the reset leaves (`NoTears`), not of its history. `TailLays` has
for a guard that `Runs`, a bound of the model, is not used up; the code allocates a run there.

### The layout reader

`Layout_proofs` proves `AnchorsKept`, that `Anchored` holds for every set of tokens and
lines, every length of source and limit on nesting. The assumption is `LayoutAssumption`: tokens
are tokens, an indentation and the limit are natural numbers. `Anchored` is not inductive: between
the end of a line nested in a paren and the paren's closer, `layout_indent` is that of a line that
has ended. `Settled` says when: what comes next is then a closer, the end, or a line that opens a
group in its turn, never an item. `IInv` is `Settled`, `Books`, `Chained` and the shape of the
stack (`Shape`: the base frame first and only there, a bracket or brace flat, no line directly in the
base of a group read alone). The step that carries the proof is `EndLineKeeps`: the last item of
the frame below is then a group, so no line joins it.

### Model-checked only

Of `ArenaSeek`, what depends on the program: that a frame runs where its callable was stamped
(`StampsHold`, `WarmAsStamped`), and where a replay starts (`ReplaysWhereBorn`). They compare sequences built by walks up the arena with stamps flattened
into tasks, and hold of programs whose text nests as the instances do, which no assumption on the
constants says. All of `Narrowing`, whose judgements are walks over data. Of the reader, the tree it builds
(`ReadsByRules`, whose oracle is recursive). Liveness under fairness (`BirthsEnd`, `RunEnds`,
`CascadesEnd`) is beyond the prover and stays with TLC.

## What is not modelled

- Typed storage and lifetimes (`region.rs`, `header.rs`, `handle.rs`, `memory/`): what the borrow
  checker discharges.
- Evaluation, values, knots, digests, rendering, parsing of atoms, generated builtins: sequential
  data work with tests of their own.
- Pricing of crossings: which verdict is given is left open, both outcomes are modelled.
- The load door: a construction with no state afterwards.
- Tooling, audits and observation.

PROJECT.json lists every part with its status.

## Plan

Done: the arena's books, their abstraction and the proof of both; seeks over the abstraction and
the proof of what they borrow and pin; the drain, its abstraction and the proof that it implements
it and keeps its safety properties; the slab, the sealed tier, the tree pool and the dormant keys
and their abstraction, the proof of the pool and of all the slab's safety properties; tenants,
lends and scratch and their proof; the narrowing of calls and MATCHes; the layout reader and its
proof.

Next, in this order:

1. `Overloads_proofs`: `NeverRuns` drops no candidate that survives, from the transitivity of the
   first class alone. `Walk` is a recursive function and stays opaque in it.
2. `Wakes` (`build/wake.rs`, `layer.rs`): the memo against the transitive definition; a layer reads
   its base only where nothing it binds is read.
3. `StampsHold` for every program, once the nesting of a program's text is an assumption.
4. `Retention`'s closure as a theorem of its own.
