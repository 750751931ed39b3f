----------------------------- MODULE MCArenaSeek -----------------------------
(* Programs for ArenaSeek.  A settlement outweighs the budget, so a miss       *)
(* evicts every one unheld, and keeps one composition.                         *)
EXTENDS ArenaSeek

CONSTANTS outer, inner, leaf, plain, walk, main, other, k1, k2, k3, k4, d0, d1, d2

MCWeight == [n \in Keys \cup Digests |-> IF n \in Keys THEN 2 ELSE 1]

\* `plain` and the codes themselves have no key; nothing settles for `leaf`'s.
MCKey == [b \in Bodies |-> CASE b = outer -> k1 [] b = inner -> k2 [] b = walk -> k3
                              [] b = leaf -> k4 [] OTHER -> None]

\* Written code: `outer` births `inner`; `plain`, which births it too though it has no key; and
\* `walk`, a loop, which births `leaf`, and is declared at the top level beside.
MCNested == [b \in Bodies |-> CASE b = outer -> {inner, plain, walk} [] b = plain -> {inner}
                                 [] b = walk -> {leaf} [] OTHER -> {}]

\* Composed code: `main`, the code of d0, births `outer`, which births `inner`.
MCComposedNested == [b \in Bodies |->
                       CASE b = main -> {outer} [] b = outer -> {inner} [] OTHER -> {}]
MCNoCode == <<>>
MCCode == [d \in {d0, d1, d2} |-> IF d = d0 THEN main ELSE other]
MCMainOnly == [d \in {d0} |-> main]

\* `outer` and `inner` bind a module of other code, or `inner` two.
MCBindsNothing == [k \in Keys |-> {}]
MCBinds == [k \in Keys |-> IF k \in {k1, k2} THEN {d1} ELSE {}]
MCBindsTwo == [k \in Keys |-> IF k = k2 THEN {d1, d2} ELSE {}]
=============================================================================
