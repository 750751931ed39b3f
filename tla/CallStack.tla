----------------------------- MODULE CallStack -----------------------------
(* What a drain promises: a plain call stack.  The running call waits on the  *)
(* calls it asks for, which answer one at a time and in order; a call that    *)
(* raises ends its asker's wait at once, the rest of what was asked unrun;    *)
(* only the outermost call ends the run.  Receipts, cells, tails and the      *)
(* ready stack are how the scheduler keeps this promise.                      *)
EXTENDS Naturals, Sequences

CONSTANT Widths     \* how many calls one wait may ask for

VARIABLES
    waits,      \* the waits above the running call, outermost first
    raised,     \* whether the call to run is handed a fault
    over        \* whether the outermost call has ended

vars == <<waits, raised, over>>

Wait == [asked : Nat, answered : Nat]

Innermost == waits[Len(waits)]

Outer == SubSeq(waits, 1, Len(waits) - 1)

Init == waits = <<>> /\ raised = FALSE /\ over = FALSE

Ask(n) ==
    /\ ~over /\ ~raised
    /\ waits' = Append(waits, [asked |-> n, answered |-> 0])
    /\ UNCHANGED <<raised, over>>

\* The running call answers, and the next of its siblings runs.
Answer ==
    /\ ~over /\ ~raised /\ waits # <<>> /\ Innermost.answered + 1 < Innermost.asked
    /\ waits' = Append(Outer, [Innermost EXCEPT !.answered = @ + 1])
    /\ UNCHANGED <<raised, over>>

\* The last call asked for answers, and its asker runs.
Resume ==
    /\ ~over /\ ~raised /\ waits # <<>> /\ Innermost.answered + 1 = Innermost.asked
    /\ waits' = Outer
    /\ UNCHANGED <<raised, over>>

\* The running call raises: its asker runs, whatever it still waited for,
Raise ==
    /\ ~over /\ ~raised /\ waits # <<>>
    /\ waits' = Outer
    /\ raised' = TRUE
    /\ UNCHANGED over

\* and is handed the fault.
Handle ==
    /\ raised
    /\ raised' = FALSE
    /\ UNCHANGED <<waits, over>>

End ==
    /\ ~over /\ ~raised /\ waits = <<>>
    /\ over' = TRUE
    /\ UNCHANGED <<waits, raised>>

\* The machinery fails, and with it the run.
Abandon ==
    /\ ~over
    /\ waits' = <<>>
    /\ raised' = FALSE
    /\ over' = TRUE

Again ==
    /\ over
    /\ over' = FALSE
    /\ UNCHANGED <<waits, raised>>

Next == (\E n \in Widths : Ask(n)) \/ Answer \/ Resume \/ Raise \/ Handle \/ End
        \/ Abandon \/ Again

Spec == Init /\ [][Next]_vars
=============================================================================
