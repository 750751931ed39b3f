------------------------------- MODULE MCDrain -------------------------------
(* Small instances of the drain for TLC. *)
EXTENDS Drain

Fresh(use) == [place |-> "Fresh", use |-> use]
Shares(use) == [place |-> "Shares", use |-> use]

\* Waits of one and two, of each placement and use.
Mixed == {<<Fresh("Keeps")>>, <<Shares("Forwards")>>,
          <<Fresh("Forwards"), Shares("Keeps")>>, <<Shares("Keeps"), Fresh("Threads")>>}
Loops == {<<Fresh("Threads")>>, <<Fresh("Keeps"), Fresh("Threads")>>}
=============================================================================
