----------------------------- MODULE LayoutReads -----------------------------
(* The reader against the rules it implements.                               *)
EXTENDS Layout

Rules == INSTANCE LayoutRules

\* A read comes to what the rules make of its source, all of it and in order, or to the first fault
\* they find in it.
ComesTo(closersFree, lineCounted) ==
    LET ruled == Rules!Ruled(src, extent = "group", closersFree, lineCounted)
    IN  IF outcome = "read" THEN ruled = [is |-> "read", items |-> stack[1].items]
        ELSE ruled = [is |-> outcome, at |-> pos + 1]

\* The read stops at the indentation of a closer's own line, which the documents call free-form
\* (tests/examples.rs).
StopsAtCloser == outcome \in {"OddIndent", "TabIndent"} /\ src[pos + 2].is = "close"

\* The group read alone would be too deep on a line of its own, as which the documents read it
\* (`read_group_at`); the reader counts no line around it.
TooDeepOnLine == extent = "group" /\ Rules!Ruled(src, TRUE, TRUE, TRUE).is = "TooDeep"

\* A read comes to what the documents (rules 2, 4 and 5 of lib.rs) make of its source, but for
\* the two points on which the reader parts from them; and even there to what the other rules
\* make of it.
ReadsByRules ==
    outcome # "reading" =>
      \/ ComesTo(~StopsAtCloser, TRUE)
      \/ TooDeepOnLine /\ ComesTo(~StopsAtCloser, FALSE)
==============================================================================
