------------------------------ MODULE MCLayout ------------------------------
EXTENDS LayoutReads

MCLines == {[is |-> "line", indent |-> i, tab |-> i = 3] : i \in 0 .. 4}

MCInline == {[is |-> "atom", spaced |-> TRUE],
             [is |-> "comma", spaced |-> FALSE],
             [is |-> "open", kind |-> "paren", spaced |-> FALSE],
             [is |-> "open", kind |-> "bracket", spaced |-> TRUE],
             [is |-> "close", kind |-> "paren", spaced |-> TRUE],
             [is |-> "close", kind |-> "bracket", spaced |-> TRUE]}
=============================================================================
