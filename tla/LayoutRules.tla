----------------------------- MODULE LayoutRules -----------------------------
(* The rules of layout (the documentation of sexlex/lib.rs), over a whole    *)
(* stream at once and with no reader: what a source reads as, or the first   *)
(* thing wrong with it.                                                      *)
EXTENDS Integers, SequencesExt

CONSTANT MaxDepth

\* The tree of `src`, or its error.  `alone` is the one group a source opens with.  On two points
\* the documents and the reader part: whether the indentation of a closer's own line is free-form,
\* and whether a line is counted around a group read alone.
Ruled(src, alone, closersFree, lineCounted) ==
    LET n == Len(src)
        At == 1 .. n
        \* The opener of the bracketed group a token stands in, and 0 for none.
        within[i \in 0 .. n + 1] ==
            IF i <= 1 THEN 0
            ELSE IF src[i - 1].is = "open" THEN i - 1
            ELSE IF src[i - 1].is = "close" THEN within[within[i - 1]]
            ELSE within[i - 1]
        flat[i \in 0 .. n] ==
            i # 0 /\ within[i] # 0 /\ (src[within[i]].kind # "paren" \/ flat[within[i]])
        Joined(i) == flat[i] \/ (IF i = 1 THEN alone ELSE src[i - 1].is = "comma")
        governed == {i \in At : src[i].is = "line" /\ ~Joined(i)}
        closers == {i \in governed : src[i + 1].is = "close"}
        lines == governed \ closers
        \* The last line of its group before a token: the one it stands on.
        Before(i) == {j \in lines : j < i /\ within[j] = within[i]}
        \* The indentation a group opened at a token is measured against.
        anchor[i \in 0 .. n] ==
            IF i = 0 THEN IF alone THEN 0 ELSE -1
            ELSE IF Before(i) # {} THEN src[Max(Before(i))].indent
            ELSE anchor[within[i]]
        \* What a token, or a line, is an item of: a line, an opener, or 0.
        around[i \in At] ==
            LET outer == IF i \in lines THEN {j \in Before(i) : src[j].indent < src[i].indent}
                         ELSE Before(i)
            IN  IF outer # {} THEN Max(outer) ELSE within[i]
        groups == lines \cup {i \in At : src[i].is = "open"}
        nesting[i \in 0 .. n] ==
            IF i = 0 THEN IF alone /\ lineCounted THEN 1 ELSE 0 ELSE 1 + nesting[around[i]]
        end[i \in At] ==
            IF src[i].is = "open" THEN Min({j \in At : src[j].is = "close" /\ within[j] = i}) ELSE i
        Glued(i) == LET after == end[i] + 1
                    IN  /\ i \notin lines /\ after <= n
                        /\ src[after].is \notin {"line", "close"} /\ ~src[after].spaced
        items[c \in 0 .. n] ==
            LET held == {i \in groups \cup {j \in At : src[j].is \in {"atom", "str", "comma"}} :
                            around[i] = c}
            IN  [k \in 1 .. Cardinality(held) |->
                  LET i == CHOOSE i \in held : Cardinality({j \in held : j <= i}) = k
                      leaf == [is |-> src[i].is, at |-> i, glued |-> Glued(i)]
                  IN  IF i \notin groups THEN leaf
                      ELSE [is |-> IF i \in lines THEN "layout" ELSE src[i].kind, at |-> i,
                            glued |-> Glued(i), items |-> items[i]]]
        LineFault(i) == IF src[i].tab THEN "TabIndent"
                        ELSE IF src[i].indent % 2 # 0 THEN "OddIndent" ELSE "none"
        Fault(i) ==
            IF i \in closers /\ within[i] = 0 THEN "UnexpectedCloser"
            ELSE IF i \in closers /\ src[i].indent < anchor[within[i]] THEN "CloserDedented"
            ELSE IF i \in lines /\ within[i] # 0 /\ src[i].indent <= anchor[within[i]]
                THEN "DanglingParen"
            ELSE IF i \in groups /\ nesting[i] > MaxDepth THEN "TooDeep"
            ELSE IF i \in governed /\ (closersFree => i \notin closers) THEN LineFault(i)
            ELSE IF src[i].is # "close" THEN "none"
            ELSE IF within[i] = 0 THEN "UnexpectedCloser"
            ELSE IF src[within[i]].kind # src[i].kind THEN "MismatchedCloser" ELSE "none"
        faults == {i \in At : Fault(i) # "none"}
    IN  IF faults # {} THEN [is |-> Fault(Min(faults)), at |-> Min(faults)]
        ELSE IF within[n + 1] # 0 THEN [is |-> "UnclosedGroup", at |-> n + 1]
        ELSE [is |-> "read", items |-> items[0]]
=============================================================================
