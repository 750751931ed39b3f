------------------------------- MODULE Layout -------------------------------
(* The layout reader (sexlex/reader.rs): a recursive descent over the token  *)
(* stream, one frame of `stack` for each group being read.  The lexer is the *)
(* environment: it hands over any stream a source can lex to, a token at a   *)
(* time, a line together with the token that follows it.                     *)
EXTENDS Integers, SequencesExt

CONSTANTS
    Inline,         \* the tokens of a line: atoms, commas, openers, closers
    Lines,          \* the starts of lines: an indentation, and whether it has a tab
    MaxDepth,       \* the deepest nesting read
    MaxItems,       \* bound: the tokens of a source that start no line
    MaxLines        \* bound: its lines

Kinds == {"paren", "bracket", "brace"}

ItemTokens == [is : {"atom", "str", "comma"}, spaced : BOOLEAN]
                \cup [is : {"open", "close"}, kind : Kinds, spaced : BOOLEAN]

LineTokens == [is : {"line"}, indent : Nat, tab : BOOLEAN]

ASSUME LayoutAssumption ==
    /\ MaxDepth \in Nat
    /\ Inline \subseteq ItemTokens
    /\ Lines \subseteq LineTokens

VARIABLES
    extent,         \* whether all of the source is read, or the one group it opens with
    src,            \* the tokens lexed
    ended,          \* whether they are all of the source's
    pos,            \* the tokens consumed
    stack,          \* the groups being read, the innermost last, over what the read returns
    layoutIndent,   \* the indentation a `(` anchors to
    flat,           \* the depth of enclosing brackets and braces
    depth,          \* the groups open
    outcome         \* what the read came to, once it has

reader == <<pos, stack, layoutIndent, flat, depth>>
vars == <<extent, src, ended, reader, outcome>>

Errors == {"TabIndent", "OddIndent", "UnclosedGroup", "UnexpectedCloser", "MismatchedCloser",
           "DanglingParen", "CloserDedented", "TooDeep"}

\* What the read returns collects in a frame below the first group.  A line of the source is
\* deeper than it; the group a source opens with stands as on a line at indentation zero.
Base(e) == [kind |-> "base", flat |-> FALSE, at |-> 0,
            indent |-> IF e = "whole" THEN -1 ELSE 0, items |-> <<>>]

Init ==
    /\ extent \in {"whole", "group"}
    /\ src = <<>>
    /\ ended = FALSE
    /\ pos = 0
    /\ stack = <<Base(extent)>>
    /\ layoutIndent = 0
    /\ flat = 0
    /\ depth = 0
    /\ outcome = "reading"

-----------------------------------------------------------------------------
(* The lexer *)

Count(starts) == Len(SelectSeq(src, LAMBDA t : (t.is = "line") = starts))

Lexed == pos < Len(src) \/ ended

\* Two atoms with nothing between are one.
Apart(t) == t.is = "atom" /\ Last(src).is = "atom" => t.spaced

Opens(l, t) == l.indent = 0 /\ ~l.tab /\ t.is = "open"

Lex ==
    /\ outcome = "reading" /\ ~Lexed
    /\ \/ /\ src # <<>> /\ Count(FALSE) < MaxItems
          /\ \E t \in {u \in Inline : Apart(u)} : src' = Append(src, t)
          /\ UNCHANGED ended
       \/ /\ Count(TRUE) < MaxLines /\ Count(FALSE) < MaxItems
          /\ \E l \in Lines, t \in Inline :
                /\ extent = "group" /\ src = <<>> => Opens(l, t)
                /\ src' = src \o <<l, [t EXCEPT !.spaced = TRUE]>>
          /\ UNCHANGED ended
       \/ /\ extent = "group" => src # <<>>
          /\ ended' = TRUE
          /\ UNCHANGED src
    /\ UNCHANGED <<extent, reader, outcome>>

-----------------------------------------------------------------------------
(* The reader *)

Reading == outcome = "reading" /\ Lexed

Peek == IF pos < Len(src) THEN src[pos + 1] ELSE [is |-> "end"]

\* A line is lexed with the token after it.
Peek2 == src[pos + 2]

Top == stack[Len(stack)]

Below == stack[Len(stack) - 1]

Fail(error) == outcome' = error /\ UNCHANGED <<extent, src, ended, reader>>

\* An item that is finished is glued to the next of its group when that follows with no space.
Glued(items) ==
    IF items # <<>> /\ ~Peek.spaced THEN [items EXCEPT ![Len(items)].glued = TRUE] ELSE items

Leaf ==
    /\ Reading /\ Peek.is \in {"atom", "str", "comma"}
    /\ LET item == [is |-> Peek.is, at |-> pos + 1, glued |-> FALSE]
       IN  stack' = [stack EXCEPT ![Len(stack)].items = Append(Glued(@), item)]
    /\ pos' = pos + 1
    /\ UNCHANGED <<extent, src, ended, layoutIndent, flat, depth, outcome>>

\* A run of items that ends in a comma goes on in the next line, and so does a flat group; the
\* line a single group is read from opens no layout group.
Joins ==
    \/ Top.flat
    \/ extent = "group" /\ Len(stack) = 1
    \/ Top.items # <<>> /\ Last(Top.items).is = "comma"

Join ==
    /\ Reading /\ Peek.is = "line" /\ Joins
    /\ pos' = pos + 1
    /\ UNCHANGED <<extent, src, ended, stack, layoutIndent, flat, depth, outcome>>

\* The next line opens no layout group when a closer begins it.
CloserFirst == Peek.is = "line" /\ ~Joins /\ Peek2.is = "close"

BlockLine == Peek.is = "line" /\ ~Joins /\ Peek2.is # "close"

LineFault == IF Peek.tab THEN {"TabIndent"} ELSE IF Peek.indent % 2 # 0 THEN {"OddIndent"} ELSE {}

\* A line deeper than what it stands in is a group of its own there (layout_line, up to its
\* first item).
StartLine ==
    /\ Reading /\ BlockLine /\ Peek.indent > Top.indent
    /\ IF depth = MaxDepth THEN Fail("TooDeep")
       ELSE IF LineFault # {} THEN \E f \in LineFault : Fail(f)
       ELSE /\ depth' = depth + 1
            /\ layoutIndent' = Peek.indent
            /\ stack' = Append(stack, [kind |-> "layout", flat |-> FALSE, at |-> pos + 1,
                                       indent |-> Peek.indent, items |-> <<>>])
            /\ pos' = pos + 1
            /\ UNCHANGED <<extent, src, ended, flat, outcome>>

\* The groups of the stack once the innermost is an item of the one below.
Ends ==
    LET item == [is |-> Top.kind, at |-> Top.at, glued |-> FALSE, items |-> Top.items]
    IN  [Front(stack) EXCEPT ![Len(stack) - 1].items = Append(@, item)]

EndLine_AnchorLeft ==
    /\ Reading /\ Top.kind = "layout"
    /\ \/ Peek.is \in {"close", "end"} \/ CloserFirst
       \/ BlockLine /\ Peek.indent <= Top.indent
    /\ stack' = Ends
    /\ depth' = depth - 1
    /\ UNCHANGED <<extent, src, ended, pos, layoutIndent, flat, outcome>>

\* A line ends at a line no deeper than it, at a closer, which it leaves for its owner, and at
\* the end (layout_line from its last item).  The paren it stands in, once no line nests in it,
\* goes on with the line it was opened on.
EndLine ==
    /\ Reading /\ Top.kind = "layout"
    /\ \/ Peek.is \in {"close", "end"} \/ CloserFirst
       \/ BlockLine /\ Peek.indent <= Top.indent
    /\ stack' = Ends
    /\ depth' = depth - 1
    /\ layoutIndent' = IF Below.kind = "paren" /\ ~(BlockLine /\ Peek.indent > Below.indent)
                       THEN Below.indent ELSE layoutIndent
    /\ UNCHANGED <<extent, src, ended, pos, flat, outcome>>

Open_ParenSensitive ==
    /\ Reading /\ Peek.is = "open"
    /\ IF depth = MaxDepth THEN Fail("TooDeep")
       ELSE LET isFlat == Peek.kind # "paren"
                frame == [kind |-> Peek.kind, flat |-> isFlat, at |-> pos + 1,
                          indent |-> layoutIndent, items |-> <<>>]
            IN  /\ depth' = depth + 1
                /\ flat' = IF isFlat THEN flat + 1 ELSE flat
                /\ stack' = Append([stack EXCEPT ![Len(stack)].items = Glued(@)], frame)
                /\ pos' = pos + 1
                /\ UNCHANGED <<extent, src, ended, layoutIndent, outcome>>

\* A bracketed group, up to its first item (`group`).  A paren is read by its lines unless a
\* bracket or a brace encloses it.
Open ==
    /\ Reading /\ Peek.is = "open"
    /\ IF depth = MaxDepth THEN Fail("TooDeep")
       ELSE LET isFlat == ~(Peek.kind = "paren" /\ flat = 0)
                frame == [kind |-> Peek.kind, flat |-> isFlat, at |-> pos + 1,
                          indent |-> layoutIndent, items |-> <<>>]
            IN  /\ depth' = depth + 1
                /\ flat' = IF isFlat THEN flat + 1 ELSE flat
                /\ stack' = Append([stack EXCEPT ![Len(stack)].items = Glued(@)], frame)
                /\ pos' = pos + 1
                /\ UNCHANGED <<extent, src, ended, layoutIndent, outcome>>

\* A closer is its innermost bracketed group's: the lines above that have ended.  The group a
\* source opens with ends its read.
Close ==
    /\ Reading /\ Peek.is = "close" /\ Top.kind # "layout"
    /\ IF Top.kind = "base" THEN Fail("UnexpectedCloser")
       ELSE IF Top.kind # Peek.kind THEN Fail("MismatchedCloser")
       ELSE /\ stack' = Ends
            /\ depth' = depth - 1
            /\ flat' = IF Top.flat THEN flat - 1 ELSE flat
            /\ pos' = pos + 1
            /\ outcome' = IF extent = "group" /\ Len(stack) = 2 THEN "read" ELSE outcome
            /\ UNCHANGED <<extent, src, ended, layoutIndent>>

\* A closer on a line of its own stands no shallower than the line its paren was opened on.
CloserLine ==
    /\ Reading /\ CloserFirst /\ Top.kind # "layout"
    /\ IF Top.kind = "base" THEN Fail("UnexpectedCloser")
       ELSE IF Peek.indent < Top.indent THEN Fail("CloserDedented")
       ELSE IF LineFault # {} THEN \E f \in LineFault : Fail(f)
       ELSE /\ pos' = pos + 1
            /\ UNCHANGED <<extent, src, ended, stack, layoutIndent, flat, depth, outcome>>

\* A paren is open at a line that cannot be in it.
Dangle ==
    /\ Reading /\ BlockLine /\ Top.kind = "paren" /\ Peek.indent <= Top.indent
    /\ Fail("DanglingParen")

\* The source ends.
End ==
    /\ Reading /\ Peek.is = "end" /\ Top.kind # "layout"
    /\ Fail(IF Top.kind = "base" THEN "read" ELSE "UnclosedGroup")

\* The read has returned.
Return == outcome # "reading" /\ UNCHANGED vars

Next ==
    \/ Lex \/ Return
    \/ Leaf \/ Join \/ StartLine \/ EndLine \/ Open \/ Close \/ CloserLine \/ Dangle \/ End

Spec == Init /\ [][Next]_vars

-----------------------------------------------------------------------------
(* Properties *)

\* The counts are of the frames they stand for, and what a bracket or a brace encloses is flat.
Books ==
    /\ depth = Len(stack) - 1 /\ depth <= MaxDepth
    /\ \A i \in 1 .. Len(stack) : stack[i].flat <=> i > Len(stack) - flat

\* A line is deeper than the line it nests in, and any other group is measured against the line
\* it was opened on.
Chained ==
    \A i \in 2 .. Len(stack) :
        IF stack[i].kind = "layout" THEN stack[i].indent > stack[i - 1].indent
        ELSE stack[i].indent = stack[i - 1].indent

\* Wherever an opener may come, `layout_indent` is that of the innermost line being read, whatever
\* lines nested in it and closed, and whatever lines joined it (reader.rs, the field's comment and
\* the restore in `group`); a paren is held to that line.
Anchored ==
    /\ Books /\ Chained
    /\ Reading /\ Peek.is \notin {"line", "close", "end"} => layoutIndent = Top.indent

\* Where `layout_indent` is not the innermost line's, lines that nested in a group have ended and
\* what comes next is no item of it: it ends too, or one more line nests in it.
Settled ==
    outcome = "reading" =>
        \/ layoutIndent = Top.indent
        \/ src = <<>> /\ ~ended /\ pos = 0 /\ stack = <<Base(extent)>> /\ layoutIndent = 0
        \/ Lexed /\ Peek.is \in {"close", "end"} /\ Top.kind \in {"base", "layout"}
        \/ /\ Lexed /\ Peek.is = "line" /\ ~Joins
           /\ Top.kind = "paren" => BlockLine /\ Peek.indent > Top.indent
=============================================================================
