---------------------------- MODULE Layout_proofs ----------------------------
(* An opener anchors to the line it is on, for every stream of tokens, every *)
(* depth of nesting and every limit on it (`Anchored`).  The invariant says  *)
(* when the reader's one field of indentation is out of date (`Settled`):    *)
(* only where the next token can open no paren.                              *)
EXTENDS Layout, SequenceTheorems, TLAPS

IsSeq(s) == \E S : s \in Seq(S)

IsFrame(f) ==
    /\ f = [kind |-> f.kind, flat |-> f.flat, at |-> f.at, indent |-> f.indent, items |-> f.items]
    /\ f.kind \in {"base", "layout"} \cup Kinds
    /\ f.flat \in BOOLEAN
    /\ f.indent \in Int
    /\ IsSeq(f.items)
    /\ f.kind \in {"base", "layout"} => ~f.flat
    /\ f.kind \in {"bracket", "brace"} => f.flat

IsStack(st) ==
    /\ IsSeq(st) /\ Len(st) >= 1
    /\ \A i \in 1 .. Len(st) : IsFrame(st[i]) /\ (st[i].kind = "base" <=> i = 1)

Shape ==
    /\ IsStack(stack)
    /\ extent = "group" /\ Len(stack) > 1 => stack[2].kind # "layout"
    /\ src \in Seq(ItemTokens \cup LineTokens)
    /\ pos \in Nat /\ layoutIndent \in Int /\ flat \in Nat

IInv == Shape /\ Books /\ Chained /\ Settled

-----------------------------------------------------------------------------
(* Sequences and frames *)

\* A number that is neither zero nor one.
LEMMA AtLeastTwo == \A n \in Nat : n >= 1 /\ n # 1 => n >= 2 /\ n > 1 /\ 2 \in 1 .. n
  OBVIOUS

\* A sequence with its last element changed is a sequence of the same length.
LEMMA SetLastIsSeq ==
    ASSUME NEW s, IsSeq(s), NEW x, s # <<>>
    PROVE  /\ IsSeq([s EXCEPT ![Len(s)] = x])
           /\ Len([s EXCEPT ![Len(s)] = x]) = Len(s)
           /\ \A i \in 1 .. Len(s) : [s EXCEPT ![Len(s)] = x][i] = IF i = Len(s) THEN x ELSE s[i]
<1>1. PICK S : s \in Seq(S)
  BY DEF IsSeq
<1>2. [s EXCEPT ![Len(s)] = x] \in Seq(S \cup {x})
  BY <1>1
<1> QED
  BY <1>1, <1>2 DEF IsSeq

\* Appending to a sequence.
LEMMA AppendIsSeq ==
    ASSUME NEW s, IsSeq(s), NEW x
    PROVE  /\ IsSeq(Append(s, x))
           /\ Len(s) \in Nat
           /\ Len(Append(s, x)) = Len(s) + 1
           /\ Append(s, x)[Len(s) + 1] = x
           /\ \A i \in 1 .. Len(s) : Append(s, x)[i] = s[i]
           /\ Append(s, x) # <<>>
<1>1. PICK S : s \in Seq(S)
  BY DEF IsSeq
<1>2. s \in Seq(S \cup {x}) /\ Append(s, x) \in Seq(S \cup {x})
  BY <1>1
<1> QED
  BY <1>1, <1>2 DEF IsSeq

\* All but the last of a sequence.
LEMMA FrontIsSeq ==
    ASSUME NEW s, IsSeq(s), Len(s) >= 1
    PROVE  /\ IsSeq(Front(s))
           /\ Len(Front(s)) = Len(s) - 1
           /\ \A i \in 1 .. Len(s) - 1 : Front(s)[i] = s[i]
<1>1. PICK S : s \in Seq(S)
  BY DEF IsSeq
<1>2. Len(s) \in Nat /\ \A i \in 1 .. Len(s) - 1 : s[i] \in S
  BY <1>1
<1>3. /\ SubSeq(s, 1, Len(s) - 1) \in Seq(S)
      /\ Len(SubSeq(s, 1, Len(s) - 1)) = IF 1 <= Len(s) - 1 THEN Len(s) - 1 - 1 + 1 ELSE 0
      /\ \A i \in 1 .. Len(s) - 1 - 1 + 1 : SubSeq(s, 1, Len(s) - 1)[i] = s[1 + i - 1]
  BY <1>2, SubSeqProperties
<1>4. IsSeq(Front(s))
  BY <1>3 DEF IsSeq, Front
<1>5. Len(Front(s)) = Len(s) - 1
  <2> DEFINE n == Len(SubSeq(s, 1, Len(s) - 1))
             m == Len(s)
  <2>1. n = IF 1 <= m - 1 THEN m - 1 - 1 + 1 ELSE 0
    BY <1>3
  <2>2. m \in Nat /\ m >= 1
    BY <1>2
  <2> HIDE DEF n, m
  <2>3. n = m - 1
    BY <2>1, <2>2
  <2> QED
    BY <2>3 DEF n, m, Front
<1>6. \A i \in 1 .. Len(s) - 1 : Front(s)[i] = s[i]
  BY <1>2, <1>3 DEF Front
<1> QED
  BY <1>4, <1>5, <1>6

\* What of a frame its items say nothing about.
Same(f, g) == f.kind = g.kind /\ f.flat = g.flat /\ f.indent = g.indent

\* The items of the innermost frame may be replaced.
LEMMA SetItems ==
    ASSUME NEW st, IsStack(st), NEW xs, IsSeq(xs),
           NEW new, new = [st EXCEPT ![Len(st)].items = xs]
    PROVE  /\ IsStack(new)
           /\ Len(new) = Len(st)
           /\ \A i \in 1 .. Len(st) : Same(new[i], st[i])
           /\ new[Len(st)].items = xs
<1> DEFINE f == st[Len(st)]
           g == [f EXCEPT !.items = xs]
<1>1. Len(st) \in Nat /\ st # <<>> /\ IsSeq(st)
  BY DEF IsStack, IsSeq
<1>2. IsFrame(f) /\ (f.kind = "base" <=> Len(st) = 1)
  <2>1. Len(st) >= 1
    BY DEF IsStack
  <2>2. Len(st) \in 1 .. Len(st)
    BY <1>1, <2>1
  <2> QED
    BY <2>2 DEF IsStack
<1>3. IsFrame(g) /\ Same(g, f) /\ g.items = xs
  BY <1>2 DEF IsFrame, Same
<1>4. new = [st EXCEPT ![Len(st)] = g]
  OBVIOUS
<1> HIDE DEF g
<1>5. /\ IsSeq(new) /\ Len(new) = Len(st)
      /\ \A i \in 1 .. Len(st) : new[i] = IF i = Len(st) THEN g ELSE st[i]
  <2>1. \A x : /\ IsSeq([st EXCEPT ![Len(st)] = x])
               /\ Len([st EXCEPT ![Len(st)] = x]) = Len(st)
               /\ \A i \in 1 .. Len(st) :
                     [st EXCEPT ![Len(st)] = x][i] = IF i = Len(st) THEN x ELSE st[i]
    BY <1>1, SetLastIsSeq
  <2> QED
    BY <1>4, <2>1
<1> QED
  BY <1>1, <1>2, <1>3, <1>5 DEF IsStack, Same

\* A group opens.
LEMMA Push ==
    ASSUME NEW st, IsStack(st), NEW f, IsFrame(f), f.kind # "base"
    PROVE  /\ IsStack(Append(st, f))
           /\ Len(st) \in Nat
           /\ Len(Append(st, f)) = Len(st) + 1
           /\ Append(st, f)[Len(st) + 1] = f
           /\ \A i \in 1 .. Len(st) : Append(st, f)[i] = st[i]
<1>1. IsSeq(st) /\ Len(st) >= 1
  BY DEF IsStack
<1> QED
  BY <1>1, AppendIsSeq DEF IsStack

\* A group ends as an item of the one below.
LEMMA Pop ==
    ASSUME NEW st, IsStack(st), Len(st) >= 2, NEW item,
           NEW new, new = [Front(st) EXCEPT ![Len(st) - 1].items = Append(@, item)]
    PROVE  /\ IsStack(new)
           /\ Len(new) = Len(st) - 1
           /\ \A i \in 1 .. Len(st) - 1 : Same(new[i], st[i])
           /\ Last(new[Len(new)].items) = item
<1> DEFINE xs == Append(st[Len(st) - 1].items, item)
<1>1. IsSeq(st) /\ Len(st) \in Nat
  BY DEF IsStack, IsSeq
<1>2. /\ IsSeq(Front(st)) /\ Len(Front(st)) = Len(st) - 1
      /\ \A i \in 1 .. Len(st) - 1 : Front(st)[i] = st[i]
  BY <1>1, FrontIsSeq
<1>3. IsStack(Front(st))
  BY <1>1, <1>2 DEF IsStack
<1>4. IsSeq(st[Len(st) - 1].items)
  <2>1. IsFrame(st[Len(st) - 1])
    BY <1>1 DEF IsStack
  <2> QED
    BY <2>1 DEF IsFrame
<1>5. IsSeq(xs) /\ Last(xs) = item
  BY <1>4, AppendIsSeq DEF Last
<1>6. new = [Front(st) EXCEPT ![Len(Front(st))].items = xs]
  <2>1. Front(st)[Len(st) - 1] = st[Len(st) - 1]
    BY <1>1, <1>2
  <2> QED
    BY <1>2, <2>1
<1> HIDE DEF xs
<1>7. /\ IsStack(new)
      /\ Len(new) = Len(Front(st))
      /\ \A i \in 1 .. Len(Front(st)) : Same(new[i], Front(st)[i])
      /\ new[Len(Front(st))].items = xs
  BY <1>3, <1>5, <1>6, SetItems
<1> QED
  BY <1>1, <1>2, <1>5, <1>7 DEF Same

\* Glue changes the last item of a sequence and nothing else of it.
LEMMA GluedIsSeq ==
    ASSUME NEW xs, IsSeq(xs)
    PROVE  IsSeq(Glued(xs))
<1>1. CASE xs # <<>>
  <2>1. [xs EXCEPT ![Len(xs)].glued = TRUE] =
            [xs EXCEPT ![Len(xs)] = [xs[Len(xs)] EXCEPT !.glued = TRUE]]
    OBVIOUS
  <2> QED
    BY <1>1, <2>1, SetLastIsSeq DEF Glued
<1> QED
  BY <1>1 DEF Glued

-----------------------------------------------------------------------------
(* The state *)

\* The token at hand, or the end.
LEMMA PeekFacts ==
    ASSUME Shape
    PROVE  /\ Peek.is = "line" => Peek.indent \in Nat
           /\ Peek.is \in {"open", "close"} => Peek.kind \in Kinds
           /\ Peek.is # "end" => pos < Len(src)
           /\ Peek.is \in {"atom", "str", "comma", "open", "close", "line", "end"}
<1>1. CASE pos < Len(src)
  <2>1. Peek \in ItemTokens \cup LineTokens
    BY <1>1 DEF Shape, Peek
  <2>2. CASE Peek \in ItemTokens
    BY <1>1, <2>2 DEF ItemTokens
  <2>3. CASE Peek \in LineTokens
    BY <1>1, <2>3 DEF LineTokens
  <2> QED
    BY <2>1, <2>2, <2>3
<1>2. CASE ~(pos < Len(src))
  BY <1>2 DEF Peek
<1> QED
  BY <1>1, <1>2

\* The innermost frame; where it is read by its lines, so is every other.
LEMMA TopFacts ==
    ASSUME Shape, Books
    PROVE  /\ Len(stack) \in Nat /\ Len(stack) >= 1
           /\ IsFrame(Top)
           /\ Top.kind = "base" <=> Len(stack) = 1
           /\ flat > 0 <=> Top.flat
           /\ ~Top.flat => flat = 0 /\ \A i \in 1 .. Len(stack) : ~stack[i].flat
<1>1. Len(stack) \in Nat /\ Len(stack) >= 1
  BY DEF Shape, IsStack, IsSeq
<1>2. Len(stack) \in 1 .. Len(stack)
  BY <1>1
<1>3. IsFrame(Top) /\ (Top.kind = "base" <=> Len(stack) = 1)
  BY <1>2 DEF Shape, IsStack, Top
<1>4. Top.flat <=> Len(stack) > Len(stack) - flat
  BY <1>2 DEF Books, Top
<1>5. flat \in Nat
  BY DEF Shape
<1>6. flat > 0 <=> Top.flat
  BY <1>1, <1>4, <1>5
<1>7. ~Top.flat => flat = 0
  BY <1>5, <1>6
<1>8. ASSUME flat = 0, NEW i \in 1 .. Len(stack) PROVE ~stack[i].flat
  BY <1>1, <1>8 DEF Books
<1> QED
  BY <1>1, <1>3, <1>6, <1>7, <1>8

\* Where the next token may be an item of the innermost group, the indentation is its line's.
LEMMA FreshAtItems ==
    ASSUME IInv, Reading, Peek.is \notin {"line", "close", "end"}
    PROVE  layoutIndent = Top.indent
<1>1. ~(src = <<>> /\ ~ended)
  BY DEF Reading, Lexed, IInv, Shape
<1> QED
  BY <1>1 DEF IInv, Settled, Reading

\* A closer finds the indentation restored at its group.
LEMMA FreshAtClose ==
    ASSUME IInv, Reading, Peek.is = "close", Top.kind \in Kinds
    PROVE  layoutIndent = Top.indent
<1>1. ~(src = <<>> /\ ~ended)
  BY DEF Reading, Lexed, IInv, Shape
<1> QED
  BY <1>1 DEF IInv, Settled, Reading, Kinds

\* So does a line that begins with one.
LEMMA FreshAtCloserLine ==
    ASSUME IInv, Reading, CloserFirst, Top.kind \in Kinds
    PROVE  layoutIndent = Top.indent
<1>1. ~(src = <<>> /\ ~ended)
  BY DEF Reading, Lexed, IInv, Shape
<1>2. Top.kind # "paren" => Joins
  BY TopFacts DEF IInv, IsFrame, Kinds, Joins
<1> QED
  BY <1>1, <1>2 DEF IInv, Settled, Reading, CloserFirst, BlockLine, Kinds

\* Settled at the innermost frame, whatever comes next.
LEMMA FreshSettles == ASSUME layoutIndent = Top.indent PROVE Settled
  BY DEF Settled

-----------------------------------------------------------------------------
(* The steps *)

\* The reader begins with the invariant.
LEMMA InitInv == Init => IInv
<1> SUFFICES ASSUME Init PROVE IInv
  OBVIOUS
<1>1. stack = <<Base(extent)>>
  BY DEF Init
<1>2. IsFrame(Base(extent)) /\ Base(extent).kind = "base" /\ ~Base(extent).flat
  <2>1. IsSeq(<<>>)
    <3>1. <<>> \in Seq({})
      OBVIOUS
    <3> QED
      BY <3>1 DEF IsSeq
  <2> QED
    BY <2>1 DEF Base, IsFrame
<1>3. IsStack(stack)
  <2>1. IsSeq(stack)
    <3>1. stack \in Seq({Base(extent)})
      BY <1>1
    <3> QED
      BY <3>1 DEF IsSeq
  <2> QED
    BY <1>1, <1>2, <2>1 DEF IsStack
<1>4. Shape
  BY <1>1, <1>3 DEF Init, Shape
<1>5. Books
  BY <1>1, <1>2, LayoutAssumption DEF Init, Books
<1>6. Chained
  BY <1>1 DEF Chained
<1>7. Settled
  BY DEF Init, Settled
<1> QED
  BY <1>4, <1>5, <1>6, <1>7 DEF IInv

\* A step that leaves the reader alone and ends the read.
LEMMA FailKeeps == ASSUME IInv, NEW e, Fail(e), e # "reading" PROVE IInv'
<1>1. Shape'
  BY DEF IInv, Shape, Fail, reader
<1>2. Books' /\ Chained'
  BY DEF IInv, Books, Chained, Fail, reader
<1>3. Settled'
  BY DEF Settled, Fail
<1> QED
  BY <1>1, <1>2, <1>3 DEF IInv

\* A step that consumes a token where the indentation is the innermost line's, and changes no
\* frame.
LEMMA SkipKeeps ==
    ASSUME IInv, layoutIndent = Top.indent, pos' = pos + 1,
           UNCHANGED <<extent, src, ended, stack, layoutIndent, flat, depth, outcome>>
    PROVE  IInv'
<1>1. Shape'
  BY DEF IInv, Shape
<1>2. Books' /\ Chained'
  BY DEF IInv, Books, Chained
<1>3. Settled'
  BY DEF Settled, Top
<1> QED
  BY <1>1, <1>2, <1>3 DEF IInv

\* An item joins the innermost group.
LEMMA LeafKeeps == ASSUME IInv, Leaf PROVE IInv'
<1> DEFINE item == [is |-> Peek.is, at |-> pos + 1, glued |-> FALSE]
           xs == Append(Glued(Top.items), item)
<1>1. Shape /\ Books /\ Chained
  BY DEF IInv
<1>2. Len(stack) \in Nat /\ Len(stack) >= 1 /\ IsFrame(Top) /\ IsStack(stack)
  BY <1>1, TopFacts DEF Shape
<1>3. IsSeq(xs)
  BY <1>2, GluedIsSeq, AppendIsSeq DEF IsFrame
<1>4. stack' = [stack EXCEPT ![Len(stack)].items = xs]
  BY DEF Leaf, Top
<1> HIDE DEF xs
<1>5. /\ IsStack(stack') /\ Len(stack') = Len(stack)
      /\ \A i \in 1 .. Len(stack) : Same(stack'[i], stack[i])
  BY <1>2, <1>3, <1>4, SetItems
<1>6. layoutIndent = Top.indent
  BY FreshAtItems DEF Leaf
<1>7. Shape'
  <2>1. Len(stack) > 1 => Same(stack'[2], stack[2])
    BY <1>2, <1>5
  <2> QED
    BY <1>1, <1>5, <2>1 DEF Shape, Leaf, Same
<1>8. Books' /\ Chained'
  BY <1>1, <1>2, <1>5 DEF Books, Chained, Leaf, Same
<1>9. Top'.indent = Top.indent
  BY <1>2, <1>5 DEF Top, Same
<1>10. Settled'
  BY <1>6, <1>9 DEF Settled, Leaf
<1> QED
  BY <1>7, <1>8, <1>10 DEF IInv

\* A line joins only where the indentation is the innermost line's: a line that has been left by
\* a nested one ends in a group, not in a comma.
LEMMA JoinKeeps == ASSUME IInv, Join PROVE IInv'
<1>1. ~(src = <<>> /\ ~ended)
  BY DEF Join, Reading, Lexed, IInv, Shape
<1>2. layoutIndent = Top.indent
  BY <1>1 DEF IInv, Settled, Join, Reading
<1> QED
  BY <1>2, SkipKeeps DEF Join

\* A line opens a group, deeper than what it stands in.
LEMMA StartLineKeeps == ASSUME IInv, StartLine PROVE IInv'
<1>1. CASE depth = MaxDepth
  BY <1>1, FailKeeps DEF StartLine
<1>2. CASE depth # MaxDepth /\ LineFault # {}
  <2>1. PICK f \in LineFault : Fail(f)
    BY <1>2 DEF StartLine
  <2> QED
    BY <2>1, FailKeeps DEF LineFault
<1>3. CASE depth # MaxDepth /\ LineFault = {}
  <2> DEFINE frame == [kind |-> "layout", flat |-> FALSE, at |-> pos + 1,
                       indent |-> Peek.indent, items |-> <<>>]
  <2>1. Shape /\ Books /\ Chained
    BY DEF IInv
  <2>2. /\ Len(stack) \in Nat /\ Len(stack) >= 1 /\ IsFrame(Top) /\ IsStack(stack)
        /\ Top.kind = "base" <=> Len(stack) = 1
    BY <2>1, TopFacts DEF Shape
  <2>3. flat = 0
    BY <2>1, TopFacts DEF StartLine, BlockLine, Joins
  <2>4. Peek.indent \in Nat /\ Peek.indent > Top.indent
    BY <2>1, PeekFacts DEF StartLine, BlockLine
  <2>5. /\ stack' = Append(stack, frame) /\ depth' = depth + 1 /\ pos' = pos + 1
        /\ layoutIndent' = Peek.indent
        /\ UNCHANGED <<extent, src, ended, flat, outcome>>
    BY <1>3 DEF StartLine
  <2>6. IsFrame(frame) /\ frame.kind # "base"
    <3>1. IsSeq(<<>>)
      <4>1. <<>> \in Seq({})
        OBVIOUS
      <4> QED
        BY <4>1 DEF IsSeq
    <3> QED
      BY <2>4, <3>1 DEF IsFrame
  <2>7. /\ IsStack(stack') /\ Len(stack') = Len(stack) + 1
        /\ stack'[Len(stack) + 1] = frame
        /\ \A i \in 1 .. Len(stack) : stack'[i] = stack[i]
    <3> HIDE DEF frame
    <3> QED
      BY <2>2, <2>5, <2>6, Push
  <2>8. Shape'
    <3>1. extent = "group" => Len(stack) > 1
      <4>1. ~Joins
        BY DEF StartLine, BlockLine
      <4>2. ~(extent = "group" /\ Len(stack) = 1)
        BY <4>1 DEF Joins
      <4>3. Len(stack) \in Nat /\ Len(stack) >= 1
        BY <2>2
      <4>4. Len(stack) # 1 => Len(stack) > 1
        BY <4>3, AtLeastTwo
      <4> QED
        BY <4>2, <4>4
    <3>2. stack'[2] = IF Len(stack) = 1 THEN frame ELSE stack[2]
      <4>1. Len(stack) \in Nat /\ Len(stack) >= 1
        BY <2>2
      <4>2. CASE Len(stack) = 1
        BY <2>7, <4>2
      <4>3. CASE Len(stack) # 1
        <5>1. 2 \in 1 .. Len(stack)
          BY <4>1, <4>3, AtLeastTwo
        <5> QED
          BY <2>7, <4>3, <5>1
      <4> QED
        BY <4>2, <4>3
    <3>3. extent' = "group" /\ Len(stack') > 1 => stack'[2].kind # "layout"
      BY <2>1, <2>5, <3>1, <3>2 DEF Shape
    <3>4. /\ src' \in Seq(ItemTokens \cup LineTokens) /\ pos' \in Nat
          /\ layoutIndent' \in Int /\ flat' \in Nat
      BY <2>1, <2>4, <2>5 DEF Shape
    <3> QED
      BY <2>7, <3>3, <3>4 DEF Shape
  <2>9. Books'
    <3>1. \A i \in 1 .. Len(stack') : stack'[i].flat <=> i > Len(stack') - flat'
      BY <2>1, <2>2, <2>3, <2>5, <2>7 DEF Books
    <3>2. depth' = Len(stack') - 1 /\ depth' <= MaxDepth
      BY <1>3, <2>1, <2>2, <2>5, <2>7, LayoutAssumption DEF Books
    <3> QED
      BY <3>1, <3>2 DEF Books
  <2>10. Chained'
    <3>1. stack'[Len(stack)] = Top
      BY <2>2, <2>7 DEF Top
    <3> QED
      BY <2>1, <2>2, <2>4, <2>7, <3>1 DEF Chained
  <2>11. Settled'
    BY <2>2, <2>5, <2>7 DEF Settled, Top
  <2> QED
    BY <2>8, <2>9, <2>10, <2>11 DEF IInv
<1> QED
  BY <1>1, <1>2, <1>3

\* What an end of a group leaves: the frames below, the lowest of them one item longer.
LEMMA EndsFacts ==
    ASSUME Shape, Books, Chained, Len(stack) >= 2
    PROVE  /\ IsStack(Ends) /\ Len(Ends) = Len(stack) - 1
           /\ \A i \in 1 .. Len(stack) - 1 : Same(Ends[i], stack[i])
           /\ Last(Ends[Len(Ends)].items).is = Top.kind
<1> DEFINE item == [is |-> Top.kind, at |-> Top.at, glued |-> FALSE, items |-> Top.items]
<1>1. IsStack(stack)
  BY DEF Shape
<1>2. Ends = [Front(stack) EXCEPT ![Len(stack) - 1].items = Append(@, item)]
  BY DEF Ends
<1>3. item.is = Top.kind
  OBVIOUS
<1> HIDE DEF item
<1>4. \A new : new = [Front(stack) EXCEPT ![Len(stack) - 1].items = Append(@, item)] =>
          /\ IsStack(new)
          /\ Len(new) = Len(stack) - 1
          /\ \A i \in 1 .. Len(stack) - 1 : Same(new[i], stack[i])
          /\ Last(new[Len(new)].items) = item
  BY <1>1, Pop
<1>5. /\ IsStack(Ends) /\ Len(Ends) = Len(stack) - 1
      /\ \A i \in 1 .. Len(stack) - 1 : Same(Ends[i], stack[i])
      /\ Last(Ends[Len(Ends)].items) = item
  BY <1>2, <1>4
<1> QED
  BY <1>3, <1>5

\* A line ends.  The paren it stood in takes the indentation back when no line follows in it.
LEMMA EndLineKeeps == ASSUME IInv, EndLine PROVE IInv'
<1>1. Shape /\ Books /\ Chained
  BY DEF IInv
<1>2. /\ Len(stack) \in Nat /\ Len(stack) >= 2 /\ IsFrame(Top) /\ ~Top.flat
      /\ flat = 0 /\ \A i \in 1 .. Len(stack) : ~stack[i].flat
  <2>1. Top.kind = "layout"
    BY DEF EndLine
  <2>2. /\ Len(stack) \in Nat /\ Len(stack) >= 1 /\ IsFrame(Top)
        /\ (Top.kind = "base" <=> Len(stack) = 1)
    BY <1>1, TopFacts
  <2>3. Len(stack) >= 2
    <3>1. Len(stack) \in Nat /\ Len(stack) >= 1 /\ Len(stack) # 1
      BY <2>1, <2>2
    <3> QED
      BY <3>1, AtLeastTwo
  <2>4. ~Top.flat
    BY <2>1, <2>2 DEF IsFrame
  <2>5. flat = 0 /\ \A i \in 1 .. Len(stack) : ~stack[i].flat
    BY <1>1, <2>4, TopFacts
  <2> QED
    BY <2>2, <2>3, <2>4, <2>5
<1>3. /\ stack' = Ends /\ depth' = depth - 1
      /\ UNCHANGED <<extent, src, ended, pos, flat, outcome>>
  BY DEF EndLine
<1>4. /\ IsStack(stack') /\ Len(stack') = Len(stack) - 1
      /\ \A i \in 1 .. Len(stack) - 1 : Same(stack'[i], stack[i])
      /\ Last(stack'[Len(stack')].items).is = "layout"
  BY <1>1, <1>2, <1>3, EndsFacts DEF EndLine
<1>5. Same(Top', Below) /\ IsFrame(Below) /\ Top'.kind \in {"base", "layout", "paren"}
  <2>1. Len(stack) - 1 \in 1 .. Len(stack)
    BY <1>2
  <2>2. IsFrame(Below) /\ ~Below.flat
    BY <1>1, <1>2, <2>1 DEF Below, Shape, IsStack
  <2>3. Same(Top', Below)
    BY <1>2, <1>4 DEF Top, Below
  <2> QED
    BY <2>2, <2>3 DEF Same, IsFrame, Kinds
<1>6. layoutIndent' \in Int
  BY <1>1, <1>5 DEF EndLine, Shape, IsFrame
<1>7. Shape'
  <2>1. Len(stack') > 1 => Same(stack'[2], stack[2])
    BY <1>2, <1>4
  <2> QED
    BY <1>1, <1>2, <1>3, <1>4, <1>6, <2>1 DEF Shape, Same
<1>8. Books' /\ Chained'
  <2>1. depth' = Len(stack') - 1 /\ depth' <= MaxDepth
    BY <1>1, <1>2, <1>3, <1>4, LayoutAssumption DEF Books
  <2>2. \A i \in 1 .. Len(stack') : ~stack'[i].flat
    BY <1>2, <1>4 DEF Same
  <2>3. flat' = 0
    BY <1>2, <1>3
  <2>4. Len(stack') \in Nat
    BY <1>2, <1>4
  <2>5. Books'
    BY <2>1, <2>2, <2>3, <2>4 DEF Books
  <2>6. Chained'
    BY <1>1, <1>2, <1>4 DEF Chained, Same
  <2> QED
    BY <2>5, <2>6
<1>9. Settled'
  <2>1. Peek' = Peek /\ Peek2' = Peek2 /\ (Lexed' <=> Lexed) /\ Lexed
    BY <1>3 DEF Peek, Peek2, Lexed, EndLine, Reading
  <2>2. ~Joins'
    <3>1. Last(Top'.items).is = "layout"
      BY <1>4 DEF Top
    <3>2. ~Top'.flat
      <4>1. Len(stack) - 1 \in 1 .. Len(stack)
        BY <1>2
      <4> QED
        BY <1>2, <1>5, <4>1 DEF Same, Below
    <3>3. ~(extent' = "group" /\ Len(stack') = 1)
      <4>1. Top.kind = "layout"
        BY DEF EndLine
      <4>2. extent = "group" => Len(stack) # 2
        BY <1>1, <1>2, <4>1 DEF Shape, Top
      <4> QED
        BY <1>2, <1>3, <1>4, <4>2
    <3> QED
      BY <3>1, <3>2, <3>3 DEF Joins
  <2>3. CASE Peek.is \in {"close", "end"}
    <3>1. Below.kind = "paren" => layoutIndent' = Below.indent
      BY <2>3 DEF EndLine, BlockLine
    <3> QED
      BY <1>5, <2>1, <2>3, <3>1 DEF Settled, Same
  <2>4. CASE Peek.is = "line"
    <3>1. CASE Below.kind # "paren"
      BY <1>5, <2>1, <2>2, <2>4, <3>1 DEF Settled, Same
    <3>2. CASE Below.kind = "paren" /\ BlockLine /\ Peek.indent > Below.indent
      <4>1. BlockLine'
        BY <2>1, <2>2, <3>2 DEF BlockLine
      <4> QED
        BY <1>5, <2>1, <2>2, <2>4, <3>2, <4>1 DEF Settled, Same
    <3>3. CASE Below.kind = "paren" /\ ~(BlockLine /\ Peek.indent > Below.indent)
      <4>1. layoutIndent' = Top'.indent
        BY <1>5, <3>3 DEF EndLine, Same
      <4> QED
        BY <4>1 DEF Settled
    <3> QED
      BY <3>1, <3>2, <3>3
  <2>5. Peek.is \in {"close", "end", "line"}
    BY DEF EndLine, CloserFirst, BlockLine
  <2> QED
    BY <2>3, <2>4, <2>5
<1> QED
  BY <1>7, <1>8, <1>9 DEF IInv

\* A bracketed group opens, anchored to the line its opener is on.
LEMMA OpenKeeps == ASSUME IInv, Open PROVE IInv'
<1>1. CASE depth = MaxDepth
  BY <1>1, FailKeeps DEF Open
<1>2. CASE depth # MaxDepth
  <2> DEFINE isFlat == ~(Peek.kind = "paren" /\ flat = 0)
             frame == [kind |-> Peek.kind, flat |-> isFlat, at |-> pos + 1,
                       indent |-> layoutIndent, items |-> <<>>]
             st == [stack EXCEPT ![Len(stack)].items = Glued(Top.items)]
  <2>1. Shape /\ Books /\ Chained
    BY DEF IInv
  <2>2. Len(stack) \in Nat /\ Len(stack) >= 1 /\ IsFrame(Top) /\ IsStack(stack)
    BY <2>1, TopFacts DEF Shape
  <2>3. layoutIndent = Top.indent
    BY FreshAtItems DEF Open
  <2>4. /\ stack' = Append(st, frame) /\ depth' = depth + 1 /\ pos' = pos + 1
        /\ flat' = IF isFlat THEN flat + 1 ELSE flat
        /\ UNCHANGED <<extent, src, ended, layoutIndent, outcome>>
    BY <1>2 DEF Open, Top
  <2>5. IsFrame(frame) /\ frame.kind \in Kinds
    <3>1. Peek.kind \in Kinds
      BY <2>1, PeekFacts DEF Open
    <3>2. IsSeq(<<>>)
      <4>1. <<>> \in Seq({})
        OBVIOUS
      <4> QED
        BY <4>1 DEF IsSeq
    <3>3. layoutIndent \in Int
      BY <2>1 DEF Shape
    <3> QED
      BY <3>1, <3>2, <3>3 DEF IsFrame, Kinds
  <2>6. /\ IsStack(st) /\ Len(st) = Len(stack)
        /\ \A i \in 1 .. Len(stack) : Same(st[i], stack[i])
    <3> DEFINE xs == Glued(Top.items)
    <3>1. IsSeq(xs)
      BY <2>2, GluedIsSeq DEF IsFrame
    <3>2. st = [stack EXCEPT ![Len(stack)].items = xs]
      OBVIOUS
    <3> HIDE DEF xs, st
    <3> QED
      BY <2>2, <3>1, <3>2, SetItems
  <2>7. frame.flat = isFlat /\ frame.indent = layoutIndent
    OBVIOUS
  <2>8. isFlat \in BOOLEAN /\ (~isFlat => flat = 0)
    OBVIOUS
  <2> HIDE DEF st, frame, isFlat
  <2>9. /\ IsStack(stack') /\ Len(stack') = Len(stack) + 1
        /\ stack'[Len(stack) + 1] = frame
        /\ \A i \in 1 .. Len(stack) : Same(stack'[i], stack[i])
    <3>1. frame.kind # "base"
      BY <2>5 DEF Kinds
    <3>2. /\ IsStack(Append(st, frame))
          /\ Len(Append(st, frame)) = Len(st) + 1
          /\ Append(st, frame)[Len(st) + 1] = frame
          /\ \A i \in 1 .. Len(st) : Append(st, frame)[i] = st[i]
      BY <2>5, <2>6, <3>1, Push
    <3> QED
      BY <2>4, <2>6, <3>2
  <2>10. Shape'
    <3>1. extent' = "group" /\ Len(stack') > 1 => stack'[2].kind # "layout"
      <4>1. CASE Len(stack) = 1
        BY <2>5, <2>9, <4>1 DEF Kinds
      <4>2. CASE Len(stack) # 1
        <5>1. 2 \in 1 .. Len(stack) /\ Len(stack) > 1
          BY <2>2, <4>2, AtLeastTwo
        <5> QED
          BY <2>1, <2>4, <2>9, <5>1 DEF Shape, Same
      <4> QED
        BY <4>1, <4>2
    <3>2. /\ src' \in Seq(ItemTokens \cup LineTokens) /\ pos' \in Nat
          /\ layoutIndent' \in Int /\ flat' \in Nat
      BY <2>1, <2>4 DEF Shape
    <3> QED
      BY <2>9, <3>1, <3>2 DEF Shape
  <2>11. Books'
    <3>1. flat \in Nat /\ depth = Len(stack) - 1 /\ depth <= MaxDepth
      BY <2>1 DEF Shape, Books
    <3>2. depth' = Len(stack') - 1 /\ depth' <= MaxDepth
      BY <1>2, <2>2, <2>4, <2>9, <3>1, LayoutAssumption
    <3>3. ASSUME NEW i \in 1 .. Len(stack) PROVE stack'[i].flat <=> i > Len(stack') - flat'
      <4>1. stack'[i].flat <=> i > Len(stack) - flat
        BY <2>1, <2>9 DEF Books, Same
      <4>2. CASE isFlat
        BY <2>2, <2>4, <2>9, <3>1, <4>1, <4>2
      <4>3. CASE ~isFlat
        BY <2>2, <2>4, <2>8, <2>9, <3>1, <4>1, <4>3
      <4> QED
        BY <4>2, <4>3
    <3>4. stack'[Len(stack) + 1].flat <=> Len(stack) + 1 > Len(stack') - flat'
      <4>1. CASE isFlat
        <5>1. stack'[Len(stack) + 1].flat
          BY <2>7, <2>9, <4>1
        <5>2. Len(stack) + 1 > Len(stack') - flat'
          BY <2>2, <2>4, <2>9, <3>1, <4>1
        <5> QED
          BY <5>1, <5>2
      <4>2. CASE ~isFlat
        BY <2>2, <2>4, <2>7, <2>8, <2>9, <3>1, <4>2
      <4> QED
        BY <4>1, <4>2
    <3> QED
      BY <2>2, <2>9, <3>2, <3>3, <3>4 DEF Books
  <2>12. Chained'
    <3>1. Same(stack'[Len(stack)], Top)
      BY <2>2, <2>9 DEF Top
    <3>2. stack'[Len(stack) + 1].kind # "layout" /\ stack'[Len(stack) + 1].indent = Top.indent
      BY <2>3, <2>5, <2>7, <2>9 DEF Kinds
    <3> QED
      BY <2>1, <2>2, <2>9, <3>1, <3>2 DEF Chained, Same
  <2>13. Settled'
    <3>1. Top'.indent = layoutIndent'
      BY <2>2, <2>4, <2>7, <2>9 DEF Top
    <3> QED
      BY <3>1 DEF Settled
  <2> QED
    BY <2>10, <2>11, <2>12, <2>13 DEF IInv
<1> QED
  BY <1>1, <1>2

\* A group closes; the one it was in is on the line it was opened on.
LEMMA CloseKeeps == ASSUME IInv, Close PROVE IInv'
<1>1. Shape /\ Books /\ Chained
  BY DEF IInv
<1>2. /\ Len(stack) \in Nat /\ Len(stack) >= 1 /\ IsFrame(Top)
      /\ (Top.kind = "base" <=> Len(stack) = 1) /\ (flat > 0 <=> Top.flat)
  BY <1>1, TopFacts
<1>3. CASE Top.kind = "base" \/ Top.kind # Peek.kind
  BY <1>3, FailKeeps DEF Close
<1>4. CASE Top.kind # "base" /\ Top.kind = Peek.kind
  <2>1. /\ stack' = Ends /\ depth' = depth - 1 /\ pos' = pos + 1
        /\ flat' = IF Top.flat THEN flat - 1 ELSE flat
        /\ UNCHANGED <<extent, src, ended, layoutIndent>>
    BY <1>4 DEF Close
  <2>2. Len(stack) >= 2
    BY <1>2, <1>4, AtLeastTwo
  <2>3. Top.kind \in Kinds
    BY <1>1, <1>4, PeekFacts DEF Close
  <2>4. layoutIndent = Top.indent
    BY <2>3, FreshAtClose DEF Close
  <2>5. /\ IsStack(stack') /\ Len(stack') = Len(stack) - 1
        /\ \A i \in 1 .. Len(stack) - 1 : Same(stack'[i], stack[i])
    BY <1>1, <2>1, <2>2, EndsFacts
  <2>6. flat' \in Nat /\ depth \in Nat /\ flat \in Nat
    BY <1>1, <1>2, <2>1 DEF Shape, Books
  <2>7. Shape'
    <3>1. Len(stack') > 1 => Same(stack'[2], stack[2]) /\ Len(stack) > 1
      BY <1>2, <2>5
    <3>2. extent' = "group" /\ Len(stack') > 1 => stack'[2].kind # "layout"
      BY <1>1, <2>1, <3>1 DEF Shape, Same
    <3>3. src' \in Seq(ItemTokens \cup LineTokens) /\ pos' \in Nat /\ layoutIndent' \in Int
      BY <1>1, <2>1 DEF Shape
    <3> QED
      BY <2>5, <2>6, <3>2, <3>3 DEF Shape
  <2>8. Books'
    <3>1. depth' = Len(stack') - 1 /\ depth' <= MaxDepth
      BY <1>1, <1>2, <2>1, <2>5, LayoutAssumption DEF Books
    <3>2. ASSUME NEW i \in 1 .. Len(stack') PROVE stack'[i].flat <=> i > Len(stack') - flat'
      <4>1. i \in 1 .. Len(stack) - 1 /\ i \in 1 .. Len(stack)
        BY <1>2, <2>5
      <4>2. stack'[i].flat <=> i > Len(stack) - flat
        BY <1>1, <2>5, <4>1 DEF Books, Same
      <4>3. CASE Top.flat
        BY <1>2, <2>1, <2>5, <2>6, <4>1, <4>2, <4>3
      <4>4. CASE ~Top.flat
        <5>1. flat = 0
          BY <1>2, <2>6, <4>4
        <5> QED
          BY <1>2, <2>1, <2>5, <4>1, <4>2, <4>4, <5>1
      <4> QED
        BY <4>3, <4>4
    <3> QED
      BY <3>1, <3>2 DEF Books
  <2>9. Chained'
    BY <1>1, <1>2, <2>5 DEF Chained, Same
  <2>10. Settled'
    <3>1. Same(Top', Below)
      BY <1>2, <2>2, <2>5 DEF Top, Below
    <3>2. Top.indent = Below.indent
      <4>1. Len(stack) \in 2 .. Len(stack) /\ Top.kind # "layout"
        BY <1>2, <2>2, <2>3 DEF Kinds
      <4> QED
        BY <1>1, <4>1 DEF Chained, Top, Below
    <3>3. layoutIndent' = Top'.indent
      BY <2>1, <2>4, <3>1, <3>2 DEF Same
    <3> QED
      BY <3>3 DEF Settled
  <2> QED
    BY <2>7, <2>8, <2>9, <2>10 DEF IInv
<1> QED
  BY <1>3, <1>4

\* A closer's own line changes nothing but the place in the stream.
LEMMA CloserLineKeeps == ASSUME IInv, CloserLine PROVE IInv'
<1>1. CASE Top.kind = "base"
  BY <1>1, FailKeeps DEF CloserLine
<1>2. CASE Top.kind # "base" /\ Peek.indent < Top.indent
  BY <1>2, FailKeeps DEF CloserLine
<1>3. CASE Top.kind # "base" /\ ~(Peek.indent < Top.indent) /\ LineFault # {}
  <2>1. PICK f \in LineFault : Fail(f)
    BY <1>3 DEF CloserLine
  <2> QED
    BY <2>1, FailKeeps DEF LineFault
<1>4. CASE Top.kind # "base" /\ ~(Peek.indent < Top.indent) /\ LineFault = {}
  <2>1. Top.kind \in Kinds
    BY <1>4, TopFacts DEF CloserLine, IInv, IsFrame
  <2>2. layoutIndent = Top.indent
    BY <2>1, FreshAtCloserLine DEF CloserLine
  <2> QED
    BY <1>4, <2>2, SkipKeeps DEF CloserLine
<1> QED
  BY <1>1, <1>2, <1>3, <1>4

\* A paren open at a line that cannot be in it ends the read.
LEMMA DangleKeeps == ASSUME IInv, Dangle PROVE IInv'
  BY FailKeeps DEF Dangle

\* So does the end of the source.
LEMMA EndKeeps == ASSUME IInv, End PROVE IInv'
  BY FailKeeps DEF End

\* The lexer hands over a token; where the indentation waited for the first line, none is read yet.
LEMMA LexKeeps == ASSUME IInv, Lex PROVE IInv'
<1> USE DEF reader
<1>1. Shape /\ Books /\ Chained
  BY DEF IInv
<1>2. src \in Seq(ItemTokens \cup LineTokens)
  BY <1>1 DEF Shape
<1>3. src' \in Seq(ItemTokens \cup LineTokens)
  <2>1. ASSUME NEW t \in Inline, src' = Append(src, t)
        PROVE  src' \in Seq(ItemTokens \cup LineTokens)
    BY <1>2, <2>1, LayoutAssumption
  <2>2. ASSUME NEW l \in Lines, NEW t \in Inline, src' = src \o <<l, [t EXCEPT !.spaced = TRUE]>>
        PROVE  src' \in Seq(ItemTokens \cup LineTokens)
    <3>1. [t EXCEPT !.spaced = TRUE] \in ItemTokens
      <4>1. t \in ItemTokens
        BY LayoutAssumption
      <4> QED
        BY <4>1 DEF ItemTokens
    <3>2. l \in LineTokens
      BY LayoutAssumption
    <3> QED
      BY <1>2, <2>2, <3>1, <3>2
  <2> QED
    BY <1>2, <2>1, <2>2 DEF Lex
<1>4. UNCHANGED <<extent, pos, stack, layoutIndent, flat, depth, outcome>>
  BY DEF Lex
<1>5. Shape'
  BY <1>1, <1>3, <1>4 DEF Shape
<1>6. Books' /\ Chained'
  BY <1>1, <1>4 DEF Books, Chained
<1>7. Settled'
  <2>1. ~Lexed /\ outcome = "reading"
    BY DEF Lex
  <2>2. CASE layoutIndent = Top.indent
    BY <1>4, <2>2 DEF Settled, Top
  <2>3. CASE src = <<>> /\ ~ended /\ pos = 0 /\ stack = <<Base(extent)>> /\ layoutIndent = 0
    <3>1. Len(stack) = 1 /\ Top = Base(extent)
      BY <2>3 DEF Top
    <3>2. CASE extent = "group"
      BY <1>4, <2>3, <3>1, <3>2 DEF Settled, Top, Base
    <3>3. CASE extent # "group"
      <4>1. pos = 0
        BY <2>3
      <4>2. ~ended' => Lexed' /\ Peek'.is = "line"
        <5>1. ASSUME ~ended', NEW l \in Lines, NEW t \in Inline,
                     src' = src \o <<l, [t EXCEPT !.spaced = TRUE]>>
              PROVE  Lexed' /\ Peek'.is = "line"
          <6>1. src' = <<l, [t EXCEPT !.spaced = TRUE]>>
            BY <2>3, <5>1
          <6>2. Len(src') = 2 /\ src'[1] = l
            BY <6>1
          <6>3. l.is = "line"
            BY LayoutAssumption DEF LineTokens
          <6> QED
            BY <1>4, <4>1, <6>2, <6>3 DEF Lexed, Peek
        <5> QED
          BY <2>3, <5>1 DEF Lex
      <4>3. ended' => Lexed' /\ Peek'.is = "end"
        <5>1. ASSUME ended' PROVE src' = src
          BY <2>3, <5>1 DEF Lex
        <5> QED
          BY <1>4, <2>3, <4>1, <5>1 DEF Lexed, Peek
      <4>4. Top'.kind = "base" /\ Top' = Top
        BY <1>4, <3>1 DEF Top, Base
      <4>5. Top.items = <<>> /\ ~Top.flat
        BY <3>1 DEF Base
      <4>6. ~Joins'
        BY <1>4, <3>3, <4>4, <4>5 DEF Joins
      <4> QED
        BY <4>2, <4>3, <4>4, <4>6 DEF Settled
    <3> QED
      BY <3>2, <3>3
  <2> QED
    BY <2>1, <2>2, <2>3 DEF IInv, Settled
<1> QED
  BY <1>5, <1>6, <1>7 DEF IInv

\* Every step keeps the invariant.
LEMMA NextKeeps == IInv /\ [Next]_vars => IInv'
<1> SUFFICES ASSUME IInv, [Next]_vars PROVE IInv'
  OBVIOUS
<1>1. CASE UNCHANGED vars
  BY <1>1 DEF vars, reader, IInv, Shape, Books, Chained, Settled, Lexed, Peek, Peek2, Top, Joins,
              BlockLine
<1>2. CASE Next
  BY <1>1, <1>2, LexKeeps, LeafKeeps, JoinKeeps, StartLineKeeps, EndLineKeeps, OpenKeeps, CloseKeeps,
     CloserLineKeeps, DangleKeeps, EndKeeps DEF Next, Return
<1> QED
  BY <1>1, <1>2

\* Wherever an opener may come, `layout_indent` is that of the line it comes on.
THEOREM AnchorsKept == Spec => []Anchored
<1>1. IInv => Anchored
  BY FreshAtItems DEF IInv, Anchored
<1> QED
  BY <1>1, InitInv, NextKeeps, PTL DEF Spec
=============================================================================
