----------------------------- MODULE Overloads -----------------------------
(* Selecting a candidate for a keyworded call (lattice types/ranking.rs,     *)
(* dispatch/select.rs, dispatch/walk.rs).                                    *)
(*                                                                           *)
(* Every candidate of a use has a shape: a type for each slot, under one     *)
(* ranking of the slots into priority classes.  A slot may name a variable   *)
(* of the shape's group, which the first class naming it solves from its     *)
(* arguments; later classes are admitted against that solution.  The load    *)
(* knows each argument by an interval of types and narrows the candidates;   *)
(* the call admits what is left over the types carried, and ranks it.        *)
(*                                                                           *)
(* A type is the set of the atoms its values have, so a subtype is a subset, *)
(* a join a union, Never the empty set and Any all of them.  A slot is a     *)
(* type or one variable; containers of a variable are left out.              *)
EXTENDS Naturals, Sequences, FiniteSets

CONSTANTS
    Atoms,  \* the kinds of values types tell apart
    Vars    \* the variables a group may have

ASSUME TypesAssumption == Atoms # {} /\ Atoms \cap Vars = {}

Never == {}
Any == Atoms

\* Closed types a value carries.
Carriable == SUBSET Atoms \ {Never}

\* An argument's static type: every type a call carries there lies between.
Intervals == {i \in [lo : SUBSET Atoms, up : Carriable] : i.lo \subseteq i.up}
Exact(i) == i.lo = i.up
Point(t) == [lo |-> t, up |-> t]
Carries(i) == {t \in Carriable : i.lo \subseteq t /\ t \subseteq i.up}

LastClass(order) == CHOOSE c \in {order[i] : i \in DOMAIN order} :
                      \A i \in DOMAIN order : order[i] <= c
ClassesOf(order) == 0 .. LastClass(order)
InClass(order, c) == {i \in DOMAIN order : order[i] = c}

-----------------------------------------------------------------------------
(* A shape's variables, class by class. *)

IsVar(slot) == slot # Never /\ slot \subseteq Vars
Named(slot) == CHOOSE v \in Vars : slot = {v}

\* The first class whose slots name the variable is this one: it solves it.
Owns(shape, order, c, v) ==
    /\ \E i \in InClass(order, c) : shape.slots[i] = {v}
    /\ \A i \in DOMAIN order : shape.slots[i] = {v} => order[i] >= c

Solves(shape, order, i) ==
    IsVar(shape.slots[i]) /\ Owns(shape, order, order[i], Named(shape.slots[i]))

\* A type under another, where a variable of the other shape stands for any
\* type under its bound.
Fits(t, u, rigid) ==
    \A x \in t : x \in u \/ (x \in Vars /\ rigid[x] \subseteq u)

\* What the class's arguments give a variable it solves.
Contribution(shape, order, args, c, v) ==
    UNION {args[i] : i \in {j \in InClass(order, c) : shape.slots[j] = {v}}}

\* Whether the class admits its arguments jointly, earlier variables fixed.
ClassAdmits(shape, order, args, rigid, c, fixed) ==
    \A i \in InClass(order, c) :
        Fits(args[i],
             IF ~IsVar(shape.slots[i]) THEN shape.slots[i]
             ELSE IF Solves(shape, order, i) THEN shape.bounds[Named(shape.slots[i])]
             ELSE fixed[Named(shape.slots[i])], rigid)

\* What each variable reads as before each class: its bound until a class that
\* admits solves it, and then what `read` makes of the solution.
Walk(shape, order, args, rigid, read) ==
    LET fixed[c \in 0 .. LastClass(order) + 1] ==
            IF c = 0 THEN shape.bounds
            ELSE LET was == fixed[c - 1]
                     admits == ClassAdmits(shape, order, args, rigid, c - 1, was)
                 IN  [v \in Vars |->
                        IF admits /\ Owns(shape, order, c - 1, v)
                        THEN read[Contribution(shape, order, args, c - 1, v)]
                        ELSE was[v]]
    IN  fixed

NoRigid == [v \in Vars |-> Any]
Solutions == SUBSET (Atoms \cup Vars)
AsSolved == [solution \in Solutions |-> solution]

\* What admitting the carried types does: the solution, where every class admits.
Admission(shape, order, args) ==
    LET fixed == Walk(shape, order, args, NoRigid, AsSolved)
    IN  [admits |-> \A c \in ClassesOf(order) :
                      ClassAdmits(shape, order, args, NoRigid, c, fixed[c]),
         solution |-> fixed[LastClass(order) + 1]]

-----------------------------------------------------------------------------
(* Ranking. *)

\* Over static types a class fixes a variable to an interval of bindings, and
\* nothing lies under all of them; a solution in the other shape's variables
\* stands for one unknown already.
ReadLater ==
    [solution \in Solutions |-> IF solution \cap Vars # {} THEN solution ELSE Never]

\* The one shape's slots of the class, its variables rigid, are admitted by the other's.
AtLeast(a, b, order, c) ==
    LET fixed == Walk(b, order, a.slots, a.bounds, ReadLater)
    IN  ClassAdmits(b, order, a.slots, a.bounds, c, fixed[c])

Outranks(a, b, order, c) == AtLeast(a, b, order, c) /\ ~AtLeast(b, a, order, c)

\* Class by class, what another survivor strictly outranks drops out.
Survivors(shapes, order) ==
    LET left[c \in 0 .. LastClass(order) + 1] ==
            IF c = 0 THEN DOMAIN shapes
            ELSE LET was == left[c - 1]
                 IN  {x \in was : ~\E y \in was \ {x} :
                                     Outranks(shapes[y], shapes[x], order, c - 1)}
    IN  left[LastClass(order) + 1]

-----------------------------------------------------------------------------
(* What the load knows of a candidate. *)

\* The slot whose variable no other slot of its class names.
Alone(shape, order, i) ==
    \A j \in InClass(order, order[i]) \ {i} : shape.slots[j] # shape.slots[i]

\* Every argument the class solves from is exact: the load's solve is the call's.
ExactClass(shape, order, args, c) ==
    \A i \in InClass(order, c) : Solves(shape, order, i) => Exact(args[i])

\* A bare variable takes whatever the one argument carries, under its bound.
AloneFits(shape, order, args, i) ==
    args[i].up \subseteq shape.bounds[Named(shape.slots[i])] /\ Alone(shape, order, i)

Least_AtSolution(solution, exact) == solution

\* What every type an earlier variable may bind lies above.
Least(solution, exact) == IF exact THEN solution ELSE Never

\* The verdict, and for each variable whether its solution is the call's and what it is.
Judge(shape, order, args) ==
    LET uppers == [i \in DOMAIN args |-> args[i].up]
        fixed == Walk(shape, order, uppers, NoRigid, AsSolved)
        admits == [c \in ClassesOf(order) |->
                     ClassAdmits(shape, order, uppers, NoRigid, c, fixed[c])]
        exactly == [c \in ClassesOf(order) |-> ExactClass(shape, order, args, c)]
        var(i) == Named(shape.slots[i])
        greatest(i) == IF IsVar(shape.slots[i]) THEN fixed[order[i]][var(i)]
                       ELSE shape.slots[i]
        owner(v) == CHOOSE c \in ClassesOf(order) : Owns(shape, order, c, v)
        least(i) == IF ~IsVar(shape.slots[i]) THEN shape.slots[i]
                    ELSE Least(fixed[order[i]][var(i)],
                               admits[owner(var(i))] /\ exactly[owner(var(i))])
        never == \E i \in DOMAIN args :
                    \/ greatest(i) \cap args[i].up = Never
                    \/ ~(args[i].lo \subseteq greatest(i))
                    \/ /\ Solves(shape, order, i) /\ exactly[order[i]]
                       /\ ~(args[i].up \subseteq shape.bounds[var(i)])
        always == \A i \in DOMAIN args :
                    /\ admits[order[i]]
                    /\ IF Solves(shape, order, i)
                       THEN exactly[order[i]] \/ AloneFits(shape, order, args, i)
                       ELSE args[i].up \subseteq least(i)
    IN  [verdict |-> IF never THEN "never" ELSE IF always THEN "always" ELSE "maybe",
         solution |-> fixed[LastClass(order) + 1],
         exact |-> {v \in Vars : \A c \in ClassesOf(order) :
                                    Owns(shape, order, c, v) => exactly[c]}]

-----------------------------------------------------------------------------
(* A use of candidates: `list`, each a list of functions the load reads or not, *)
(* under one ranking `order`, over arguments of static types `args`.            *)

Read(use, p) == use.list[p].known
HeadOf(use, p) == use.list[p].heads[1]

\* The arguments the call solves from as the load typed them, not as carried.
Contributes(use, i) ==
    /\ use.args[i].up # Any
    /\ \E p \in DOMAIN use.list :
          Read(use, p) /\ Solves(HeadOf(use, p), use.order, i)

\* What a shape's solve reads at each slot, at the load and at the call.
SolvedFrom(use, shape) ==
    [i \in DOMAIN use.args |->
        IF Solves(shape, use.order, i) /\ Contributes(use, i)
        THEN Point(use.args[i].up) ELSE use.args[i]]

SolvedAtCall(use, shape, carried) ==
    [i \in DOMAIN carried |->
        IF Solves(shape, use.order, i) /\ Contributes(use, i)
        THEN use.args[i].up ELSE carried[i]]

AtCall(use, shape, carried) ==
    Admission(shape, use.order, SolvedAtCall(use, shape, carried))

Judged(use, p) ==
    IF Read(use, p) THEN Judge(HeadOf(use, p), use.order, SolvedFrom(use, HeadOf(use, p)))
    ELSE [verdict |-> "maybe", solution |-> NoRigid, exact |-> {}]

\* Where each variable's solution is found at every call, where it is: the
\* load's own, or the type carried by the one slot that is the variable.
HasPoint(use, p, judged, v) ==
    \/ v \in judged.exact
    \/ \E i \in DOMAIN use.args :
          /\ {j \in DOMAIN use.args : HeadOf(use, p).slots[j] = {v}} = {i}
          /\ ~Contributes(use, i)

Pointed(use, p, judged, carried) ==
    [v \in Vars |-> IF v \in judged.exact THEN judged.solution[v]
                    ELSE carried[CHOOSE i \in DOMAIN use.args : HeadOf(use, p).slots[i] = {v}]]

NeverRuns_AnyClass(use, p, always) ==
    \E q \in always, c \in ClassesOf(use.order) :
        Outranks(HeadOf(use, q), HeadOf(use, p), use.order, c)

\* A candidate that may admit never runs beside one that always does and
\* outranks it at the first class.
NeverRuns(use, p, always) ==
    \E q \in always : Outranks(HeadOf(use, q), HeadOf(use, p), use.order, 0)

\* The one that runs among functions named by position and place in its list:
\* the lone survivor, or the first builtin of several.
Earliest(S) == CHOOSE x \in S : \A y \in S : x[1] < y[1] \/ (x[1] = y[1] /\ x[2] <= y[2])
Function(use, x) == use.list[x[1]].heads[x[2]]

Decide(use, admitted) ==
    LET shapes == [x \in admitted |-> Function(use, x)]
        left == Survivors(shapes, use.order)
        builtins == {x \in left : shapes[x].builtin}
    IN  IF admitted = {} THEN [kind |-> "none"]
        ELSE IF Cardinality(left) = 1 THEN [kind |-> "runs", it |-> Earliest(left)]
        ELSE IF builtins # {} THEN [kind |-> "runs", it |-> Earliest(builtins)]
        ELSE [kind |-> "ambiguous", count |-> Cardinality(left)]

\* What the load fixes of the use: a refusal, the one candidate it selects, or
\* those a call selects among, each with its verdict.
Narrow(use) ==
    LET all == DOMAIN use.list
        judged == [p \in all |-> Judged(use, p)]
        may == {p \in all : judged[p].verdict # "never"}
        always == {p \in may : judged[p].verdict = "always"}
        left == {p \in may : p \in always \/ ~Read(use, p) \/ ~NeverRuns(use, p, always)}
        pointed == {p \in left \cap always :
                      \A v \in Vars : HasPoint(use, p, judged[p], v)}
        decided == Decide(use, left \X {1})
        kept == [kind |-> "kept", judged |-> judged, kept |-> left, always |-> pointed]
    IN  IF may = {} THEN [kind |-> "none"]
        ELSE IF ~(left \subseteq always) THEN kept
        ELSE IF decided.kind = "ambiguous" THEN [kind |-> "ambiguous"]
        ELSE IF decided.it[1] \notin pointed THEN kept
        ELSE [kind |-> "selected", judged |-> judged, chosen |-> decided.it[1]]

\* What a call runs, and the group it binds: nothing for a builtin.
Ran(use, x, solution) ==
    [kind |-> "runs", it |-> x,
     solution |-> IF Function(use, x).builtin THEN NoRigid ELSE solution]

\* Select at a call among `kept`, taking `always` as admitted.
Select(use, kept, always, judged, carried) ==
    LET functions == {x \in kept \X (1 .. 2) : x[2] \in DOMAIN use.list[x[1]].heads}
        admission == [x \in functions |->
                        IF x[1] \in always
                        THEN [admits |-> TRUE,
                              solution |-> Pointed(use, x[1], judged[x[1]], carried)]
                        ELSE AtCall(use, Function(use, x), carried)]
        decided == Decide(use, {x \in functions : admission[x].admits})
    IN  IF decided.kind = "runs"
        THEN Ran(use, decided.it, admission[decided.it].solution) ELSE decided

\* A call of the use as the load narrowed it, and as it would be had the load fixed nothing.
Call(use, fixed, carried) ==
    IF fixed.kind = "selected"
    THEN Ran(use, <<fixed.chosen, 1>>,
             Pointed(use, fixed.chosen, fixed.judged[fixed.chosen], carried))
    ELSE Select(use, fixed.kept, fixed.always, fixed.judged, carried)

Whole(use, carried) == Select(use, DOMAIN use.list, {}, <<>>, carried)
=============================================================================
