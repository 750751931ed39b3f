---------------------------- MODULE MCNarrowing ----------------------------
(* Uses and MATCHes for Narrowing, over the design's own examples.          *)
EXTENDS Narrowing

Ext == INSTANCE SequencesExt

CONSTANTS n, s, b, X, Y, one, text

MCScalarType == [k \in {one, text} |-> IF k = one THEN {n} ELSE {s}]

Shape(x, y) == [slots |-> <<x, y>>, bounds |-> NoRigid, builtin |-> FALSE]
Bound(x, y, bound) == [Shape(x, y) EXCEPT !.bounds = [v \in Vars |-> bound]]
Builtin(x, y) == [Shape(x, y) EXCEPT !.builtin = TRUE]
Written(shape) == [heads |-> <<shape>>, known |-> TRUE]

\* SHOW, MOVE, PAIR and TAKE of the lattice's tests, two builtins, and a key of
\* functions the load does not read.
MCPool == <<
    Written(Builtin(Any, Any)),
    Written(Builtin({n, s}, {n, s})),
    Written(Shape({n}, Any)),
    Written(Shape({X}, {s})),
    Written(Shape({s, b}, {n})),
    Written(Shape({n, s}, Any)),
    Written(Shape({X}, {X})),
    Written(Shape({X}, {Y})),
    Written(Bound({X}, {X}, {n, s})),
    [heads |-> <<Shape({n}, {n, s}), Bound({X}, {Y}, {n, s})>>, known |-> FALSE] >>

Ascending(S) == Ext!SetToSortSeq(S, <)
MCLists == {[k \in 1 .. Cardinality(S) |-> MCPool[Ascending(S)[k]]] :
              S \in {T \in SUBSET DOMAIN MCPool : Cardinality(T) \in 1 .. 3}}

MCOrders == {<<0, 1>>, <<1, 0>>, <<0, 0>>}

Under(t) == [lo |-> Never, up |-> t]
MCEnds == {Point({n}), Point({s}), Under({n, s}), [lo |-> {n}, up |-> {n, s}], Under(Any)}
MCArguments == MCEnds \X MCEnds

Guard(kind, type, scalar) == [kind |-> kind, type |-> type, scalar |-> scalar]
MCGuardPool == <<
    Guard("value", {n}, one), Guard("value", {s}, text),
    Guard("type", {n}, NoScalar), Guard("type", {n, s}, NoScalar),
    Guard("type", {s, b}, NoScalar), Guard("type", Any, NoScalar),
    Guard("bound", {n, s}, NoScalar),
    Guard("label", {n}, NoScalar), Guard("label", {s}, NoScalar),
    Guard("default", Never, NoScalar) >>
MCGuards == {[k \in 1 .. Cardinality(S) |-> MCGuardPool[Ascending(S)[k]]] :
               S \in {T \in SUBSET DOMAIN MCGuardPool : Cardinality(T) \in 1 .. 4}}
=============================================================================
