------------------------------- MODULE Arms --------------------------------
(* The arms of a MATCH (dispatch/walk/arms.rs, dispatch/select.rs,          *)
(* dispatch/evaluate.rs): the load narrows them against the scrutinee's     *)
(* static type, and the run takes the one that ranks first of those that    *)
(* admit the value.                                                         *)
(*                                                                          *)
(* A guard is a type, a type the run binds under a bound, a scalar, the     *)
(* label of a variant of the clause's union, or the default `_`.  `clause`  *)
(* is the union, or Any where the MATCH has none.                           *)
EXTENDS Overloads

CONSTANTS
    Scalars,    \* the scalars a value guard may be written with
    NoScalar,   \* a value that is none of them
    ScalarType  \* the type of each

ASSUME ScalarsAssumption ==
    /\ ScalarType \in [Scalars -> Carriable]
    /\ \A s \in Scalars : Cardinality(ScalarType[s]) = 1
    /\ NoScalar \notin Scalars

\* A value by the type it carries, and the scalar it is.
Values(scrutinee) ==
    {v \in [carried : Carries(scrutinee), scalar : Scalars \cup {NoScalar}] :
       v.scalar # NoScalar => v.carried = ScalarType[v.scalar]}

IsDefault(guard) == guard.kind = "default"
Closed(guard) == guard.kind # "bound"

\* What a closed guard admits by, or the bound of one the run binds.
Admits(guard) == IF guard.kind = "value" THEN ScalarType[guard.scalar] ELSE guard.type

\* A value outranks every type, and a type one it lies strictly under, where
\* `types` gives what each guard reads as; labels outrank nothing.
GuardOutranks(guards, types, a, b) ==
    LET typed == {c \in DOMAIN guards : guards[c].kind \in {"type", "bound"}}
    IN  \/ guards[a].kind = "value" /\ b \in typed
        \/ /\ {a, b} \subseteq typed
           /\ types[a] # Never /\ types[b] # Never
           /\ types[a] \subseteq types[b] /\ types[a] # types[b]

\* Nothing orders a guard the load cannot close.
AtLoad(guards) ==
    [a \in DOMAIN guards |-> IF Closed(guards[a]) THEN Admits(guards[a]) ELSE Never]
AtRun(guards, binding) ==
    [a \in DOMAIN guards |-> IF Closed(guards[a]) THEN Admits(guards[a]) ELSE binding]

\* Whether no value of the scrutinee's type, or every one, is under a type.
Verdict(scrutinee, type, mayAlways) ==
    IF type \cap scrutinee.up = Never \/ ~(scrutinee.lo \subseteq type) THEN "never"
    ELSE IF mayAlways /\ scrutinee.up \subseteq type THEN "always" ELSE "maybe"

GuardVerdict_ValueAlways(match, a) ==
    LET guard == match.guards[a]
    IN  IF IsDefault(guard) THEN Verdict(match.scrutinee, match.clause, TRUE)
        ELSE Verdict(match.scrutinee, Admits(guard), guard.kind # "bound")

GuardVerdict(match, a) ==
    LET guard == match.guards[a]
    IN  IF IsDefault(guard) THEN Verdict(match.scrutinee, match.clause, TRUE)
        ELSE Verdict(match.scrutinee, Admits(guard), guard.kind \in {"type", "label"})

\* The arms a run may take: not one an always-admitting guarded arm outranks,
\* nor `_` beside such an arm.
Dropped(match, a, verdicts) ==
    LET guards == match.guards
        closed == \A b \in DOMAIN guards : Closed(guards[b])
    IN  \E b \in DOMAIN guards :
          /\ verdicts[b] = "always" /\ ~IsDefault(guards[b])
          /\ \/ IsDefault(guards[a])
             \/ /\ verdicts[a] = "maybe" /\ closed
                /\ GuardOutranks(guards, AtLoad(guards), b, a)

\* The one of `arms` no other outranks.
FirstRanked(guards, arms, types) ==
    LET first == {a \in arms : ~\E b \in arms : GuardOutranks(guards, types, b, a)}
    IN  IF Cardinality(first) = 1
        THEN [kind |-> "runs", arm |-> CHOOSE a \in first : TRUE]
        ELSE [kind |-> "ambiguous", count |-> Cardinality(first)]

\* What the load fixes: a refusal, the arm every run takes, or those it selects among.
NarrowArms(match) ==
    LET verdicts == [a \in DOMAIN match.guards |-> GuardVerdict(match, a)]
        kept == {a \in DOMAIN match.guards :
                   verdicts[a] # "never" /\ ~Dropped(match, a, verdicts)}
        always == {a \in kept : verdicts[a] = "always"}
        closed == \A a \in DOMAIN match.guards : Closed(match.guards[a])
        decided == FirstRanked(match.guards, kept, AtLoad(match.guards))
        open == [kind |-> "kept", kept |-> kept, always |-> always]
    IN  IF kept = {} THEN [kind |-> "none"]
        ELSE IF ~(kept \subseteq always) THEN open
        ELSE IF Cardinality(kept) = 1 THEN [kind |-> "selected", chosen |-> decided.arm]
        ELSE IF ~closed THEN open
        ELSE IF decided.kind = "runs" THEN [kind |-> "selected", chosen |-> decided.arm]
        ELSE [kind |-> "ambiguous"]

\* Whether an arm admits a value, where the run bound what it binds to `binding`.
AdmitsValue(match, a, value, binding) ==
    LET guard == match.guards[a]
    IN  IF guard.kind = "value" THEN value.scalar = guard.scalar
        ELSE value.carried \subseteq
               IF IsDefault(guard) THEN match.clause ELSE AtRun(match.guards, binding)[a]

Take(match, kept, always, value, binding) ==
    LET guards == match.guards
        admitted == {a \in kept : a \in always \/ AdmitsValue(match, a, value, binding)}
        guarded == {a \in admitted : ~IsDefault(guards[a])}
    IN  IF admitted = {} THEN [kind |-> "none"]
        ELSE IF guarded = {} THEN [kind |-> "runs", arm |-> CHOOSE a \in admitted : TRUE]
        ELSE FirstRanked(guards, guarded, AtRun(guards, binding))

\* A run of the MATCH as the load narrowed it, and over all its arms.
TakeArm(match, fixed, value, binding) ==
    IF fixed.kind = "selected" THEN [kind |-> "runs", arm |-> fixed.chosen]
    ELSE Take(match, fixed.kept, fixed.always, value, binding)

TakeOfAll(match, value, binding) ==
    Take(match, DOMAIN match.guards, {}, value, binding)
=============================================================================
