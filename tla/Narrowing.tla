----------------------------- MODULE Narrowing -----------------------------
(* What the load narrows, the call runs (dispatch/walk.rs,                   *)
(* dispatch/evaluate.rs): a keyworded use or a MATCH is written, the load    *)
(* fixes what its static types decide, and it is then run over anything those  *)
(* types allow.  A run writes nothing the next one reads, so one is enough.    *)
EXTENDS Arms

CONSTANTS
    Orders,         \* the rankings of a use's slots
    Lists,          \* the candidates a use may have
    Arguments,      \* the static types of a use's arguments
    Guards,         \* the arms a MATCH may have
    Clauses,        \* the unions a MATCH may be under, and Any for none
    Scrutinees,     \* the static types of a scrutinee
    Bindings        \* what a run may bind a guard to

VARIABLES
    written,    \* the use or the MATCH
    fixed,      \* what the load fixed of it
    ran         \* the call made, and what it ran

vars == <<written, fixed, ran>>

Unfixed == [kind |-> "unfixed"]
NotRun == [kind |-> "not run"]

Uses == [kind : {"call"}, order : Orders, list : Lists, args : Arguments]

Matches == [kind : {"match"}, guards : Guards, clause : Clauses, scrutinee : Scrutinees]

\* Two guards of one type refuse the shape, and so does a label that names no
\* variant, or a variant with no arm.
WellFormed(match) ==
    LET guards == match.guards
        types == {a \in DOMAIN guards : guards[a].kind = "type"}
        labels == {a \in DOMAIN guards : guards[a].kind = "label"}
        union == UNION {guards[a].type : a \in labels}
    IN  IF match.clause = Any THEN labels = {}
        ELSE /\ \A a \in DOMAIN guards : guards[a].kind \in {"label", "default"}
             /\ union \subseteq match.clause
             /\ union = match.clause \/ \E a \in DOMAIN guards : IsDefault(guards[a])

\* A binding that makes two guards one is refused where it is made.
MayBind(match, binding) ==
    \A a \in DOMAIN match.guards :
        /\ match.guards[a].kind = "bound" => binding \subseteq match.guards[a].type
        /\ match.guards[a].kind = "type" => binding # match.guards[a].type

Carried(use) ==
    {c \in [DOMAIN use.args -> Carriable] : \A i \in DOMAIN c : c[i] \in Carries(use.args[i])}

Init ==
    /\ written \in Uses \cup {m \in Matches : WellFormed(m)}
    /\ fixed = Unfixed
    /\ ran = NotRun

\* The load walks the use, once.
Load ==
    /\ fixed = Unfixed
    /\ fixed' = IF written.kind = "call" THEN Narrow(written) ELSE NarrowArms(written)
    /\ UNCHANGED <<written, ran>>

\* A use the load refused never runs.
Loaded == fixed.kind \in {"selected", "kept"}

RunCall ==
    /\ written.kind = "call" /\ Loaded /\ ran = NotRun
    /\ \E carried \in Carried(written) :
          ran' = [kind |-> "call", carried |-> carried,
                  outcome |-> Call(written, fixed, carried)]
    /\ UNCHANGED <<written, fixed>>

RunMatch ==
    /\ written.kind = "match" /\ Loaded /\ ran = NotRun
    /\ \E value \in Values(written.scrutinee), binding \in Bindings :
          /\ MayBind(written, binding)
          /\ ran' = [kind |-> "match", value |-> value, binding |-> binding,
                     outcome |-> TakeArm(written, fixed, value, binding)]
    /\ UNCHANGED <<written, fixed>>

Next == Load \/ RunCall \/ RunMatch
Spec == Init /\ [][Next]_vars

-----------------------------------------------------------------------------
(* Safety *)

\* The narrowing law of a use (dispatch/tests/narrowing.rs): a call over what
\* the load kept runs the function, and binds the group, that selection over
\* every candidate would, and fails where and as that would.
RunsTheSame ==
    ran.kind = "call" => ran.outcome = Whole(written, ran.carried)

\* A use the load refuses fails at every call within its static types.
RefusedWhereAllFail ==
    written.kind = "call" /\ fixed.kind \in {"none", "ambiguous"} =>
        \A carried \in Carried(written) : Whole(written, carried).kind # "runs"

\* Static narrowing is transparent (dispatch/tests/narrowing.rs): a call over what the load
\* kept runs, binds and fails as selection over every candidate would, and a use the load
\* refuses fails at every call within its static types.
Transparent == RunsTheSame /\ RefusedWhereAllFail

\* A candidate the load judges never to admit admits no call, one it judges
\* always to admit admits each, and the solution it takes without admitting is
\* the one admitting would give (select.rs, `agrees`).
VerdictsSound ==
    written.kind = "call" /\ fixed.kind \in {"selected", "kept"} /\ ran = NotRun =>
        \A p \in {q \in DOMAIN written.list : Read(written, q)}, carried \in Carried(written) :
            LET judged == fixed.judged[p]
                atCall == AtCall(written, HeadOf(written, p), carried)
            IN  /\ judged.verdict = "never" => ~atCall.admits
                /\ judged.verdict = "always" => atCall.admits
                /\ judged.verdict = "always"
                     /\ (\A v \in Vars : HasPoint(written, p, judged, v)) =>
                        Pointed(written, p, judged, carried) = atCall.solution

\* A MATCH takes the arm it would have taken had the load dropped and chosen
\* none, at every value and binding, and one the load refuses takes no arm.
ArmsRunTheSame ==
    /\ ran.kind = "match" => ran.outcome = TakeOfAll(written, ran.value, ran.binding)
    /\ written.kind = "match" /\ fixed.kind \in {"none", "ambiguous"} =>
          \A value \in Values(written.scrutinee), binding \in Bindings :
              MayBind(written, binding) =>
                  TakeOfAll(written, value, binding).kind # "runs"
=============================================================================
