----------------------------- MODULE TypeSolver -----------------------------
(***************************************************************************)
(* The type variables of one inference under any sequence of calls of      *)
(* unify.  A call that raises UnifyError may have set variables; the       *)
(* inference goes on when the call was one of call_function's              *)
(* (type_inference.py), which catches the error.                           *)
(***************************************************************************)
EXTENDS TypeTerms
LOCAL INSTANCE FiniteSetsExt
LOCAL INSTANCE TLC

CONSTANTS Variables,   \* the numbers of the type variables
          Equations,   \* the pairs of types that are unified
          Ground       \* the types that variables may stand for

VARIABLES
    bindings,   \* TyVar.ty of the variables that are set
    equation,   \* the last call
    answer      \* and whether it returned

vars == <<bindings, equation, answer>>

Init ==
    /\ bindings = <<>>
    /\ equation = <<>>
    /\ answer = "none"

\* unify, of one pair.
Equate(e) ==
    LET r == Unify(bindings, e[1], e[2])
    IN  /\ bindings' = r.vars
        /\ equation' = e
        /\ answer' = IF r.ok THEN "solved" ELSE "refused"

Next == \E e \in Equations : Equate(e)

Spec == Init /\ [][Next]_vars
-----------------------------------------------------------------------------
\* The variables in some types, and in what variables are set to in turn.
Mentioned(vs) ==
    FoldSet(LAMBDA i, us : us \cup UNION {VarsIn(bindings[u]) : u \in us \cap DOMAIN bindings},
            vs, Variables)

\* No variable is part of the type it is set to, however many others lie in
\* between: deref ends, and so does printing a type.
NoCycles == \A v \in DOMAIN bindings : v \notin Mentioned(VarsIn(bindings[v]))

\* The assignments that agree with the variables that are set: the others
\* are free, as long as all types are among those considered.
Agreeing ==
    LET free  == Variables \ DOMAIN bindings
        With(f) == [v \in Variables |-> Resolve(f @@ bindings, TyVar(v))]
    IN  {s \in {With(f) : f \in [free -> Ground]} : \A v \in Variables : s[v] \in Ground}

Constraints == INSTANCE TypeConstraints WITH solutions <- Agreeing

\* The variables that are set say neither more nor less than the calls that
\* returned: nothing solved before is forgotten, and a call is refused only
\* when no types at all would do.
SolvesConstraints == Constraints!ConstraintSpec
=============================================================================
