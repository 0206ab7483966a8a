-------------------------- MODULE TypeConstraints --------------------------
(***************************************************************************)
(* What solving equations between types means, without type variables that *)
(* are set: the set of all ways to give the variables types that satisfy   *)
(* the equations so far.  An equation takes away those that do not satisfy *)
(* it; it may be refused only if none is left, and even then nothing that  *)
(* was ruled out comes back.                                               *)
(***************************************************************************)
EXTENDS Integers, Sequences

CONSTANTS Variables,   \* the numbers of the type variables
          Equations,   \* the pairs of types that may be equated
          Ground       \* the types without variables that are considered

VARIABLES solutions, equation, answer

constraintVars == <<solutions, equation, answer>>

RECURSIVE Instance(_, _)
\* The term under an assignment of types to variables.
Instance(s, t) ==
    CASE t.k = "var"   -> s[t.i]
      [] t.k \in {"list", "tuples", "optional"} -> [t EXCEPT !.ty = Instance(s, @)]
      [] t.k = "tuple" -> [t EXCEPT !.tys = [i \in DOMAIN t.tys |-> Instance(s, t.tys[i])]]
      [] OTHER         -> t

Satisfying(e) == {s \in solutions : Instance(s, e[1]) = Instance(s, e[2])}

ConstraintInit ==
    /\ solutions = [Variables -> Ground]
    /\ equation = <<>>
    /\ answer = "none"

Solve ==
    /\ equation' \in Equations
    /\ answer' = "solved"
    /\ solutions' = Satisfying(equation')

Refuse ==
    /\ equation' \in Equations
    /\ answer' = "refused"
    /\ Satisfying(equation') = {}
    /\ solutions' \subseteq solutions

ConstraintSpec == ConstraintInit /\ [][Solve \/ Refuse]_constraintVars
=============================================================================
