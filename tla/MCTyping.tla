------------------------------ MODULE MCTyping ------------------------------
(***************************************************************************)
(* What is typed: methods of two arguments x and w, put together from a    *)
(* few expressions: ifs that bind y on one or on both sides, or test for   *)
(* None; loops over arguments, tuples, lists and ranges that carry y       *)
(* along, append to a list that has two names or add to it; tuples that    *)
(* are taken apart; functions called with two types; arrays whose shapes   *)
(* are joined.  And, on their own, the equations that typing solves:       *)
(* between three type variables that meet each other, alone, in lists and  *)
(* in tuples, and types without variables.                                 *)
(*                                                                         *)
(* A behaviour types a method, or it solves equations, the other idle.     *)
(***************************************************************************)
EXTENDS TypeInference
LOCAL INSTANCE TLC

CONSTANTS Variables, Equations, Ground   \* of TypeSolver

VARIABLES bindings, equation, answer     \* of TypeSolver

solving == << bindings, equation, answer >>

Solver == INSTANCE TypeSolver

NoMethod == job = <<>> /\ inferred = <<>> /\ ran = <<>> /\ pc = "none"

TypingInit == Solver!Init /\ (NoMethod \/ Init)

TypingNext ==
    \/ Next /\ UNCHANGED solving
    \/ pc = "none" /\ Solver!Next /\ UNCHANGED vars

TypingSpec == TypingInit /\ [][TypingNext]_<< vars, solving >>

NoCycles == Solver!NoCycles

\* While a method is typed nothing has been solved: all assignments agree.
AllAssignments == [Variables -> Ground]
Constraints == INSTANCE TypeConstraints WITH
    solutions <- IF pc = "none" THEN Solver!Agreeing ELSE AllAssignments
SolvesConstraints == Constraints!ConstraintSpec
-----------------------------------------------------------------------------
ThreeVars == 1..3

A == TyVar(1)
B == TyVar(2)
C == TyVar(3)
Nr == TyInt(Unknown)

\* Those of two pairs may fail after their first elements were unified, when
\* the second ones do not agree.
SmallEquations ==
    {<<A, B>>, <<B, C>>, <<A, Nr>>, <<TyNone, B>>,
     <<A, TyList(A)>>, <<C, TyList(A)>>, <<TyList(B), A>>, <<TyList(B), TyList(Nr)>>,
     <<TyTuple(<<A, B>>), TyTuple(<<C, Nr>>)>>,
     <<TyTuple(<<Nr, A>>), TyTuple(<<B, TyNone>>)>>,
     <<C, TyTuple(<<A, Nr>>)>>, <<A, TyNone>>,
     <<TyList(TyTuple(<<B, Nr>>)), TyList(C)>>}

SmallGround ==
    LET lists == {TyList(t) : t \in {Nr, TyNone}}
    IN  {Nr, TyNone} \cup lists
        \cup {TyTuple(<<s, Nr>>) : s \in {Nr, TyNone} \cup lists}
-----------------------------------------------------------------------------
Num(n)  == Const(NumOf(1, n))
Half    == Const(NumOf(2, 1))
None_   == Const(NoneValue)
X       == Name("x")
W       == Name("w")
Y       == Name("y")
I       == Name("i")
Pair(a, b) == TupleEx(<<a, b>>)
List(a)    == ListEx(<<a>>)

\* Expressions over the arguments; those over y and i stand in loops.
Simple  == {X, Num(1), Half, None_, Pair(X, Num(1)), List(X)}
Derived == {Bin("+", X, Num(1)), Bin("*", X, Num(2)), Bin("+", X, W), Len_(X), At(X, Num(0)), Shape(X)}
Carried == {Y, I, X, Bin("+", Y, I), Bin("+", Y, X), Pair(Y, I), List(Y), At(Y, Num(0)), None_}
Walked  == {X, TupleEx(<<Num(1), Half>>), Range_(Num(2)), Range_(Len_(X)), Shape(X)}
Tests   == {IsNone("x"), X, And(X, W)}

Method(ss) == ("forward" :> Function(<<"x", "w">>, ss))

Ifs == {Method(<<Assign("y", a), If(c, <<Assign("y", b)>>, <<>>), Return(Y)>>) :
            a \in Simple, b \in Simple \cup Derived, c \in Tests}
       \cup {Method(<<If(c, <<Assign("y", a)>>, <<Assign("y", b)>>),
                      Assign("z", Pair(Y, X)), Return(Y)>>) :
            a \in Simple, b \in Simple \cup Derived, c \in Tests}

Fors == {Method(<<Assign("y", a), For("i", v, <<Assign("y", b)>>), Return(Y)>>) :
            a \in Simple, v \in Walked, b \in Carried}
        \cup {Method(<<Assign("y", a), For("i", v, <<Aug("y", b)>>), Return(Y)>>) :
            a \in Simple, v \in Walked, b \in {I, X, List(I), Num(1)}}

Lists == {Method(<<Assign("y", a), Assign("z", Y), For("i", v, <<Do(Append_("y", b))>>),
                   Return(TupleEx(<<At(Y, Num(0)), Name("z"), Len_(Y)>>))>>) :
            a \in {ListEx(<<>>), List(X), List(Num(1)), X}, v \in Walked,
            b \in {I, X, Half, Pair(I, X), List(I)}}

Tuples == {Method(<<Unpack("a", "b", e), Assign("y", Pair(Name("b"), Name("a"))),
                    Unpack("a", "b", Y), Return(At(Y, i))>>) :
            e \in {X, Shape(X), Pair(X, Num(1)), Bin("+", X, W), Bin("*", X, Num(2)), List(X)},
            i \in {Num(0), Num(1), X, Bin("+", Num(0), Num(1))}}

Calls == {Method(<<Assign("y", Call("f", <<a>>)), Return(Call("f", <<b>>))>>)
          @@ ("f" :> Function(<<"u">>, body)) :
            a \in Simple, b \in {Y, X, Num(1)},
            body \in {<<Return(Bin("+", Name("u"), Num(1)))>>,
                      <<Return(List(Name("u")))>>,
                      <<If(IsNone("u"), <<Return(Num(0))>>, <<Return(Name("u"))>>)>>,
                      <<If(IsNone("u"), <<Return(Num(0))>>, <<>>), Return(Name("u"))>>,
                      <<Assign("v", Bin("*", Name("u"), Num(2)))>>}}

Arrays == {Method(<<If(c, <<Assign("y", X)>>, <<Assign("y", b)>>),
                    Assign("z", e), For("i", v, <<Aug("z", I)>>), Return(Name("z"))>>) :
            c \in {None_, Num(1)}, b \in {W, Bin("+", X, W), At(X, Num(0))}, v \in {Y, Shape(Y), Range_(Len_(Y))},
            e \in {Y, Bin("+", Y, X), Bin("*", W, Y), Shape(Y), Len_(Y)}}

\* An if or a loop in a loop, and what it leaves behind.
Nested == {Method(<<Assign("y", a), For("i", v, <<s>>), Assign("z", Pair(Y, I)), Return(Name("z"))>>) :
            a \in {None_, Num(1), X, ListEx(<<>>)}, v \in Walked,
            s \in {If(IsNone("y"), <<Assign("y", b)>>, <<>>) : b \in {I, X, Half}}
               \cup {If(IsNone("y"), <<Assign("y", b)>>, <<Assign("y", Bin("+", Y, I))>>) : b \in {I, X, None_}}
               \cup {If(And(I, X), <<Assign("y", Pair(Y, I))>>, <<Assign("y", b)>>) : b \in {I, Y, None_}}
               \cup {For("j", v2, <<Assign("y", b)>>) : v2 \in {I, X, Y}, b \in {I, Name("j"), List(Name("j"))}}
               \cup {For("j", X, <<Do(Append_("y", b))>>) : b \in {I, Name("j"), List(I)}}}

SmallPrograms == Nested \cup Ifs \cup Fors \cup Lists \cup Tuples \cup Calls \cup Arrays

Inputs2(x, w) == [args |-> <<x, w>>, heap |-> <<<<NumOf(1, 1), NumOf(1, 2), NumOf(1, 3)>>>>]
SmallInputs ==
    {Inputs2(NumOf(1, 2), NumOf(2, 1)), Inputs2(NumOf(2, 1), NoneValue), Inputs2(NoneValue, NumOf(1, 1)),
     Inputs2(TupleValue(<<NumOf(1, 1), NumOf(2, 2)>>), TupleValue(<<NoneValue>>)),
     Inputs2(ListAt(1), ListAt(1)),
     [args |-> <<ListAt(1), ListAt(2)>>, heap |-> <<<<>>, <<NoneValue, NoneValue>>>>],
     Inputs2(ArrayOf(<<3, 2>>), ArrayOf(<<1, 2>>)), Inputs2(ArrayOf(<<3, 2>>), ArrayOf(<<3, 2>>))}
=============================================================================
