----------------------------- MODULE MCFrontEnds -----------------------------
(***************************************************************************)
(* Families of forward methods for the front ends: each is all sequences   *)
(* of a few statements, chosen so that what one statement does to the      *)
(* variables is seen by the next.                                          *)
(***************************************************************************)
EXTENDS FrontEnds

n == Name("n")
k == Name("k")
x == Name("x")
y == Name("y")
i == Name("i")
j == Name("j")
N(m) == Const(Num(m))

Both == {"elichika", "ch2o"}
Args == {<< Num(a), Num(b) >> : a \in 0..3, b \in 0..2}
Job(source, tools) == [source |-> source, args |-> Args, tools |-> tools]

\* All sequences of one to m members of S.
SeqsUpTo(S, m) == UNION {[1..len -> S] : len \in 1..m}

\* The arguments are n and k; x and y are variables, which are not aliases.
Method(body) == Function(<< "n", "k" >>, << Assign("x", N(1)), Assign("y", Bin("+", n, N(1))) >> \o body)
Result       == << Return(Bin("-", Bin("*", x, N(7)), y)) >>
Forward(body) == [f \in {"forward"} |-> Method(body \o Result)]

Loop(body)    == For("i", CallRange(n), body)
Inner(body)   == For("j", CallRange(k), body)
When(op, a, b, stmt) == If(Cmp(op, a, b), << stmt >>, <<>>)

\* One loop that may be left or cut short anywhere, but always under a test.
Jumps ==
  { When("==", i, k, Break), When("==", i, k, Continue), When(">=", i, k, Return(x)),
    If(Cmp(">", i, k), << Continue >>, << AugAssign("x", N(5)) >>),
    AugAssign("x", i) }
JumpJobs == {Job(Forward(<< Loop(body) >>), {"elichika"}) : body \in SeqsUpTo(Jumps, 4)}

(***************************************************************************)
(* Loops inside loops and after loops.  A loop that does not break is      *)
(* neither around nor after one that does.                                 *)
(***************************************************************************)
Nested ==
  { When("==", i, k, Break), AugAssign("y", i),
    Inner(<< When("==", i, j, Continue), AugAssign("x", j) >>),
    Inner(<< When("==", i, j, Return(y)), AugAssign("x", N(3)) >>) }
Breaking == Loop(<< When("==", i, k, Break), Inner(<< When("==", i, j, Break), AugAssign("x", j) >>), AugAssign("y", x) >>)
NestedJobs ==
  {Job(Forward(<< Loop(body) >>), {"elichika"}) : body \in SeqsUpTo(Nested, 3)}
    \cup {Job(Forward(<< Breaking >> \o rest), {"elichika"}) :
            rest \in {<<>>, << Breaking >>, << Loop(<< When(">", i, y, Break), AugAssign("x", y) >>) >>}}

\* Methods without jumps, for both front ends.
Plain ==
  { AugAssign("x", n), Assign("y", Bin("*", x, k)), Assign("x", Bin("-", y, N(1))),
    If(Cmp("<", n, k), << AugAssign("x", N(3)) >>, << Assign("y", Bin("+", x, n)) >>),
    If(Cmp(">=", n, k), << Assign("x", N(4)), AugAssign("y", x) >>, <<>>),
    Loop(<< AugAssign("x", i) >>),
    Inner(<< AugAssign("y", x), Assign("x", j) >>),
    Loop(<< If(Cmp("!=", i, k), << AugAssign("x", y) >>, << AugAssign("y", N(1)) >>) >>),
    For("i", CallRange(N(2)), << For("j", CallRange(n), << AugAssign("x", Bin("+", i, j)) >>), AugAssign("y", x) >>) }
PlainJobs == {Job(Forward(body), Both) : body \in SeqsUpTo(Plain, 3)}

\* Variables that are worth the same, and that an if tells apart.
Aliases ==
  { Assign("x", y), Assign("y", n),
    If(Cmp("<", x, k), << AugAssign("x", N(2)) >>, << AugAssign("y", x) >>),
    If(Cmp(">", y, n), << Assign("y", x) >>, << Assign("x", n), When("==", n, k, AugAssign("x", y)) >>) }
AliasJobs == {Job(Forward(body), Both) : body \in SeqsUpTo(Aliases, 3)}

\* Flags that are tested, known or not: elichika decides what it can.
Flags ==
  { Assign("c", Const(Bool(TRUE))), Assign("c", Cmp("<", n, k)), Assign("c", Not(Name("c"))),
    Assign("c", Or(<< Name("c"), Cmp("==", n, N(2)) >>)),
    If(And(<< Name("c"), Cmp(">", n, N(0)) >>), << AugAssign("x", y) >>, << Assign("y", k) >>),
    When("is", Name("z"), Const(None), AugAssign("x", N(4))),
    Assign("z", y), If(Name("c"), << Assign("z", k) >>, <<>>),
    Loop(<< If(Name("c"), << AugAssign("x", N(2)) >>, << AugAssign("y", i) >>) >>) }
FlagJobs ==
  {Job(Forward(<< Assign("c", Cmp(">", n, N(1))), Assign("z", Const(None)) >> \o body), {"elichika"}) : body \in SeqsUpTo(Flags, 3)}

\* Calls of functions that return early, assign, loop, or call another.
Early == Function(<< "a", "b" >>, << When("<", Name("a"), Name("b"), Return(N(9))), Assign("a", Bin("*", Name("a"), N(2))), Return(Name("a")) >>)
Sum   == Function(<< "a", "b" >>, << Assign("x", Name("b")), For("i", CallRange(Name("a")), << Assign("x", Bin("+", x, i)) >>), Return(x) >>)
Calls(f) ==
  { Assign("x", Call(f, << x, k >>)), Assign("y", Call(f, << Bin("+", n, N(1)), Call(f, << k, n >>) >>)),
    If(Cmp("<", n, k), << Assign("x", Call(f, << n, x >>)) >>, << AugAssign("y", Call(f, << x, k >>)) >>),
    Loop(<< AugAssign("x", Call(f, << i, k >>)) >>) }
Program(body) ==
  [f \in {"forward", "early", "sum"} |->
     CASE f = "forward" -> Method(body \o Result) [] f = "early" -> Early [] f = "sum" -> Sum]
CallJobs ==
  {Job(Program(body), {"elichika"}) : body \in SeqsUpTo(Calls("early"), 3)}
    \cup {Job(Program(body), Both) : body \in SeqsUpTo(Calls("sum"), 3)}

MCJobs == JumpJobs \cup NestedJobs \cup PlainJobs \cup AliasJobs \cup FlagJobs \cup CallJobs
=============================================================================
