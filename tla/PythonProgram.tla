--------------------------- MODULE PythonProgram ---------------------------
(***************************************************************************)
(* The part of Python that the two front ends, elichika and ch2o, accept   *)
(* in a forward method and that decides their control flow: numbers,       *)
(* booleans and None, names, calls of user functions, if, for over a       *)
(* range, break, continue and return.  PyRun is what Chainer does with the *)
(* method: the reference the front ends are compared with, for a test case *)
(* stores Chainer's outputs next to the exported graph.                    *)
(*                                                                         *)
(* Values carry their type, so that two values can always be compared.     *)
(***************************************************************************)
EXTENDS Integers, Sequences, TLC

Num(n)    == [t |-> "num", v |-> n]
Bool(b)   == [t |-> "bool", v |-> IF b THEN 1 ELSE 0]
RangeOf(n) == [t |-> "range", v |-> n]
None      == [t |-> "none", v |-> 0]
Error     == [t |-> "error", v |-> 0]
IsTrue(c) == c.v # 0

(***************************************************************************)
(* Expressions and statements.                                             *)
(***************************************************************************)
Const(c)        == [k |-> "const", c |-> c]
Name(x)         == [k |-> "name", x |-> x]
Bin(op, l, r)   == [k |-> "bin", op |-> op, l |-> l, r |-> r]
Cmp(op, l, r)   == [k |-> "cmp", op |-> op, l |-> l, r |-> r]
Not(e)          == [k |-> "not", e |-> e]
And(es)         == [k |-> "bool", op |-> "and", es |-> es]
Or(es)          == [k |-> "bool", op |-> "or", es |-> es]
CallRange(e)    == [k |-> "range", e |-> e]
Call(f, args)   == [k |-> "call", f |-> f, args |-> args]

Assign(x, e)      == [k |-> "assign", x |-> x, e |-> e]
AugAssign(x, e)   == [k |-> "aug", x |-> x, e |-> e]              \* x += e
If(c, then, else) == [k |-> "if", test |-> c, body |-> then, orelse |-> else]
For(x, it, body)  == [k |-> "for", x |-> x, iter |-> it, body |-> body]
Return(e)         == [k |-> "return", e |-> e]
Break             == [k |-> "break"]
Continue          == [k |-> "continue"]

\* A function, and a program: its forward method is the function "forward".
Function(params, body) == [params |-> params, body |-> body]

\* A step that starts from the result of the one before.
Then(result, Step(_)) == Step(result)

(***************************************************************************)
(* Evaluation.                                                             *)
(***************************************************************************)
Arith(op, a, b) ==
  CASE a.t # "num" \/ b.t # "num" -> Error
    [] op = "+" -> Num(a.v + b.v)
    [] op = "-" -> Num(a.v - b.v)
    [] op = "*" -> Num(a.v * b.v)

Relates(op, a, b) ==
  CASE op = "is" -> Bool(a = b)
    [] op = "is not" -> Bool(a # b)
    [] a.t # "num" \/ b.t # "num" -> Error
    [] op = "==" -> Bool(a.v = b.v)
    [] op = "!=" -> Bool(a.v # b.v)
    [] op = "<"  -> Bool(a.v < b.v)
    [] op = "<=" -> Bool(a.v <= b.v)
    [] op = ">"  -> Bool(a.v > b.v)
    [] op = ">=" -> Bool(a.v >= b.v)

Negation(a) == IF a.t = "error" THEN Error ELSE Bool(~IsTrue(a))

RangeUpTo(a) == IF a.t = "num" THEN RangeOf(IF a.v < 0 THEN 0 ELSE a.v) ELSE Error

\* What a statement leaves: the variables, and how control goes on.
Outcome(env, ctl, ret) == [env |-> env, ctl |-> ctl, ret |-> ret]
Bind(env, x, c)        == (x :> c) @@ env

RECURSIVE PyEval(_, _, _), PyCall(_, _, _), PyBlock(_, _, _), PyFor(_, _, _, _, _)

\* The operands of and / or are booleans here, so the first that decides is the result.
PyBool(op, cs) ==
  CASE \E i \in 1..Len(cs) : cs[i].t = "error" -> Error
    [] op = "and" -> Bool(\A i \in 1..Len(cs) : IsTrue(cs[i]))
    [] op = "or"  -> Bool(\E i \in 1..Len(cs) : IsTrue(cs[i]))

PyEval(p, env, e) ==
  CASE e.k = "const" -> e.c
    [] e.k = "name"  -> IF e.x \in DOMAIN env THEN env[e.x] ELSE Error
    [] e.k = "bin"   -> Arith(e.op, PyEval(p, env, e.l), PyEval(p, env, e.r))
    [] e.k = "cmp"   -> Relates(e.op, PyEval(p, env, e.l), PyEval(p, env, e.r))
    [] e.k = "not"   -> Negation(PyEval(p, env, e.e))
    [] e.k = "bool"  -> PyBool(e.op, [i \in 1..Len(e.es) |-> PyEval(p, env, e.es[i])])
    [] e.k = "range" -> RangeUpTo(PyEval(p, env, e.e))
    [] e.k = "call"  -> PyCall(p, e.f, [i \in 1..Len(e.args) |-> PyEval(p, env, e.args[i])])

PyStatement(p, env, s) ==
  CASE s.k = "assign" ->
         LET c == PyEval(p, env, s.e) IN
         IF c.t = "error" THEN Outcome(env, "error", Error) ELSE Outcome(Bind(env, s.x, c), "next", None)
    [] s.k = "aug" ->
         LET c == Arith("+", PyEval(p, env, Name(s.x)), PyEval(p, env, s.e)) IN
         IF c.t = "error" THEN Outcome(env, "error", Error) ELSE Outcome(Bind(env, s.x, c), "next", None)
    [] s.k = "if" ->
         LET c == PyEval(p, env, s.test) IN
         IF c.t = "error" THEN Outcome(env, "error", Error)
         ELSE PyBlock(p, env, IF IsTrue(c) THEN s.body ELSE s.orelse)
    [] s.k = "for" ->
         LET c == PyEval(p, env, s.iter) IN
         IF c.t # "range" THEN Outcome(env, "error", Error) ELSE PyFor(p, env, s, 0, c.v)
    [] s.k = "return" ->
         LET c == PyEval(p, env, s.e) IN
         IF c.t = "error" THEN Outcome(env, "error", Error) ELSE Outcome(env, "return", c)
    [] s.k \in {"break", "continue"} -> Outcome(env, s.k, None)

PyBlock(p, env, ss) ==
  IF ss = <<>> THEN Outcome(env, "next", None)
  ELSE LET r == PyStatement(p, env, Head(ss)) IN
       IF r.ctl = "next" THEN PyBlock(p, r.env, Tail(ss)) ELSE r

PyFor(p, env, s, i, n) ==
  IF i >= n THEN Outcome(env, "next", None)
  ELSE LET r == PyBlock(p, Bind(env, s.x, Num(i)), s.body) IN
       CASE r.ctl \in {"next", "continue"} -> PyFor(p, r.env, s, i + 1, n)
         [] r.ctl = "break" -> Outcome(r.env, "next", None)
         [] r.ctl \in {"return", "error"} -> r

PyCall(p, f, args) ==
  LET fun == p[f]
      env == [x \in {fun.params[i] : i \in 1..Len(fun.params)} |->
                args[CHOOSE i \in 1..Len(fun.params) : fun.params[i] = x]]
      r   == PyBlock(p, env, fun.body)
  IN IF r.ctl = "error" THEN Error ELSE r.ret

\* What the forward method returns when it is called with the given arguments.
PyRun(p, args) == PyCall(p, "forward", args)

=============================================================================
