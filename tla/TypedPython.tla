---------------------------- MODULE TypedPython ----------------------------
(***************************************************************************)
(* The part of Python whose types elichika infers: integers, floats and    *)
(* booleans, None, tuples, lists that names share and that grow, arrays    *)
(* (only their shapes), calls of functions of the module.  Execute is what *)
(* Python does; it records the value of every expression, each time it is  *)
(* evaluated, under the place of the expression in the text.               *)
(*                                                                         *)
(* A place is the path to the expression from the method's body; the body  *)
(* of a function that is called lies under the place of the call.          *)
(***************************************************************************)
EXTENDS Integers, Sequences
LOCAL INSTANCE SequencesExt
LOCAL INSTANCE FiniteSetsExt
LOCAL INSTANCE TLC

(* Values.  A number has the kind of NumKind: 0 bool, 1 int, 2 float.      *)
NumOf(kind, n) == [t |-> "num", kind |-> kind, n |-> n]
NoneValue      == [t |-> "none"]
TupleValue(vs)    == [t |-> "tuple", items |-> vs]
ListAt(a)      == [t |-> "list", at |-> a]     \* its items are in the heap
ArrayOf(shape) == [t |-> "array", shape |-> shape]

(* Expressions and statements.                                             *)
Const(v)       == [e |-> "const", v |-> v]
Name(x)        == [e |-> "name", x |-> x]
Bin(op, l, r)  == [e |-> "bin", op |-> op, l |-> l, r |-> r]
IsNone(x)      == [e |-> "isnone", arg |-> Name(x)]
And(l, r)      == [e |-> "and", l |-> l, r |-> r]
TupleEx(es)    == [e |-> "tuple", es |-> es]
ListEx(es)     == [e |-> "list", es |-> es]
At(x, i)       == [e |-> "at", arg |-> x, i |-> i]
Len_(x)        == [e |-> "len", arg |-> x]
Range_(n)      == [e |-> "range", arg |-> n]
Shape(x)       == [e |-> "shape", arg |-> x]
Append_(x, v)  == [e |-> "append", arg |-> Name(x), v |-> v]
Call(f, es)    == [e |-> "call", f |-> f, es |-> es]

Assign(x, v)   == [s |-> "assign", x |-> x, v |-> v]
Aug(x, v)      == [s |-> "aug", x |-> x, v |-> v]          \* x += v
Unpack(x, y, v) == [s |-> "unpack", x |-> x, y |-> y, v |-> v]   \* x, y = v
Do(v)          == [s |-> "expr", v |-> v]
If(c, a, b)    == [s |-> "if", test |-> c, body |-> a, orelse |-> b]
For(x, v, b)   == [s |-> "for", x |-> x, v |-> v, body |-> b]
Return(v)      == [s |-> "return", v |-> v]

Function(params, body) == [params |-> params, body |-> body]
-----------------------------------------------------------------------------
(* Python.  m: the variables, the heap, the values seen, the last value    *)
(* and how control goes on: "next", "return" or "error".                   *)

Raises(m)      == [m EXCEPT !.ctl = "error"]
Gives(m, v)    == [m EXCEPT !.val = v]
Goes(m)        == m.ctl = "next"
Proceed(m, F(_))  == IF Goes(m) THEN F(m) ELSE m
Truth(m, v) ==
    CASE v.t = "num"   -> v.n # 0
      [] v.t = "none"  -> FALSE
      [] v.t = "tuple" -> v.items # <<>>
      [] v.t = "list"  -> m.heap[v.at] # <<>>
      [] v.t = "array" -> TRUE

NewList(m, vs) ==
    [m EXCEPT !.heap = Append(@, vs), !.val = ListAt(Len(m.heap) + 1)]

\* Arrays whose dimensions agree or are 1, counted from the last.
Broadcast(xs, ys) ==
    LET n == IF Len(xs) >= Len(ys) THEN Len(xs) ELSE Len(ys)
        Dim(s, i) == IF i > n - Len(s) THEN s[i - (n - Len(s))] ELSE 1
    IN  IF \A i \in 1..n : Dim(xs, i) = Dim(ys, i) \/ 1 \in {Dim(xs, i), Dim(ys, i)}
        THEN <<[i \in 1..n |-> IF Dim(xs, i) = 1 THEN Dim(ys, i) ELSE Dim(xs, i)]>>
        ELSE <<>>

ShapeOf(v) == IF v.t = "array" THEN v.shape ELSE <<>>
Repeated(vs, n) == FlattenSeq([i \in 1..n |-> vs])
IsInt(v) == v.t = "num" /\ v.kind <= 1

Arithmetic(op, a, b) ==
    NumOf(IF Max({a.kind, b.kind}) = 2 THEN 2 ELSE 1,
          CASE op = "+" -> a.n + b.n [] op = "*" -> a.n * b.n)

\* x op y.
Operate(m, op, a, b) ==
    CASE {a.t, b.t} = {"num"} -> Gives(m, Arithmetic(op, a, b))
      [] "array" \in {a.t, b.t} /\ {a.t, b.t} \subseteq {"num", "array"} ->
             LET r == Broadcast(ShapeOf(a), ShapeOf(b))
             IN  IF r = <<>> THEN Raises(m) ELSE Gives(m, ArrayOf(r[1]))
      [] a.t = "tuple" /\ b.t = "tuple" /\ op = "+" -> Gives(m, TupleValue(a.items \o b.items))
      [] a.t = "list" /\ b.t = "list" /\ op = "+" -> NewList(m, m.heap[a.at] \o m.heap[b.at])
      [] a.t = "tuple" /\ IsInt(b) /\ op = "*" -> Gives(m, TupleValue(Repeated(a.items, b.n)))
      [] a.t = "list" /\ IsInt(b) /\ op = "*" -> NewList(m, Repeated(m.heap[a.at], b.n))
      [] OTHER -> Raises(m)

\* What x[i] and for loops take from.
Items(m, v) ==
    CASE v.t = "tuple" -> v.items
      [] v.t = "list"  -> m.heap[v.at]
      [] v.t = "array" /\ v.shape # <<>> -> [i \in 1..v.shape[1] |-> ArrayOf(Tail(v.shape))]
      [] OTHER -> <<>>
Indexable(v) == v.t \in {"tuple", "list"} \/ (v.t = "array" /\ v.shape # <<>>)

Bind(m, x, v) == [m EXCEPT !.env = (x :> v) @@ @]
Sees(m, at, v) == [m EXCEPT !.seen = @ \cup {<<at, v>>}]
BindAt(m, at, x, v) == Sees(Bind(m, x, v), at, v)

RECURSIVE Evaluate(_, _, _, _), EvaluateAll(_, _, _, _), EvaluateNode(_, _, _, _),
          ExecuteBlock(_, _, _, _), Execute(_, _, _, _), Iterate(_, _, _, _, _), CallFunction(_, _, _, _, _)

\* The expression at place `at`; its value is recorded.
Evaluate(p, m, at, x) ==
    Proceed(EvaluateNode(p, m, at, x), LAMBDA n : Sees(n, at, n.val))

\* The values of several, in order.
WithValue(r, n) == [m |-> n, vals |-> Append(r.vals, n.val)]
EvaluateAll(p, m, at, es) ==
    FoldLeft(LAMBDA r, i : IF Goes(r.m) THEN WithValue(r, Evaluate(p, r.m, Append(at, i), es[i])) ELSE r,
             [m |-> m, vals |-> <<>>], [i \in DOMAIN es |-> i])

\* An operator of the values of some expressions.
OfValues(r, Do_(_, _)) == IF Goes(r.m) THEN Do_(r.m, r.vals) ELSE r.m
With(p, m, at, es, Do_(_, _)) == OfValues(EvaluateAll(p, m, at, es), Do_)

EvaluateNode(p, m, at, x) ==
    CASE x.e = "const" -> Gives(m, x.v)
      [] x.e = "name"  -> IF x.x \in DOMAIN m.env THEN Gives(m, m.env[x.x]) ELSE Raises(m)
      [] x.e = "bin"   -> With(p, m, at, <<x.l, x.r>>, LAMBDA n, vs : Operate(n, x.op, vs[1], vs[2]))
      [] x.e = "isnone" -> With(p, m, at, <<x.arg>>, LAMBDA n, vs :
             Gives(n, NumOf(0, IF vs[1].t = "none" THEN 1 ELSE 0)))
      [] x.e = "and"   ->
             Proceed(Evaluate(p, m, Append(at, 1), x.l), LAMBDA n :
                 IF Truth(n, n.val) THEN Evaluate(p, n, Append(at, 2), x.r) ELSE n)
      [] x.e = "tuple" -> With(p, m, at, x.es, LAMBDA n, vs : Gives(n, TupleValue(vs)))
      [] x.e = "list"  -> With(p, m, at, x.es, NewList)
      [] x.e = "at"    -> With(p, m, at, <<x.arg, x.i>>, LAMBDA n, vs :
             IF Indexable(vs[1]) /\ IsInt(vs[2]) /\ vs[2].n \in 0..(Len(Items(n, vs[1])) - 1)
             THEN Gives(n, Items(n, vs[1])[vs[2].n + 1]) ELSE Raises(n))
      [] x.e = "len"   -> With(p, m, at, <<x.arg>>, LAMBDA n, vs :
             IF Indexable(vs[1]) THEN Gives(n, NumOf(1, Len(Items(n, vs[1])))) ELSE Raises(n))
      [] x.e = "range" -> With(p, m, at, <<x.arg>>, LAMBDA n, vs :
             IF IsInt(vs[1]) THEN NewList(n, [i \in 1..vs[1].n |-> NumOf(1, i - 1)]) ELSE Raises(n))
      [] x.e = "shape" -> With(p, m, at, <<x.arg>>, LAMBDA n, vs :
             IF vs[1].t = "array"
             THEN Gives(n, TupleValue([i \in DOMAIN vs[1].shape |-> NumOf(1, vs[1].shape[i])]))
             ELSE Raises(n))
      [] x.e = "append" -> With(p, m, at, <<x.arg, x.v>>, LAMBDA n, vs :
             IF vs[1].t = "list"
             THEN Gives([n EXCEPT !.heap[vs[1].at] = Append(@, vs[2])], NoneValue) ELSE Raises(n))
      [] x.e = "call"  -> With(p, m, at, x.es, LAMBDA n, vs : CallFunction(p, n, at, x.f, vs))

\* x += v changes a list in place.
Augment(m, x, v) ==
    LET o == m.env[x]
    IN  IF o.t = "list" /\ v.t = "list"
        THEN Gives([m EXCEPT !.heap[o.at] = @ \o m.heap[v.at]], o)
        ELSE Operate(m, "+", o, v)

Execute(p, m, at, x) ==
    CASE x.s = "assign" -> With(p, m, at, <<x.v>>, LAMBDA n, vs : Bind(n, x.x, vs[1]))
      [] x.s = "aug"    -> With(p, m, at, <<x.v>>, LAMBDA n, vs :
             IF x.x \notin DOMAIN n.env THEN Raises(n)
             ELSE Proceed(Augment(n, x.x, vs[1]), LAMBDA r : BindAt(r, Append(at, 2), x.x, r.val)))
      [] x.s = "unpack" -> With(p, m, at, <<x.v>>, LAMBDA n, vs :
             IF Len(Items(n, vs[1])) = 2
             THEN BindAt(BindAt(n, Append(at, 2), x.x, Items(n, vs[1])[1]),
                         Append(at, 3), x.y, Items(n, vs[1])[2])
             ELSE Raises(n))
      [] x.s = "expr"   -> Evaluate(p, m, Append(at, 1), x.v)
      [] x.s = "if"     -> With(p, m, at, <<x.test>>, LAMBDA n, vs :
             IF Truth(n, vs[1]) THEN ExecuteBlock(p, n, Append(at, 2), x.body)
                                ELSE ExecuteBlock(p, n, Append(at, 3), x.orelse))
      [] x.s = "for"    -> With(p, m, at, <<x.v>>, LAMBDA n, vs :
             IF Indexable(vs[1]) THEN Iterate(p, n, at, x, Items(n, vs[1])) ELSE Raises(n))
      [] x.s = "return" -> With(p, m, at, <<x.v>>, LAMBDA n, vs :
             [Gives(n, vs[1]) EXCEPT !.ctl = "return"])

ExecuteBlock(p, m, at, ss) ==
    FoldLeft(LAMBDA n, i : IF Goes(n) THEN Execute(p, n, Append(at, i), ss[i]) ELSE n,
             m, [i \in DOMAIN ss |-> i])

\* The body for each item; none of the bodies here changes the list it walks.
Iterate(p, m, at, x, items) ==
    FoldLeft(LAMBDA n, v :
                 IF Goes(n) THEN ExecuteBlock(p, BindAt(n, Append(at, 3), x.x, v), Append(at, 2), x.body)
                 ELSE n,
             m, items)

\* Back in the caller, whose variables are env.
Back(m, env) ==
    CASE m.ctl = "return" -> [m EXCEPT !.ctl = "next", !.env = env]
      [] m.ctl = "next"   -> [m EXCEPT !.val = NoneValue, !.env = env]
      [] m.ctl = "error"  -> m

CallFunction(p, m, at, f, vs) ==
    LET params == p[f].params
    IN  Back(ExecuteBlock(p,
                 [m EXCEPT !.env = [x \in {params[i] : i \in DOMAIN params} |->
                                       vs[CHOOSE i \in DOMAIN vs : params[i] = x]]],
                 Append(at, 0), p[f].body),
             m.env)

\* The method on some arguments.  Lists among them are on the heap.
PythonRun(p, args, heap) ==
    CallFunction(p, [env |-> <<>>, heap |-> heap, seen |-> {}, val |-> NoneValue, ctl |-> "next"],
                 <<>>, "forward", args)
=============================================================================
