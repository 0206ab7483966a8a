--------------------------- MODULE TypeInference ---------------------------
(***************************************************************************)
(* elichika's type inference (typing/type_inference.py): from a method and *)
(* the example inputs it is to be called with to a type for every          *)
(* expression, by one walk over the text.  Both branches of an if are      *)
(* inferred, each from a copy of the variables' types, and joined; the     *)
(* body of a loop is inferred twice.  The operators are named after the    *)
(* engine's methods; functions of the module are inferred at each call.    *)
(*                                                                         *)
(* deref replaces, in place, the type inside a list or tuple by what it    *)
(* was set to, so whether such a type is still a variable when it is       *)
(* looked at depends on who looked before.  `eager` is either answer.      *)
(***************************************************************************)
EXTENDS TypeTerms, TypedPython
LOCAL INSTANCE SequencesExt
LOCAL INSTANCE TLC

CONSTANTS Programs,   \* the functions of a module, by name
          Inputs      \* [args, heap]: example inputs of its method forward

VARIABLES
    job,       \* [functions, args, heap, eager]
    inferred,  \* the engine
    ran,       \* what Python did with the same inputs
    pc         \* "begin", "inferred", "done"

vars == <<job, inferred, ran, pc>>

(* The engine: `vars` holds the type variables that are set and `next` the *)
(* number of the next, `env` is tyenv, `types` is nodetype, by places,     *)
(* `ty` the type just inferred; `ok` is FALSE after an exception nobody    *)
(* caught.  `flaws` is a history variable: the ways in which what was      *)
(* inferred is known to be too narrow (named below).                       *)
EmptyEngine ==
    [vars |-> <<>>, next |-> 1, env |-> <<>>, types |-> <<>>, ty |-> TyNone,
     ok |-> TRUE, flaws |-> {}, eager |-> job.eager]

Has(s, t)     == [s EXCEPT !.ty = t]
Fails(s)      == [s EXCEPT !.ok = FALSE]
Then(s, F(_)) == IF s.ok THEN F(s) ELSE s
Flawed(s, c, f) == IF c THEN [s EXCEPT !.flaws = @ \cup {f}] ELSE s
FreshVar(s)   == [s EXCEPT !.ty = TyVar(s.next), !.next = @ + 1]
Typed(s, at, t) == [s EXCEPT !.types = (at :> t) @@ @]
Placed(s, at)   == Typed(s, at, s.ty)
SetType(s, x, t) == [s EXCEPT !.env = (x :> t) @@ @]

\* A type as isinstance finds it where the code does not call deref.
AsFound(s, t) == IF s.eager THEN Deref(s.vars, t) ELSE t

\* handle_inference_error: a warning, and nothing is known of the result.
handle_inference_error(s) == FreshVar(Flawed(s, TRUE, "warning"))

\* Variable 0 becomes a new one (a TyVar that joins made).
Named(s) ==
    IF 0 \in VarsIn(s.ty)
    THEN [s EXCEPT !.ty = Resolve(0 :> TyVar(s.next), @), !.next = @ + 1] ELSE s
NamedVars(s) ==
    IF 0 \in DOMAIN s.vars \cup UNION {VarsIn(s.vars[v]) : v \in DOMAIN s.vars}
    THEN [s EXCEPT !.next = @ + 1,
                   !.vars = [v \in {IF u = 0 THEN s.next ELSE u : u \in DOMAIN @} |->
                                Resolve(0 :> TyVar(s.next), @[IF v = s.next THEN 0 ELSE v])]]
    ELSE s

\* An exception of unify or join that nobody catches.
AfterUnify(s, r) == [NamedVars([s EXCEPT !.vars = r.vars]) EXCEPT !.ok = r.ok]
Unified(s, a, b) == AfterUnify(s, Unify(s.vars, a, b))

\* The same, where both types are to stand for the same objects: unify does
\* not compare numbers and dimensions, so what one of them says may be lost.
Compared(s, a, b) == Flawed(s, s.ok /\ Resolve(s.vars, a) # Resolve(s.vars, b), "merge")
Merged(s, a, b)   == Compared(Unified(s, a, b), a, b)

HasJoin(s, j) == IF j.ok THEN Named(Has(Flawed(s, ~j.exact, "merge"), j.ty)) ELSE Fails(s)

RECURSIVE type_of_value(_, _)
\* type_of_value.
type_of_value(heap, v) ==
    LET Types(vs) == [i \in DOMAIN vs |-> type_of_value(heap, vs[i])]
    IN  CASE v.t = "none"  -> TyNone
          [] v.t = "num"   -> TyNum(v.kind, Known(v.n))
          [] v.t = "tuple" -> TyTuple(Types(v.items))
          [] v.t = "list"  -> TyList(Joins(<<>>, Types(heap[v.at])).ty)
          [] v.t = "array" -> TyTensor([i \in DOMAIN v.shape |-> Known(v.shape[i])])
-----------------------------------------------------------------------------
(* Operators and builtin functions: what they raise is caught.             *)

\* infer_return_shape, xs being the longer: an unknown dimension equals any.
infer_return_shape(xs, ys) ==
    LET k == Len(xs) - Len(ys)
        One(d, e) ==
            CASE d = Unknown            -> e
              [] e = Unknown \/ d = e   -> d
              [] Unknown \notin {d, e} /\ d # e -> IF d = Known(1) THEN e ELSE d
    IN  [i \in DOMAIN xs |-> IF i <= k THEN xs[i] ELSE One(xs[i], ys[i - k])]

Dims(t) == IF t.k = "tensor" THEN t.shape ELSE <<>>

\* The pairs of dimensions that meet.
Meeting(xs, ys) ==
    LET n == IF Len(xs) <= Len(ys) THEN Len(xs) ELSE Len(ys)
    IN  {{xs[Len(xs) + 1 - i], ys[Len(ys) + 1 - i]} : i \in 1..n}

\* ty_TensorArith.
ty_TensorArith(s, tyl, tyr) ==
    LET met == Meeting(Dims(tyl), Dims(tyr))
    IN  IF \E d \in met : Cardinality(d) = 2 /\ d \cap {Unknown, Known(1)} = {}
        THEN handle_inference_error(s)
        ELSE Has(Flawed(s, {Unknown, Known(1)} \in met, "broadcast"),
                 TyTensor(IF Len(Dims(tyl)) > Len(Dims(tyr))
                          THEN infer_return_shape(Dims(tyl), Dims(tyr))
                          ELSE infer_return_shape(Dims(tyr), Dims(tyl))))

TypeArithmetic(op, l, r) ==
    LET a == Arithmetic(op, [kind |-> l.kind, n |-> 1], [kind |-> r.kind, n |-> 1])
    IN  TyNum(a.kind,
              UNION {{Arithmetic(op, [kind |-> l.kind, n |-> m], [kind |-> r.kind, n |-> n]).n
                         : m \in l.value} : n \in r.value})

\* TyTuple.get, where a JoinError is caught.
WithGet(s, t, F(_, _)) ==
    LET g == TupleGet(s.vars, t)
    IN  IF g.ok THEN F(Flawed(s, ~g.exact, "merge"), g.ty) ELSE handle_inference_error(s)

\* call_binop, ty_ops.
call_binop(s, op, tyl, tyr) ==
    CASE OfKinds(tyl, tyr, "list", "num") ->
             IF tyr.kind <= IntKind /\ op = "*" THEN Has(s, Deref(s.vars, tyl))
             ELSE handle_inference_error(s)
      [] tyl.k \in {"tuple", "tuples"} /\ tyr.k = "num" ->
             IF tyr.kind <= IntKind /\ op = "*"
             THEN WithGet(s, tyl, LAMBDA r, g :
                    IF tyr.value = Unknown THEN Has(r, TyTuples(g))
                    ELSE LET n == CHOOSE n \in tyr.value : TRUE
                             q == Flawed(r, tyl.k = "tuples" \/ Len(tyl.tys) # 1, "repeat")
                         IN  Has([q EXCEPT !.next = @ + n],
                                 TyTuple([i \in 1..n |-> Resolve(0 :> TyVar(q.next + i - 1), g)])))
             ELSE handle_inference_error(s)
      [] OfKinds(tyl, tyr, "list", "list") /\ op = "+" ->
             LET j == Join(s.vars, tyl.ty, tyr.ty)
             IN  IF j.ok THEN Has(Flawed(s, ~j.exact, "merge"), TyList(j.ty))
                 ELSE handle_inference_error(s)
      [] OfKinds(tyl, tyr, "tuple", "tuple") /\ op = "+" -> Has(s, TyTuple(tyl.tys \o tyr.tys))
      [] {tyl.k, tyr.k} \in {{"tuple", "tuples"}, {"tuples"}} /\ op = "+" ->
             WithGet(s, tyl, LAMBDA r, g : WithGet(r, tyr, LAMBDA q, h :
                 LET j == Join(q.vars, g, h)
                 IN  IF j.ok THEN Has(Flawed(q, ~j.exact, "merge"), TyTuples(j.ty))
                     ELSE handle_inference_error(q)))
      [] "tensor" \in {tyl.k, tyr.k} /\ {tyl.k, tyr.k} \subseteq {"tensor", "num"} ->
             ty_TensorArith(s, tyl, tyr)
      [] OfKinds(tyl, tyr, "num", "num") -> Has(s, TypeArithmetic(op, tyl, tyr))
      [] OTHER -> handle_inference_error(s)

\* range of a dummy value: 1 for a number that is not known.
call_builtin_range(s, t) ==
    IF t.k # "num" \/ t.kind > IntKind THEN handle_inference_error(s)
    ELSE LET n == IF t.value = Unknown THEN 1 ELSE CHOOSE m \in t.value : TRUE
             r == Flawed(s, t.value = Unknown, "dummy")
         IN  CASE n <= 0 -> Has(FreshVar(r), TyList(TyVar(r.next)))
               [] n = 1  -> Has(r, TyList(TyInt(Known(0))))
               [] n > 1  -> Has(r, TyList(TyInt(Unknown)))

ty_len(s, t) ==
    CASE t.k \in {"list", "tuples"} -> Has(s, TyInt(Unknown))
      [] t.k = "tuple" -> Has(s, TyInt(Known(Len(t.tys))))
      [] t.k = "tensor" /\ t.shape # <<>> -> Has(s, TyInt(Head(t.shape)))
      [] OTHER -> handle_inference_error(s)

\* list.append: what unify raises is caught, what it set stays set.
Caught(s) == IF s.ok THEN Has(s, TyNone) ELSE handle_inference_error([s EXCEPT !.ok = TRUE])
ty_append(s, l, t) == Caught(Merged(s, l, TyList(t)))
-----------------------------------------------------------------------------
RECURSIVE infer_expr(_, _, _, _), infer_all(_, _, _, _), infer_node(_, _, _, _, _),
          infer_stmt(_, _, _, _), infer_stmts(_, _, _, _), infer_function(_, _, _, _, _)

\* The expressions in an expression.
Operands(x) ==
    CASE x.e \in {"bin", "and"}         -> <<x.l, x.r>>
      [] x.e \in {"tuple", "list", "call"} -> x.es
      [] x.e = "at"                     -> <<x.arg, x.i>>
      [] x.e = "append"                 -> <<x.arg, x.v>>
      [] x.e \in {"isnone", "shape", "len", "range"} -> <<x.arg>>
      [] x.e \in {"const", "name"}      -> <<>>

OfTypes(r, Do_(_, _)) == IF r.s.ok THEN Do_(r.s, r.tys) ELSE r.s

\* infer_expr: the type of the expression at this place.
infer_expr(p, s, at, x) ==
    Then(OfTypes(infer_all(p, s, at, Operands(x)), LAMBDA r, ts : infer_node(p, r, at, x, ts)),
         LAMBDA r : Placed(Named(r), at))

WithType(r, s) == [s |-> s, tys |-> Append(r.tys, s.ty)]
infer_all(p, s, at, es) ==
    FoldLeft(LAMBDA r, i : IF r.s.ok THEN WithType(r, infer_expr(p, r.s, Append(at, i), es[i])) ELSE r,
             [s |-> s, tys |-> <<>>], [i \in DOMAIN es |-> i])

infer_Name(s, x) ==
    IF x \in DOMAIN s.env THEN Has(s, s.env[x])
    ELSE SetType(FreshVar(s), x, TyVar(s.next))

\* infer_slice: the index is an int.  The type of an element of a tuple is
\* known if the index is.
SubscriptOf(s, o, i) ==
    CASE o.k = "list"   -> Has(s, o.ty)
      [] o.k = "tensor" -> Has(s, TyTensor(IF o.shape = <<>> THEN <<>> ELSE Tail(o.shape)))
      [] o.k = "tuple" /\ i.k = "num" /\ i.value # Unknown ->
             LET n == (CHOOSE m \in i.value : TRUE) + 1
             IN  IF n \in DOMAIN o.tys THEN Has(s, o.tys[n]) ELSE Fails(s)
      [] o.k = "tuples" \/ (o.k = "tuple" /\ (i.k # "num" \/ i.value = Unknown)) ->
             HasJoin(s, TupleGet(s.vars, o))
      [] OTHER -> Fails(s)

infer_Subscript(s, ty_obj, ty_index) ==
    Then(Unified(s, ty_index, TyInt(Unknown)),
          LAMBDA r : SubscriptOf(r, AsFound(s, ty_obj), AsFound(s, ty_index)))

\* infer_BoolOp.
infer_BoolOp(s, tys) ==
    Then(FoldLeft(LAMBDA r, t : Then(r, LAMBDA q : Unified(q, t, TyBool)), s, tys),
          LAMBDA r : Has(r, TyBool))

infer_List(s, tys) == Then(HasJoin(s, Joins(s.vars, tys)), LAMBDA r : Has(r, TyList(r.ty)))

\* infer_Attribute, for shape.
infer_shape(s, t) ==
    CASE t.k = "tensor" -> Has(s, TyTuple([i \in DOMAIN t.shape |-> TyInt(t.shape[i])]))
      [] t.k = "none"   -> FreshVar(s)
      [] OTHER          -> Fails(s)

Dereferenced(s, tys) == [i \in DOMAIN tys |-> Deref(s.vars, tys[i])]
HasDeref(s) == Then(s, LAMBDA r : Has(r, Deref(r.vars, r.ty)))

\* The kinds of expressions, ts being the types of what is in them.
infer_node(p, s, at, x, ts) ==
    LET ds == Dereferenced(s, ts)
    IN  CASE x.e = "const"  -> Has(s, type_of_value(<<>>, x.v))
          [] x.e = "name"   -> infer_Name(s, x.x)
          [] x.e = "bin"    -> call_binop(s, x.op, ds[1], ds[2])
          [] x.e = "isnone" -> Has(s, TyBool)
          [] x.e = "and"    -> infer_BoolOp(s, ts)
          [] x.e = "tuple"  -> Has(s, TyTuple(ts))
          [] x.e = "list"   -> infer_List(s, ts)
          [] x.e = "at"     -> infer_Subscript(s, ts[1], ts[2])
          [] x.e = "shape"  -> infer_shape(s, ds[1])
          [] x.e = "len"    -> HasDeref(ty_len(s, ds[1]))
          [] x.e = "range"  -> HasDeref(call_builtin_range(s, ds[1]))
          [] x.e = "append" -> IF ds[1].k = "list" THEN ty_append(s, ds[1], ds[2]) ELSE Fails(s)
          [] x.e = "call"   -> HasDeref(infer_function(p, s, at, x.f, ds))
-----------------------------------------------------------------------------
\* copy_tyenv.
Copied(s) == [s EXCEPT !.env = [x \in DOMAIN @ |-> Deref(s.vars, @[x])]]

\* The environment s.env is joined with another: the types of the names both
\* have, and those only one of them has.
JoinedWith(s, env) ==
    FoldLeft(LAMBDA r, x :
                 IF ~r.ok THEN r
                 ELSE IF x \notin DOMAIN r.env THEN SetType(r, x, env[x])
                 ELSE Then(HasJoin(r, Join(r.vars, r.env[x], env[x])), LAMBDA j : SetType(j, x, j.ty)),
             s, SetToSeq(DOMAIN env))

\* Mutation of infer_block: the variables are those after the body.
infer_block_taken(p, s, tc, at, stmts) ==
    Then(infer_stmts(p, [s EXCEPT !.env = tc], at, stmts),
          LAMBDA r : Has(Unified(r, r.ty, TyNone), TyNone))

\* infer_block: the body from a copy tc of the variables, joined with those
\* of s.  It must not end in a return, except of None.
infer_block(p, s, tc, at, stmts) ==
    Then(infer_stmts(p, [s EXCEPT !.env = tc], at, stmts), LAMBDA r :
    Then(JoinedWith(r, s.env), LAMBDA j :
    Has(Unified(j, r.ty, TyNone), TyNone)))

\* infer_2blocks.
infer_2blocks(p, s, tc1, tc2, at, stmts1, stmts2) ==
    Then(infer_stmts(p, [s EXCEPT !.env = tc1], Append(at, 2), stmts1), LAMBDA r1 :
    Then(infer_stmts(p, [r1 EXCEPT !.env = tc2], Append(at, 3), stmts2), LAMBDA r2 :
    Then(JoinedWith([r2 EXCEPT !.env = r1.env], r2.env), LAMBDA j :
    HasJoin(j, Join(j.vars, r1.ty, r2.ty)))))

\* split_optional: the types of x if it is None, and if it is not.
WhenNone(s, x, env) ==
    LET t == AsFound(s, env[x])
    IN  IF t.k = "none" THEN env ELSE (x :> TyNone) @@ env
\* (A new variable is the type of a value there is not.)
WhenNotNone(s, x, env) ==
    LET t == AsFound(s, env[x])
    IN  CASE t.k = "optional" -> (x :> t.ty) @@ env
          [] t.k = "none"     -> (x :> TyVar(s.next)) @@ env
          [] OTHER            -> env

\* The branches from tc1 and tc2; without an else, what env says without.
infer_branches(p, s, at, x, tc1, tc2, env) ==
    IF x.orelse = <<>>
    THEN infer_block(p, [s EXCEPT !.env = env], tc1, Append(at, 2), x.body)
    ELSE infer_2blocks(p, s, tc1, tc2, at, x.body, x.orelse)

infer_If(p, s, at, x) ==
    IF x.test.e = "isnone"
    THEN LET y == x.test.arg.x
         IN  infer_branches(p, [s EXCEPT !.next = @ + 1], at, x,
                            WhenNone(s, y, Copied(s).env), WhenNotNone(s, y, Copied(s).env),
                            WhenNotNone(s, y, s.env))
    ELSE infer_branches(p, s, at, x, Copied(s).env, Copied(s).env, s.env)

\* A tuple t of which i was to be the type of all elements.
Elements(s, t, i) ==
    Flawed(s, /\ s.ok
              /\ t.k \in {"tuple", "tuples"}
              /\ Resolve(s.vars, TupleGet(s.vars, t).ty) # Resolve(s.vars, i), "merge")

\* What is unified with the type of a loop's variable.
ty_iteration(s, t, i) ==
    CASE t.k = "tensor" ->
             Merged(s, i, TyTensor(IF t.shape = <<>> THEN <<>> ELSE Tail(t.shape)))
      [] t.k = "list"   -> Merged(s, t, TyList(i))
      [] OTHER          ->
             Then(Unified(s, t, TyTuples(i)), LAMBDA r : Elements(r, Deref(r.vars, t), i))

\* The loop has settled if the second pass changed nothing.
infer_body(p, s, at, x) == infer_block(p, s, Copied(s).env, Append(at, 2), x.body)
Settled(s, one) ==
    Flawed(s, s.ok /\ \E y \in DOMAIN s.env :
                  Resolve(s.vars, s.env[y]) # Resolve(s.vars, one.env[y]), "loop")

\* infer_For: a variable there was before keeps its type.
infer_For(p, s, at, x) ==
    LET i == infer_Name(s, x.x)
    IN  Then(ty_iteration(i, AsFound(i, s.ty), i.ty), LAMBDA r :
        Then(infer_body(p, Typed(r, Append(at, 3), i.ty), at, x), LAMBDA one :
        Settled(infer_body(p, one, at, x), one)))

\* infer_Assign to a tuple: two new variables, and what they were unified with,
\* as far as the shorter of the two tuples goes.
Unpacked(s, at, x, d) ==
    IF d.k # "tuple" THEN Fails(s)
    ELSE FoldLeft(LAMBDA r, i : Typed(SetType(r, <<x.x, x.y>>[i], d.tys[i]),
                                      Append(at, i + 1), d.tys[i]),
                  s, SelectSeq(<<1, 2>>, LAMBDA i : i <= Len(d.tys)))

infer_Unpack(s, at, x, ty_val) ==
    Then(Merged([s EXCEPT !.next = @ + 2], TyTuple(<<TyVar(s.next), TyVar(s.next + 1)>>), ty_val),
          LAMBDA r : Unpacked(r, at, x, Deref(r.vars, ty_val)))

\* infer_AugAssign.
infer_AugAssign(s, at, x, tyr) ==
    Then(infer_Name(s, x.x), LAMBDA l :
    Then(call_binop(l, "+", AsFound(l, l.ty), AsFound(l, tyr)), LAMBDA r :
    Then(IF AsFound(l, l.ty).k = "list" THEN Merged(r, r.ty, AsFound(l, l.ty)) ELSE r, LAMBDA u :
    Typed(SetType(u, x.x, r.ty), Append(at, 2), r.ty))))

\* The kinds of statements, s.ty being the type of the expression in them.
\* Only an if and a return have a type other than None.
HasNone(s) == Then(s, LAMBDA r : Has(r, TyNone))
infer_kind(p, s, at, x) ==
    CASE x.s = "assign" -> HasNone(SetType(s, x.x, s.ty))
      [] x.s = "aug"    -> HasNone(infer_AugAssign(s, at, x, s.ty))
      [] x.s = "unpack" -> HasNone(infer_Unpack(s, at, x, s.ty))
      [] x.s = "expr"   -> HasNone(s)
      [] x.s = "if"     -> infer_If(p, s, at, x)
      [] x.s = "for"    -> HasNone(infer_For(p, s, at, x))
      [] x.s = "return" -> s

infer_stmt(p, s, at, x) ==
    Then(infer_expr(p, s, Append(at, 1), IF x.s = "if" THEN x.test ELSE x.v),
         LAMBDA r : infer_kind(p, r, at, x))

infer_stmts(p, s, at, stmts) ==
    FoldLeft(LAMBDA r, i : IF r.ok THEN infer_stmt(p, r, Append(at, i), stmts[i]) ELSE r,
             s, [i \in DOMAIN stmts |-> i])

RECURSIVE Returns(_), ReturnsEarly(_)
Returns(stmts) == \E i \in DOMAIN stmts :
    \/ stmts[i].s = "return"
    \/ stmts[i].s = "if" /\ (Returns(stmts[i].body) \/ Returns(stmts[i].orelse))
    \/ stmts[i].s = "for" /\ Returns(stmts[i].body)

\* A return before the last statement, or in a loop.
ReturnsEarly(stmts) == stmts # <<>> /\
    \/ Returns(Front(stmts))
    \/ Last(stmts).s = "if" /\ (ReturnsEarly(Last(stmts).body) \/ ReturnsEarly(Last(stmts).orelse))
    \/ Last(stmts).s = "for" /\ Returns(Last(stmts).body)

\* infer_user_defined_function, infer_function: an engine of its own, whose
\* types become part of this one's.  The function returns what its last
\* statement does.
infer_function(p, s, at, f, ty_args) ==
    LET fun == p[f]
        env == [x \in {fun.params[i] : i \in DOMAIN fun.params} |->
                   ty_args[CHOOSE i \in DOMAIN ty_args : fun.params[i] = x]]
    IN  Flawed([infer_stmts(p, [s EXCEPT !.env = env], Append(at, 0), fun.body) EXCEPT !.env = s.env],
               ReturnsEarly(fun.body), "return")
-----------------------------------------------------------------------------
Init ==
    /\ \E functions \in Programs, inputs \in Inputs, eager \in BOOLEAN :
           job = [functions |-> functions, args |-> inputs.args, heap |-> inputs.heap, eager |-> eager]
    /\ inferred = <<>>
    /\ ran = <<>>
    /\ pc = "begin"

\* infer_function_value_args: the types of the example inputs.
infer_function_value_args ==
    /\ pc = "begin"
    /\ LET tys == [i \in DOMAIN job.args |->
                       Resolve(0 :> TyVar(i), type_of_value(job.heap, job.args[i]))]
       IN  inferred' = infer_function(job.functions, [EmptyEngine EXCEPT !.next = Len(tys) + 1],
                                      <<>>, "forward", tys)
    /\ pc' = "inferred"
    /\ UNCHANGED <<job, ran>>

\* The method runs with the same inputs.
Forward ==
    /\ pc = "inferred"
    /\ ran' = PythonRun(job.functions, job.args, job.heap)
    /\ pc' = "done"
    /\ UNCHANGED <<job, inferred>>

Next == infer_function_value_args \/ Forward

Spec == Init /\ [][Next]_vars
-----------------------------------------------------------------------------
RECURSIVE Inhabits(_, _)
\* The value is one of those the type describes.  No value has a type of
\* which nothing is known.
Inhabits(v, t) ==
    CASE t.k = "none"     -> v.t = "none"
      [] t.k = "num"      -> v.t = "num" /\ v.kind <= t.kind /\ t.value \in {Unknown, Known(v.n)}
      [] t.k = "tuple"    -> /\ v.t = "tuple"
                             /\ DOMAIN v.items = DOMAIN t.tys
                             /\ \A i \in DOMAIN v.items : Inhabits(v.items[i], t.tys[i])
      [] t.k = "tuples"   -> v.t = "tuple" /\ \A i \in DOMAIN v.items : Inhabits(v.items[i], t.ty)
      [] t.k = "list"     -> v.t = "list" /\ \A i \in DOMAIN ran.heap[v.at] :
                                Inhabits(ran.heap[v.at][i], t.ty)
      [] t.k = "optional" -> v.t = "none" \/ Inhabits(v, t.ty)
      [] t.k = "tensor"   -> /\ v.t = "array"
                             /\ DOMAIN v.shape = DOMAIN t.shape
                             /\ \A i \in DOMAIN v.shape : t.shape[i] \in {Unknown, Known(v.shape[i])}
      [] t.k = "var"      -> FALSE

\* Each expression has a type, and each value it had when the method ran is
\* of that type, with the numbers and dimensions the type knows.
ValuesHaveTheirTypes ==
    \A e \in ran.seen :
        /\ e[1] \in DOMAIN inferred.types
        /\ Inhabits(e[2], Resolve(inferred.vars, inferred.types[e[1]]))

Comparable == pc = "done" /\ inferred.ok

(* The engine is known to claim too much after a warning ("warning"); if  *)
(* two passes did not settle a loop ("loop"); for a range whose length is  *)
(* not known, for which call_builtin_function takes 1 ("dummy"); where     *)
(* ty_ops repeats a tuple ("repeat"); where an unknown dimension met a 1   *)
(* ("broadcast"); where unify or join dropped a number or a dimension      *)
(* ("merge"); and with a return before the end ("return").                 *)

\* The types are right for the inputs they were inferred from, except where
\* the engine is known to claim too much.
TypesAreRight == Comparable /\ inferred.flaws = {} => ValuesHaveTheirTypes
=============================================================================
