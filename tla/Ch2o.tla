-------------------------------- MODULE Ch2o --------------------------------
(***************************************************************************)
(* The other front end, ch2o (ch2o/chainer2onnx.py, env.py, value.py): it  *)
(* interprets the statements of forward over an environment whose values   *)
(* are Python objects as long as possible and names of ONNX values after   *)
(* that, and adds the nodes for the rest.                                  *)
(*                                                                         *)
(* The state `s' of the interpretation is a record:                        *)
(*   envs   the environments in use, innermost last: the variables, the    *)
(*          block whose nodes they add to, and whether the one before is   *)
(*          the outer block (a call has no outer block);                   *)
(*   nodes  the nodes of every block in use;  count  the names made;       *)
(*   ok     FALSE once an exception was raised;  returned  the value of    *)
(*          the ValueReturn that unwinds, as a sequence of at most one.    *)
(* Attributes of objects, lists, slices and calls of Chainer's functions   *)
(* are left out.                                                           *)
(***************************************************************************)
EXTENDS OnnxGraph, SequencesExt, FiniteSets

\* Value: a Python object or the name of an ONNX value.
Py(c)   == [is_py |-> TRUE, c |-> c, name |-> 0]
Onnx(x) == [is_py |-> FALSE, c |-> None, name |-> x]

Env(vars, block, has_outer) == [vars |-> vars, block |-> block, has_outer |-> has_outer]
NoVars == [x \in {} |-> 0]

Empty == [envs |-> << Env(NoVars, 1, FALSE) >>, nodes |-> << <<>> >>, count |-> 0,
          ok |-> TRUE, returned |-> <<>>]

Here(s)    == Len(s.envs)
Going(s)   == s.ok /\ s.returned = <<>>
Raises(s)  == [s EXCEPT !.ok = FALSE]
With(s, v) == [s |-> s, v |-> v]

set_var(s, e, x, v) == [s EXCEPT !.envs[e].vars = (x :> v) @@ @]

addnode(s, e, node) == [s EXCEPT !.nodes[s.envs[e].block] = Append(@, node)]

\* A node with one output, which gets a new name.
calc(s, e, op, ins) ==
  With(addnode([s EXCEPT !.count = @ + 1], e, Op(op, ins, << s.count + 1 >>)), Onnx(s.count + 1))

\* totensor and to_sequence: a Python object becomes constants; None becomes False.
to_value_info(s, e, v) ==
  IF ~v.is_py THEN With(s, v)
  ELSE With(addnode([s EXCEPT !.count = @ + 1], e,
                    ConstantOp(IF v.c = None THEN Bool(FALSE) ELSE v.c, s.count + 1)),
            Onnx(s.count + 1))

\* A variable of an environment becomes an ONNX value in place.
Materialize(s, e, x) ==
  Then(to_value_info(s, e, s.envs[e].vars[x]), LAMBDA r : set_var(r.s, e, x, r.v))

(***************************************************************************)
(* get_var: a variable of an outer block is turned into an ONNX value      *)
(* there, and every block on the way gets it.                              *)
(***************************************************************************)
Reaches(s, h, e, x) ==
  /\ x \in DOMAIN s.envs[h].vars
  /\ \A i \in (h + 1)..e : s.envs[i].has_outer /\ x \notin DOMAIN s.envs[i].vars

\* The blocks between h and e get the value.
Handed(s, h, e, x, v) ==
  With(FoldLeft(LAMBDA acc, i : set_var(acc, h + i, x, v), s, [i \in 1..(e - h) |-> i]), v)

get_var(s, x) ==
  LET e == Here(s) IN
  IF ~\E h \in 1..e : Reaches(s, h, e, x) THEN With(Raises(s), Py(None))
  ELSE Then(CHOOSE i \in 1..e : Reaches(s, i, e, x), LAMBDA h :
       Then(IF h = e THEN s ELSE Materialize(s, h, x), LAMBDA there :
         Handed(there, h, e, x, there.envs[h].vars[x])))

new_block(s) ==
  [s EXCEPT !.envs = Append(@, Env(NoVars, Len(s.nodes) + 1, TRUE)), !.nodes = Append(@, <<>>)]

\* The environments down to e, with the nodes of their blocks.
BackTo(s, e) ==
  [s EXCEPT !.envs = SubSeq(@, 1, e), !.nodes = SubSeq(@, 1, s.envs[e].block)]

NodesOf(s) == Last(s.nodes)

(***************************************************************************)
(* find_in_out: which variables a block, the innermost one of s, takes    *)
(* and leaves.  Only the variables of the very next environment outside    *)
(* are compared: iv says whether it has the variable, and ov is what the   *)
(* block leaves, if it differs.  The comparison of a variable that is the  *)
(* same turns it into an ONNX value outside.                               *)
(***************************************************************************)
SameValue(a, b) ==
  a.is_py = b.is_py /\ IF a.is_py THEN a.c.v = b.c.v /\ (a.c.t = "none") = (b.c.t = "none")
                       ELSE a.name = b.name

InOut(iv, ov) == [iv |-> iv, ov |-> ov]

UsedNames(nodes) == UNION {{nodes[i].ins[j] : j \in 1..Len(nodes[i].ins)} : i \in 1..Len(nodes)}

find_in_out(s) ==
  LET e     == Here(s) - 1
      inner == Last(s.envs).vars
      Same(x) == x \in DOMAIN s.envs[e].vars /\ SameValue(s.envs[e].vars[x], inner[x])
  IN Then({x \in DOMAIN inner : Same(x)}, LAMBDA same :
     Then(FoldSet(LAMBDA x, acc : Materialize(acc, e, x), s, same), LAMBDA after :
     Then({x \in same : after.envs[e].vars[x].name \in UsedNames(NodesOf(s))}, LAMBDA used :
       [s |-> after,
        in_out |-> [x \in (DOMAIN inner \ same) \cup used |->
                      InOut(x \in DOMAIN s.envs[e].vars, IF x \in same THEN <<>> ELSE << inner[x] >>)]])))

\* What a body gets for a variable: its value outside, or False when there is none.
InputValue_names_only(s, e, x, iv) ==
  IF iv /\ ~s.envs[e].vars[x].is_py THEN With(s, s.envs[e].vars[x])
  ELSE to_value_info(s, e, Py(Bool(FALSE)))
InputValue(s, e, x, iv) ==
  IF iv THEN Then(Materialize(s, e, x), LAMBDA there : With(there, there.envs[e].vars[x]))
  ELSE to_value_info(s, e, Py(Bool(FALSE)))

\* Value.copy: a name of its own for what a statement leaves in a variable.
copy(s) == With([s EXCEPT !.count = @ + 1], Onnx(s.count + 1))

(***************************************************************************)
(* make_graph: an output that is an input of the graph becomes a copy of   *)
(* it, the same copy each time.                                            *)
(***************************************************************************)
make_graph(s, nodes, ins, outs) ==
  LET Fix(acc, x) ==
        CASE ~Contains(ins, x) -> [acc EXCEPT !.outs = Append(@, x)]
          [] x \in DOMAIN acc.copies -> [acc EXCEPT !.outs = Append(@, acc.copies[x])]
          [] OTHER ->
               LET out == acc.s.count + 1 IN
               [s |-> [acc.s EXCEPT !.count = out], nodes |-> Append(acc.nodes, Op("Identity", << x >>, << out >>)),
                outs |-> Append(acc.outs, out), copies |-> (x :> out) @@ acc.copies]
      all == FoldLeft(Fix, [s |-> s, nodes |-> nodes, outs |-> <<>>, copies |-> NoVars], outs)
  IN [s |-> all.s, graph |-> Graph(ins, all.nodes, all.outs)]

-----------------------------------------------------------------------------
RECURSIVE eval_ast(_, _, _), eval_block(_, _, _), eval_call(_, _, _)

eval_unary_op(s, v) == With(s, Py(IF v.is_py THEN Negation(v.c) ELSE Bool(FALSE)))

\* all() of a list of Value objects, which are true whatever they hold.
eval_bool_op(s, op) == IF op = "and" THEN With(s, Py(Bool(TRUE))) ELSE With(Raises(s), Py(None))

BinaryOps == [op \in {"+", "-", "*"} |-> CASE op = "+" -> "Add" [] op = "-" -> "Sub" [] op = "*" -> "Mul"]

\* Two operands, made ONNX values from left to right, and a node of them.
Calculated(s, op, l, r) ==
  Then(to_value_info(s, Here(s), l), LAMBDA a :
  Then(to_value_info(a.s, Here(s), r), LAMBDA b : calc(b.s, Here(s), op, << a.v.name, b.v.name >>)))

eval_binary_op(s, op, l, r) == Calculated(s, BinaryOps[op], l, r)

CompareOps == [op \in {"==", "!=", "<", "<=", ">", ">=", "is", "is not"} |->
  CASE op \in {"==", "!="} -> "Equal"
    [] op \in {"<", ">="}  -> "Less"
    [] op \in {">", "<="}  -> "Greater"
    [] op \in {"is", "is not"} -> "ChainerGenericIs"]

\* Python objects are compared at once, but not in a block.
eval_compare(s, op, l, r) ==
  IF ~Last(s.envs).has_outer /\ l.is_py /\ r.is_py THEN With(s, Py(Relates(op, l.c, r.c)))
  ELSE Then(Calculated(s, CompareOps[op], l, r), LAMBDA res :
         IF op \in {"!=", ">=", "<=", "is not"} THEN calc(res.s, Here(s), "Not", << res.v.name >>)
         ELSE res)

builtin_range(s, v) ==
  IF v.is_py THEN With(s, Py(RangeUpTo(v.c)))
  ELSE calc(s, Here(s), "ChainerSequenceRange", << v.name >>)

RECURSIVE eval_each(_, _, _)
eval_each(p, es, s) ==
  IF es = <<>> THEN [s |-> s, vs |-> <<>>]
  ELSE Then(eval_ast(p, Head(es), s), LAMBDA first :
       Then(eval_each(p, Tail(es), first.s), LAMBDA rest :
         [s |-> rest.s, vs |-> << first.v >> \o rest.vs]))

\* The body of a function runs in an environment of its own that adds to
\* the same nodes, until a ValueReturn brings the value.
eval_call(fun, s, p_args) ==
  LET vars == [x \in {fun.params[i] : i \in 1..Len(fun.params)} |->
                 p_args.vs[CHOOSE i \in 1..Len(fun.params) : fun.params[i] = x]]
  IN Then(eval_block(p_args.p, fun.body, [s EXCEPT !.envs = Append(@, Env(vars, Last(s.envs).block, FALSE))]), LAMBDA end :
       With([BackTo(end, Here(s)) EXCEPT !.returned = <<>>],
            IF end.returned = <<>> THEN Py(None) ELSE end.returned[1]))

Operands(e) ==
  CASE e.k \in {"bin", "cmp"} -> << e.l, e.r >>
    [] e.k = "bool" -> e.es
    [] e.k = "call" -> e.args
    [] e.k \in {"not", "range"} -> << e.e >>
    [] OTHER -> <<>>

\* An operation on values that are known by now.
Operation(p, e, s, vs) ==
  CASE e.k = "bin"      -> eval_binary_op(s, e.op, vs[1], vs[2])
    [] e.k = "cmp"      -> eval_compare(s, e.op, vs[1], vs[2])
    [] e.k = "not"      -> eval_unary_op(s, vs[1])
    [] e.k = "bool"     -> eval_bool_op(s, e.op)
    [] e.k = "range"    -> builtin_range(s, vs[1])
    [] e.k = "call"     -> eval_call(p[e.f], s, [p |-> p, vs |-> vs])

eval_ast(p, e, s) ==
  CASE e.k = "const"    -> With(s, Py(e.c))
    [] e.k = "name"     -> get_var(s, e.x)
    [] OTHER ->
         Then(eval_each(p, Operands(e), s), LAMBDA each :
           IF Going(each.s) THEN Operation(p, e, each.s, each.vs) ELSE With(each.s, Py(None)))

\* A variable gets a Python object as it is, and a copy of an ONNX value.
eval_assign(p, x, e, s) ==
  Then(eval_ast(p, e, s), LAMBDA value :
    IF ~Going(value.s) THEN value.s
    ELSE Then(IF value.v.is_py THEN value ELSE calc(value.s, Here(s), "Identity", << value.v.name >>), LAMBDA own :
           set_var(own.s, Here(s), x, own.v)))

(***************************************************************************)
(* An if whose test is the object True or False is no node.  Otherwise     *)
(* both branches are interpreted, each in a block, and every variable that *)
(* one of them takes or leaves is an input of the node; those that one of  *)
(* them leaves are outputs, where the other branch gives back its input.   *)
(***************************************************************************)
Branch(p, statements, s) ==
  Then(eval_block(p, statements, new_block(s)), LAMBDA end :
    IF ~Going(end) THEN [s |-> end, env |-> Here(s) + 1, nodes |-> <<>>, in_out |-> NoVars]
    ELSE Then(find_in_out(end), LAMBDA found :
           [s |-> BackTo(found.s, Here(s)), env |-> Here(s) + 1, nodes |-> NodesOf(end), in_out |-> found.in_out]))

\* What a branch leaves in x, as an ONNX value computed by the branch.
BranchOutput(acc, nodes, branch, x, input) ==
  IF x \notin DOMAIN branch.in_out \/ branch.in_out[x].ov = <<>> THEN [s |-> acc, nodes |-> nodes, v |-> input]
  ELSE Then(to_value_info([acc EXCEPT !.nodes = Append(@, nodes),
                                      !.envs = Append(@, Env(NoVars, Len(acc.nodes) + 1, TRUE))],
                          Here(acc) + 1, branch.in_out[x].ov[1]), LAMBDA r :
         [s |-> BackTo(r.s, Here(acc)), nodes |-> NodesOf(r.s), v |-> r.v])

Takes(branch, x)  == x \in DOMAIN branch.in_out /\ branch.in_out[x].iv
Leaves(branch, x) == x \in DOMAIN branch.in_out /\ branch.in_out[x].ov # <<>>

IfVariable(acc, x, then, else) ==
  Then(InputValue(acc.s, Here(acc.s), x, Takes(then, x) \/ Takes(else, x)), LAMBDA in :
  Then(Append(acc.ins, in.v.name), LAMBDA ins :
  IF ~Leaves(then, x) /\ ~Leaves(else, x) THEN [acc EXCEPT !.s = in.s, !.ins = ins] ELSE
  Then(BranchOutput(in.s, acc.tnodes, then, x, in.v), LAMBDA t :
  Then(BranchOutput(t.s, acc.fnodes, else, x, in.v), LAMBDA f :
  Then(copy(f.s), LAMBDA out :
    [s |-> out.s, ins |-> ins, tnodes |-> t.nodes, fnodes |-> f.nodes,
     touts |-> Append(acc.touts, t.v.name), fouts |-> Append(acc.fouts, f.v.name),
     finals |-> Append(acc.finals, << x, out.v >>)])))))

SetFinals(s, finals) ==
  FoldLeft(LAMBDA acc, final : set_var(acc, Here(acc), final[1], final[2]), s, finals)

FinalNames(finals) == [i \in 1..Len(finals) |-> finals[i][2].name]

IfAdded(s, cond, then, else, res) ==
  Then(make_graph(res.s, res.tnodes, res.ins, res.touts), LAMBDA tg :
  Then(make_graph(tg.s, res.fnodes, res.ins, res.fouts), LAMBDA eg :
  Then(to_value_info(eg.s, Here(s), cond), LAMBDA c :
    SetFinals(addnode(c.s, Here(s), OpWith("If", << c.v.name >> \o res.ins, FinalNames(res.finals),
                                           << tg.graph, eg.graph >>)), res.finals))))

eval_if(p, a, s) ==
  Then(eval_ast(p, a.test, s), LAMBDA cond :
  IF ~Going(cond.s) THEN cond.s
  ELSE IF cond.v \in {Py(Bool(TRUE)), Py(Bool(FALSE))}
  THEN eval_block(p, IF cond.v = Py(Bool(TRUE)) THEN a.body ELSE a.orelse, cond.s) ELSE
  Then(Branch(p, a.body, cond.s), LAMBDA then :
  IF ~Going(then.s) THEN then.s ELSE
  Then(Branch(p, a.orelse, then.s), LAMBDA else :
  IF ~Going(else.s) THEN else.s ELSE
  Then(FoldSet(LAMBDA x, acc : IfVariable(acc, x, then, else),
               [s |-> else.s, ins |-> <<>>, tnodes |-> then.nodes, fnodes |-> else.nodes,
                touts |-> <<>>, fouts |-> <<>>, finals |-> <<>>],
               DOMAIN then.in_out \cup DOMAIN else.in_out), LAMBDA res :
    IfAdded(s, cond.v, then, else, res)))))

(***************************************************************************)
(* The body of a for is interpreted once.  The variables it leaves are     *)
(* carried from trip to trip, and a Python object that it leaves is made   *)
(* an ONNX value outside the loop.                                         *)
(***************************************************************************)
ForVariable(acc, x, in_out) ==
  Then(to_value_info(acc.s, Here(acc.s), in_out[x].ov[1]), LAMBDA out :
  Then(copy(out.s), LAMBDA fin :
  Then(InputValue(fin.s, Here(acc.s), x, in_out[x].iv), LAMBDA in :
    [s |-> in.s, ins |-> Append(acc.ins, in.v.name), outs |-> Append(acc.outs, out.v.name),
     finals |-> Append(acc.finals, << x, fin.v >>)])))

\* The graph of the body, then the length of the sequence, then the Loop.
ForAdded(s, ite, cnt, gtx, nodes, res) ==
  LET e == Here(s) IN
  Then(copy(res.s), LAMBDA cond :
  Then(make_graph(cond.s, nodes, << cnt, cond.v.name, gtx >> \o res.ins,
                  << cond.v.name, gtx >> \o res.outs), LAMBDA body :
  Then(to_value_info(body.s, e, ite), LAMBDA seq :
  Then(calc(seq.s, e, "ChainerGenericLen", << seq.v.name >>), LAMBDA mtc :
  Then(copy(mtc.s), LAMBDA gen :
    SetFinals(addnode(gen.s, e, OpWith("Loop", << mtc.v.name, NoName, seq.v.name >> \o res.ins,
                                       << gen.v.name >> \o FinalNames(res.finals), << body.graph >>)),
              res.finals))))))

\* The item of a trip is the first thing the body computes.
ForHead(s, x, cnt, gtx) ==
  Then(calc([new_block(s) EXCEPT !.count = gtx], Here(s) + 1, "SequenceAt", << gtx, cnt >>), LAMBDA item :
    set_var(item.s, Here(s) + 1, x, item.v))

eval_for(p, a, s) ==
  Then(eval_ast(p, a.iter, s), LAMBDA ite :
  IF ~Going(ite.s) THEN ite.s ELSE
  Then(ite.s.count + 1, LAMBDA cnt :
  Then(eval_block(p, a.body, ForHead(ite.s, a.x, cnt, cnt + 1)), LAMBDA end :
  IF ~Going(end) THEN end ELSE
  Then(find_in_out(end), LAMBDA found :
  Then(FoldSet(LAMBDA x, acc : ForVariable(acc, x, found.in_out),
               [s |-> BackTo(found.s, Here(s)), ins |-> <<>>, outs |-> <<>>, finals |-> <<>>],
               {x \in DOMAIN found.in_out : found.in_out[x].ov # <<>>}), LAMBDA res :
    ForAdded(s, ite.v, cnt, cnt + 1, NodesOf(end), res))))))

eval_return(p, e, s) ==
  Then(eval_ast(p, e, s), LAMBDA value :
    IF Going(value.s) THEN [value.s EXCEPT !.returned = << value.v >>] ELSE value.s)

eval_block(p, ss, s) ==
  IF ss = <<>> \/ ~Going(s) THEN s
  ELSE LET a == Head(ss) IN
       eval_block(p, Tail(ss),
         CASE a.k = "assign" -> eval_assign(p, a.x, a.e, s)
           [] a.k = "aug"    -> eval_assign(p, a.x, Bin("+", Name(a.x), a.e), s)
           [] a.k = "if"     -> eval_if(p, a, s)
           [] a.k = "for"    -> eval_for(p, a, s)
           [] a.k = "return" -> eval_return(p, a.e, s)
           [] a.k \in {"break", "continue"} -> Raises(s))

(***************************************************************************)
(* compile_model: forward is called on one ONNX value for each argument.   *)
(***************************************************************************)
compile_model(p, n) ==
  LET ins == [i \in 1..n |-> i] IN
  Then(eval_call(p["forward"], [Empty EXCEPT !.count = n], [p |-> p, vs |-> [i \in 1..n |-> Onnx(i)]]), LAMBDA r :
  Then(to_value_info(r.s, 1, r.v), LAMBDA out :
    [ok |-> out.s.ok, graph |-> make_graph(out.s, out.s.nodes[1], ins, << out.v.name >>).graph]))

=============================================================================
