------------------------------ MODULE OnnxGraph ------------------------------
(***************************************************************************)
(* The graphs that the front ends write, and what running one gives.  The  *)
(* operators are those of the ONNX dialect of the compiler that the front  *)
(* ends use; If takes the inputs of its branches after the condition, and  *)
(* a Loop takes a trip count, a condition and the values it carries, like  *)
(* the compiler reads them.  A body also sees the values outside it.       *)
(*                                                                         *)
(* A graph is [ins, nodes, outs]: its inputs, its nodes in order and its   *)
(* outputs; values are named by numbers, and a node is                     *)
(* [op, ins, outs, subs, c] with its subgraphs and its constant.           *)
(***************************************************************************)
EXTENDS PythonProgram

NoName == 0     \* an absent optional input

Graph(ins, nodes, outs) == [ins |-> ins, nodes |-> nodes, outs |-> outs]

Op(op, ins, outs)          == [op |-> op, ins |-> ins, outs |-> outs, subs |-> <<>>, c |-> None]
OpWith(op, ins, outs, subs) == [op |-> op, ins |-> ins, outs |-> outs, subs |-> subs, c |-> None]
ConstantOp(c, out)         == [op |-> "Constant", ins |-> <<>>, outs |-> << out >>, subs |-> <<>>, c |-> c]

\* The values of a sequence of names, and the names bound to a sequence of values.
Fetch(env, xs)     == [i \in 1..Len(xs) |-> IF xs[i] \in DOMAIN env THEN env[xs[i]] ELSE Error]
BindAll(env, xs, cs) ==
  [x \in {xs[i] : i \in 1..Len(xs)} |-> cs[CHOOSE i \in 1..Len(xs) : xs[i] = x]] @@ env
Has(cs, t)         == \A i \in 1..Len(cs) : cs[i].t = t

\* The operators without subgraphs.
Apply(op, cs, c) ==
  CASE \E i \in 1..Len(cs) : cs[i].t = "error" -> Error
    [] op = "Constant" -> c
    [] op = "Identity" -> cs[1]
    [] op = "Add"      -> Arith("+", cs[1], cs[2])
    [] op = "Sub"      -> Arith("-", cs[1], cs[2])
    [] op = "Mul"      -> Arith("*", cs[1], cs[2])
    [] op = "Equal"    -> IF cs[1].t = cs[2].t /\ cs[1].t \in {"num", "bool"}
                          THEN Bool(cs[1].v = cs[2].v) ELSE Error
    [] op = "Less"     -> Relates("<", cs[1], cs[2])
    [] op = "Greater"  -> Relates(">", cs[1], cs[2])
    [] op = "ChainerGenericIs" -> IF Has(cs, cs[1].t) THEN Bool(cs[1].v = cs[2].v) ELSE Bool(FALSE)
    [] op = "Not"      -> IF Has(cs, "bool") THEN Bool(~IsTrue(cs[1])) ELSE Error
    [] op = "And"      -> IF Has(cs, "bool") THEN Bool(IsTrue(cs[1]) /\ IsTrue(cs[2])) ELSE Error
    [] op = "Or"       -> IF Has(cs, "bool") THEN Bool(IsTrue(cs[1]) \/ IsTrue(cs[2])) ELSE Error
    [] op = "ChainerSequenceRange" -> RangeUpTo(cs[1])
    [] op = "ChainerGenericLen"    -> IF cs[1].t = "range" THEN Num(cs[1].v) ELSE Error
    [] op = "SequenceAt" -> IF cs[1].t = "range" /\ cs[2].t = "num" /\ cs[2].v \in 0..(cs[1].v - 1)
                            THEN cs[2] ELSE Error

RECURSIVE RunNodes(_, _, _), RunLoop(_, _, _, _, _)

\* The outputs of a body whose inputs have the given values; duplicated
\* inputs take the first value.
RunBody(g, env, cs) ==
  LET end == RunNodes(g.nodes, BindAll(env, g.ins, cs), Len(g.nodes)) IN Fetch(end, g.outs)

Errors(n) == [i \in 1..n |-> Error]

RunIf(node, env) ==
  LET cs == Fetch(env, node.ins) IN
  IF cs[1].t # "bool" THEN Errors(Len(node.outs))
  ELSE RunBody(node.subs[IF IsTrue(cs[1]) THEN 1 ELSE 2], env, Tail(cs))

\* One trip after the other, while the trip count and the condition allow;
\* a Loop without a condition has one that is true.
RunLoop(body, env, trips, i, state) ==
  IF state[1].t # "bool" THEN Errors(Len(state) - 1)
  ELSE IF i >= trips \/ ~IsTrue(state[1]) THEN Tail(state)
  ELSE RunLoop(body, env, trips, i + 1, RunBody(body, env, << Num(i) >> \o state))

RunNode(node, env) ==
  CASE node.op = "If" -> RunIf(node, env)
    [] node.op = "Loop" ->
         LET cs == Fetch((NoName :> Bool(TRUE)) @@ env, node.ins) IN
         IF cs[1].t = "num" THEN RunLoop(node.subs[1], env, cs[1].v, 0, Tail(cs))
         ELSE Errors(Len(node.outs))
    [] OTHER -> << Apply(node.op, Fetch(env, node.ins), node.c) >>

\* What is known after the first i nodes.
RunNodes(nodes, env, i) ==
  IF i = 0 THEN env
  ELSE LET before == RunNodes(nodes, env, i - 1) IN BindAll(before, nodes[i].outs, RunNode(nodes[i], before))

(***************************************************************************)
(* What makes a graph well formed.                                         *)
(***************************************************************************)
NamesIn(xs) == {xs[i] : i \in 1..Len(xs)}

\* The outputs of all nodes, at any depth, in a sequence.
RECURSIVE Computes(_, _)
Computes(nodes, i) ==
  IF i > Len(nodes) THEN <<>>
  ELSE LET subs == nodes[i].subs IN
       nodes[i].outs
       \o (IF Len(subs) > 0 THEN Computes(subs[1].nodes, 1) ELSE <<>>)
       \o (IF Len(subs) > 1 THEN Computes(subs[2].nodes, 1) ELSE <<>>)
       \o Computes(nodes, i + 1)

SingleAssignment(g) ==
  LET all == g.ins \o Computes(g.nodes, 1) IN
  \A i, j \in 1..Len(all) : i # j => all[i] # all[j]

\* What the compiler requires when it reads a graph: no name is an input or
\* an output of it twice, or both.
RECURSIVE Accepted(_)
Accepted(g) ==
  LET all == g.ins \o g.outs IN
  /\ \A i, j \in 1..Len(all) : i # j => all[i] # all[j]
  /\ \A i \in 1..Len(g.nodes) : \A j \in 1..Len(g.nodes[i].subs) : Accepted(g.nodes[i].subs[j])

\* Every name is defined where it is read; `known' are the names defined around it.
RECURSIVE Defined(_, _)
Defined(g, known) ==
  LET before(i) == known \cup NamesIn(g.ins) \cup UNION {NamesIn(g.nodes[j].outs) : j \in 1..(i - 1)} IN
  /\ \A i \in 1..Len(g.nodes) :
       /\ NamesIn(g.nodes[i].ins) \subseteq before(i)
       /\ \A j \in 1..Len(g.nodes[i].subs) : Defined(g.nodes[i].subs[j], before(i))
  /\ NamesIn(g.outs) \subseteq before(Len(g.nodes) + 1)

WellScoped(g) == Defined(g, {NoName})

\* The outputs of a whole graph for the given arguments.
RunGraph(g, args) == RunBody(g, [x \in {} |-> None], args)

=============================================================================
