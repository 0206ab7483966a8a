----------------------------- MODULE OnnxExport -----------------------------
(***************************************************************************)
(* From the evaluator's graph to the exported one                          *)
(* (elichika/onnx_converters.py).  preprocess copies the outputs of a      *)
(* graph that are its inputs or appear twice; generate_graph writes the    *)
(* values that are not computed as constants, in the first graph that      *)
(* mentions them, and converts each node.                                  *)
(***************************************************************************)
EXTENDS VEvaluator

LOCAL Graphs == INSTANCE OnnxGraph

Graph(ins, nodes, outs)      == Graphs!Graph(ins, nodes, outs)
Op(op, ins, outs)            == Graphs!Op(op, ins, outs)
OpWith(op, ins, outs, subs)  == Graphs!OpWith(op, ins, outs, subs)
ConstantOp(c, out)           == Graphs!ConstantOp(c, out)

Elements(seq) == {seq[i] : i \in 1..Len(seq)}

\* The i-th name made up on behalf of a value.
Temp(v, i) == -(1000 * v + i)

(***************************************************************************)
(* preprocess: an output that is an input of the graph becomes a copy, the *)
(* last one made of that input; then every further occurrence of an output *)
(* becomes a copy of it.  The graph is the b-th body of the node that      *)
(* computes w, after which the copies are named.                           *)
(***************************************************************************)
Copy(v, c) == Node("copy", "copy", << v >>, << c >>)

\* The copy nodes for the positions in a set, in order.
CopyNodes(g, positions, nodeAt(_)) ==
  LET at == SelectSeq([i \in 1..Len(g.outs) |-> i], LAMBDA i : i \in positions) IN
  [i \in 1..Len(at) |-> nodeAt(at[i])]

CopiedInputs_passed_on(g, w, b) == g
CopiedInputs(g, w, b) ==
  LET name(i)   == Temp(w, 100 * b + i)
      last(v)   == Max({i \in 1..Len(g.outs) : g.outs[i] = v})
      passed    == {i \in 1..Len(g.outs) : Contains(g.ins, g.outs[i])}
  IN Subgraph(g.ins, g.nodes \o CopyNodes(g, passed, LAMBDA i : Copy(g.outs[i], name(i))),
              [i \in 1..Len(g.outs) |-> IF i \in passed THEN name(last(g.outs[i])) ELSE g.outs[i]])

CopiedDuplicates(g, w, b) ==
  LET name(i) == Temp(w, 100 * b + 50 + i)
      again   == {i \in 1..Len(g.outs) : \E j \in 1..(i - 1) : g.outs[j] = g.outs[i]}
  IN Subgraph(g.ins, g.nodes \o CopyNodes(g, again, LAMBDA i : Copy(g.outs[i], name(i))),
              [i \in 1..Len(g.outs) |-> IF i \in again THEN name(i) ELSE g.outs[i]])

RECURSIVE preprocess(_, _, _)
preprocess(g, w, b) ==
  LET h == CopiedDuplicates(CopiedInputs(g, w, b), w, b)
      Inside(node) == [node EXCEPT !.subs = [i \in 1..Len(node.subs) |-> preprocess(node.subs[i], node.outs[1], i)]]
  IN [h EXCEPT !.nodes = [i \in 1..Len(h.nodes) |->
                            IF h.nodes[i].outs = <<>> THEN h.nodes[i] ELSE Inside(h.nodes[i])]]

(***************************************************************************)
(* Constants.  A dummy is a zero of its type; None is an initializer of    *)
(* the main graph that holds False.                                        *)
(***************************************************************************)
Mentioned(g) ==
  Elements(g.ins) \cup Elements(g.outs)
    \cup UNION {Elements(g.nodes[i].ins) \cup Elements(g.nodes[i].outs) : i \in 1..Len(g.nodes)}

\* What a graph and the bodies in it mention; what the bodies of a node do.
RECURSIVE AllMentioned(_)
InBodies(node) == UNION {AllMentioned(node.subs[i]) : i \in 1..Len(node.subs)}
AllMentioned(g) == Mentioned(g) \cup UNION {InBodies(g.nodes[i]) : i \in 1..Len(g.nodes)}

IsLiteral(s, v) ==
  /\ v \in 1..Len(s.vals)
  /\ s.vals[v].dummy \/ (v \notin s.generated /\ has_constant_value(s, v))

Literal(s, v) ==
  CASE s.vals[v].dummy -> IF s.vals[v].ty = "bool" THEN Bool(FALSE) ELSE Num(0)
    [] s.vals[v].ty = "none" -> Bool(FALSE)
    [] OTHER -> s.vals[v].c

generate_tensors(s, vs) ==
  FoldSet(LAMBDA v, ops : Append(ops, ConstantOp(Literal(s, v), v)), <<>>, {v \in vs : IsLiteral(s, v)})

IsNone(s, v) == v \in 1..Len(s.vals) /\ s.vals[v].ty = "none"

(***************************************************************************)
(* The nodes without subgraphs, each one or a few operators.               *)
(***************************************************************************)
CompareOp == [op \in {"==", "!=", "<", "<=", ">", ">=", "is", "is not"} |->
  CASE op \in {"==", "!="} -> "Equal"
    [] op \in {"<", ">="}  -> "Less"
    [] op \in {">", "<="}  -> "Greater"
    [] op \in {"is", "is not"} -> "ChainerGenericIs"]

convert_node_compare(n) ==
  IF n.op \in {"!=", ">=", "<=", "is not"}
  THEN << Op(CompareOp[n.op], n.ins, << Temp(n.outs[1], 0) >>), Op("Not", << Temp(n.outs[1], 0) >>, n.outs) >>
  ELSE << Op(CompareOp[n.op], n.ins, n.outs) >>

convert_node_multiary_op(n) ==
  LET op   == IF n.op = "and" THEN "And" ELSE "Or"
      out  == n.outs[1]
      step(i) == Op(op, << Temp(out, i - 1), n.ins[i] >>, << Temp(out, i) >>)
  IN << ConstantOp(Bool(n.op = "and"), Temp(out, 0)) >> \o [i \in 1..Len(n.ins) |-> step(i)]
       \o << Op("Identity", << Temp(out, Len(n.ins)) >>, << out >>) >>

BinaryOp == [op \in {"+", "-", "*"} |-> CASE op = "+" -> "Add" [] op = "-" -> "Sub" [] op = "*" -> "Mul"]

convert_node(n) ==
  CASE n.k = "copy"                     -> << Op("Identity", n.ins, n.outs) >>
    [] n.k \in {"aug_assign", "bin_op"} -> << Op(BinaryOp[n.op], n.ins, n.outs) >>
    [] n.k = "unary_op"                 -> << Op("Not", n.ins, n.outs) >>
    [] n.k = "compare"                  -> convert_node_compare(n)
    [] n.k = "multiary_op"              -> convert_node_multiary_op(n)
    [] n.k = "generate"                 -> << Op("ChainerSequenceRange", n.ins, n.outs) >>
    [] n.k = "for_generator"            -> << Op("SequenceAt", n.ins, n.outs) >>

(***************************************************************************)
(* A graph: first the constants that no graph before it mentions, then its *)
(* nodes.  An if takes the inputs of the bodies after the condition; a for *)
(* gets the length of what it iterates over as trip count and a condition  *)
(* that is true at first.                                                  *)
(***************************************************************************)
ConvertIf(n, bodies) == << OpWith("If", n.ins, n.outs, bodies) >>

ConvertFor(n, bodies) ==
  LET len == Temp(n.exit_cond, 0) IN
  << Op("ChainerGenericLen", << n.ins[1] >>, << len >>),
     ConstantOp(Bool(TRUE), n.exit_cond),
     OpWith("Loop", << len, n.exit_cond >> \o n.ins, n.outs, bodies) >>

RECURSIVE generate_graph(_, _, _)
generate_graph(s, g, emitted) ==
  LET before(i) == emitted \cup Mentioned(g) \cup UNION {InBodies(g.nodes[j]) : j \in 1..(i - 1)}
      bodies(i) ==
        [b \in 1..Len(g.nodes[i].subs) |->
           generate_graph(s, g.nodes[i].subs[b],
                          before(i) \cup UNION {AllMentioned(g.nodes[i].subs[c]) : c \in 1..(b - 1)})]
      converted(i) ==
        CASE g.nodes[i].k = "if"  -> ConvertIf(g.nodes[i], bodies(i))
          [] g.nodes[i].k = "for" -> ConvertFor(g.nodes[i], bodies(i))
          [] OTHER -> convert_node(g.nodes[i])
      constants == generate_tensors(s, {v \in Mentioned(g) \ emitted : ~IsNone(s, v)})
  IN Graph(g.ins, constants \o FlattenSeq([i \in 1..Len(g.nodes) |-> converted(i)]), g.outs)

\* generate_model: the main graph, with the initializers that any graph needs.
generate_model(s, g) ==
  LET pre  == preprocess(g, 0, 0)
      none == generate_tensors(s, {v \in AllMentioned(pre) : IsNone(s, v)})
      main == generate_graph(s, pre, {})
  IN [main EXCEPT !.nodes = none \o @]

=============================================================================
