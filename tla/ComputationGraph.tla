-------------------------- MODULE ComputationGraph --------------------------
(***************************************************************************)
(* The graphs the compiler works on (compiler/graph.h, node.h, value.h):   *)
(* dataflow over named values, with the bodies of If, Loop and             *)
(* ChainerFusionGroup nodes as graphs of their own -- and what such a      *)
(* graph computes, whatever it is compiled to.  The operators are the ones *)
(* whose emission or execution touches control flow, aliasing or the life  *)
(* of variables; all other operators are to the virtual machine what Add   *)
(* is.                                                                     *)
(*                                                                         *)
(* A graph is [inputs, outputs, nodes]: two sequences of value names and   *)
(* its nodes in the order of GetComputationSequence().  A node is          *)
(* [op, name, ins, outs, bodies, values]; `bodies` is <<then, else>> of an *)
(* If and <<body>> of a Loop or a fusion group, `values` the numbers of a  *)
(* constant.  Names are unique across a graph and all its bodies, as       *)
(* Value pointers are; a null value's name is empty.                       *)
(***************************************************************************)
EXTENDS Integers, Sequences, FiniteSets, TLC
LOCAL INSTANCE SequencesExt
LOCAL INSTANCE FiniteSetsExt
LOCAL INSTANCE Functions

None == ""      \* the name of a null value

\* Run-time values: arrays of integers (scalars have one element), sequences
\* of values, and null.
Array(xs)       == <<"array", xs>>
SequenceOf(vs)  == <<"sequence", vs>>
Null            == <<"null", <<>>>>
Scalar(n)       == Array(<<n>>)
Truth(p)        == Scalar(IF p THEN 1 ELSE 0)

KindOf(v)       == v[1]
ContentOf(v)    == v[2]
IsTrue(v)       == ContentOf(v)[1] # 0

Elementwise(Op(_, _), a, b) ==
    Array([i \in DOMAIN ContentOf(a) |-> Op(ContentOf(a)[i], ContentOf(b)[i])])

ConcatArrays(vs) ==
    Array(FlattenSeq([i \in DOMAIN vs |-> ContentOf(vs[i])]))

\* The readers of v among the nodes of g: v->users().size().
Users(g, v) ==
    MapThenSumSet(LAMBDA i : Cardinality({j \in DOMAIN g.nodes[i].ins :
                                             g.nodes[i].ins[j] = v}),
                  DOMAIN g.nodes)

Named(vs) == Range(vs) \ {None}

\* Graph::temp_values().
Temps(g) ==
    UNION {Named(g.nodes[i].outs) : i \in DOMAIN g.nodes} \ Range(g.outputs)
-----------------------------------------------------------------------------
(* What a graph computes.  `env` gives the values known so far.            *)

Lookup(env, v) == IF v = None THEN Null ELSE env[v]

Assign(env, names, values) ==
    [v \in Named(names) |-> values[CHOOSE i \in DOMAIN names : names[i] = v]]
        @@ env

\* The results of a node without bodies, from its constants and arguments.
\* A null argument makes the results null (null gradients propagate).
Primitive(op, values, args) ==
    CASE op = "Constant"  -> <<Array(values)>>
      [] op = "ChainerSequenceConstants" ->
            <<SequenceOf([i \in DOMAIN values |-> Scalar(values[i])])>>
      [] op = "SequenceConstruct" -> <<SequenceOf(args)>>
      [] op = "Identity"  -> args
      [] \E i \in DOMAIN args : args[i] = Null -> <<Null, Null>>
      [] op = "Add" -> <<Elementwise(LAMBDA x, y : x + y, args[1], args[2])>>
      [] op = "Greater" -> <<Truth(ContentOf(args[1])[1] > ContentOf(args[2])[1])>>
      [] op = "SequenceInsert" ->
            <<SequenceOf(Append(ContentOf(args[1]), args[2]))>>
      [] op = "ChainerSequencePop" ->
            <<SequenceOf(Front(ContentOf(args[1]))), Last(ContentOf(args[1]))>>
      [] op = "SequenceLength" -> <<Scalar(Len(ContentOf(args[1])))>>
      [] op = "ConcatFromSequence" -> <<ConcatArrays(ContentOf(args[1]))>>

RECURSIVE Evaluate(_, _), Results(_, _), Iterate(_, _, _, _, _)

\* The values of g's outputs, given those of its inputs.
Evaluate(g, args) ==
    LET final == FoldLeft(LAMBDA env, node :
                              Assign(env, node.outs, Results(node, env)),
                          Assign(<<>>, g.inputs, args), g.nodes)
    IN  [i \in DOMAIN g.outputs |-> Lookup(final, g.outputs[i])]

Results(node, env) ==
    LET args == [i \in DOMAIN node.ins |-> Lookup(env, node.ins[i])]
    IN  CASE node.op = "If" ->
                Evaluate(node.bodies[IF IsTrue(args[1]) THEN 1 ELSE 2],
                         Tail(args))
          [] node.op = "ChainerFusionGroup" -> Evaluate(node.bodies[1], args)
          [] node.op = "Loop" ->
                Iterate(node, args, 0,
                        args[2] = Null \/ IsTrue(args[2]),
                        [states |-> SubSeq(args, 3, Len(args)), scans |-> <<>>])
          [] OTHER -> Primitive(node.op, node.values, args)

\* Trips i, i + 1, ... of a Loop whose condition is now `go`.  A loop without
\* a condition ignores the one its body computes.
Iterate(loop, args, i, go, acc) ==
    LET n     == Len(args) - 2
        body  == loop.bodies[1]
        trip  == Evaluate(body, <<Scalar(i), Scalar(1)>> \o acc.states)
        scans == SubSeq(trip, n + 2, Len(trip))
    IN  IF go /\ (args[1] = Null \/ i < ContentOf(args[1])[1])
        THEN Iterate(loop, args, i + 1, args[2] = Null \/ IsTrue(trip[1]),
                     [states |-> SubSeq(trip, 2, n + 1),
                      scans  |-> [k \in DOMAIN scans |->
                                    IF i = 0 THEN <<scans[k]>>
                                             ELSE acc.scans[k] \o <<scans[k]>>]])
        ELSE acc.states \o [k \in 1..(Len(loop.outs) - n) |->
                               ConcatArrays(acc.scans[k])]
=============================================================================
