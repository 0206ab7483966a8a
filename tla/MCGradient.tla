----------------------------- MODULE MCGradient -----------------------------
(***************************************************************************)
(* Models of up to four nodes whose values are read once, twice or never,  *)
(* and the ways their gradients may be asked for.                          *)
(***************************************************************************)
EXTENDS GradientWithOrder
LOCAL INSTANCE SequencesExt

Unary  == {"Exp", "AveragePool", "Floor"}
Binary == {"Mul", "Add"}

\* The nodes that read some of the values 1..v, and compute the next ones.
NextNodes(ops, v) ==
    {Node(op, <<x>>, <<v + 1>>) : op \in ops \cap Unary, x \in 1..v}
    \cup {Node(op, <<x, y>>, <<v + 1>>) :
             op \in ops \cap Binary, x \in 1..v, y \in 1..v}
    \cup {Node(op, <<x>>, <<v + 1, v + 2>>) : op \in ops \cap {"Split"}, x \in 1..v}

Last_(nodes, k) == IF nodes = <<>> THEN k ELSE Last(Last(nodes).outs)

\* Sequences of n nodes over k inputs.  The operands of Add and Mul are put
\* in order.
RECURSIVE NodeLists(_, _, _)
NodeLists(ops, k, n) ==
    IF n = 0 THEN {<<>>}
    ELSE UNION {{Append(s, node) :
                    node \in {m \in NextNodes(ops, Last_(s, k)) :
                                 Len(m.ins) = 2 => m.ins[1] <= m.ins[2]}} :
                s \in NodeLists(ops, k, n - 1)}

GraphOf(k, params, nodes, outs) ==
    [inputs |-> 1..k, params |-> params, outputs |-> outs, nodes |-> nodes]

\* The values nobody reads are the outputs, and all inputs are read.  So each
\* output of a Split has a gradient: one that had none would leave the input
\* of the Split without a gradient too (NoGradient, gradient_ops.cc).
Complete(k, lists) ==
    {GraphOf(k, 1..k, s, InOrder(ComputedBy(s) \ ReadBy(s))) :
        s \in {t \in lists : 1..k \subseteq ReadBy(t)}}

\* One of the values that are read is an output too.
Tapped(graphs) ==
    UNION {{[h EXCEPT !.outputs = InOrder(Elements(@) \cup {v})] :
               v \in ComputedBy(h.nodes) \cap ReadBy(h.nodes)} : h \in graphs}

\* Only some of the inputs are parameters.
Frozen(graphs) == {[h EXCEPT !.params = {1}] : h \in graphs}

JobsFor(graphs, phases, policies) ==
    [graph : graphs, twoPhase : phases, policy : policies]

Policies == {"none", "dummy", "dummy2", "chen", "gt"}

Pairs   == Complete(2, NodeLists(Unary \cup Binary \cup {"Split"}, 2, 2))
Triples == Complete(1, NodeLists({"Exp", "Mul", "Split"}, 1, 3))
Quads   == Complete(1, NodeLists({"Mul"}, 1, 4))

SmallJobs ==
    JobsFor(Pairs, BOOLEAN, Policies)
    \cup JobsFor(Frozen(Pairs), BOOLEAN, {"none"})
    \cup JobsFor(Triples, BOOLEAN, Policies)
    \cup JobsFor(Tapped(Triples), {TRUE}, Policies)
    \cup JobsFor(Quads, BOOLEAN, {"chen", "gt"})
    \cup JobsFor(Complete(2, NodeLists(Unary \cup Binary, 2, 2))
                    \cup Complete(1, NodeLists({"Mul"}, 1, 3)), BOOLEAN, {"custom"})
=============================================================================
