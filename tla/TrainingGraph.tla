---------------------------- MODULE TrainingGraph ----------------------------
(***************************************************************************)
(* Graphs as the generation of gradients edits them: topology.cc, the      *)
(* searches of graph.cc, and what the operators compute.                   *)
(*                                                                         *)
(* Values are numbers.  A node is a record of its operator, inputs and     *)
(* outputs.  A graph has `inputs`, those of them with an initializer       *)
(* (`params`), a sequence of `outputs` and a sequence of `nodes`.          *)
(*                                                                         *)
(* An array is one number modulo Prime.  Six operators stand for the rest: *)
(* their gradients read their inputs (Mul), their output (Exp), an output  *)
(* added for the gradient (AveragePool), the gradients of all outputs      *)
(* (Split), nothing (Add), or do not exist (Floor).                        *)
(***************************************************************************)
EXTENDS Integers, Sequences, FiniteSets
LOCAL INSTANCE SequencesExt

Node(op, ins, outs) == [op |-> op, ins |-> ins, outs |-> outs]
Operators == {"Add", "Mul", "Exp", "AveragePool", "Split", "Floor"}
AddedOperators == {"Constant", "Identity", "Shape", "Expand", "ReduceSumTo", "Concat",
                   "AccumulateGrad", "AveragePoolGrad"}
Nodes == [op : Operators \cup AddedOperators, ins : Seq(Nat), outs : Seq(Nat)]

\* A map in which the entries of `new` come before those of `old`.
Over(new, old) ==
    [x \in DOMAIN new \cup DOMAIN old |-> IF x \in DOMAIN new THEN new[x] ELSE old[x]]
With(f, x, y) == Over([u \in {x} |-> y], f)

Elements(s) == {s[i] : i \in DOMAIN s}

\* The elements of s that are in S, in the order of s.
Among(s, S) ==
    LET kept[k \in 0..Len(s)] ==
            IF k = 0 THEN <<>>
            ELSE IF s[k] \in S THEN Append(kept[k - 1], s[k]) ELSE kept[k - 1]
    IN  kept[Len(s)]

\* What n steps along the pairs of R reach from some elements.
Reached(start, R, n) ==
    LET reached[k \in Nat] ==
            IF k = 0 THEN start
            ELSE LET S == reached[k - 1]
                 IN  S \cup {r[2] : r \in {q \in R : q[1] \in S}}
    IN  reached[n]

Place(s, x) == CHOOSE k \in DOMAIN s : s[k] = x
ReadBy(nodes) == UNION {Elements(nodes[i].ins) : i \in DOMAIN nodes}
ComputedBy(nodes) == UNION {Elements(nodes[i].outs) : i \in DOMAIN nodes}

Values(g) == g.inputs \cup ComputedBy(g.nodes)

Producer(nodes, v) == CHOOSE i \in DOMAIN nodes : v \in Elements(nodes[i].outs)
Readers(nodes, v)  == {i \in DOMAIN nodes : v \in Elements(nodes[i].ins)}

\* node->inputs() of all nodes: <<the node, the value it reads>>.
Reads(nodes) ==
    FlattenSeq([i \in DOMAIN nodes |->
        [j \in DOMAIN nodes[i].ins |-> <<i, nodes[i].ins[j]>>]])
-----------------------------------------------------------------------------
\* How often node i reads v.
TimesRead(nodes, i, v) == Cardinality({j \in DOMAIN nodes[i].ins : nodes[i].ins[j] = v})

\* The nodes whose last missing input is v.
Completed(nodes, counts, v) ==
    {i \in DOMAIN nodes : counts[i] > 0 /\ counts[i] <= TimesRead(nodes, i, v)}

\* The first value of the queue is taken and counted at its users; the users
\* that are complete are sorted, and their outputs enter the queue.
Take(nodes, s) ==
    LET v    == Head(s.queue)
        next == Among([i \in DOMAIN nodes |-> i], Completed(nodes, s.counts, v))
    IN  [counts |-> [i \in DOMAIN nodes |-> s.counts[i] - TimesRead(nodes, i, v)],
         queue  |-> Tail(s.queue) \o FlattenSeq([k \in DOMAIN next |-> nodes[next[k]].outs]),
         sorted |-> s.sorted \o next]

\* Nodes without inputs come in any order (a map keyed by pointers): here, in
\* the order in which they were added.
Started(nodes, inputs) ==
    LET sources == Among([i \in DOMAIN nodes |-> i], {i \in DOMAIN nodes : nodes[i].ins = <<>>})
    IN  [counts |-> [i \in DOMAIN nodes |-> Len(nodes[i].ins)],
         queue  |-> inputs \o FlattenSeq([k \in DOMAIN sources |-> nodes[sources[k]].outs]),
         sorted |-> sources]

\* SortTopologically.  Each value is taken once, if at all.
SortTopologically(nodes, inputs) ==
    LET all == Len(inputs) + Len(FlattenSeq([i \in DOMAIN nodes |-> nodes[i].outs]))
        state[k \in Nat] ==
            IF k = 0 THEN Started(nodes, inputs)
            ELSE LET s == state[k - 1]
                 IN  IF s.queue = <<>> THEN s ELSE Take(nodes, s)
    IN  state[all].sorted

\* The numbers of a set, in order.
InOrder(S) == Among([i \in 1..Max(S \cup {0}) |-> i], S)

\* Graph::GetTopologicallySortedNodes.
GetTopologicallySortedNodes(g) == SortTopologically(g.nodes, InOrder(g.inputs))

\* The models whose gradients are taken: values are numbered and have one
\* origin, nodes have outputs, and each can be reached from the inputs.
IsModel(g) ==
    /\ g.nodes \in Seq(Nodes) /\ g.nodes # <<>>
    /\ \A i \in DOMAIN g.nodes : g.nodes[i].outs # <<>>
    /\ IsFiniteSet(g.inputs)
    /\ Values(g) = 1..Cardinality(Values(g))
    /\ g.inputs \cap ComputedBy(g.nodes) = {}
    /\ \A i, j \in DOMAIN g.nodes : \A x \in DOMAIN g.nodes[i].outs, y \in DOMAIN g.nodes[j].outs :
          g.nodes[i].outs[x] = g.nodes[j].outs[y] => i = j /\ x = y
    /\ Elements(GetTopologicallySortedNodes(g)) = DOMAIN g.nodes

\* The values ClassifyValues calls inputs of some nodes.
ClassifiedInputs(nodes) == InOrder(ReadBy(nodes) \ ComputedBy(nodes))

\* Node i computes something that node j reads.
Feeds(g, i, j) == Elements(g.nodes[i].outs) \cap Elements(g.nodes[j].ins) # {}
NodePairs(g) == (DOMAIN g.nodes) \X (DOMAIN g.nodes)

\* The nodes some outputs are computed from: the keys of
\* GetNecessaryNodesAndInputCounts (no node is without outputs here).
NecessaryNodes(g) ==
    Reached({i \in DOMAIN g.nodes : Elements(g.nodes[i].outs) \cap Elements(g.outputs) # {}},
            {p \in NodePairs(g) : Feeds(g, p[2], p[1])}, Len(g.nodes))

GetNecessaryValues(g) == UNION {Elements(g.nodes[i].ins) : i \in NecessaryNodes(g)}

\* GetParamValues.
GetParamValues(g) == g.params \cap GetNecessaryValues(g)

\* The nodes FilterOutUnnecessaryNode has seen: those some x leads to.
NodesAfter(g, xs) ==
    Reached(UNION {Readers(g.nodes, x) : x \in xs},
            {p \in NodePairs(g) : Feeds(g, p[1], p[2])}, Len(g.nodes))
-----------------------------------------------------------------------------
(* What the operators compute.                                             *)

Prime == 97
Undefined == -1     \* what a value that nobody has computed holds

\* a: the inputs; w: how many outputs (AveragePool's second is its input).
Apply(op, a, w) ==
    CASE op = "Add"   -> <<a[1] + a[2]>>
      [] op = "Mul"   -> <<a[1] * a[2]>>
      [] op = "Exp"   -> <<a[1] * a[1] + 3>>
      [] op = "AveragePool" -> SubSeq(<<a[1] * a[1] + 5 * a[1], a[1]>>, 1, w)
      [] op = "Split" -> <<a[1], 3 * a[1]>>
      [] op = "Floor" -> <<a[1] + 1>>
      [] op = "Constant" -> <<1>>
      [] op = "Identity" -> a
      [] op = "Shape"    -> <<0>>
      [] op = "Expand"   -> <<a[1]>>
      [] op = "ReduceSumTo" -> <<a[1]>>
      [] op = "Concat"      -> <<a[1] + 3 * a[2]>>
      [] op = "AccumulateGrad"  -> <<a[1] + a[2]>>
      [] op = "AveragePoolGrad" -> <<a[1] * (2 * a[2] + 5)>>

\* The change of the outputs when the inputs change by d.
Tangent(op, a, d) ==
    CASE op = "Add"   -> <<d[1] + d[2]>>
      [] op = "Mul"   -> <<a[1] * d[2] + a[2] * d[1]>>
      [] op = "Exp"   -> <<Apply(op, a, 1)[1] * d[1]>>
      [] op = "AveragePool" -> <<(2 * a[1] + 5) * d[1]>>
      [] op = "Split" -> <<d[1], 3 * d[1]>>
      [] op = "Floor" -> <<0>>

Look(env, v) == IF v \in DOMAIN env THEN env[v] ELSE Undefined
LookAll(env, vs) == [k \in DOMAIN vs |-> Look(env, vs[k])]

RunNode(env, node) ==
    LET a == LookAll(env, node.ins)
        r == IF Undefined \in Elements(a) THEN [k \in DOMAIN node.outs |-> Undefined]
             ELSE [k \in DOMAIN node.outs |->
                      Apply(node.op, a, Len(node.outs))[k] % Prime]
    IN  Over([v \in Elements(node.outs) |->
            r[CHOOSE k \in DOMAIN r : node.outs[k] = v]], env)

\* The nodes run in this order.
RunNodes(nodes, env) == FoldLeft(RunNode, env, nodes)

\* How the outputs of g change with the input x, where its inputs are args:
\* g run forward on pairs of a value and its rate of change.
Derivatives(g, args, x) ==
    LET Step(s, i) ==
            LET n == g.nodes[i]
                t == Tangent(n.op, LookAll(s.env, n.ins), LookAll(s.rate, n.ins))
            IN  [env  |-> RunNode(s.env, n),
                 rate |-> Over([k \in Elements(n.outs) |->
                                   t[CHOOSE j \in DOMAIN n.outs : n.outs[j] = k] % Prime],
                               s.rate)]
    IN  FoldLeft(Step,
            [env |-> args, rate |-> [v \in DOMAIN args |-> IF v = x THEN 1 ELSE 0]],
            GetTopologicallySortedNodes(g)).rate
=============================================================================
