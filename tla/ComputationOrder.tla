-------------------------- MODULE ComputationOrder --------------------------
(***************************************************************************)
(* The policies that trade time for memory (compiler/computation_order/):  *)
(* each makes, for a graph, a sequence of orders to compute a node, forget *)
(* a value or compute a node's gradients.                                  *)
(*                                                                         *)
(* Bytes and flops only decide where Chen's policy splits the nodes and    *)
(* which lower sets GT's policy goes through.  Any set of articulation     *)
(* points is split for some budget and sizes, and any chain of the lower   *)
(* sets may be the best: the choice is a parameter here.                   *)
(***************************************************************************)
EXTENDS TrainingGraph
LOCAL INSTANCE SequencesExt

ComputeForward(n)  == [kind |-> "ComputeForward", node |-> n, value |-> 0]
ComputeBackward(n) == [kind |-> "ComputeBackward", node |-> n, value |-> 0]
ForgetForward(v)   == [kind |-> "ForgetForward", node |-> 0, value |-> v]

Each(s, Order(_)) == [i \in DOMAIN s |-> Order(s[i])]
OutputsOf(g, ns)  == FlattenSeq([i \in DOMAIN ns |-> g.nodes[ns[i]].outs])

DummyPolicy(g) ==
    LET nodes == GetTopologicallySortedNodes(g)
    IN  Each(nodes, ComputeForward) \o Each(OutputsOf(g, nodes), ForgetForward)
        \o Each(nodes, ComputeForward) \o Each(Reverse(nodes), ComputeBackward)
-----------------------------------------------------------------------------
\* DummyPolicy2 refuses a graph in which a value is not read exactly once.
IsChain(g) ==
    \A v \in ReadBy(g.nodes) : Len(SelectSeq(Reads(g.nodes), LAMBDA r : r[2] = v)) = 1

DummyPolicy2(g) ==
    LET nodes == GetTopologicallySortedNodes(g)
        Forward(i) ==
            <<ComputeForward(nodes[i])>>
            \o Each(Among(g.nodes[nodes[i]].ins, ReadBy(g.nodes) \ g.inputs), ForgetForward)
    IN  FlattenSeq([i \in DOMAIN nodes |-> Forward(i)])
        \o Each(g.nodes[Last(nodes)].outs, ForgetForward)
        \o Each(nodes, ComputeForward) \o Each(Reverse(nodes), ComputeBackward)
-----------------------------------------------------------------------------
Adjacent(g, i, j) == Feeds(g, i, j) \/ Feeds(g, j, i)

\* FindArticulationPoints: without node i, the search from the node after it
\* does not visit all the others.
FindArticulationPoints(g) ==
    LET n == Len(g.nodes)
        Visited(i) ==
            Reached({(i % n) + 1},
                    {p \in NodePairs(g) : p[2] # i /\ Adjacent(g, p[1], p[2])}, n)
    IN  {i \in DOMAIN g.nodes : Cardinality(Visited(i)) < n - 1}

\* How many of the splits come before the node in the sorted sequence.
Generation(sorted, splits, n) ==
    Cardinality({i \in DOMAIN sorted : sorted[i] \in splits
                    /\ \E j \in DOMAIN sorted : j > i /\ sorted[j] = n})

\* Mutation of MustRemember: only inputs of the graph are remembered.
MustRememberInputs(g, sorted, splits) == ReadBy(g.nodes) \cap g.inputs

\* must_remember: inputs, and values read in another block than theirs.
MustRemember(g, sorted, splits) ==
    {v \in ReadBy(g.nodes) :
        \/ v \in g.inputs
        \/ \E n \in Readers(g.nodes, v) :
              Generation(sorted, splits, n) #
                  Generation(sorted, splits, Producer(g.nodes, v))}

ChenPolicy(g, splits) ==
    LET sorted   == GetTopologicallySortedNodes(g)
        remember == MustRemember(g, sorted, splits)
        ends     == {i \in DOMAIN sorted : sorted[i] \in splits}
        From(i)  == 1 +     \* where the block of place i begins
                    (IF \E e \in ends : e < i
                     THEN CHOOSE e \in ends : e < i /\ \A f \in ends : f < i => f <= e
                     ELSE 0)
        Forget(from, to) ==
            Each(Among(OutputsOf(g, SubSeq(sorted, from, to)),
                       ComputedBy(g.nodes) \ remember), ForgetForward)
        Forward(i) ==
            <<ComputeForward(sorted[i])>>
            \o (IF i \in ends THEN Forget(From(i), i - 1) ELSE <<>>)
        lost     == {n \in DOMAIN g.nodes : ~(Elements(g.nodes[n].outs) \subseteq remember)}
        Backward(from, to) ==
            Each(Among(SubSeq(sorted, from, to), lost), ComputeForward)
            \o Each(Reverse(SubSeq(sorted, from, to)), ComputeBackward)
        last   == From(Len(sorted) + 1)
        blocks == Reverse(InOrder(ends))
    IN  FlattenSeq([i \in DOMAIN sorted |-> Forward(i)])
        \o Forget(last, Len(sorted))
        \o Backward(last, Len(sorted))
        \o FlattenSeq([k \in DOMAIN blocks |-> Backward(From(blocks[k]), blocks[k])])
-----------------------------------------------------------------------------
\* GetSimpleFormGraph: an edge from an input of a node to each of its outputs.
Edge(g, u, v) ==
    \E i \in DOMAIN g.nodes :
        u \in Elements(g.nodes[i].ins) /\ v \in Elements(g.nodes[i].outs)

Vertices(g) == ComputedBy(g.nodes)

\* The vertices from which v can be reached, v among them.
Below(g, v) ==
    Reached({v}, {p \in Vertices(g) \X Vertices(g) : Edge(g, p[2], p[1])}, Len(g.nodes))

EnumerateLowerSets(g) ==
    {{}, Vertices(g)} \cup {Below(g, v) : v \in Vertices(g)}

\* What ComputeDP may return: an increasing sequence of lower sets.
Chains(g) ==
    {chain \in SUBSET EnumerateLowerSets(g) :
        /\ {} \in chain /\ Vertices(g) \in chain
        /\ \A a, b \in chain : a \subseteq b \/ b \subseteq a}

Boundary(g, ls) == {u \in ls : \E v \in Vertices(g) \ ls : Edge(g, u, v)}

\* How many of the lower sets do not have v.
Level(chain, v) == Cardinality({ls \in chain : v \notin ls})

\* ComputeOrder.
GTPolicy(g, chain) ==
    LET len    == Cardinality(chain) - 1
        seq    == [i \in 1..(len + 1) |-> {v \in Vertices(g) : Level(chain, v) < i}]
        values == OutputsOf(g, GetTopologicallySortedNodes(g))
        sinks  == {u \in Vertices(g) : ~\E v \in Vertices(g) : Edge(g, u, v)}
        Block(i) == Among(values, seq[i + 1] \ seq[i])
        Forgets(i) ==
            IF i = len THEN {}
            ELSE ((seq[i + 1] \ Boundary(g, seq[i + 1])) \ seq[i]) \ sinks
        Producers(vs) == [k \in DOMAIN vs |-> Producer(g.nodes, vs[k])]
        Forward(i) ==
            Each(Producers(Block(i)), ComputeForward)
            \o Each(InOrder(Forgets(i)), ForgetForward)
        Backward(i) ==
            Each(Producers(Among(Block(i), Forgets(i))), ComputeForward)
            \o Each(Producers(Reverse(Block(i))), ComputeBackward)
    IN  FlattenSeq([i \in 1..len |-> Forward(i)])
        \o FlattenSeq([i \in 1..len |-> Backward(len + 1 - i)])
=============================================================================
