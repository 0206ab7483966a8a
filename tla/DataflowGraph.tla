--------------------------- MODULE DataflowGraph ---------------------------
(***************************************************************************)
(* A graph as the scheduler sees it (compiler/graph.cc, node.cc, value.cc):*)
(* nodes in no particular order, the values they read and compute, and the *)
(* size of every value.                                                    *)
(*                                                                         *)
(* A graph is a record: `nodes` is the set of its nodes; `ins[n]` and      *)
(* `outs[n]` are the sequences n->inputs() and n->outputs() of values in   *)
(* `values`; `bytes[v]` is v->GetNBytes(), negative when unknown; `relus`  *)
(* are the nodes of type Relu.  Null stands for the value with an empty    *)
(* name.  Graph::Construct makes one Value of that name per graph, so its  *)
(* producer(), kept in `nullProducer`, is the last node with an unwanted   *)
(* output, whoever passes it as an unused input.                           *)
(***************************************************************************)
EXTENDS Integers, Sequences, FiniteSets
LOCAL INSTANCE FiniteSetsExt

CONSTANTS Null,     \* the value with an empty name
          NoNode    \* what producer() returns for a value nobody computes

Elements(s) == {s[j] : j \in 1..Len(s)}

\* v->producer() = n.
Produces(g, n, v) ==
    IF v = Null THEN n = g.nullProducer ELSE v \in Elements(g.outs[n])

\* The inputs GetNumActualInputs counts, by position.
ActualInputs(g, n) == {j \in 1..Len(g.ins[n]) : g.ins[n][j] # Null}

\* v->users(), each user as often as it reads v: <<node, input number>>.
Uses(g, v) ==
    UNION {{n} \X {j \in 1..Len(g.ins[n]) : g.ins[n][j] = v} : n \in g.nodes}

\* S holds the producers of the outputs, the nodes without results and,
\* with a node, the producers of its inputs.
IsNecessarySet(g, outputs, S) ==
    \A n \in g.nodes :
        \/ \E v \in outputs : Produces(g, n, v)
        \/ g.outs[n] = << >>
        \/ \E m \in S : \E v \in Elements(g.ins[m]) : Produces(g, n, v)
        => n \in S

\* The keys of GetNecessaryNodesAndInputCounts: the least such set.
NecessaryNodes(g, outputs) ==
    {n \in g.nodes : \A S \in SUBSET g.nodes :
                         IsNecessarySet(g, outputs, S) => n \in S}

\* EstimateMemoryIncrease: the results' bytes less each input's bytes shared
\* among its users; zero as soon as one size is unknown.
EstimateMemoryIncrease(g, n) ==
    LET In(j)  == g.bytes[g.ins[n][j]] \div Cardinality(Uses(g, g.ins[n][j]))
        Out(j) == g.bytes[g.outs[n][j]]
        known  == \A v \in Elements(g.ins[n]) \cup Elements(g.outs[n]) :
                      g.bytes[v] >= 0
    IN  IF known
        THEN   MapThenSumSet(Out, 1..Len(g.outs[n]))
             - MapThenSumSet(In, 1..Len(g.ins[n]))
        ELSE 0

ReluPenalty == 1000 * 1000 * 1000

Cost(g, n) ==
    EstimateMemoryIncrease(g, n) + (IF n \in g.relus THEN ReluPenalty ELSE 0)

\* The lists the graph keeps agree, and every value is computed once.
IsGraph(g) ==
    /\ IsFiniteSet(g.nodes)
    /\ NoNode \notin g.nodes
    /\ g.ins \in [g.nodes -> Seq(g.values)]
    /\ g.outs \in [g.nodes -> Seq(g.values)]
    /\ \A n, m \in g.nodes :
          \A i \in 1..Len(g.outs[n]), k \in 1..Len(g.outs[m]) :
              g.outs[n][i] = g.outs[m][k] =>
                  g.outs[n][i] = Null \/ (n = m /\ i = k)
=============================================================================
