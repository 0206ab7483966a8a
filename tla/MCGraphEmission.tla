-------------------------- MODULE MCGraphEmission --------------------------
(***************************************************************************)
(* GraphEmission over every graph of three nodes with one input, at most   *)
(* two inputs and two results per node, results being temporary values or  *)
(* graph outputs, read many times, once or never, and twice by one node.   *)
(***************************************************************************)
EXTENDS GraphEmission, TLC

MaxInputs == 2      \* inputs of a node

\* A result's name tells its kind: "t.." is temporary, "o.." an output.
FirstResults  == {{"t1"}, {"o1"}, {"t1", "t1b"}, {"t1", "o1"}}
SecondResults == {{}, {"t2"}, {"o2"}, {"t2", "o2"}}
ThirdResults  == {{"o3"}}

Temps == {"t1", "t1b", "t2"}

Reads(available) == UNION {[1..n -> available] : n \in 0..MaxInputs}

NodesReading(available, results) ==
    {[ins |-> r, outs |-> o] : r \in Reads(available), o \in results}

Chains ==
    UNION {UNION {{<<n1, n2, n3>> :
        n3 \in NodesReading({"x"} \cup n1.outs \cup n2.outs, ThirdResults)} :
        n2 \in NodesReading({"x"} \cup n1.outs, SecondResults)} :
        n1 \in NodesReading({"x"}, FirstResults)}

GraphOf(nodes) ==
    LET results == UNION {nodes[i].outs : i \in 1..Len(nodes)}
        shell   == [inputs  |-> {"x"},
                    temps   |-> results \cap Temps,
                    outputs |-> results \ Temps,
                    nodes   |-> nodes]
    IN  shell @@ [users |-> [v \in {"x"} \cup results |->
                                 Cardinality(Uses(shell, v))]]

SmallGraphs == {GraphOf(nodes) : nodes \in Chains}
=============================================================================
