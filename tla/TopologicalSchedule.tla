------------------------ MODULE TopologicalSchedule ------------------------
(***************************************************************************)
(* What a scheduler promises: nodes are put in a sequence, each at most    *)
(* once and only after the nodes that compute its inputs; what has been    *)
(* put in the sequence stays there.  There are no counts, queues or sizes. *)
(***************************************************************************)
EXTENDS DataflowGraph

VARIABLES dataflow,     \* the graph
          given,        \* values the callers have said to be inputs
          sequence      \* the nodes scheduled so far

topoVars == <<dataflow, given, sequence>>

TopoInit == given = {} /\ sequence = << >>

Available(v) ==
    \/ v \in given
    \/ \E n \in Elements(sequence) : v \in Elements(dataflow.outs[n])

Give ==
    /\ given \subseteq given'
    /\ UNCHANGED <<dataflow, sequence>>

Put(n) ==
    /\ n \notin Elements(sequence)
    /\ \A j \in ActualInputs(dataflow, n) : Available(dataflow.ins[n][j])
    /\ sequence' = Append(sequence, n)
    /\ UNCHANGED <<dataflow, given>>

TopoNext == Give \/ \E n \in dataflow.nodes : Put(n)

TopoSpec == TopoInit /\ [][TopoNext]_topoVars
=============================================================================
