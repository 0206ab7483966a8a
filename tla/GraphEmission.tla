--------------------------- MODULE GraphEmission ---------------------------
(***************************************************************************)
(* ChxVMEmitter::EmitGraph (compiler/chxvm/emitter.cc): one pass over the  *)
(* scheduled nodes of a graph emits, for each node, the In instructions of *)
(* the graph inputs it is the first to read, the node's own instructions,  *)
(* and Free instructions for the values nobody reads any more.  A model's  *)
(* main graph is emitted with in_loop false; the body of an If, a Loop or  *)
(* a fusion group with in_loop true, its inputs being set up and freed by  *)
(* the caller.                                                             *)
(*                                                                         *)
(* What is emitted is straight-line code, and every value has a variable   *)
(* of its own (ValueIdManager), so the module keeps the set of variables   *)
(* that hold a value after the code emitted so far has run, and whether a  *)
(* CHECK of ChxVMState would have aborted it.                              *)
(***************************************************************************)
EXTENDS Naturals, Integers, Sequences, FiniteSets

CONSTANT Graphs     \* the graphs that may be emitted

\* A graph is a record: `inputs`, `temps` and `outputs` are its values by
\* kind; `nodes` is GetComputationSequence(), each node with the sequence
\* `ins` of the values it reads and the set `outs` of those it computes;
\* `users[v]` is v->users().size().  Null values have no variable and are
\* left out.
Values(g) == g.inputs \cup g.temps \cup g.outputs

Order(g) == 1..Len(g.nodes)

InputsOf(node) == {node.ins[j] : j \in 1..Len(node.ins)}

\* The places where the nodes of g read v: <<node, input number>>.
Uses(g, v) ==
    UNION {{i} \X {j \in 1..Len(g.nodes[i].ins) : g.nodes[i].ins[j] = v} :
              i \in Order(g)}

\* Mutation of Occurrences: the loop is over the distinct inputs.
OccursAtAll(node, v) == IF v \in InputsOf(node) THEN 1 ELSE 0

\* How often the loop over node->inputs() meets v.
Occurrences(node, v) == Cardinality({j \in 1..Len(node.ins) : node.ins[j] = v})

\* A graph the scheduler hands over: kinds are exclusive, a value is computed
\* at most once and before it is read, every output is computed, and the
\* user lists agree with the inputs of the scheduled nodes.
WellFormed(g) ==
    /\ g.inputs \cap g.temps = {}
    /\ g.inputs \cap g.outputs = {}
    /\ g.temps \cap g.outputs = {}
    /\ \A i \in Order(g) : g.nodes[i].outs \subseteq g.temps \cup g.outputs
    /\ \A i, k \in Order(g) :
          i # k => g.nodes[i].outs \cap g.nodes[k].outs = {}
    /\ \A i \in Order(g) : \A v \in InputsOf(g.nodes[i]) :
          \/ v \in g.inputs
          \/ \E k \in 1..(i - 1) : v \in g.nodes[k].outs
    /\ \A v \in g.outputs : \E i \in Order(g) : v \in g.nodes[i].outs
    /\ \A v \in Values(g) : g.users[v] = Cardinality(Uses(g, v))

IsGraph(g) ==
    /\ g.nodes \in Seq([ins : Seq(Values(g)), outs : SUBSET Values(g)])
    /\ g.users \in [Values(g) -> Nat]

ASSUME GraphsAssumption == \A g \in Graphs : IsGraph(g) /\ WellFormed(g)

VARIABLES
    graph, inLoop,  \* the arguments of EmitGraph
    next,           \* the node of the loop's next iteration
    numUsers,       \* num_users
    staged,         \* staged_inputs
    todoOutputs,    \* todo_outputs
    live,           \* values whose variable is set
    fault,          \* a CHECK of ChxVMState has failed
    finished        \* the caller has taken the outputs

vars == <<graph, inLoop, next, numUsers, staged, todoOutputs, live, fault,
          finished>>

Counted(g, in_loop) == IF in_loop THEN g.temps ELSE g.inputs \cup g.temps

\* Mutation of UserCounts: a node that reads a value twice counts once.
UserCountsOfNodes(g, in_loop) ==
    [v \in Counted(g, in_loop) |-> Cardinality({u[1] : u \in Uses(g, v)})]

UserCounts(g, in_loop) == [v \in Counted(g, in_loop) |-> g.users[v]]

\* In a main graph no variable is set.  The caller of a body has set its
\* inputs, from those of the node (and from the loop's counter).
Init ==
    /\ graph \in Graphs
    /\ inLoop \in BOOLEAN
    /\ next = 1
    /\ numUsers = UserCounts(graph, inLoop)
    /\ staged = {}
    /\ todoOutputs = graph.outputs
    /\ live = IF inLoop THEN graph.inputs ELSE {}
    /\ fault = FALSE
    /\ finished = FALSE
-----------------------------------------------------------------------------
\* Mutation of Staging: IsInput() is not consulted.
StagingAnyKind(node) == IF inLoop THEN {} ELSE InputsOf(node) \ staged

\* The inputs for which this node makes the emitter add an In instruction.
Staging(node) ==
    IF inLoop THEN {} ELSE (InputsOf(node) \cap graph.inputs) \ staged

\* Mutation of FreedOutputs: results nobody reads are forgotten.
NoFreedOutputs(node) == {v \in node.outs : FALSE}

\* Outputs freed right after the node: temporary, and nobody reads them.
FreedOutputs(node) ==
    {v \in (node.outs \ todoOutputs) \cap graph.temps : graph.users[v] = 0}

\* Mutation of FreedInputs: the count is compared before it is decremented.
FreedInputsLate(node) ==
    {v \in InputsOf(node) \cap DOMAIN numUsers : numUsers[v] = 0}

\* Inputs freed after the node: `--found->second == 0` at one of them.
FreedInputs(node) ==
    {v \in InputsOf(node) \cap DOMAIN numUsers :
        numUsers[v] \in 1..Occurrences(node, v)}

\* One iteration of the loop over the nodes.  The instructions it emits are
\* In*, the node's, Free*; ChxVMState checks that In and the node set only
\* unset variables and that the node and Free find theirs set.
EmitNode ==
    /\ next <= Len(graph.nodes)
    /\ LET node  == graph.nodes[next]
           ready == live \cup Staging(node)
           freed == FreedOutputs(node) \cup FreedInputs(node)
       IN  /\ fault' = \/ fault
                       \/ Staging(node) \cap live # {}
                       \/ ~(InputsOf(node) \subseteq ready)
                       \/ node.outs \cap ready # {}
                       \/ FreedOutputs(node) \cap FreedInputs(node) # {}
                       \/ ~(freed \subseteq ready \cup node.outs)
           /\ live' = (ready \cup node.outs) \ freed
           /\ staged' = staged \cup Staging(node)
           /\ todoOutputs' = todoOutputs \ node.outs
           /\ numUsers' = [v \in DOMAIN numUsers |->
                              numUsers[v] - Occurrences(node, v)]
    /\ next' = next + 1
    /\ UNCHANGED <<graph, inLoop, finished>>

\* The outputs are read and freed: by Out and Free (EmitOutputs) for a main
\* graph, by Identity and Free (MOVE) for a body, whose inputs are freed too.
TakeOutputs ==
    LET taken == graph.outputs \cup (IF inLoop THEN graph.inputs ELSE {})
    IN  /\ next = Len(graph.nodes) + 1
        /\ ~finished
        /\ fault' = (fault \/ ~(taken \subseteq live))
        /\ live' = live \ taken
        /\ finished' = TRUE
        /\ UNCHANGED <<graph, inLoop, next, numUsers, staged, todoOutputs>>

Finished == finished /\ UNCHANGED vars

Next == EmitNode \/ TakeOutputs \/ Finished

Spec == Init /\ [][Next]_vars
-----------------------------------------------------------------------------
(* Properties.                                                             *)

TypeOK ==
    /\ inLoop \in BOOLEAN
    /\ next \in 1..(Len(graph.nodes) + 1)
    /\ numUsers \in [Counted(graph, inLoop) -> Int]
    /\ staged \subseteq graph.inputs
    /\ todoOutputs \subseteq graph.outputs
    /\ live \subseteq Values(graph)
    /\ fault \in BOOLEAN
    /\ finished \in BOOLEAN

\* The values read from node k on.
UsesFrom(g, k, v) == {u \in Uses(g, v) : u[1] >= k}

Computed(v) == \E i \in 1..(next - 1) : v \in graph.nodes[i].outs

\* The code never reads or frees an unset variable and never sets one twice,
\* whatever the sharing of values between the nodes' inputs, and whether or
\* not a node's results are read (ChxVMState's CHECKs never fire).
SlotDiscipline == ~fault

\* Between two nodes exactly the values that will still be read hold memory:
\* none is dropped before its last reader, none is kept after it, an output
\* is kept although its readers are done, and an input is brought in no
\* earlier than its first reader.
Needed(v) ==
    \/ v \in graph.outputs
    \/ UsesFrom(graph, next, v) # {}
    \/ inLoop /\ v \in graph.inputs

Available(v) ==
    \/ Computed(v)
    \/ v \in graph.inputs /\ (inLoop \/ v \in staged)

LiveIsNeeded ==
    ~finished => live = {v \in Values(graph) : Available(v) /\ Needed(v)}

\* Once the outputs have been taken no variable holds a value: in a Loop the
\* body runs again, and a variable left set would abort the second trip.
NothingLeaks == finished => live = {}

\* num_users counts the reads that are still to come.
CountsAreRemainingUses ==
    \A v \in DOMAIN numUsers :
        numUsers[v] = Cardinality(UsesFrom(graph, next, v))
=============================================================================
