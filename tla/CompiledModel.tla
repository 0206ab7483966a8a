--------------------------- MODULE CompiledModel ---------------------------
(***************************************************************************)
(* A model from graph to results: the program ChxVMEmitter makes of the    *)
(* graph, run by ChxVM on the caller's inputs.  The properties say that    *)
(* emitter and machine together compute what the graph means, and how they *)
(* treat variables and the caller's data on the way.                       *)
(***************************************************************************)
EXTENDS ChxVMCode

CONSTANT Models     \* [graph, args]: a graph and the values of its inputs

Compiler == INSTANCE ChxVMEmitter

VARIABLE model

vars == <<model, machineVars>>

\* The caller's InOuts: input i, if a sequence, is number Position(args, i)
\* of the sequences the caller shares with the machine.
IsSequenceArg(arg)  == Compiler!KindOf(arg) = "sequence"
Position(args, i)   == Cardinality({k \in 1..i : IsSequenceArg(args[k])})

CallerVars(g, args) ==
    [v \in {g.inputs[i] : i \in DOMAIN g.inputs} |->
        LET i == CHOOSE k \in DOMAIN g.inputs : g.inputs[k] = v
        IN  IF IsSequenceArg(args[i]) THEN SequenceVar(Position(args, i))
                                      ELSE args[i]]

CallerSequences(args) ==
    LET given == SelectSeq(args, IsSequenceArg)
    IN  [k \in DOMAIN given |-> Compiler!ContentOf(given[k])]

\* Compile and prepare; Prepare also resets the machine.
Init ==
    /\ model \in Models
    /\ lent = CallerSequences(model.args)
    /\ Prepare(Compiler!EmitModel(model.graph),
               CallerVars(model.graph, model.args), lent)

\* The run is over: ChxVM::Run returns the outputs.
Returned == Halted /\ UNCHANGED vars

Next == (MachineNext /\ UNCHANGED model) \/ Returned

\* ChxVM::Run is a loop of one thread: it goes on while it can.
Spec == Init /\ [][Next]_vars /\ WF_vars(Next)
-----------------------------------------------------------------------------
(* Properties.                                                             *)

Value(v) == IF IsSequence(v) THEN Compiler!SequenceOf(heap[v[2]]) ELSE v

\* A run returns what the graph computes: jumps go where they should, a loop
\* makes the right number of trips, in-place changes of sequences are not
\* seen by anyone else, and results leave the bodies of If and Loop.
ResultsAreRight ==
    Halted => LET expected == Compiler!Evaluate(model.graph, model.args)
              IN  /\ DOMAIN outputs = {model.graph.outputs[i] :
                                          i \in DOMAIN model.graph.outputs}
                  /\ \A i \in DOMAIN model.graph.outputs :
                        Value(outputs[model.graph.outputs[i]]) = expected[i]

\* What the compiler emits is verified code: in no order of branches taken
\* and trips made can it read an unset variable, set one that is set, leave
\* one set at the end, or change a sequence of the caller's.
RunsVerifiedCode == MachineSpec

\* Every run gets to the end of its program.
RunsToTheEnd == <>Halted
=============================================================================
