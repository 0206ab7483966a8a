---------------------------- MODULE ChxVMEmitter ----------------------------
(***************************************************************************)
(* ChxVMEmitter (compiler/chxvm/emitter.cc, simple_node_emitter.cc): the   *)
(* ChxVM program of a scheduled graph.  Every Emit operator takes the      *)
(* program emitted so far, `prog`, and returns it extended, because jumps  *)
(* are absolute.                                                           *)
(*                                                                         *)
(* An instruction is [op, outs, ins, imm]: the variables it sets, those it *)
(* reads, and its immediate numbers.  A value's variable is called by the  *)
(* value's name; the variables of AssignNextId() by their node's name and  *)
(* a suffix.                                                               *)
(***************************************************************************)
EXTENDS ComputationGraph
LOCAL INSTANCE SequencesExt
LOCAL INSTANCE Functions

Instruction(op, outs, ins, imm) ==
    <<[op |-> op, outs |-> outs, ins |-> ins, imm |-> imm]>>

Free(v)        == Instruction("Free", <<>>, <<v>>, <<>>)
Copy(to, from) == Instruction("Identity", <<to>>, <<from>>, <<>>)
IntScalar(v, n) == Instruction("IntScalarConstant", <<v>>, <<>>, <<n>>)
Jump(op, ins)  == Instruction(op, <<>>, ins, <<0>>)     \* target still unknown

\* The macro MOVE.
Move(to, from) == Copy(to, from) \o Free(from)

ForEach(s, Emit(_)) == FlattenSeq([i \in DOMAIN s |-> Emit(s[i])])

Temporary(node, suffix) == node.name \o "#" \o suffix
-----------------------------------------------------------------------------
(* Nodes without a body.                                                   *)

EmitConstantSequence(node) ==
    LET id(i) == Temporary(node, ToString(i))
    IN  FlattenSeq([i \in DOMAIN node.values |-> IntScalar(id(i), node.values[i])])
        \o Instruction("SequenceCreate", node.outs, <<>>, <<>>)
        \o FlattenSeq([i \in DOMAIN node.values |->
               Instruction("SequenceAppend", <<>>, <<node.outs[1], id(i)>>, <<>>)
               \o Free(id(i))])

\* Mutation of TakeSequence: the optimisation is not limited to sole readers.
TakeSequenceAlways(g, to, from) ==
    Instruction("SequenceMove", <<to>>, <<from>>, <<>>)

\* A container to be changed in place: the reader's own if it is the only one.
TakeSequence(g, to, from) ==
    Instruction(IF Users(g, from) = 1 THEN "SequenceMove" ELSE "SequenceCopy",
                <<to>>, <<from>>, <<>>)

EmitSimpleNode(g, node) ==
    LET in(i)  == node.ins[i]
        out(i) == node.outs[i]
        same(op) == Instruction(op, node.outs, node.ins, <<>>)
    IN  CASE node.op = "Constant" ->
                Instruction("IntConstant", node.outs, <<>>, node.values)
          [] node.op = "ChainerSequenceConstants" -> EmitConstantSequence(node)
          [] node.op = "SequenceInsert" ->
                TakeSequence(g, out(1), in(1))
                \o Instruction("SequenceAppend", <<>>, <<out(1), in(2)>>, <<>>)
          [] node.op = "ChainerSequencePop" ->
                TakeSequence(g, out(1), in(1))
                \o Instruction("SequencePop", <<out(2)>>, <<out(1)>>, <<>>)
          [] node.op = "SequenceConstruct" -> same("SequenceCreate")
          [] node.op = "SequenceLength" -> same("SequenceSize")
          [] node.op = "ConcatFromSequence" -> same("SequenceStack")
          [] OTHER -> same(node.op)     \* Identity, Add, Greater
-----------------------------------------------------------------------------
(* Graphs and nodes with bodies.                                           *)

RECURSIVE EmitGraph(_, _, _), EmitNode(_, _, _)

\* The values of `outs` move out of a body whose variable may be null.
DeliverOutputs(outs, body) ==
    FlattenSeq([i \in DOMAIN outs |->
        IF body.outputs[i] = None
        THEN Instruction("NullConstant", <<outs[i]>>, <<>>, <<>>)
        ELSE Move(outs[i], body.outputs[i])])

\* Mutation of EmitBody: the body's inputs are left set.
EmitBodyKeepingInputs(body, args, outs, prog) ==
    EmitGraph(body, TRUE,
              prog \o FlattenSeq([i \in DOMAIN args |->
                                     Copy(body.inputs[i], args[i])]))
    \o DeliverOutputs(outs, body)

\* A branch of an If, or a fusion group: bind, run, unbind, deliver.
EmitBody(body, args, outs, prog) ==
    EmitGraph(body, TRUE,
              prog \o FlattenSeq([i \in DOMAIN args |->
                                     Copy(body.inputs[i], args[i])]))
    \o ForEach(body.inputs, Free)
    \o DeliverOutputs(outs, body)

\* Mutation of EmitIf: the Jmp after the else branch is not patched.
EmitIfUnpatched(node, prog) ==
    LET branch   == Len(prog) + 1
        elseCode == EmitBody(node.bodies[2], Tail(node.ins), node.outs,
                             prog \o Jump("JmpTrue", <<node.ins[1]>>))
        done     == Len(elseCode) + 1
    IN  [EmitBody(node.bodies[1], Tail(node.ins), node.outs,
                  elseCode \o Jump("Jmp", <<>>))
            EXCEPT ![branch].imm = <<done + 1>>]

\* Mutation of EmitIf: it jumps to where the then branch begins.
EmitIfFallingThrough(node, prog) ==
    LET branch   == Len(prog) + 1
        elseCode == EmitBody(node.bodies[2], Tail(node.ins), node.outs,
                             prog \o Jump("JmpTrue", <<node.ins[1]>>))
        done     == Len(elseCode) + 1
    IN  [EmitBody(node.bodies[1], Tail(node.ins), node.outs,
                  elseCode \o Jump("Jmp", <<>>))
            EXCEPT ![branch].imm = <<done + 1>>, ![done].imm = <<done + 1>>]

\* The else branch comes first.
EmitIf(node, prog) ==
    LET branch   == Len(prog) + 1
        elseCode == EmitBody(node.bodies[2], Tail(node.ins), node.outs,
                             prog \o Jump("JmpTrue", <<node.ins[1]>>))
        done     == Len(elseCode) + 1
        thenCode == EmitBody(node.bodies[1], Tail(node.ins), node.outs,
                             elseCode \o Jump("Jmp", <<>>))
    IN  [thenCode EXCEPT ![branch].imm = <<done + 1>>,
                         ![done].imm   = <<Len(thenCode) + 1>>]
-----------------------------------------------------------------------------
(* EmitLoopImpl, part by part.                                             *)

Trips(loop)     == loop.ins[1]
Condition(loop) == loop.ins[2]
NumStates(loop) == Len(loop.ins) - 2
NumScans(loop)  == Len(loop.outs) - NumStates(loop)

IterOf(loop)    == loop.bodies[1].inputs[1]
CondOf(loop)    == loop.bodies[1].inputs[2]
ScanOf(loop, k) == Temporary(loop, "scan" \o ToString(k))
SkipOf(loop)    == Temporary(loop, IF Condition(loop) = None THEN "skip" ELSE "start")

\* Loop variables, scan sequences and the test for running at all.
EnterLoop(loop) ==
    LET body == loop.bodies[1]
        zero == Temporary(loop, "zero")
        skip == Temporary(loop, "skip")
    IN  IntScalar(IterOf(loop), 0)
        \o IntScalar(CondOf(loop), 1)
        \o FlattenSeq([i \in 1..NumStates(loop) |->
               Copy(body.inputs[i + 2], loop.ins[i + 2])])
        \o FlattenSeq([k \in 1..NumScans(loop) |->
               Instruction("SequenceCreate", <<ScanOf(loop, k)>>, <<>>, <<>>)])
        \o (IF Trips(loop) = None THEN <<>>
            ELSE IntScalar(zero, 0)
                 \o Instruction("Greater", <<skip>>, <<Trips(loop), zero>>, <<>>)
                 \o Free(zero))
        \o (IF Condition(loop) = None THEN <<>>
            ELSE IF Trips(loop) = None
            THEN Copy(SkipOf(loop), Condition(loop))
            ELSE Instruction("Mul", <<SkipOf(loop)>>, <<skip, Condition(loop)>>, <<>>)
                 \o Free(skip))
        \o Jump("JmpFalse", <<SkipOf(loop)>>)

\* After a trip: the counter, the condition, the states, the scans.
AdvanceLoop(loop) ==
    LET body == loop.bodies[1]
        one  == Temporary(loop, "one")
        next == Temporary(loop, "next")
    IN  IntScalar(one, 1)
        \o Instruction("Add", <<next>>, <<IterOf(loop), one>>, <<>>)
        \o Free(one)
        \o ForEach(body.inputs, Free)
        \o Move(IterOf(loop), next)
        \o Move(CondOf(loop), body.outputs[1])
        \o FlattenSeq([i \in 1..NumStates(loop) |->
               IF body.outputs[i + 1] = None
               THEN Instruction("NullConstant", <<body.inputs[i + 2]>>, <<>>, <<>>)
               ELSE Move(body.inputs[i + 2], body.outputs[i + 1])])
        \o FlattenSeq([k \in 1..NumScans(loop) |->
               LET scanned == body.outputs[NumStates(loop) + 1 + k]
               IN  Instruction("SequenceAppend", <<>>,
                               <<ScanOf(loop, k), scanned>>, <<>>)
                   \o Free(scanned)])

\* Whether to make another trip: the condition's variable is made to say so.
TestLoop(loop) ==
    LET next == Temporary(loop, "next")
        both == Temporary(loop, "both")
    IN  CASE Condition(loop) = None ->
                Free(CondOf(loop))
                \o Instruction("Greater", <<CondOf(loop)>>,
                               <<Trips(loop), IterOf(loop)>>, <<>>)
          [] Condition(loop) # None /\ Trips(loop) # None ->
                Instruction("Greater", <<next>>, <<Trips(loop), IterOf(loop)>>, <<>>)
                \o Instruction("Mul", <<both>>, <<CondOf(loop), next>>, <<>>)
                \o Free(CondOf(loop))
                \o Move(CondOf(loop), both)
                \o Free(next)
          [] OTHER -> <<>>

\* Mutation of LeaveLoop: the scan sequences are not freed.
LeaveLoopKeepingScans(loop) ==
    Free(SkipOf(loop))
    \o FlattenSeq([i \in 1..NumStates(loop) |->
           IF loop.outs[i] = None THEN Free(loop.bodies[1].inputs[i + 2])
           ELSE Move(loop.outs[i], loop.bodies[1].inputs[i + 2])])
    \o FlattenSeq([k \in 1..NumScans(loop) |->
           Instruction("SequenceStack", <<loop.outs[NumStates(loop) + k]>>,
                       <<ScanOf(loop, k)>>, <<>>)])
    \o Free(IterOf(loop))
    \o Free(CondOf(loop))

\* Final states, stacked scans, and the loop's own variables.
LeaveLoop(loop) ==
    Free(SkipOf(loop))
    \o FlattenSeq([i \in 1..NumStates(loop) |->
           IF loop.outs[i] = None THEN Free(loop.bodies[1].inputs[i + 2])
           ELSE Move(loop.outs[i], loop.bodies[1].inputs[i + 2])])
    \o FlattenSeq([k \in 1..NumScans(loop) |->
           Instruction("SequenceStack", <<loop.outs[NumStates(loop) + k]>>,
                       <<ScanOf(loop, k)>>, <<>>)
           \o Free(ScanOf(loop, k))])
    \o Free(IterOf(loop))
    \o Free(CondOf(loop))

EmitLoop(loop, prog) ==
    LET entered == prog \o EnterLoop(loop)
        begin   == Len(entered) + 1
        tested  == EmitGraph(loop.bodies[1], TRUE, entered)
                   \o AdvanceLoop(loop) \o TestLoop(loop)
        again   == Len(tested) + 1
        code    == tested \o Jump("JmpTrue", <<CondOf(loop)>>)
    IN  [code EXCEPT ![begin - 1].imm = <<again + 1>>,
                     ![again].imm     = <<begin>>]
        \o LeaveLoop(loop)
-----------------------------------------------------------------------------
EmitNode(g, node, prog) ==
    CASE node.op = "ChainerFusionGroup" ->
            EmitBody(node.bodies[1], node.ins, node.outs, prog)
      [] node.op = "If"   -> EmitIf(node, prog)
      [] node.op = "Loop" -> EmitLoop(node, prog)
      [] OTHER -> prog \o EmitSimpleNode(g, node)

\* Mutation of FreeAfter: results that nobody reads are forgotten.
FreeAfterReads(g, node, st) ==
    LET read(v, j) == Cardinality({k \in 1..j : node.ins[k] = v})
        last(j)  == /\ node.ins[j] \in DOMAIN st.numUsers
                    /\ st.numUsers[node.ins[j]] = read(node.ins[j], j)
    IN  FlattenSeq([j \in DOMAIN node.ins |->
            IF last(j) THEN Free(node.ins[j]) ELSE <<>>])

\* The Free instructions after a node: its unread temporary results, then
\* the inputs whose last reader it was.
FreeAfter(g, node, st) ==
    LET unread(v) == v \in Temps(g) /\ Users(g, v) = 0
        read(v, j) == Cardinality({k \in 1..j : node.ins[k] = v})
        last(j)   == /\ node.ins[j] \in DOMAIN st.numUsers
                     /\ st.numUsers[node.ins[j]] = read(node.ins[j], j)
    IN  ForEach(node.outs, LAMBDA v : IF unread(v) THEN Free(v) ELSE <<>>)
        \o FlattenSeq([j \in DOMAIN node.ins |->
               IF last(j) THEN Free(node.ins[j]) ELSE <<>>])

\* The In instructions before a node of the main graph.
StageInputs(g, node, st) ==
    FlattenSeq([j \in DOMAIN node.ins |->
        IF /\ node.ins[j] \in Range(g.inputs) \ st.staged
           /\ \A k \in 1..(j - 1) : node.ins[k] # node.ins[j]
        THEN Instruction("In", <<node.ins[j]>>, <<>>, <<>>)
        ELSE <<>>])

\* One pass over the nodes; GraphEmission studies its bookkeeping by itself.
EmitGraph(g, inLoop, prog) ==
    LET counted == Temps(g) \cup IF inLoop THEN {} ELSE Range(g.inputs)
        visit(st, node) ==
            LET staged == IF inLoop THEN <<>> ELSE StageInputs(g, node, st)
            IN  [prog     |-> EmitNode(g, node, st.prog \o staged)
                              \o FreeAfter(g, node, st),
                 staged   |-> st.staged \cup Range(node.ins),
                 numUsers |-> [v \in counted |-> st.numUsers[v]
                                 - Cardinality({j \in DOMAIN node.ins :
                                                   node.ins[j] = v})]]
    IN  FoldLeft(visit,
                 [prog |-> prog, staged |-> {},
                  numUsers |-> [v \in counted |-> Users(g, v)]],
                 g.nodes).prog

\* EmitOutputs: each output is handed over and its variable freed.
EmitOutputs(g) ==
    ForEach(g.outputs,
            LAMBDA v : Instruction("Out", <<>>, <<v>>, <<>>) \o Free(v))

EmitModel(g) == EmitGraph(g, FALSE, <<>>) \o EmitOutputs(g)
=============================================================================
