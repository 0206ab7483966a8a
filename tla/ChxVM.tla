------------------------------- MODULE ChxVM -------------------------------
(***************************************************************************)
(* The virtual machine that runs a compiled model (runtime/chxvm.cc,       *)
(* chxvm_state.cc, ops/): a program counter, an array of variables that    *)
(* are set and reset explicitly, and sequences on the heap.  A ChxVMVar    *)
(* that holds a sequence holds a shared_ptr to it (chxvm_var.cc), so       *)
(* copying the variable shares the sequence.  None of the instructions     *)
(* here changes an array in place, so arrays are plain values.             *)
(*                                                                         *)
(* A failed CHECK, or the exception thrown for a value of the wrong kind,  *)
(* ends the run: the machine stops with `failed` set.                      *)
(***************************************************************************)
EXTENDS Integers, Sequences, FiniteSets, TLC

VARIABLES
    program,    \* the instructions, [op, outs, ins, imm]
    pc,         \* the next instruction, counted from 1
    slots,      \* variables_: the variables that are set, with their values
    heap,       \* the contents of the sequences created so far
    inputs,     \* inputs_: the model inputs In has not taken yet
    outputs,    \* outputs_
    failed

vmVars == <<program, pc, slots, heap, inputs, outputs, failed>>

\* What a variable may hold: <<"array", numbers>>, <<"sequence", index in
\* heap>> or <<"null", <<>>>>.  An array of one number serves as a scalar.
NullVar       == <<"null", <<>>>>
ArrayVar(xs)  == <<"array", xs>>
SequenceVar(r) == <<"sequence", r>>

IsNull(v)     == v[1] = "null"
IsArray(v)    == v[1] = "array"
IsSequence(v) == v[1] = "sequence"

\* ChxVM::Prepare: `vars` are the caller's model inputs, `contents` the
\* sequences they share with the machine.
Prepare(code, vars, contents) ==
    /\ program = code
    /\ pc = 1
    /\ slots = <<>>
    /\ heap = contents
    /\ inputs = vars
    /\ outputs = <<>>
    /\ failed = FALSE

Halted == pc > Len(program)

\* The instruction about to run, its operands and the states it may reach.
Running(op) == ~Halted /\ ~failed /\ program[pc].op = op

Dest     == program[pc].outs[1]
Source   == program[pc].ins[1]
Operands == [i \in DOMAIN program[pc].ins |-> slots[program[pc].ins[i]]]
Imm      == program[pc].imm

IsSet(x)    == x \in DOMAIN slots
ReadsAreSet == \A i \in DOMAIN program[pc].ins : IsSet(program[pc].ins[i])

With(f, x, v) == [y \in DOMAIN f \cup {x} |-> IF y = x THEN v ELSE f[y]]
Without(f, x) == [y \in DOMAIN f \ {x} |-> f[y]]

Bound(x, v) == With(slots, x, v)
Contents(v) == heap[v[2]]

Abort ==
    /\ failed' = TRUE
    /\ UNCHANGED <<program, pc, slots, heap, inputs, outputs>>

\* A step that changes variables and sequences if the CHECKs hold.
Perform(checks, newSlots, newHeap) ==
    \/ ~checks /\ Abort
    \/ /\ checks
       /\ slots' = newSlots
       /\ heap' = newHeap
       /\ pc' = pc + 1
       /\ UNCHANGED <<program, inputs, outputs, failed>>

\* ChxVMState::SetVar, SetArray, SetScalar.
SetVar(checks, v) == Perform(checks /\ ~IsSet(Dest), Bound(Dest, v), heap)

\* ChxVMState::CreateSequence: whatever the variable held is replaced.
CreateSequence(checks, contents) ==
    Perform(checks, Bound(Dest, SequenceVar(Len(heap) + 1)),
            Append(heap, contents))

\* The generated wrapper of a typed instruction: with a null operand the
\* instruction is skipped and its results are null.
Skipped == ReadsAreSet /\ \E i \in DOMAIN Operands : IsNull(Operands[i])
SkipOr(Act) == IF Skipped THEN SetVar(TRUE, NullVar) ELSE Act
-----------------------------------------------------------------------------
(* Instructions that move variables about.                                 *)

In ==
    /\ Running("In")
    /\ IF Dest \in DOMAIN inputs /\ ~IsSet(Dest)
       THEN /\ slots' = Bound(Dest, inputs[Dest])
            /\ inputs' = Without(inputs, Dest)
            /\ pc' = pc + 1
            /\ UNCHANGED <<program, heap, outputs, failed>>
       ELSE Abort

Out ==
    /\ Running("Out")
    /\ IF IsSet(Source) /\ Source \notin DOMAIN outputs
       THEN /\ outputs' = With(outputs, Source, slots[Source])
            /\ pc' = pc + 1
            /\ UNCHANGED <<program, slots, heap, inputs, failed>>
       ELSE Abort

Free ==
    /\ Running("Free")
    /\ Perform(ReadsAreSet, Without(slots, Source), heap)

Identity == Running("Identity") /\ SetVar(ReadsAreSet, slots[Source])

NullConstant == Running("NullConstant") /\ SetVar(TRUE, NullVar)

\* IntScalarConstant and IntConstant.
SetConstant ==
    /\ Running("IntScalarConstant") \/ Running("IntConstant")
    /\ SetVar(TRUE, ArrayVar(Imm))
-----------------------------------------------------------------------------
(* Arithmetic and control flow.                                            *)

ArraysGiven == ReadsAreSet /\ \A i \in DOMAIN Operands : IsArray(Operands[i])

\* chainerx broadcasts a single number; other sizes have to agree.
Size(k)  == Len(Operands[k][2])
Fitting  == Size(1) = Size(2) \/ Size(1) = 1 \/ Size(2) = 1
At(k, i) == Operands[k][2][IF Size(k) = 1 THEN 1 ELSE i]

Elementwise(Op(_, _)) ==
    SkipOr(SetVar(ArraysGiven /\ Fitting,
                  ArrayVar([i \in 1..(IF Size(1) = 1 THEN Size(2) ELSE Size(1)) |->
                               Op(At(1, i), At(2, i))])))

Add     == Running("Add") /\ Elementwise(LAMBDA x, y : x + y)
Mul     == Running("Mul") /\ Elementwise(LAMBDA x, y : x * y)
Greater == Running("Greater") /\ Elementwise(LAMBDA x, y : IF x > y THEN 1 ELSE 0)

GoTo(checks, target) ==
    \/ ~checks /\ Abort
    \/ /\ checks
       /\ pc' = target
       /\ UNCHANGED <<program, slots, heap, inputs, outputs, failed>>

Jmp == Running("Jmp") /\ GoTo(TRUE, Imm[1])

\* A condition is a scalar, not a typed operand: null is not skipped.
ScalarGiven == ArraysGiven /\ Size(1) = 1

JmpTrue ==
    /\ Running("JmpTrue")
    /\ GoTo(ScalarGiven, IF At(1, 1) # 0 THEN Imm[1] ELSE pc + 1)

JmpFalse ==
    /\ Running("JmpFalse")
    /\ GoTo(ScalarGiven, IF At(1, 1) = 0 THEN Imm[1] ELSE pc + 1)
-----------------------------------------------------------------------------
(* Sequences.                                                              *)

SequenceGiven == ReadsAreSet /\ IsSequence(Operands[1])

SequenceCreate ==
    Running("SequenceCreate") /\ CreateSequence(ArraysGiven, Operands)

SequenceSize ==
    /\ Running("SequenceSize")
    /\ SkipOr(SetVar(SequenceGiven, ArrayVar(<<Len(Contents(Operands[1]))>>)))

\* Mutation of SequenceCopy: the new variable shares the sequence.
SequenceCopySharing ==
    /\ Running("SequenceCopy")
    /\ SkipOr(SetVar(SequenceGiven, Operands[1]))

SequenceCopy ==
    /\ Running("SequenceCopy")
    /\ SkipOr(CreateSequence(SequenceGiven, Contents(Operands[1])))

\* chainerx::Stack of the sequence's arrays, one row after the other; it
\* rejects an empty list and arrays of different sizes.
Rows == Contents(Operands[1])
Width == Len(Rows[1][2])

Stackable ==
    /\ Rows # <<>>
    /\ \A k \in DOMAIN Rows : IsArray(Rows[k]) /\ Len(Rows[k][2]) = Width

SequenceStack ==
    /\ Running("SequenceStack")
    /\ SkipOr(SetVar(SequenceGiven /\ Stackable,
                     ArrayVar([i \in 1..(Len(Rows) * Width) |->
                        Rows[1 + ((i - 1) \div Width)][2][1 + ((i - 1) % Width)]])))

\* Changes the first operand's sequence, for every variable that shares it.
SequenceAppend ==
    /\ Running("SequenceAppend")
    /\ Perform(SequenceGiven, slots,
               [heap EXCEPT ![Operands[1][2]] = Append(@, Operands[2])])

SequencePop ==
    /\ Running("SequencePop")
    /\ IF ReadsAreSet /\ IsNull(Operands[1])
       THEN SetVar(TRUE, NullVar)
       ELSE LET s == Contents(Operands[1])
            IN  Perform(SequenceGiven /\ s # <<>> /\ ~IsSet(Dest),
                        Bound(Dest, s[Len(s)]),
                        [heap EXCEPT ![Operands[1][2]] = SubSeq(s, 1, Len(s) - 1)])

\* The new sequence takes the contents; the old one, and every variable that
\* shares it, is left with none.
SequenceMove ==
    /\ Running("SequenceMove")
    /\ IF ReadsAreSet /\ IsNull(Operands[1])
       THEN SetVar(TRUE, NullVar)
       ELSE Perform(SequenceGiven,
                    Bound(Dest, SequenceVar(Len(heap) + 1)),
                    Append([heap EXCEPT ![Operands[1][2]] = <<>>],
                           Contents(Operands[1])))
-----------------------------------------------------------------------------
Execute ==
    \/ In \/ Out \/ Free \/ Identity \/ NullConstant \/ SetConstant
    \/ Add \/ Mul \/ Greater
    \/ Jmp \/ JmpTrue \/ JmpFalse
    \/ SequenceCreate \/ SequenceSize \/ SequenceCopy \/ SequenceStack
    \/ SequenceAppend \/ SequencePop \/ SequenceMove
=============================================================================
