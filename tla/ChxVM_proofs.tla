---------------------------- MODULE ChxVM_proofs ----------------------------
(***************************************************************************)
(* Proofs about the machine with verified code: whatever the inputs, its   *)
(* state stays well formed, what is known of a place from the code alone   *)
(* is true whenever control gets there, and hence no variable is           *)
(* overwritten, none is left at the end and the caller's sequences are     *)
(* untouched.                                                              *)
(***************************************************************************)
EXTENDS ChxVMCode, TLAPS

\* The instruction at the program counter, and what is known there.
Current == program[pc]
Known   == KnownAt(program)[pc]

LEMMA VarsGrow ==
    ASSUME NEW n \in Nat, NEW m \in Nat, n <= m
    PROVE  Vars(n) \subseteq Vars(m)
BY DEF Vars

\* An array, a null and a new sequence are variables.
LEMMA VarsMade ==
    ASSUME NEW n \in Nat
    PROVE  /\ NullVar \in Vars(n)
           /\ \A xs \in Seq(Int) : ArrayVar(xs) \in Vars(n)
           /\ \A r \in 1..n : SequenceVar(r) \in Vars(n)
BY DEF Vars, NullVar, ArrayVar, SequenceVar

\* What the tag of a variable says of the rest.
LEMMA VarsRead ==
    ASSUME NEW n \in Nat, NEW v \in Vars(n)
    PROVE  /\ IsArray(v) => v[2] \in Seq(Int)
           /\ IsSequence(v) => v[2] \in 1..n /\ v = SequenceVar(v[2])
           /\ IsNull(v) => v = NullVar
BY DEF Vars, NullVar, SequenceVar, IsArray, IsSequence, IsNull

\* How many variables an instruction names.
LEMMA Shape ==
    ASSUME NEW c \in Instructions
    PROVE  /\ c.outs \in Seq(STRING) /\ c.ins \in Seq(STRING) /\ c.imm \in Seq(Int)
           /\ c.op \in {"In", "NullConstant", "IntScalarConstant", "IntConstant"}
                 => Len(c.outs) = 1 /\ Len(c.ins) = 0
           /\ c.op \in {"Out", "Free", "JmpTrue", "JmpFalse"}
                 => Len(c.outs) = 0 /\ Len(c.ins) = 1
           /\ c.op \in {"Identity", "SequenceSize", "SequenceCopy", "SequenceStack",
                        "SequencePop", "SequenceMove"}
                 => Len(c.outs) = 1 /\ Len(c.ins) = 1
           /\ c.op \in {"Add", "Mul", "Greater"} => Len(c.outs) = 1 /\ Len(c.ins) = 2
           /\ c.op = "SequenceAppend" => Len(c.outs) = 0 /\ Len(c.ins) = 2
           /\ c.op = "SequenceCreate" => Len(c.outs) = 1
           /\ c.op = "Jmp" => Len(c.outs) = 0 /\ Len(c.ins) = 0
           /\ c.op \in Jumps => Len(c.imm) = 1
BY DEF Instructions, Kinds

LEMMA Named ==
    ASSUME NEW c \in Instructions
    PROVE  /\ Len(c.outs) = 0 => Outs(c) = {}
           /\ Len(c.outs) = 1 => Outs(c) = {c.outs[1]}
           /\ Len(c.ins) = 0 => Reads(c) = {}
           /\ Len(c.ins) = 1 => Reads(c) = {c.ins[1]}
           /\ Len(c.ins) = 2 => Reads(c) = {c.ins[1], c.ins[2]}
<1>1. c.outs \in Seq(STRING) /\ c.ins \in Seq(STRING)
  BY Shape
<1>2. 1..0 = {} /\ 1..1 = {1} /\ 1..2 = {1, 2}
  OBVIOUS
<1> QED  BY <1>1, <1>2 DEF Outs, Reads
-----------------------------------------------------------------------------
(* What the execution of an instruction does, whichever it is.             *)

Freed == IF Current.op = "Free" THEN Reads(Current) ELSE {}

\* What an instruction may leave in its variable: no sequence, one that it
\* made, or an old one as far as MayShare admits.
NewVar(v) ==
    \/ ~IsSequence(v)
    \/ v[2] > Len(heap)
    \/ Current.op \in {"In", "SequencePop"}
    \/ Current.op = "Identity" /\ v = slots[Current.ins[1]]

SlotsEffect ==
    /\ Reads(Current) \subseteq DOMAIN slots
    /\ slots' \in [(DOMAIN slots \cup Outs(Current)) \ Freed -> Vars(Len(heap'))]
    /\ \A x \in DOMAIN slots' \ Outs(Current) : slots'[x] = slots[x]
    /\ \A x \in Outs(Current) \ Freed : NewVar(slots'[x])

HeapEffect ==
    /\ heap' \in Seq(Seq(Vars(Len(heap'))))
    /\ Len(heap) <= Len(heap')
    /\ \A r \in 1..Len(heap) :
          \/ heap'[r] = heap[r]
          \/ Current.op \in InPlace /\ slots[Current.ins[1]] = SequenceVar(r)

InOutEffect ==
    /\ inputs' \in [DOMAIN inputs \ (IF Current.op = "In" THEN Outs(Current) ELSE {})
                        -> Vars(Len(heap'))]
    /\ outputs' \in [DOMAIN outputs \cup (IF Current.op = "Out" THEN Reads(Current) ELSE {})
                         -> Vars(Len(heap'))]

Effect ==
    /\ pc \in 1..Len(program)
    /\ ~failed
    /\ pc' \in Successors(program, pc)
    /\ SlotsEffect
    /\ HeapEffect
    /\ InOutEffect
    /\ UNCHANGED <<program, failed>>

\* The variables keep their values in a larger heap.
LEMMA FunctionsGrow ==
    ASSUME NEW n \in Nat, NEW m \in Nat, n <= m, NEW D, NEW f \in [D -> Vars(n)]
    PROVE  f \in [D -> Vars(m)]
BY VarsGrow

LEMMA HeapGrows ==
    ASSUME NEW n \in Nat, NEW m \in Nat, n <= m, NEW h \in Seq(Seq(Vars(n)))
    PROVE  h \in Seq(Seq(Vars(m)))
<1>1. Vars(n) \subseteq Vars(m)
  BY VarsGrow
<1>2. ASSUME NEW s \in Seq(Vars(n)) PROVE s \in Seq(Vars(m))
  BY <1>1
<1> QED  BY <1>2

\* What is known of the instruction about to run.
LEMMA AtInstruction ==
    ASSUME TypeOK, IsCode(program), NEW op, Running(op)
    PROVE  /\ pc \in 1..Len(program) /\ ~failed
           /\ Current \in Instructions
           /\ Current.op = op
           /\ program \in Seq(Instructions)
           /\ Len(heap) \in Nat
<1>1. program \in Seq(Instructions) /\ pc \in 1..Len(program)
  BY DEF TypeOK, IsCode, Running, Halted
<1>2. Current \in Instructions
  BY <1>1 DEF Current
<1> QED  BY <1>1, <1>2 DEF Running, Current, TypeOK

\* An instruction that sets one variable to v and changes nothing else.
LEMMA SetVarEffect ==
    ASSUME TypeOK, IsCode(program), NEW op, Running(op), op \notin Jumps \cup {"Free", "In", "Out"},
           Len(Current.outs) = 1,
           NEW checks, NEW v,
           checks => ReadsAreSet /\ v \in Vars(Len(heap)) /\ NewVar(v),
           SetVar(checks, v)
    PROVE  Abort \/ Effect
<1>1. pc \in 1..Len(program) /\ ~failed /\ Current \in Instructions /\ Current.op = op
      /\ Len(heap) \in Nat
  BY AtInstruction
<1>2. Outs(Current) = {Dest}
  BY <1>1, Named DEF Dest, Current
<1> SUFFICES ASSUME ReadsAreSet, v \in Vars(Len(heap)), NewVar(v), slots' = Bound(Dest, v), heap' = heap, pc' = pc + 1,
                    UNCHANGED <<program, inputs, outputs, failed>>
             PROVE  Effect
  BY DEF SetVar, Perform
<1>3. Reads(Current) \subseteq DOMAIN slots
  BY <1>1, Shape DEF ReadsAreSet, IsSet, Reads, Current
<1>4. SlotsEffect
  BY <1>1, <1>2, <1>3 DEF SlotsEffect, Freed, Bound, With, TypeOK
<1>5. HeapEffect
  BY <1>1 DEF HeapEffect, TypeOK
<1>6. InOutEffect
  BY <1>1 DEF InOutEffect, TypeOK
<1>7. pc' \in Successors(program, pc)
  BY <1>1 DEF Successors, Current, Jumps
<1> QED  BY <1>1, <1>4, <1>5, <1>6, <1>7 DEF Effect

\* Operands whose variables are set.
LEMMA OperandsAreVars ==
    ASSUME TypeOK, NEW c \in Instructions, c = Current, ReadsAreSet
    PROVE  /\ DOMAIN Operands = 1..Len(c.ins)
           /\ \A i \in 1..Len(c.ins) :
                 /\ Operands[i] = slots[c.ins[i]]
                 /\ Operands[i] \in Vars(Len(heap))
           /\ Reads(c) \subseteq DOMAIN slots
<1>1. DOMAIN c.ins = 1..Len(c.ins)
  BY Shape
<1> QED  BY <1>1 DEF Operands, ReadsAreSet, IsSet, Reads, Current, TypeOK

\* An instruction that makes a new sequence.
LEMMA CreateSequenceEffect ==
    ASSUME TypeOK, IsCode(program), NEW op, Running(op), op \notin Jumps \cup {"Free", "In", "Out"},
           Len(Current.outs) = 1,
           NEW checks, NEW contents,
           checks => ReadsAreSet /\ contents \in Seq(Vars(Len(heap))),
           CreateSequence(checks, contents)
    PROVE  Abort \/ Effect
<1>1. pc \in 1..Len(program) /\ ~failed /\ Current \in Instructions /\ Current.op = op
      /\ Len(heap) \in Nat
  BY AtInstruction
<1>2. Outs(Current) = {Dest}
  BY <1>1, Named DEF Dest, Current
<1> DEFINE n == Len(heap)
<1> SUFFICES ASSUME ReadsAreSet, contents \in Seq(Vars(n)),
                    slots' = Bound(Dest, SequenceVar(n + 1)),
                    heap' = Append(heap, contents),
                    pc' = pc + 1,
                    UNCHANGED <<program, inputs, outputs, failed>>
             PROVE  Effect
  BY DEF CreateSequence, Perform
<1>3. Reads(Current) \subseteq DOMAIN slots
  BY <1>1, OperandsAreVars
<1>4. Len(heap') = n + 1 /\ n \in Nat /\ \A r \in 1..n : heap'[r] = heap[r]
  BY DEF TypeOK
<1>5. Vars(n) \subseteq Vars(n + 1) /\ SequenceVar(n + 1) \in Vars(n + 1)
  BY <1>4, VarsGrow, VarsMade
<1>6. heap \in Seq(Seq(Vars(n + 1))) /\ contents \in Seq(Vars(n + 1))
  BY <1>4, <1>5, HeapGrows DEF TypeOK
<1>7. heap' \in Seq(Seq(Vars(n + 1)))
  BY <1>6
<1> HIDE DEF n
<1>8. HeapEffect
  BY <1>4, <1>7 DEF HeapEffect, n
<1>9. SlotsEffect
  <2>1. slots \in [DOMAIN slots -> Vars(n + 1)]
    BY <1>4, <1>5 DEF TypeOK, n
  <2>2. NewVar(SequenceVar(n + 1))
    BY <1>4 DEF NewVar, SequenceVar, n
  <2> QED  BY <1>1, <1>2, <1>3, <1>4, <1>5, <2>1, <2>2 DEF SlotsEffect, Freed, Bound, With
<1>10. InOutEffect
  BY <1>1, <1>4, <1>5 DEF InOutEffect, TypeOK, n
<1>11. pc' \in Successors(program, pc)
  BY <1>1 DEF Successors, Current, Jumps
<1> QED  BY <1>1, <1>8, <1>9, <1>10, <1>11 DEF Effect

\* An instruction with a null operand.
LEMMA SkipEffect ==
    ASSUME TypeOK, IsCode(program), NEW op, Running(op), op \notin Jumps \cup {"Free", "In", "Out"},
           Len(Current.outs) = 1, ReadsAreSet, SetVar(TRUE, NullVar)
    PROVE  Abort \/ Effect
<1>1. NullVar \in Vars(Len(heap)) /\ NewVar(NullVar)
  BY AtInstruction, VarsMade DEF NewVar, NullVar, IsSequence
<1> QED  BY <1>1, SetVarEffect
-----------------------------------------------------------------------------
(* The instructions.                                                       *)

LEMMA InStep ==
    ASSUME TypeOK, IsCode(program), In
    PROVE  Abort \/ Effect
<1>1. pc \in 1..Len(program) /\ ~failed /\ Current \in Instructions /\ Current.op = "In"
      /\ Running("In")
  BY AtInstruction DEF In
<1>2. Outs(Current) = {Dest} /\ Reads(Current) = {}
  BY <1>1, Shape, Named DEF Dest, Current
<1> SUFFICES ASSUME Dest \in DOMAIN inputs, slots' = Bound(Dest, inputs[Dest]),
                    inputs' = Without(inputs, Dest), pc' = pc + 1,
                    UNCHANGED <<program, heap, outputs, failed>>
             PROVE  Effect
  BY DEF In
<1>3. SlotsEffect
  BY <1>1, <1>2 DEF SlotsEffect, Freed, Bound, With, TypeOK, NewVar
<1>4. HeapEffect /\ InOutEffect
  BY <1>1, <1>2 DEF HeapEffect, InOutEffect, TypeOK, Without
<1>5. pc' \in Successors(program, pc)
  BY <1>1 DEF Successors, Current, Jumps
<1> QED  BY <1>1, <1>3, <1>4, <1>5 DEF Effect

LEMMA OutStep ==
    ASSUME TypeOK, IsCode(program), Out
    PROVE  Abort \/ Effect
<1>1. pc \in 1..Len(program) /\ ~failed /\ Current \in Instructions /\ Current.op = "Out"
      /\ Running("Out")
  BY AtInstruction DEF Out
<1>2. Outs(Current) = {} /\ Reads(Current) = {Source}
  BY <1>1, Shape, Named DEF Source, Current
<1> SUFFICES ASSUME Source \in DOMAIN slots,
                    outputs' = With(outputs, Source, slots[Source]), pc' = pc + 1,
                    UNCHANGED <<program, slots, heap, inputs, failed>>
             PROVE  Effect
  BY DEF Out, IsSet
<1>3. SlotsEffect
  BY <1>1, <1>2 DEF SlotsEffect, Freed, TypeOK
<1>4. HeapEffect /\ InOutEffect
  BY <1>1, <1>2 DEF HeapEffect, InOutEffect, TypeOK, With
<1>5. pc' \in Successors(program, pc)
  BY <1>1 DEF Successors, Current, Jumps
<1> QED  BY <1>1, <1>3, <1>4, <1>5 DEF Effect

LEMMA FreeStep ==
    ASSUME TypeOK, IsCode(program), Free
    PROVE  Abort \/ Effect
<1>1. pc \in 1..Len(program) /\ ~failed /\ Current \in Instructions /\ Current.op = "Free"
      /\ Running("Free")
  BY AtInstruction DEF Free
<1>2. Outs(Current) = {} /\ Reads(Current) = {Source}
  BY <1>1, Shape, Named DEF Source, Current
<1> SUFFICES ASSUME ReadsAreSet, slots' = Without(slots, Source), heap' = heap,
                    pc' = pc + 1, UNCHANGED <<program, inputs, outputs, failed>>
             PROVE  Effect
  BY DEF Free, Perform
<1>3. Reads(Current) \subseteq DOMAIN slots
  BY <1>1, OperandsAreVars
<1>4. SlotsEffect
  BY <1>1, <1>2, <1>3 DEF SlotsEffect, Freed, TypeOK, Without
<1>5. HeapEffect /\ InOutEffect
  BY <1>1, <1>2 DEF HeapEffect, InOutEffect, TypeOK
<1>6. pc' \in Successors(program, pc)
  BY <1>1 DEF Successors, Current, Jumps
<1> QED  BY <1>1, <1>4, <1>5, <1>6 DEF Effect

LEMMA IdentityStep ==
    ASSUME TypeOK, IsCode(program), Identity
    PROVE  Abort \/ Effect
<1>1. Current \in Instructions /\ Current.op = "Identity" /\ Running("Identity")
  BY AtInstruction DEF Identity
<1>2. Len(Current.outs) = 1 /\ Len(Current.ins) = 1
  BY <1>1, Shape
<1>3. ASSUME ReadsAreSet
      PROVE  slots[Source] \in Vars(Len(heap)) /\ NewVar(slots[Source])
  BY <1>1, <1>2, <1>3, OperandsAreVars DEF Source, Current, NewVar
<1>4. "Identity" \notin Jumps \cup {"Free", "In", "Out"}
  BY DEF Jumps
<1>5. SetVar(ReadsAreSet, slots[Source])
  BY DEF Identity
<1> QED  BY <1>1, <1>2, <1>3, <1>4, <1>5, SetVarEffect

LEMMA ConstantStep ==
    ASSUME TypeOK, IsCode(program), NullConstant \/ SetConstant
    PROVE  Abort \/ Effect
<1> DEFINE ops == {"NullConstant", "IntScalarConstant", "IntConstant"}
<1>1. PICK op \in ops : Running(op)
  BY DEF NullConstant, SetConstant
<1>2. Current \in Instructions /\ Current.op = op
  BY <1>1, AtInstruction
<1>3. Len(Current.outs) = 1 /\ Len(Current.ins) = 0 /\ Imm \in Seq(Int)
  BY <1>1, <1>2, Shape DEF Imm, Current
<1>4. ReadsAreSet
  BY <1>2, <1>3, Shape DEF ReadsAreSet, Current
<1>5. /\ NullVar \in Vars(Len(heap)) /\ NewVar(NullVar)
      /\ ArrayVar(Imm) \in Vars(Len(heap)) /\ NewVar(ArrayVar(Imm))
  BY <1>1, <1>3, AtInstruction, VarsMade DEF NewVar, NullVar, ArrayVar, IsSequence
<1>6. op \notin Jumps \cup {"Free", "In", "Out"}
  BY <1>1 DEF Jumps
<1>7. SetVar(TRUE, NullVar) \/ SetVar(TRUE, ArrayVar(Imm))
  BY DEF NullConstant, SetConstant
<1> HIDE DEF ops
<1> QED  BY <1>1, <1>3, <1>4, <1>5, <1>6, <1>7, SetVarEffect

\* A typed instruction with one result, which is an array.
LEMMA ArrayEffect ==
    ASSUME TypeOK, IsCode(program), NEW op, Running(op), op \notin Jumps \cup {"Free", "In", "Out"},
           Len(Current.outs) = 1,
           NEW checks, NEW xs, checks => ReadsAreSet /\ xs \in Seq(Int),
           SkipOr(SetVar(checks, ArrayVar(xs)))
    PROVE  Abort \/ Effect
<1>1. CASE Skipped
  BY <1>1, SkipEffect DEF SkipOr, Skipped
<1>2. CASE ~Skipped
  <2>1. ASSUME checks PROVE ArrayVar(xs) \in Vars(Len(heap)) /\ NewVar(ArrayVar(xs))
    BY <2>1, AtInstruction, VarsMade DEF NewVar, ArrayVar, IsSequence
  <2> QED  BY <1>2, <2>1, SetVarEffect DEF SkipOr
<1> QED  BY <1>1, <1>2

\* Arrays that are given can be read.
LEMMA ArraysRead ==
    ASSUME TypeOK, NEW c \in Instructions, c = Current, ArraysGiven,
           NEW k \in 1..Len(c.ins)
    PROVE  /\ Operands[k][2] \in Seq(Int)
           /\ Size(k) \in Nat
           /\ \A i \in 1..Size(k) : At(k, i) \in Int
           /\ Size(k) = 1 => \A i : At(k, i) \in Int
<1>1. Operands[k] \in Vars(Len(heap)) /\ IsArray(Operands[k])
  BY OperandsAreVars DEF ArraysGiven
<1>2. Operands[k][2] \in Seq(Int)
  BY <1>1, VarsRead DEF TypeOK
<1> QED  BY <1>2 DEF Size, At

LEMMA ElementwiseStep ==
    ASSUME TypeOK, IsCode(program), Add \/ Mul \/ Greater
    PROVE  Abort \/ Effect
<1> DEFINE n == IF Size(1) = 1 THEN Size(2) ELSE Size(1)
           sums == [i \in 1..n |-> At(1, i) + At(2, i)]
           products == [i \in 1..n |-> At(1, i) * At(2, i)]
           tests == [i \in 1..n |-> IF At(1, i) > At(2, i) THEN 1 ELSE 0]
<1>1. PICK op \in {"Add", "Mul", "Greater"} : Running(op)
  BY DEF Add, Mul, Greater
<1>2. Current \in Instructions /\ Current.op = op
  BY <1>1, AtInstruction
<1>3. Len(Current.outs) = 1 /\ Len(Current.ins) = 2
  BY <1>1, <1>2, Shape
<1>4. ASSUME ArraysGiven, Fitting
      PROVE  sums \in Seq(Int) /\ products \in Seq(Int) /\ tests \in Seq(Int)
  <2>1. n \in Nat /\ \A i \in 1..n : At(1, i) \in Int /\ At(2, i) \in Int
    BY <1>2, <1>3, <1>4, ArraysRead, SMTT(60) DEF Fitting
  <2> HIDE DEF n
  <2> QED  BY <2>1
<1>5. ArraysGiven => ReadsAreSet
  BY DEF ArraysGiven
<1>6. \/ SkipOr(SetVar(ArraysGiven /\ Fitting, ArrayVar(sums)))
      \/ SkipOr(SetVar(ArraysGiven /\ Fitting, ArrayVar(products)))
      \/ SkipOr(SetVar(ArraysGiven /\ Fitting, ArrayVar(tests)))
  BY DEF Add, Mul, Greater, Elementwise
<1> HIDE DEF sums, products, tests
<1>7. op \notin Jumps \cup {"Free", "In", "Out"}
  BY <1>1 DEF Jumps
<1> QED  BY <1>1, <1>3, <1>4, <1>5, <1>6, <1>7, ArrayEffect

LEMMA JumpStep ==
    ASSUME TypeOK, IsCode(program), Jmp \/ JmpTrue \/ JmpFalse
    PROVE  Abort \/ Effect
<1>1. PICK op \in Jumps : Running(op)
  BY DEF Jmp, JmpTrue, JmpFalse, Jumps
<1>2. pc \in 1..Len(program) /\ ~failed /\ Current \in Instructions /\ Current.op = op
  BY <1>1, AtInstruction
<1>3. Outs(Current) = {} /\ (op = "Jmp" => Reads(Current) = {})
  BY <1>1, <1>2, Shape, Named DEF Jumps
<1>4. ASSUME ~Abort
      PROVE  /\ pc' \in Successors(program, pc)
             /\ UNCHANGED <<program, slots, heap, inputs, outputs, failed>>
             /\ op = "Jmp" \/ ReadsAreSet
  <2>1. /\ op = "Jmp" => pc' = Imm[1]
        /\ pc' = Imm[1] \/ pc' = pc + 1
        /\ UNCHANGED <<program, slots, heap, inputs, outputs, failed>>
        /\ op = "Jmp" \/ ReadsAreSet
    BY <1>1, <1>2, <1>4 DEF Jmp, JmpTrue, JmpFalse, GoTo, ScalarGiven, ArraysGiven, Running
  <2> QED  BY <1>1, <1>2, <2>1 DEF Successors, Current, Imm
<1> SUFFICES ASSUME ~Abort PROVE Effect
  OBVIOUS
<1>5. Reads(Current) \subseteq DOMAIN slots
  BY <1>2, <1>3, <1>4, OperandsAreVars
<1>6. SlotsEffect
  BY <1>1, <1>2, <1>3, <1>4, <1>5 DEF SlotsEffect, Freed, TypeOK, Jumps
<1>7. Current.op \notin {"In", "Out"}
  BY <1>1, <1>2 DEF Jumps
<1>8. HeapEffect
  BY <1>2, <1>4 DEF HeapEffect, TypeOK
<1>9. InOutEffect
  BY <1>4, <1>7 DEF InOutEffect, TypeOK
<1> QED  BY <1>2, <1>4, <1>6, <1>8, <1>9 DEF Effect

\* The sequence that is given exists.
LEMMA SequenceRead ==
    ASSUME TypeOK, NEW c \in Instructions, c = Current, Len(c.ins) \in {1, 2}, SequenceGiven
    PROVE  /\ Operands[1][2] \in 1..Len(heap)
           /\ slots[c.ins[1]] = SequenceVar(Operands[1][2])
           /\ Contents(Operands[1]) = heap[Operands[1][2]]
           /\ Contents(Operands[1]) \in Seq(Vars(Len(heap)))
<1>1. Operands[1] = slots[c.ins[1]] /\ Operands[1] \in Vars(Len(heap)) /\ IsSequence(Operands[1])
  BY OperandsAreVars DEF SequenceGiven
<1>2. Operands[1][2] \in 1..Len(heap) /\ Operands[1] = SequenceVar(Operands[1][2])
  BY <1>1, VarsRead DEF TypeOK
<1> QED  BY <1>1, <1>2 DEF Contents, TypeOK

LEMMA SequenceCreateStep ==
    ASSUME TypeOK, IsCode(program), SequenceCreate
    PROVE  Abort \/ Effect
<1>1. Current \in Instructions /\ Current.op = "SequenceCreate" /\ Running("SequenceCreate")
  BY AtInstruction DEF SequenceCreate
<1>2. Len(Current.outs) = 1 /\ Len(Current.ins) \in Nat
  BY <1>1, Shape
<1>3. ASSUME ArraysGiven PROVE ReadsAreSet /\ Operands \in Seq(Vars(Len(heap)))
  <2>1. ReadsAreSet
    BY <1>3 DEF ArraysGiven
  <2>2. Operands \in [1..Len(Current.ins) -> Vars(Len(heap))]
    BY <1>1, <2>1, OperandsAreVars DEF Operands
  <2> QED  BY <1>2, <2>1, <2>2
<1>4. "SequenceCreate" \notin Jumps \cup {"Free", "In", "Out"}
  BY DEF Jumps
<1>5. CreateSequence(ArraysGiven, Operands)
  BY DEF SequenceCreate
<1> QED  BY <1>1, <1>2, <1>3, <1>4, <1>5, CreateSequenceEffect

LEMMA SequenceSizeStep ==
    ASSUME TypeOK, IsCode(program), SequenceSize
    PROVE  Abort \/ Effect
<1>1. Current \in Instructions /\ Current.op = "SequenceSize" /\ Running("SequenceSize")
  BY AtInstruction DEF SequenceSize
<1>2. Len(Current.outs) = 1 /\ Len(Current.ins) = 1
  BY <1>1, Shape
<1> DEFINE xs == <<Len(Contents(Operands[1]))>>
<1>3. ASSUME SequenceGiven PROVE ReadsAreSet /\ xs \in Seq(Int)
  BY <1>1, <1>2, <1>3, SequenceRead DEF SequenceGiven
<1>4. "SequenceSize" \notin Jumps \cup {"Free", "In", "Out"}
  BY DEF Jumps
<1>5. SkipOr(SetVar(SequenceGiven, ArrayVar(xs)))
  BY DEF SequenceSize
<1> HIDE DEF xs
<1> QED  BY <1>1, <1>2, <1>3, <1>4, <1>5, ArrayEffect

LEMMA SequenceCopyStep ==
    ASSUME TypeOK, IsCode(program), SequenceCopy
    PROVE  Abort \/ Effect
<1>1. Current \in Instructions /\ Current.op = "SequenceCopy" /\ Running("SequenceCopy")
  BY AtInstruction DEF SequenceCopy
<1>2. Len(Current.outs) = 1 /\ Len(Current.ins) = 1
  BY <1>1, Shape
<1>3. "SequenceCopy" \notin Jumps \cup {"Free", "In", "Out"}
  BY DEF Jumps
<1>4. CASE Skipped
  BY <1>1, <1>2, <1>3, <1>4, SkipEffect DEF SequenceCopy, SkipOr, Skipped
<1>5. CASE ~Skipped
  <2>1. CreateSequence(SequenceGiven, Contents(Operands[1]))
    BY <1>5 DEF SequenceCopy, SkipOr
  <2>2. SequenceGiven => ReadsAreSet /\ Contents(Operands[1]) \in Seq(Vars(Len(heap)))
    BY <1>1, <1>2, SequenceRead DEF SequenceGiven
  <2> QED  BY <1>1, <1>2, <1>3, <2>1, <2>2, CreateSequenceEffect
<1> QED  BY <1>4, <1>5

\* Number i of a matrix stands in row 1 + (i - 1) \div width.
LEMMA InMatrix ==
    ASSUME NEW rows \in Nat, NEW width \in Nat, NEW i \in 1..(rows * width)
    PROVE  /\ width # 0
           /\ 1 + ((i - 1) \div width) \in 1..rows
           /\ 1 + ((i - 1) % width) \in 1..width
<1>1. width # 0
  <2>1. rows * 0 = 0
    OBVIOUS
  <2> QED  BY <2>1
<1> DEFINE d == (i - 1) \div width
           m == (i - 1) % width
<1>2. d \in Int /\ m \in 0..(width - 1) /\ i - 1 = width * d + m
  BY <1>1
<1> HIDE DEF d, m
<1>3. width * d < width * rows
  BY <1>2
<1>4. d < rows
  BY <1>1, <1>2, <1>3
<1>5. d >= 0
  <2>1. SUFFICES ASSUME d <= -1 PROVE FALSE
    BY <1>2
  <2>2. width * d <= -width
    BY <1>1, <1>2, <2>1
  <2> QED  BY <1>2, <2>2
<1> QED  BY <1>1, <1>2, <1>4, <1>5 DEF d, m

LEMMA SequenceStackStep ==
    ASSUME TypeOK, IsCode(program), SequenceStack
    PROVE  Abort \/ Effect
<1>1. Current \in Instructions /\ Current.op = "SequenceStack" /\ Running("SequenceStack")
  BY AtInstruction DEF SequenceStack
<1>2. Len(Current.outs) = 1 /\ Len(Current.ins) = 1
  BY <1>1, Shape
<1> DEFINE number(i) == Rows[1 + ((i - 1) \div Width)][2][1 + ((i - 1) % Width)]
           xs == [i \in 1..(Len(Rows) * Width) |-> number(i)]
<1>3. ASSUME SequenceGiven, Stackable PROVE ReadsAreSet /\ xs \in Seq(Int)
  <2>1. Rows \in Seq(Vars(Len(heap))) /\ Len(heap) \in Nat
    BY <1>1, <1>2, <1>3, SequenceRead, AtInstruction DEF Rows
  <2>2. \A k \in 1..Len(Rows) : Rows[k][2] \in Seq(Int) /\ Len(Rows[k][2]) = Width
    BY <1>3, <2>1, VarsRead DEF Stackable
  <2>3. Len(Rows) \in Nat /\ Width \in Nat
    BY <1>3, <2>1, <2>2 DEF Stackable
  <2>4. ASSUME NEW i \in 1..(Len(Rows) * Width) PROVE number(i) \in Int
    <3>1. /\ 1 + ((i - 1) \div Width) \in 1..Len(Rows)
          /\ 1 + ((i - 1) % Width) \in 1..Width
      BY <2>3, InMatrix
    <3> DEFINE r == 1 + ((i - 1) \div Width)
               c == 1 + ((i - 1) % Width)
    <3> HIDE DEF r, c
    <3>2. r \in 1..Len(Rows) /\ c \in 1..Width
      BY <3>1 DEF r, c
    <3>3. Rows[r][2][c] \in Int
      BY <2>2, <3>2
    <3> QED  BY <3>3 DEF r, c
  <2>5. Len(Rows) * Width \in Nat
    BY <2>3
  <2> HIDE DEF number
  <2>6. xs \in Seq(Int)
    BY <2>4, <2>5
  <2> QED  BY <1>3, <2>6 DEF SequenceGiven
<1>4. "SequenceStack" \notin Jumps \cup {"Free", "In", "Out"}
  BY DEF Jumps
<1>5. SkipOr(SetVar(SequenceGiven /\ Stackable, ArrayVar(xs)))
  BY DEF SequenceStack
<1> HIDE DEF xs
<1> QED  BY <1>1, <1>2, <1>3, <1>4, <1>5, ArrayEffect

\* A heap in which one sequence is replaced.
LEMMA ReplacedInHeap ==
    ASSUME NEW n \in Nat, NEW h \in Seq(Seq(Vars(n))), NEW r \in 1..Len(h),
           NEW s \in Seq(Vars(n))
    PROVE  /\ [h EXCEPT ![r] = s] \in Seq(Seq(Vars(n)))
           /\ Len([h EXCEPT ![r] = s]) = Len(h)
           /\ \A k \in 1..Len(h) : k # r => [h EXCEPT ![r] = s][k] = h[k]
OBVIOUS

LEMMA SequenceAppendStep ==
    ASSUME TypeOK, IsCode(program), SequenceAppend
    PROVE  Abort \/ Effect
<1>1. /\ Current \in Instructions /\ Current.op = "SequenceAppend" /\ Running("SequenceAppend")
      /\ pc \in 1..Len(program) /\ ~failed /\ Len(heap) \in Nat
  BY AtInstruction DEF SequenceAppend
<1>2. Len(Current.outs) = 0 /\ Len(Current.ins) = 2 /\ Outs(Current) = {}
  BY <1>1, Shape, Named
<1> DEFINE r == Operands[1][2]
           s == Append(heap[r], Operands[2])
<1> SUFFICES ASSUME SequenceGiven, slots' = slots, heap' = [heap EXCEPT ![r] = s],
                    pc' = pc + 1, UNCHANGED <<program, inputs, outputs, failed>>
             PROVE  Effect
  BY DEF SequenceAppend, Perform
<1>3. /\ r \in 1..Len(heap) /\ slots[Current.ins[1]] = SequenceVar(r)
      /\ heap[r] \in Seq(Vars(Len(heap))) /\ ReadsAreSet
  BY <1>1, <1>2, SequenceRead DEF SequenceGiven
<1>4. Operands[2] \in Vars(Len(heap)) /\ Reads(Current) \subseteq DOMAIN slots
  BY <1>1, <1>2, <1>3, OperandsAreVars
<1>5. s \in Seq(Vars(Len(heap)))
  BY <1>3, <1>4
<1>6. heap \in Seq(Seq(Vars(Len(heap))))
  BY DEF TypeOK
<1> HIDE DEF r, s
<1>7. /\ heap' \in Seq(Seq(Vars(Len(heap)))) /\ Len(heap') = Len(heap)
      /\ \A k \in 1..Len(heap) : k # r => heap'[k] = heap[k]
  BY <1>1, <1>3, <1>5, <1>6, ReplacedInHeap
<1>8. HeapEffect
  BY <1>1, <1>3, <1>7 DEF HeapEffect, InPlace
<1>9. SlotsEffect
  BY <1>1, <1>2, <1>4, <1>7 DEF SlotsEffect, Freed, TypeOK
<1>10. InOutEffect
  BY <1>1, <1>7 DEF InOutEffect, TypeOK
<1>11. pc' \in Successors(program, pc)
  BY <1>1 DEF Successors, Current, Jumps
<1> QED  BY <1>1, <1>8, <1>9, <1>10, <1>11 DEF Effect

LEMMA SequencePopStep ==
    ASSUME TypeOK, IsCode(program), SequencePop
    PROVE  Abort \/ Effect
<1>1. /\ Current \in Instructions /\ Current.op = "SequencePop" /\ Running("SequencePop")
      /\ pc \in 1..Len(program) /\ ~failed /\ Len(heap) \in Nat
  BY AtInstruction DEF SequencePop
<1>2. Len(Current.outs) = 1 /\ Len(Current.ins) = 1
  BY <1>1, Shape
<1>3. Outs(Current) = {Dest}
  BY <1>1, <1>2, Named DEF Dest, Current
<1>4. CASE ReadsAreSet /\ IsNull(Operands[1])
  <2>1. "SequencePop" \notin Jumps \cup {"Free", "In", "Out"}
    BY DEF Jumps
  <2>2. SetVar(TRUE, NullVar)
    BY <1>4 DEF SequencePop
  <2> QED  BY <1>1, <1>2, <1>4, <2>1, <2>2, SkipEffect
<1>5. CASE ~(ReadsAreSet /\ IsNull(Operands[1]))
  <2> DEFINE r == Operands[1][2]
             s == heap[r]
             rest == SubSeq(s, 1, Len(s) - 1)
  <2> SUFFICES ASSUME SequenceGiven, s # <<>>, slots' = Bound(Dest, s[Len(s)]),
                      heap' = [heap EXCEPT ![r] = rest],
                      pc' = pc + 1, UNCHANGED <<program, inputs, outputs, failed>>
               PROVE  Effect
    BY <1>5 DEF SequencePop, Perform, Contents
  <2>1. /\ r \in 1..Len(heap) /\ slots[Current.ins[1]] = SequenceVar(r)
        /\ s \in Seq(Vars(Len(heap))) /\ ReadsAreSet
    BY <1>1, <1>2, SequenceRead DEF SequenceGiven
  <2>2. Reads(Current) \subseteq DOMAIN slots
    BY <1>1, <1>2, <2>1, OperandsAreVars
  <2>3. heap \in Seq(Seq(Vars(Len(heap))))
    BY DEF TypeOK
  <2> HIDE DEF r, s
  <2>4. rest \in Seq(Vars(Len(heap))) /\ s[Len(s)] \in Vars(Len(heap))
    BY <2>1
  <2> HIDE DEF rest
  <2>5. /\ heap' \in Seq(Seq(Vars(Len(heap)))) /\ Len(heap') = Len(heap)
        /\ \A k \in 1..Len(heap) : k # r => heap'[k] = heap[k]
    BY <1>1, <2>1, <2>3, <2>4, ReplacedInHeap
  <2>6. HeapEffect
    BY <1>1, <2>1, <2>5 DEF HeapEffect, InPlace
  <2>7. SlotsEffect
    BY <1>1, <1>3, <2>2, <2>4, <2>5 DEF SlotsEffect, Freed, TypeOK, Bound, With, NewVar
  <2>8. InOutEffect
    BY <1>1, <2>5 DEF InOutEffect, TypeOK
  <2>9. pc' \in Successors(program, pc)
    BY <1>1 DEF Successors, Current, Jumps
  <2> QED  BY <1>1, <2>6, <2>7, <2>8, <2>9 DEF Effect
<1> QED  BY <1>4, <1>5

LEMMA SequenceMoveStep ==
    ASSUME TypeOK, IsCode(program), SequenceMove
    PROVE  Abort \/ Effect
<1>1. /\ Current \in Instructions /\ Current.op = "SequenceMove" /\ Running("SequenceMove")
      /\ pc \in 1..Len(program) /\ ~failed /\ Len(heap) \in Nat
  BY AtInstruction DEF SequenceMove
<1>2. Len(Current.outs) = 1 /\ Len(Current.ins) = 1
  BY <1>1, Shape
<1>3. Outs(Current) = {Dest}
  BY <1>1, <1>2, Named DEF Dest, Current
<1>4. CASE ReadsAreSet /\ IsNull(Operands[1])
  <2>1. "SequenceMove" \notin Jumps \cup {"Free", "In", "Out"}
    BY DEF Jumps
  <2>2. SetVar(TRUE, NullVar)
    BY <1>4 DEF SequenceMove
  <2> QED  BY <1>1, <1>2, <1>4, <2>1, <2>2, SkipEffect
<1>5. CASE ~(ReadsAreSet /\ IsNull(Operands[1]))
  <2> DEFINE r == Operands[1][2]
             n == Len(heap)
             emptied == [heap EXCEPT ![r] = <<>>]
  <2> SUFFICES ASSUME SequenceGiven, slots' = Bound(Dest, SequenceVar(n + 1)),
                      heap' = Append(emptied, heap[r]),
                      pc' = pc + 1, UNCHANGED <<program, inputs, outputs, failed>>
               PROVE  Effect
    BY <1>5 DEF SequenceMove, Perform, Contents
  <2>1. /\ r \in 1..n /\ slots[Current.ins[1]] = SequenceVar(r)
        /\ heap[r] \in Seq(Vars(n)) /\ ReadsAreSet
    BY <1>1, <1>2, SequenceRead DEF SequenceGiven
  <2>2. Reads(Current) \subseteq DOMAIN slots
    BY <1>1, <1>2, <2>1, OperandsAreVars
  <2>3. heap \in Seq(Seq(Vars(n))) /\ n \in Nat /\ n = Len(heap)
    BY <1>1 DEF TypeOK
  <2> HIDE DEF r, n
  <2>4. <<>> \in Seq(Vars(n))
    OBVIOUS
  <2>5. /\ emptied \in Seq(Seq(Vars(n))) /\ Len(emptied) = n
        /\ \A k \in 1..n : k # r => emptied[k] = heap[k]
    BY <2>1, <2>3, <2>4, ReplacedInHeap
  <2>6. Vars(n) \subseteq Vars(n + 1) /\ SequenceVar(n + 1) \in Vars(n + 1)
    BY <2>3, VarsGrow, VarsMade
  <2> HIDE DEF emptied
  <2>7. emptied \in Seq(Seq(Vars(n + 1))) /\ heap[r] \in Seq(Vars(n + 1))
    BY <2>1, <2>3, <2>5, <2>6, HeapGrows
  <2>8. /\ heap' \in Seq(Seq(Vars(n + 1))) /\ Len(heap') = n + 1
        /\ \A k \in 1..n : k # r => heap'[k] = heap[k]
    BY <2>3, <2>5, <2>7
  <2>9. HeapEffect
    BY <1>1, <2>1, <2>3, <2>8, SMTT(60) DEF HeapEffect, InPlace
  <2>10. SlotsEffect
    <3>1. slots \in [DOMAIN slots -> Vars(n + 1)]
      BY <2>3, <2>6 DEF TypeOK
    <3>2. NewVar(SequenceVar(n + 1))
      BY <2>3 DEF NewVar, SequenceVar
    <3> QED  BY <1>1, <1>3, <2>2, <2>3, <2>6, <2>8, <3>1, <3>2 DEF SlotsEffect, Freed, Bound, With
  <2>11. InOutEffect
    BY <1>1, <2>3, <2>6, <2>8 DEF InOutEffect, TypeOK
  <2>12. pc' \in Successors(program, pc)
    BY <1>1 DEF Successors, Current, Jumps
  <2> QED  BY <1>1, <2>9, <2>10, <2>11, <2>12 DEF Effect
<1> QED  BY <1>4, <1>5

LEMMA EveryStep ==
    ASSUME TypeOK, IsCode(program), Execute
    PROVE  Abort \/ Effect
BY InStep, OutStep, FreeStep, IdentityStep, ConstantStep, ElementwiseStep, JumpStep,
   SequenceCreateStep, SequenceSizeStep, SequenceCopyStep, SequenceStackStep,
   SequenceAppendStep, SequencePopStep, SequenceMoveStep DEF Execute
-----------------------------------------------------------------------------
(* The inductive invariant: what the code tells of a place is so.          *)

\* A variable known to be the program's own shares nothing with the caller.
OwnIsOwn ==
    \A x \in DOMAIN slots \cap Known.own :
        IsSequence(slots[x]) => slots[x][2] > Len(lent)

InputsRemain == InputsOf(program) \ Known.taken \subseteq DOMAIN inputs

MachineInv ==
    /\ TypeOK
    /\ Verified(program)
    /\ DOMAIN slots = Known.set
    /\ DOMAIN outputs = Known.done
    /\ OwnIsOwn
    /\ InputsRemain
    /\ lent \in Seq(Seq(Vars(Len(lent)))) /\ Len(lent) <= Len(heap)
    /\ CallerKeepsInputs

LEMMA InitiallyKnown == MachineInit => MachineInv
<1> SUFFICES ASSUME MachineInit PROVE MachineInv
  OBVIOUS
<1>1. /\ IsCode(program) /\ Verified(program) /\ Known = Nothing
      /\ pc = 1 /\ slots = <<>> /\ outputs = <<>> /\ heap = lent /\ failed = FALSE
      /\ lent \in Seq(Seq(Vars(Len(lent)))) /\ inputs \in [DOMAIN inputs -> Vars(Len(lent))]
  BY DEF MachineInit, Prepare, Verified, Justified, Known
<1>2. DOMAIN slots = {} /\ DOMAIN outputs = {}
  BY <1>1
<1>3. slots \in [{} -> Vars(Len(heap))] /\ outputs \in [{} -> Vars(Len(heap))]
  BY <1>1, <1>2
<1>4. Len(program) \in Nat
  BY <1>1 DEF IsCode
<1>5. TypeOK
  <2>1. heap \in Seq(Seq(Vars(Len(heap)))) /\ inputs \in [DOMAIN inputs -> Vars(Len(heap))]
    BY <1>1
  <2>2. pc \in 1..(Len(program) + 1)
    BY <1>1, <1>4
  <2>3. failed \in BOOLEAN
    BY <1>1
  <2> QED  BY <1>2, <1>3, <2>1, <2>2, <2>3 DEF TypeOK
<1>6. InputsRemain
  BY <1>1 DEF MachineInit, InputsRemain, Nothing
<1>7. OwnIsOwn /\ CallerKeepsInputs /\ Len(lent) <= Len(heap)
  BY <1>1, <1>2 DEF OwnIsOwn, CallerKeepsInputs
<1> QED  BY <1>1, <1>2, <1>5, <1>6, <1>7 DEF MachineInv, Nothing

\* What a verified program says of the instruction at the program counter.
LEMMA AtPlace ==
    ASSUME Verified(program), pc \in 1..Len(program)
    PROVE  /\ Allowed(Current, Known)
           /\ \A j \in Successors(program, pc) :
                 Agrees(KnownAfter(Current, Known), KnownAt(program)[j])
BY DEF Verified, Justified, Current, Known

LEMMA StaysKnown == MachineInv /\ [MachineNext]_machineVars => MachineInv'
<1> SUFFICES ASSUME MachineInv, [MachineNext]_machineVars PROVE MachineInv'
  OBVIOUS
<1>1. TypeOK /\ Verified(program) /\ IsCode(program)
  BY DEF MachineInv, Verified
<1>2. CASE UNCHANGED machineVars
  BY <1>2 DEF machineVars, vmVars, MachineInv, TypeOK, Known, OwnIsOwn, InputsRemain,
              CallerKeepsInputs
<1>3. CASE Abort /\ UNCHANGED lent
  BY <1>3 DEF Abort, MachineInv, TypeOK, Known, OwnIsOwn, InputsRemain, CallerKeepsInputs
<1>4. CASE Effect /\ UNCHANGED lent
  <2> DEFINE after == KnownAfter(Current, Known)
  <2>1. Allowed(Current, Known) /\ Agrees(after, Known')
    BY <1>1, <1>4, AtPlace DEF Effect, Known
  <2>2. /\ Known'.set = (Known.set \cup Outs(Current)) \ Freed
        /\ Known'.done = Known.done \cup (IF Current.op = "Out" THEN Reads(Current) ELSE {})
        /\ Known'.taken = Known.taken \cup (IF Current.op = "In" THEN Outs(Current) ELSE {})
        /\ Known'.own \subseteq (IF MayShare(Current, Known.own) THEN Known.own \ Outs(Current)
                                 ELSE Known.own \cup Outs(Current))
    BY <2>1 DEF KnownAfter, Agrees, Freed
  <2>3. program' = program /\ lent' = lent /\ IsCode(program') /\ Verified(program')
    BY <1>1, <1>4 DEF Effect
  <2>4. TypeOK'
    <3>1. pc' \in 1..(Len(program') + 1)
      BY <1>1, <1>4, <2>3 DEF IsCode, Effect
    <3>2. Len(heap') \in Nat /\ heap' \in Seq(Seq(Vars(Len(heap'))))
      BY <1>4 DEF Effect, HeapEffect
    <3>3. /\ slots' \in [DOMAIN slots' -> Vars(Len(heap'))]
          /\ inputs' \in [DOMAIN inputs' -> Vars(Len(heap'))]
          /\ outputs' \in [DOMAIN outputs' -> Vars(Len(heap'))]
      BY <1>4 DEF Effect, SlotsEffect, InOutEffect
    <3> QED  BY <1>1, <1>4, <3>1, <3>2, <3>3 DEF TypeOK, Effect
  <2>5. (DOMAIN slots = Known.set)' /\ (DOMAIN outputs = Known.done)' /\ InputsRemain'
    <3>1. DOMAIN slots' = (DOMAIN slots \cup Outs(Current)) \ Freed
      BY <1>4 DEF Effect, SlotsEffect
    <3>2. /\ DOMAIN inputs' = DOMAIN inputs \ (IF Current.op = "In" THEN Outs(Current) ELSE {})
          /\ DOMAIN outputs'
                = DOMAIN outputs \cup (IF Current.op = "Out" THEN Reads(Current) ELSE {})
      BY <1>4 DEF Effect, InOutEffect
    <3>3. InputsOf(program)' = InputsOf(program)
      BY <2>3 DEF InputsOf
    <3> QED  BY <2>2, <3>1, <3>2, <3>3 DEF MachineInv, InputsRemain
  <2>6. Len(lent) \in Nat /\ Len(heap) \in Nat /\ Len(heap') \in Nat
        /\ Len(lent) <= Len(heap) /\ Len(heap) <= Len(heap')
    BY <1>4, <2>4 DEF MachineInv, TypeOK, Effect, HeapEffect
  <2>7. Reads(Current) \subseteq DOMAIN slots
    BY <1>4 DEF Effect, SlotsEffect
  <2>8. Current \in Instructions
    BY <1>1, <1>4 DEF IsCode, Current, Effect
  <2>9. OwnIsOwn'
    <3> SUFFICES ASSUME NEW x \in DOMAIN slots', x \in Known'.own, IsSequence(slots'[x])
                 PROVE  slots'[x][2] > Len(lent)
      BY <2>3 DEF OwnIsOwn
    <3>1. CASE x \notin Outs(Current)
      <4>1. slots'[x] = slots[x] /\ x \in DOMAIN slots /\ x \in Known.own
        BY <1>4, <2>2, <3>1 DEF Effect, SlotsEffect
      <4> QED  BY <4>1 DEF MachineInv, OwnIsOwn, IsSequence
    <3>2. CASE x \in Outs(Current)
      <4>1. ~MayShare(Current, Known.own) /\ NewVar(slots'[x])
        BY <1>4, <2>2, <3>2 DEF Effect, SlotsEffect
      <4>2. CASE slots'[x][2] > Len(heap)
        <5>1. slots'[x] \in Vars(Len(heap'))
          BY <2>4 DEF TypeOK
        <5>2. slots'[x][2] \in Int
          BY <2>6, <5>1, VarsRead
        <5> QED  BY <2>6, <4>2, <5>2
      <4>3. CASE Current.op = "Identity" /\ slots'[x] = slots[Current.ins[1]]
        <5>1. Current.ins[1] \in Known.own
          BY <4>1, <4>3 DEF MayShare
        <5>2. Current.ins[1] \in DOMAIN slots
          BY <2>7, <2>8, <4>3, Shape, Named
        <5> QED  BY <4>3, <5>1, <5>2 DEF MachineInv, OwnIsOwn, IsSequence
      <4> QED  BY <4>1, <4>2, <4>3 DEF NewVar, MayShare
    <3> QED  BY <3>1, <3>2
  <2>10. CallerKeepsInputs'
    <3> SUFFICES ASSUME NEW k \in 1..Len(lent) PROVE heap'[k] = lent[k]
      BY <2>3 DEF CallerKeepsInputs
    <3>1. heap[k] = lent[k] /\ k \in 1..Len(heap)
      BY <2>6 DEF MachineInv, CallerKeepsInputs
    <3>2. ASSUME Current.op \in InPlace, slots[Current.ins[1]] = SequenceVar(k) PROVE FALSE
      <4>1. Current.ins[1] \in Known.own
        BY <2>1, <3>2 DEF Allowed
      <4>2. Current.ins[1] \in DOMAIN slots
        BY <2>7, <2>8, <3>2, Shape, Named DEF InPlace
      <4> QED  BY <2>6, <3>2, <4>1, <4>2 DEF MachineInv, OwnIsOwn, IsSequence, SequenceVar
    <3> QED  BY <1>4, <3>1, <3>2 DEF Effect, HeapEffect
  <2>11. lent' \in Seq(Seq(Vars(Len(lent')))) /\ Len(lent') <= Len(heap')
    BY <2>3, <2>6 DEF MachineInv
  <2> QED  BY <2>3, <2>4, <2>5, <2>9, <2>10, <2>11 DEF MachineInv
<1> QED  BY <1>1, <1>2, <1>3, <1>4, EveryStep DEF MachineNext

\* While verified code runs, what is known of each place from the code alone
\* is true whenever control gets there.
THEOREM MachineInvHolds == MachineSpec => []MachineInv
BY InitiallyKnown, StaysKnown, PTL DEF MachineSpec
-----------------------------------------------------------------------------
(* What follows for a run of any verified program on any inputs.           *)

\* The machine's state stays well formed (chxvm_state.cc): no variable and no
\* sequence ever refers to a sequence that does not exist, and control never
\* leaves the program.
THEOREM MachineTypeCorrect == MachineSpec => []TypeOK
<1>1. MachineInv => TypeOK
  BY DEF MachineInv
<1> QED  BY <1>1, MachineInvHolds, PTL

\* Every variable has been freed when the run is over (Free, emitted by
\* chxvm/emitter.cc), after any number of trips through any loop.
THEOREM MachineFreesEverything == MachineSpec => []EverythingIsFreed
<1>1. MachineInv => EverythingIsFreed
  <2> SUFFICES ASSUME MachineInv, Halted PROVE DOMAIN slots = {}
    BY DEF EverythingIsFreed
  <2>1. pc = Len(program) + 1
    BY DEF MachineInv, TypeOK, Halted, Verified, IsCode
  <2> QED  BY <2>1 DEF MachineInv, Verified, Justified, Known
<1> QED  BY <1>1, MachineInvHolds, PTL

\* The sequences the caller passed in are as they were, at every moment of
\* the run, although the machine's variables share them and sequences are
\* appended to, popped and moved in place (ops/sequence.cc).
THEOREM MachineKeepsCallersInputs == MachineSpec => []CallerKeepsInputs
<1>1. MachineInv => CallerKeepsInputs
  BY DEF MachineInv
<1> QED  BY <1>1, MachineInvHolds, PTL

\* A variable keeps its value until it is freed, although CreateSequence
\* (chxvm_state.cc) does not check that its variable is unset.
THEOREM MachineOverwritesNothing == MachineSpec => NoSilentOverwrite
<1>1. ASSUME MachineInv, [MachineNext]_machineVars
      PROVE  [\A x \in DOMAIN slots \cap DOMAIN slots' : slots'[x] = slots[x]]_slots
  <2>1. TypeOK /\ IsCode(program) /\ Verified(program)
    BY <1>1 DEF MachineInv, Verified
  <2>2. UNCHANGED machineVars \/ Abort \/ Effect
    BY <1>1, <2>1, EveryStep DEF MachineNext
  <2>3. CASE Effect
    <3>1. Outs(Current) \cap DOMAIN slots = {}
      BY <1>1, <2>1, <2>3, AtPlace DEF Effect, Allowed, MachineInv
    <3> QED  BY <2>3, <3>1 DEF Effect, SlotsEffect
  <2> QED  BY <2>2, <2>3 DEF machineVars, vmVars, Abort
<1> QED  BY <1>1, MachineInvHolds, PTL DEF MachineSpec, NoSilentOverwrite

\* What the instruction about to run needs is there: its operands are set,
\* its results are not, In finds its input and Out gives its output for the
\* first time.  The CHECKs of chxvm_state.cc that say so never fail: a run
\* of verified code can only end early over the kind or the size of a value.
NeedsAreMet ==
    ~Halted =>
        /\ ReadsAreSet
        /\ \A k \in DOMAIN Current.outs : ~IsSet(Current.outs[k])
        /\ Current.op = "In" => Dest \in DOMAIN inputs
        /\ Current.op = "Out" => Source \notin DOMAIN outputs

THEOREM MachineNeedsAreMet == MachineSpec => []NeedsAreMet
<1>1. MachineInv => NeedsAreMet
  <2> SUFFICES ASSUME MachineInv, ~Halted PROVE NeedsAreMet
    BY DEF NeedsAreMet
  <2>1. pc \in 1..Len(program) /\ Current \in Instructions
    BY DEF MachineInv, TypeOK, Halted, Verified, IsCode, Current
  <2>2. Allowed(Current, Known)
    BY <2>1, AtPlace DEF MachineInv
  <2>3. DOMAIN slots = Known.set /\ DOMAIN outputs = Known.done
    BY DEF MachineInv
  <2>4. ReadsAreSet
    BY <2>1, <2>2, <2>3, Shape DEF Allowed, Reads, ReadsAreSet, IsSet, Current
  <2>5. \A k \in DOMAIN Current.outs : ~IsSet(Current.outs[k])
    BY <2>1, <2>2, <2>3, Shape DEF Allowed, Outs, IsSet
  <2>6. ASSUME Current.op = "In" PROVE Dest \in DOMAIN inputs
    <3>1. Outs(Current) = {Dest}
      BY <2>1, <2>6, Shape, Named DEF Dest, Current
    <3>2. Outs(Current) \subseteq InputsOf(program)
      BY <2>1, <2>6 DEF InputsOf, Current
    <3>3. Outs(Current) \cap Known.taken = {}
      BY <2>2, <2>6 DEF Allowed
    <3> QED  BY <3>1, <3>2, <3>3 DEF MachineInv, InputsRemain
  <2>7. ASSUME Current.op = "Out" PROVE Source \notin DOMAIN outputs
    <3>1. Reads(Current) = {Source}
      BY <2>1, <2>7, Shape, Named DEF Source, Current
    <3> QED  BY <2>2, <2>3, <2>7, <3>1 DEF Allowed
  <2> QED  BY <2>4, <2>5, <2>6, <2>7 DEF NeedsAreMet
<1> QED  BY <1>1, MachineInvHolds, PTL
=============================================================================
