------------------------------ MODULE ChxVMCode ------------------------------
(***************************************************************************)
(* What the machine needs to know of its code.  ChxVM does not look at a   *)
(* program before it runs it: instructions CHECK their variables when they *)
(* are executed.  The code is right for every input if the same can be     *)
(* seen from the code alone: on all paths to an instruction the same       *)
(* variables are set, it reads only those and sets only others, and what   *)
(* it changes in place is not the caller's.  Verified(code) says so; the   *)
(* emitter's programs are to be verified code, and the machine is          *)
(* specified here with any verified code and any inputs.                   *)
(***************************************************************************)
EXTENDS ChxVM
LOCAL INSTANCE SequencesExt

VARIABLE lent      \* the caller's sequences as they were when the run began

machineVars == <<vmVars, lent>>
-----------------------------------------------------------------------------
(* Shapes of instructions (runtime/chxvm_defs.py).                         *)

Kinds == {<<"In", 1, 0>>, <<"Out", 0, 1>>, <<"Free", 0, 1>>, <<"Identity", 1, 1>>,
          <<"NullConstant", 1, 0>>, <<"IntScalarConstant", 1, 0>>,
          <<"IntConstant", 1, 0>>, <<"Add", 1, 2>>, <<"Mul", 1, 2>>,
          <<"Greater", 1, 2>>, <<"Jmp", 0, 0>>, <<"JmpTrue", 0, 1>>,
          <<"JmpFalse", 0, 1>>, <<"SequenceSize", 1, 1>>, <<"SequenceCopy", 1, 1>>,
          <<"SequenceStack", 1, 1>>, <<"SequenceAppend", 0, 2>>,
          <<"SequencePop", 1, 1>>, <<"SequenceMove", 1, 1>>}

Jumps   == {"Jmp", "JmpTrue", "JmpFalse"}
InPlace == {"SequenceAppend", "SequencePop", "SequenceMove"}

Instructions ==
    {c \in [op : STRING, outs : Seq(STRING), ins : Seq(STRING), imm : Seq(Int)] :
        /\ \/ <<c.op, Len(c.outs), Len(c.ins)>> \in Kinds
           \/ c.op = "SequenceCreate" /\ Len(c.outs) = 1
        /\ c.op \in Jumps => Len(c.imm) = 1}

\* The places control may go to from place i.
Successors(code, i) ==
    (IF code[i].op \in Jumps THEN {code[i].imm[1]} ELSE {})
    \cup (IF code[i].op = "Jmp" THEN {} ELSE {i + 1})

IsCode(code) ==
    /\ code \in Seq(Instructions)
    /\ \A i \in 1..Len(code) : Successors(code, i) \subseteq 1..(Len(code) + 1)
-----------------------------------------------------------------------------
(* What is known at a place: `set`, the variables that are set; `own`,     *)
(* those of them that hold no sequence of the caller's; `taken`, the       *)
(* inputs taken so far, and `done`, the outputs.                           *)

Nothing == [set |-> {}, own |-> {}, taken |-> {}, done |-> {}]

Outs(c) == {c.outs[k] : k \in 1..Len(c.outs)}
Reads(c) == {c.ins[k] : k \in 1..Len(c.ins)}

\* An instruction that may make its result refer to a sequence of the caller.
MayShare(c, own) ==
    \/ c.op \in {"In", "SequencePop"}
    \/ c.op = "Identity" /\ c.ins[1] \notin own

KnownAfter(c, known) ==
    [set   |-> (known.set \cup Outs(c)) \ (IF c.op = "Free" THEN Reads(c) ELSE {}),
     own   |-> IF MayShare(c, known.own) THEN known.own \ Outs(c)
               ELSE known.own \cup Outs(c),
     taken |-> known.taken \cup (IF c.op = "In" THEN Outs(c) ELSE {}),
     done  |-> known.done \cup (IF c.op = "Out" THEN Reads(c) ELSE {})]

\* What the instruction needs.
Allowed(c, known) ==
    /\ Reads(c) \subseteq known.set
    /\ Outs(c) \cap known.set = {}
    /\ c.op = "In" => Outs(c) \cap known.taken = {}
    /\ c.op = "Out" => Reads(c) \cap known.done = {}
    /\ c.op \in InPlace => c.ins[1] \in known.own

Agrees(known, next) ==
    /\ next.set = known.set /\ next.taken = known.taken /\ next.done = known.done
    /\ next.own \subseteq known.own

\* What is known at each place, as the places before it tell.
KnownAt(code) ==
    FoldLeft(LAMBDA known, i :
        LET before == {j \in 1..(i - 1) : i \in Successors(code, j)}
            from(j) == KnownAfter(code[j], known[j])
            first  == from(CHOOSE j \in before : TRUE)
        IN  Append(known,
                IF before = {} THEN Nothing
                ELSE [first EXCEPT !.own = {x \in @ : \A j \in before : x \in from(j).own}]),
        <<>>, [i \in 1..(Len(code) + 1) |-> i])

Justified(code, known) ==
    /\ known[1] = Nothing
    /\ known[Len(code) + 1].set = {}
    /\ \A i \in 1..Len(code) :
          /\ Allowed(code[i], known[i])
          /\ \A j \in Successors(code, i) : Agrees(KnownAfter(code[i], known[i]), known[j])

Verified(code) == IsCode(code) /\ Justified(code, KnownAt(code))
-----------------------------------------------------------------------------
(* The machine with verified code.                                         *)

\* What a variable may hold if there are n sequences.
Vars(n) == {NullVar} \cup ({"array"} \X Seq(Int)) \cup ({"sequence"} \X (1..n))

InputsOf(code) == UNION {Outs(code[i]) : i \in {k \in 1..Len(code) : code[k].op = "In"}}

MachineInit ==
    /\ Prepare(program, inputs, lent)
    /\ Verified(program)
    /\ lent \in Seq(Seq(Vars(Len(lent))))
    /\ inputs \in [DOMAIN inputs -> Vars(Len(lent))]
    /\ InputsOf(program) \subseteq DOMAIN inputs

MachineNext == Execute /\ UNCHANGED lent

MachineSpec == MachineInit /\ [][MachineNext]_machineVars
-----------------------------------------------------------------------------
(* Properties.                                                             *)

\* The machine's state is well formed: variables and sequences that hold
\* sequences refer to sequences that exist, and the program counter stays in
\* the program.
TypeOK ==
    /\ pc \in 1..(Len(program) + 1)
    /\ heap \in Seq(Seq(Vars(Len(heap))))
    /\ slots \in [DOMAIN slots -> Vars(Len(heap))]
    /\ inputs \in [DOMAIN inputs -> Vars(Len(heap))]
    /\ outputs \in [DOMAIN outputs -> Vars(Len(heap))]
    /\ failed \in BOOLEAN

\* When the run is over every variable has been freed, on each path through
\* branches and after any number of trips.
EverythingIsFreed == Halted => DOMAIN slots = {}

\* A run leaves the sequences the caller passed in as they were, although
\* the machine's variables share them.
CallerKeepsInputs == \A k \in 1..Len(lent) : heap[k] = lent[k]

\* A variable keeps its value until it is freed.  CreateSequence does not
\* check that: a sequence left over from an earlier trip would be replaced
\* without a word.
NoSilentOverwrite ==
    [][\A x \in DOMAIN slots \cap DOMAIN slots' : slots'[x] = slots[x]]_slots
=============================================================================
