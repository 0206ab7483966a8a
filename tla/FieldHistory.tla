---------------------------- MODULE FieldHistory ----------------------------
(***************************************************************************)
(* One field of elichika's evaluator under the statements of a function:   *)
(* the names are read, assigned and revised in place, bodies of if and for *)
(* are entered and left, and what a body left is merged into the variables *)
(* of the enclosing level (parser/values.py, and the calls of it in        *)
(* parser/vevaluator.py).                                                  *)
(*                                                                         *)
(* Only variables whose assignment makes an Object of their own are        *)
(* modelled: numbers, strings, booleans, None and tuples                   *)
(* (return_value_or_obj).  Lists and tensors share one Object between two  *)
(* names after y = x, and the promise below does not hold for them.        *)
(***************************************************************************)
EXTENDS Field

CONSTANTS
  Names,        \* the variables
  Values,       \* the values an Object may hold
  Undefined,    \* a variable without an Object
  MaxDepth,     \* bound: collections of the field
  MaxObjects    \* bound: Objects made

ASSUME FieldAssumption ==
  /\ Undefined \notin Values
  /\ MaxDepth \in Nat
  /\ MaxObjects \in Nat

VARIABLES
  field,     \* the collections, innermost last
  heap,      \* the value of each Object
  released   \* per level, the outputs of the bodies left at it: name and Object

vars == << field, heap, released >>

Objects == 1..Len(heap)

Init ==
  /\ field = << EmptyCollection >>
  /\ heap = << >>
  /\ released = << {} >>

\* veval_ast_name: the variable is looked up.
Read(x) ==
  /\ has_attribute(field, x)
  /\ field' = try_get_attribute(field, heap, x)
  /\ UNCHANGED << heap, released >>

\* veval_ast_assign: the attribute, an input if there was one, gets a new Object.
Assign(x, v) ==
  /\ Len(heap) < MaxObjects
  /\ heap' = Append(heap, v)
  /\ field' = revise(field, heap', x, Len(heap) + 1)
  /\ UNCHANGED released

\* veval_ast_aug_assign: the Object of the variable is revised in place.
AugAssign(x, v) ==
  /\ has_attribute(field, x)
  /\ field' = try_get_attribute(field, heap, x)
  /\ heap' = [heap EXCEPT ![ObjectOf(field, x)] = v]
  /\ UNCHANGED released

PushHistory ==
  /\ Len(field) < MaxDepth
  /\ field' = push_history(field)
  /\ released' = Append(released, {})
  /\ UNCHANGED heap

\* The outputs of the body are collected, then the field goes back to the level outside.
LeftBehind == {<< x, Top(field).attributes[x] >> : x \in get_outputs(field, heap)}

PopHistory ==
  /\ Len(field) > 1
  /\ heap' = Restored(field, heap)
  /\ field' = pop_history(field)
  /\ released' = [i \in 1..(Len(released) - 1) |->
                    IF i = Len(released) - 1 THEN released[i] \cup LeftBehind ELSE released[i]]

(***************************************************************************)
(* After an if or a for, the Object that a body left for a variable is     *)
(* revised to the output of the node and given to the variable: first the  *)
(* Object is revised, then the attribute is looked up.                     *)
(***************************************************************************)
Merge(x, o, v) ==
  /\ << x, o >> \in Top(released)
  /\ heap' = [heap EXCEPT ![o] = v]
  /\ field' = revise(field, heap', x, o)
  /\ UNCHANGED released

Next ==
  \/ \E x \in Names : Read(x)
  \/ \E x \in Names, v \in Values : Assign(x, v) \/ AugAssign(x, v)
  \/ \E x \in Names, o \in Objects, v \in Values : Merge(x, o, v)
  \/ PushHistory
  \/ PopHistory

Spec == Init /\ [][Next]_vars

-----------------------------------------------------------------------------
(***************************************************************************)
(* What a variable is worth at a level: on top, the value of its Object;   *)
(* below, the value it will have when the levels above are left, which is  *)
(* the one the next level recorded, or else that of its Object.            *)
(***************************************************************************)
DefinedAt(i, x) == \E j \in 1..i : x \in DOMAIN field[j].attributes

ValueAt(i, x) ==
  IF i < Len(field) /\ x \in DOMAIN field[i + 1].inputs THEN field[i + 1].inputs[x].value
  ELSE IF DefinedAt(i, x) THEN ValueOf(field, heap, x)
  ELSE Undefined

Scopes == [i \in 1..Len(field) |-> [x \in Names |-> ValueAt(i, x)]]

Branches == INSTANCE BranchStack WITH scopes <- Scopes

\* Entering, writing and leaving the bodies of if and for treats the
\* variables as a stack of scopes would: a body sees the variables as they
\* are, and leaving it undoes everything it wrote, whether it assigned the
\* variable or revised its Object, at whatever depth the Object was made.
BodiesAreUndone == Branches!Spec

\* The collections map names to Objects that exist, and record values.
CollectionOK(c) ==
  /\ DOMAIN c.attributes \subseteq Names
  /\ \A x \in DOMAIN c.attributes : c.attributes[x] \in Objects
  /\ DOMAIN c.inputs \subseteq DOMAIN c.attributes
  /\ \A x \in DOMAIN c.inputs : c.inputs[x].obj \in Objects /\ c.inputs[x].value \in Values

TypeOK ==
  /\ Len(field) \in 1..MaxDepth \cup {1}
  /\ Len(released) = Len(field)
  /\ heap \in Seq(Values)
  /\ \A i \in 1..Len(field) : CollectionOK(field[i])
  /\ \A i \in 1..Len(released) : released[i] \subseteq Names \X Objects

\* When a body is about to be left, every variable that is worth something
\* else than in the enclosing level is among the outputs of the body: the
\* node made for the if or the loop carries every change out.
ChangesAreOutputs ==
  Len(field) > 1 =>
    \A x \in Names :
      ValueAt(Len(field), x) # ValueAt(Len(field) - 1, x) => x \in get_outputs(field, heap)

\* The value of an input that the node receives is the one the variable has
\* outside the body, at the level where the node is added.
InputsComeFromOutside ==
  Len(field) > 1 =>
    \A x \in get_inputs(field) :
      LET left == pop_history(field) IN
      /\ has_attribute(left, x)
      /\ Top(field).inputs[x].value = ValueOf(left, Restored(field, heap), x)

=============================================================================
