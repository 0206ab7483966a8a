------------------------------- MODULE Field -------------------------------
(***************************************************************************)
(* The variables of a function while elichika evaluates it                 *)
(* (parser/values.py).  A Field keeps a stack of attribute collections:    *)
(* push_history opens one for the body of an if or of a loop and           *)
(* pop_history drops it, so that what the body did to a variable is undone *)
(* and can be told apart as an output of the body.  A collection maps a    *)
(* name to an Object, which holds a Value; an Object can be revised in     *)
(* place, and is then restored from the record that was made when its name *)
(* was first looked up in the collection.                                  *)
(*                                                                         *)
(* A field is a sequence of collections, the last one on top, and the heap *)
(* maps the Objects, which are numbers, to their values.                   *)
(***************************************************************************)
EXTENDS Integers, Sequences

EmptyCollection == [attributes |-> [x \in {} |-> 0], inputs |-> [x \in {} |-> 0]]

Top(field) == field[Len(field)]

\* The function f with x mapped to v.
Extended(f, x, v) == [y \in DOMAIN f \cup {x} |-> IF y = x THEN v ELSE f[y]]

\* The levels whose collection has the name; the innermost one is found first.
Holders(field, x) == {i \in 1..Len(field) : x \in DOMAIN field[i].attributes}
Innermost(field, x) ==
  CHOOSE i \in Holders(field, x) : \A j \in Holders(field, x) : j <= i

has_attribute(field, x) == Holders(field, x) # {}

\* The Object the name stands for, and its value.
ObjectOf(field, x) == field[Innermost(field, x)].attributes[x]
ValueOf(field, heap, x) == heap[ObjectOf(field, x)]

(***************************************************************************)
(* A look-up climbs to the innermost collection that has the name.  On the *)
(* way back every collection gets the attribute and a record of the Object *)
(* and of the value it has: the name is an input of those bodies.          *)
(***************************************************************************)
try_get_attribute_on_top_only(field, heap, x) ==
  IF ~has_attribute(field, x) \/ Innermost(field, x) = Len(field) THEN field
  ELSE [field EXCEPT ![Len(field)] =
          [attributes |-> Extended(@.attributes, x, ObjectOf(field, x)),
           inputs |-> Extended(@.inputs, x, [obj |-> ObjectOf(field, x), value |-> ValueOf(field, heap, x)])]]
try_get_attribute(field, heap, x) ==
  IF ~has_attribute(field, x) THEN field
  ELSE [i \in 1..Len(field) |->
          IF i <= Innermost(field, x) THEN field[i]
          ELSE [attributes |-> Extended(field[i].attributes, x, ObjectOf(field, x)),
                inputs |-> Extended(field[i].inputs, x,
                             [obj |-> ObjectOf(field, x), value |-> ValueOf(field, heap, x)])]]

\* get_attribute makes the attribute on top when there is none; revise gives it an Object.
revise(field, heap, x, o) ==
  LET found == try_get_attribute(field, heap, x) IN
  [found EXCEPT ![Len(field)].attributes = Extended(@, x, o)]

push_history(field) == Append(field, EmptyCollection)

\* Leaving a body restores the value of every Object the body looked up.
Restored_not_at_all(field, heap) == heap
Restored_to_the_object(field, heap) ==
  LET ins == Top(field).inputs IN
  [o \in DOMAIN heap |-> IF \E x \in DOMAIN ins : ins[x].obj = o THEN o ELSE heap[o]]
Restored(field, heap) ==
  LET ins == Top(field).inputs IN
  [o \in DOMAIN heap |->
     IF \E x \in DOMAIN ins : ins[x].obj = o
     THEN ins[CHOOSE x \in DOMAIN ins : ins[x].obj = o].value
     ELSE heap[o]]

pop_history(field) == [i \in 1..(Len(field) - 1) |-> field[i]]

\* The names a body looked up, and the names it leaves with another Object or value.
get_inputs(field) == DOMAIN Top(field).inputs
get_outputs_other_objects(field, heap) ==
  LET c == Top(field) IN
  {x \in DOMAIN c.attributes : x \notin DOMAIN c.inputs \/ c.attributes[x] # c.inputs[x].obj}
get_outputs(field, heap) ==
  LET c == Top(field) IN
  {x \in DOMAIN c.attributes :
     \/ x \notin DOMAIN c.inputs
     \/ c.attributes[x] # c.inputs[x].obj
     \/ heap[c.attributes[x]] # c.inputs[x].value}

=============================================================================
