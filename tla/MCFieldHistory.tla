--------------------------- MODULE MCFieldHistory ---------------------------
(***************************************************************************)
(* A field with a few variables and values, which are interchangeable.     *)
(***************************************************************************)
EXTENDS FieldHistory, TLC

Symmetry == Permutations(Names) \cup Permutations(Values)

=============================================================================
