---------------------------- MODULE BranchStack ----------------------------
(***************************************************************************)
(* What the history of elichika's variables promises: the body of an if or *)
(* of a loop starts from the variables as they are, what it writes is seen *)
(* in it and in the bodies inside it, and leaving it leaves every variable *)
(* as it was before, so that the other branch starts from the same state.  *)
(***************************************************************************)
EXTENDS Integers, Sequences

CONSTANTS Names, Values, Undefined

VARIABLE scopes     \* a sequence of assignments of values to names, innermost last

InitScope == [x \in Names |-> Undefined]

Init == scopes = << InitScope >>

Enter == scopes' = Append(scopes, scopes[Len(scopes)])

Leave ==
  /\ Len(scopes) > 1
  /\ scopes' = [i \in 1..(Len(scopes) - 1) |-> scopes[i]]

Write(x, v) == scopes' = [scopes EXCEPT ![Len(scopes)][x] = v]

Next == Enter \/ Leave \/ \E x \in Names, v \in Values : Write(x, v)

Spec == Init /\ [][Next]_scopes

=============================================================================
