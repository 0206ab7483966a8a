-------------------------- MODULE Rematerialization --------------------------
(***************************************************************************)
(* What trading time for memory means, without graphs being edited: a game *)
(* in which values are held or not.  A node may be computed when its       *)
(* inputs are held and its outputs are not, any value may be forgotten,    *)
(* and a node's gradients may be taken, once, when its inputs and outputs  *)
(* are held and the gradients of all nodes that read its outputs have been *)
(* taken.                                                                  *)
(***************************************************************************)
EXTENDS TrainingGraph

VARIABLES game,     \* the graph
          held,     \* the values in memory
          taken     \* the nodes whose gradients have been taken

gameVars == <<game, held, taken>>

GameInit == held \in {game.inputs, Values(game)} /\ taken = {}

Ins(n)  == Elements(game.nodes[n].ins)
Outs(n) == Elements(game.nodes[n].outs)

Compute(n) ==
    /\ Ins(n) \subseteq held
    /\ Outs(n) \cap held = {}
    /\ held' = held \cup Outs(n)
    /\ UNCHANGED <<game, taken>>

Forget(v) ==
    /\ v \in held
    /\ held' = held \ {v}
    /\ UNCHANGED <<game, taken>>

Differentiate(n) ==
    /\ n \notin taken
    /\ Ins(n) \cup Outs(n) \subseteq held
    /\ \A m \in NecessaryNodes(game) : Ins(m) \cap Outs(n) # {} => m \in taken
    /\ taken' = taken \cup {n}
    /\ UNCHANGED <<game, held>>

GameNext ==
    \/ \E n \in DOMAIN game.nodes : Compute(n) \/ Differentiate(n)
    \/ \E v \in held : Forget(v)

GameSpec == GameInit /\ [][GameNext]_gameVars
=============================================================================
