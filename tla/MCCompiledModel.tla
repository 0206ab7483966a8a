-------------------------- MODULE MCCompiledModel --------------------------
(***************************************************************************)
(* Families of small models: chains of sequence operators, an If, a fusion *)
(* group, a Loop, and an If or a Loop inside a Loop, with the trip counts, *)
(* conditions and uses that take the emitter and the machine through every *)
(* case they distinguish.                                                  *)
(***************************************************************************)
EXTENDS CompiledModel
LOCAL INSTANCE SequencesExt

MaxNodes == 3       \* nodes of a chain
MaxTrips == 3       \* trip count of a Loop

Node(op, name, ins, outs) ==
    [op |-> op, name |-> name, ins |-> ins, outs |-> outs,
     bodies |-> <<>>, values |-> <<>>]
WithBodies(node, bodies) == [node EXCEPT !.bodies = bodies]
WithValues(node, values) == [node EXCEPT !.values = values]

Graph(ins, outs, nodes) == [inputs |-> ins, outputs |-> outs, nodes |-> nodes]
Model(g, args)          == [graph |-> g, args |-> args]

Scalar(n)  == Compiler!Scalar(n)
Numbers(s) == Compiler!SequenceOf([i \in DOMAIN s |-> Scalar(s[i])])
None       == Compiler!None
-----------------------------------------------------------------------------
(* Chains: any operators over a sequence s and an array x.                 *)

\* The next node i of a chain, given the values it may read.
NextNodes(i, seqs, arrays) ==
    LET v == "v" \o ToString(i)
        p == "p" \o ToString(i)
    IN  {Node("Identity", v, <<s>>, <<v>>) : s \in seqs}
        \cup {Node("SequenceInsert", v, <<s, a>>, <<v>>) :
                 s \in seqs, a \in arrays}
        \cup {Node("ChainerSequencePop", v, <<s>>, <<v, p>>) : s \in seqs}
        \cup {Node("SequenceLength", v, <<s>>, <<p>>) : s \in seqs}
        \cup {Node("SequenceConstruct", v, <<"x", "x">>, <<v>>)}

Made(nodes, letter) ==
    {v \in UNION {Compiler!Named(nodes[i].outs) : i \in DOMAIN nodes} :
        \E i \in DOMAIN nodes : v = letter \o ToString(i)}

RECURSIVE Chains(_)
Chains(n) ==
    IF n = 0 THEN {<<>>}
    ELSE UNION {{Append(c, node) :
                    node \in NextNodes(n, {"s"} \cup Made(c, "v"),
                                       {"x"} \cup Made(c, "p"))} :
                c \in Chains(n - 1)}

\* The outputs are the last node's and any of the others' results.
OutputSets(chain) ==
    LET last == Compiler!Named(chain[Len(chain)].outs)
        all  == UNION {Compiler!Named(chain[i].outs) : i \in DOMAIN chain}
    IN  {last \cup more : more \in SUBSET (all \ last)}

ChainModels(n) ==
    {Model(Graph(<<"s", "x">>, SetToSeq(o[2]), o[1]),
           <<Numbers(<<1, 2, 3>>), Scalar(4)>>) :
        o \in UNION {{<<c, outs>> : outs \in OutputSets(c)} : c \in Chains(n)}}
-----------------------------------------------------------------------------
(* Bodies with one sequence, one array and one result; k makes the names   *)
(* of a body's values unique.                                              *)

BodyKinds == {"insert", "copy", "twice", "identity", "pop", "constants", "null"}

Body(kind, k) ==
    LET s == k \o "s"   x == k \o "x"   t == k \o "t"   o == k \o "o"
        nodes ==
          CASE kind = "insert" -> <<Node("SequenceInsert", o, <<s, x>>, <<o>>)>>
            [] kind = "copy" ->
                  <<Node("SequenceInsert", o, <<s, x>>, <<o>>),
                    Node("SequenceLength", t, <<s>>, <<t>>)>>
            [] kind = "twice" ->
                  <<Node("SequenceInsert", t, <<s, x>>, <<t>>),
                    Node("SequenceInsert", o, <<t, x>>, <<o>>)>>
            [] kind = "identity" -> <<Node("Identity", o, <<s>>, <<o>>)>>
            [] kind = "pop" -> <<Node("ChainerSequencePop", o, <<s>>, <<o, t>>)>>
            [] kind = "constants" ->
                  <<WithValues(Node("ChainerSequenceConstants", t, <<>>, <<t>>),
                               <<7, 8>>),
                    Node("SequenceInsert", o, <<t, x>>, <<o>>)>>
            [] OTHER -> <<>>
    IN  Graph(<<s, x>>, <<IF kind = "null" THEN None ELSE o>>, nodes)

\* q is a sequence of the model's own, s the caller's.
Before(v) ==
    IF v = "q" THEN <<Node("SequenceConstruct", "q", <<"x", "x">>, <<"q">>)>>
               ELSE <<>>

\* Readers of the result y and, again, of the argument v.
After(v, which) ==
    (IF "y" \in which THEN <<Node("SequenceLength", "ly", <<"y">>, <<"ly">>)>>
                      ELSE <<>>)
    \o (IF "v" \in which THEN <<Node("SequenceLength", "lv", <<v>>, <<"lv">>)>>
                         ELSE <<>>)

AfterOutputs(which) ==
    (IF "y" \in which THEN <<"ly">> ELSE <<"y">>)
    \o (IF "v" \in which THEN <<"lv">> ELSE <<>>)

Around(node, v, which, c) ==
    Model(Graph(<<"c", "s", "x">>, AfterOutputs(which),
                Before(v) \o <<node>> \o After(v, which)),
          <<Scalar(c), Numbers(<<1, 2, 3>>), Scalar(4)>>)

IfNode(name, ins, outs, then, else) ==
    WithBodies(Node("If", name, ins, outs),
               <<Body(then, name \o "t"), Body(else, name \o "e")>>)

IfModels ==
    {Around(IfNode("if", <<"c", v, "x">>, <<"y">>, then, else), v, which, c) :
        v \in {"s", "q"}, then \in BodyKinds, else \in BodyKinds,
        which \in SUBSET {"y", "v"}, c \in {0, 1}}

FusionModels ==
    {Around(WithBodies(Node("ChainerFusionGroup", "f", <<v, "x">>, <<"y">>),
                       <<Body(kind, "f")>>), v, which, 1) :
        v \in {"s", "q"}, kind \in BodyKinds, which \in SUBSET {"y", "v"}}
-----------------------------------------------------------------------------
(* Loops with an array and a sequence as states.                           *)

\* The condition the body computes: what it was given, or i < 1.
Conditions == {"given", "below"}

ConditionNodes(kind, k) ==
    IF kind = "given"
    THEN <<Node("Identity", k \o "co", <<k \o "cond">>, <<k \o "co">>)>>
    ELSE <<WithValues(Node("Constant", k \o "k", <<>>, <<k \o "k">>), <<1>>),
           Node("Greater", k \o "co", <<k \o "k", k \o "i">>, <<k \o "co">>)>>

\* What a trip does to the states: a' = a + i; s' by one operator, an If on
\* the condition, an inner Loop, or nothing at all (null).
StateKinds == {"insert", "copy", "identity", "null", "if", "loop"}

SumNode(k) ==
    Node("Add", k \o "sum", <<k \o "a", k \o "i">>, <<k \o "a2">>)

InnerLoop(k) ==
    WithBodies(
        Node("Loop", "inner", <<k \o "two", None, k \o "a">>, <<k \o "a3", k \o "stacked">>),
        <<Graph(<<"ni", "ncond", "na">>, <<"nco", "na2", "nsc">>,
                ConditionNodes("given", "n")
                \o <<SumNode("n"),
                     Node("Identity", "nsc", <<"ni">>, <<"nsc">>)>>)>>)

StateNodes(kind, k) ==
    LET s == k \o "s"   o == k \o "s2"
    IN  CASE kind = "insert" ->
                <<Node("SequenceInsert", o, <<s, k \o "i">>, <<o>>)>>
          [] kind = "copy" ->
                <<Node("SequenceInsert", o, <<s, k \o "i">>, <<o>>),
                  Node("SequenceLength", k \o "len", <<s>>, <<k \o "len">>)>>
          [] kind = "identity" -> <<Node("Identity", o, <<s>>, <<o>>)>>
          [] kind = "if" ->
                <<IfNode("in", <<k \o "co", s, k \o "i">>, <<o>>, "copy", "identity")>>
          [] kind = "loop" ->
                <<WithValues(Node("Constant", k \o "two", <<>>, <<k \o "two">>), <<2>>),
                  InnerLoop(k),
                  Node("SequenceInsert", o, <<s, k \o "a3">>, <<o>>)>>
          [] OTHER -> <<>>

LoopBody(condition, state, scans) ==
    Graph(<<"li", "lcond", "la", "ls">>,
          <<"lco", "la2", IF state = "null" THEN None ELSE "ls2">>
              \o (IF scans = 1 THEN <<"lsc">> ELSE <<>>),
          ConditionNodes(condition, "l") \o <<SumNode("l")>>
              \o StateNodes(state, "l")
              \o (IF scans = 1 THEN <<Node("Identity", "lsc", <<"li">>, <<"lsc">>)>>
                               ELSE <<>>))

\* `unused` drops the final sequence.
LoopModel(trips, cond, condition, state, scans, v, which, unused) ==
    LET loop == WithBodies(
                  Node("Loop", "loop",
                       <<IF trips = -1 THEN None ELSE "m",
                         IF cond = -1 THEN None ELSE "c", "x", v>>,
                       <<"ya", IF unused THEN None ELSE "y">>
                           \o (IF scans = 1 THEN <<"ysc">> ELSE <<>>)),
                  <<LoopBody(condition, state, scans)>>)
        outs == <<"ya">> \o (IF unused THEN <<>> ELSE AfterOutputs(which))
                    \o (IF scans = 1 THEN <<"ysc">> ELSE <<>>)
    IN  Model(Graph(<<"m", "c", "s", "x">>, outs,
                    Before(v) \o <<loop>>
                        \o (IF unused THEN <<>> ELSE After(v, which))),
              <<Scalar(trips), Scalar(cond), Numbers(<<1, 2>>), Scalar(4)>>)

\* -1 stands for an absent trip count or condition.  Left out: loops with
\* neither (the emitter rejects them), endless loops, and loops that make no
\* trip but have a scan (nothing can be stacked).
LoopModels ==
    {LoopModel(t, c, condition, state, scans, v, which, unused) :
        <<t, c, condition, scans>> \in
            {p \in (-1..MaxTrips) \X {-1, 0, 1} \X Conditions \X {0, 1} :
                /\ ~(p[1] = -1 /\ p[2] = -1)
                /\ ~(p[1] = -1 /\ p[3] = "given")
                /\ p[4] = 1 => p[1] # 0 /\ p[2] # 0},
        state \in StateKinds, v \in {"s", "q"},
        which \in {{}, {"v"}}, unused \in BOOLEAN}
-----------------------------------------------------------------------------
(* The machine moves a sequence out of its variable when the node that     *)
(* changes it is its only reader in its graph.  That is safe when nothing  *)
(* else refers to the sequence: it was created by an operator of the same  *)
(* graph and is not an output of it, or it was handed to the body by an    *)
(* outer value of that kind.                                               *)

Creators == {"SequenceInsert", "ChainerSequencePop", "SequenceConstruct",
             "ChainerSequenceConstants"}

Created(g) ==
    {g.nodes[i].outs[1] : i \in {j \in DOMAIN g.nodes : g.nodes[j].op \in Creators}}

OutputsOf(g) == Compiler!Named(g.outputs)

\* The inputs of the body of `node` that hand over an owned sequence.
HandedOver(node, body, owned) ==
    LET shift == Len(node.ins) - Len(body.inputs)   \* 1 for the If's condition
    IN  {body.inputs[j] : j \in {k \in DOMAIN body.inputs :
            /\ node.ins[k + shift] \in owned
            /\ node.op = "Loop" =>
                  /\ k > 2
                  /\ body.outputs[k - 1] \in Created(body)
                  /\ Compiler!Users(body, body.outputs[k - 1]) = 0}}

RECURSIVE MovesOnlyOwned(_, _)
MovesOnlyOwned(g, given) ==
    LET owned == {v \in (Created(g) \ OutputsOf(g)) \cup given :
                     Compiler!Users(g, v) = 1}
    IN  \A i \in DOMAIN g.nodes :
            LET node == g.nodes[i]
            IN  /\ /\ node.op \in {"SequenceInsert", "ChainerSequencePop"}
                   /\ Compiler!Users(g, node.ins[1]) = 1
                   => node.ins[1] \in owned
                /\ \A b \in DOMAIN node.bodies :
                      MovesOnlyOwned(node.bodies[b],
                                     HandedOver(node, node.bodies[b], owned))

Unshared(models) == {m \in models : MovesOnlyOwned(m.graph, {})}

OwnedModels ==
    Unshared(UNION {ChainModels(n) : n \in 1..MaxNodes}
             \cup IfModels \cup FusionModels \cup LoopModels)

\* Models whose sequences have other holders when they are moved.
SharedModels == IfModels \cup ChainModels(2)
=============================================================================
