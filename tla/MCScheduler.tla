---------------------------- MODULE MCScheduler ----------------------------
(***************************************************************************)
(* Scheduler over graphs of three nodes: constants, nodes without results, *)
(* nodes that read a value twice or pass a null input, unwanted (null)     *)
(* results, dead nodes, values of unknown size and inputs nobody gives.    *)
(***************************************************************************)
EXTENDS Scheduler, TLC

\* What the nodes may compute; node 3 computes the graph's output or nothing.
Results == <<{<<"a">>, <<"a", "null">>},
             {<<"b">>, <<"null", "b">>, << >>},
             {<<"c">>, << >>}>>

\* Up to two inputs, the order of which does not matter, from a sequence.
Reads(s) ==
    {<< >>} \cup {<<s[i]>> : i \in DOMAIN s} \cup
        UNION {{<<s[i], s[k]>> : k \in i..Len(s)} : i \in DOMAIN s}

Readable == <<<<"x">>, <<"x", "a", "null">>, <<"y", "a", "b">>>>

ValueNames == {"x", "y", "a", "b", "c", "null"}

\* x is large, so that reading it may pay for a result; b's size is unknown.
Sizes == [x |-> 2, y |-> 1, a |-> 1, b |-> -1, c |-> 3, null |-> 0]

GraphsOf(results) ==
    {[nodes |-> 1..3, values |-> ValueNames,
      ins   |-> <<i1, i2, i3>>, outs |-> results,
      bytes |-> Sizes, relus |-> {3},
      nullProducer |->
          IF \A n \in 1..3 : "null" \notin Elements(results[n]) THEN 0
          ELSE CHOOSE n \in 1..3 : "null" \in Elements(results[n])] :
        i1 \in Reads(Readable[1]), i2 \in Reads(Readable[2]),
        i3 \in Reads(Readable[3])}

SmallGraphs == UNION {GraphsOf(<<r1, r2, r3>>) :
    r1 \in Results[1], r2 \in Results[2], r3 \in Results[3]}

\* The whole graph at once, or first the nodes that compute a.
RequestLists(g) ==
    LET computed == UNION {Elements(g.outs[n]) : n \in g.nodes} \ {"null"}
        whole    == [inputs |-> <<"x", "y">>, outputs |-> {"b", "c"} \cap computed]
        first    == [inputs |-> <<"x">>, outputs |-> {"a"}]
    IN  {<<whole>>, <<first, whole>>}

SmallJobs ==
    UNION {{[graph |-> g, requests |-> r] : r \in RequestLists(g)} :
              g \in SmallGraphs}
=============================================================================
