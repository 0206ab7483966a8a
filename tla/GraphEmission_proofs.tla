----------------------- MODULE GraphEmission_proofs -----------------------
(***************************************************************************)
(* Proofs about GraphEmission for every set of well-formed graphs, of any  *)
(* size.                                                                   *)
(***************************************************************************)
EXTENDS GraphEmission, FiniteSetTheorems, TLAPS

\* The inductive invariant: the counts say which values are still read, and
\* the live variables are the ones of those values.
IInv ==
    /\ graph \in Graphs
    /\ TypeOK
    /\ CountsAreRemainingUses
    /\ SlotDiscipline
    /\ LiveIsNeeded
    /\ NothingLeaks
    /\ finished => next = Len(graph.nodes) + 1
-----------------------------------------------------------------------------
(* Facts about graphs.                                                     *)

LEMMA UpToFinite ==
    ASSUME NEW n \in Nat
    PROVE  IsFiniteSet(1..n)
  BY FS_Interval

\* What the assumption on Graphs says of one node of one graph.
LEMMA GraphFacts ==
    ASSUME NEW g \in Graphs
    PROVE  /\ IsGraph(g) /\ WellFormed(g)
           /\ Len(g.nodes) \in Nat
           /\ \A i \in Order(g) :
                 /\ g.nodes[i].ins \in Seq(Values(g))
                 /\ Len(g.nodes[i].ins) \in Nat
                 /\ g.nodes[i].outs \subseteq Values(g)
                 /\ InputsOf(g.nodes[i]) \subseteq Values(g)
  <1>1. IsGraph(g) /\ WellFormed(g)
    BY GraphsAssumption DEF GraphsAssumption
  <1>2. g.nodes \in Seq([ins : Seq(Values(g)), outs : SUBSET Values(g)])
    BY <1>1 DEF IsGraph
  <1>3. Len(g.nodes) \in Nat
    BY <1>2
  <1>4. ASSUME NEW i \in Order(g)
        PROVE  /\ g.nodes[i].ins \in Seq(Values(g))
               /\ Len(g.nodes[i].ins) \in Nat
               /\ g.nodes[i].outs \subseteq Values(g)
               /\ InputsOf(g.nodes[i]) \subseteq Values(g)
    <2>1. g.nodes[i] \in [ins : Seq(Values(g)), outs : SUBSET Values(g)]
      <3> DEFINE NodeSet == [ins : Seq(Values(g)), outs : SUBSET Values(g)]
      <3>1. g.nodes \in Seq(NodeSet) /\ i \in 1..Len(g.nodes)
        BY <1>2 DEF Order
      <3> HIDE DEF NodeSet
      <3>2. g.nodes[i] \in NodeSet
        BY <3>1
      <3>. QED
        BY <3>2 DEF NodeSet
    <2>2. g.nodes[i].ins \in Seq(Values(g)) /\ g.nodes[i].outs \subseteq Values(g)
      BY <2>1
    <2>3. Len(g.nodes[i].ins) \in Nat
      BY <2>2
    <2>. QED
      BY <2>2, <2>3 DEF InputsOf
  <1>. QED
    BY <1>1, <1>3, <1>4

\* The elements of Uses(g, v), and that there are finitely many.
LEMMA UsesElements ==
    ASSUME NEW g, NEW v, NEW u
    PROVE  u \in Uses(g, v) <=>
              \E i \in Order(g) : \E j \in 1..Len(g.nodes[i].ins) :
                  u = <<i, j>> /\ g.nodes[i].ins[j] = v
  BY DEF Uses

LEMMA UsesFinite ==
    ASSUME NEW g \in Graphs, NEW v
    PROVE  IsFiniteSet(Uses(g, v))
  <1> DEFINE Places(i) == {j \in 1..Len(g.nodes[i].ins) : g.nodes[i].ins[j] = v}
             Parts     == {{i} \X Places(i) : i \in Order(g)}
             f         == [i \in Order(g) |-> {i} \X Places(i)]
  <1>1. IsFiniteSet(Order(g))
    BY GraphFacts, UpToFinite DEF Order
  <1>2. f \in Surjection(Order(g), Parts)
    BY DEF Surjection
  <1>3. IsFiniteSet(Parts)
    BY <1>1, <1>2, FS_Surjection
  <1>4. ASSUME NEW i \in Order(g) PROVE IsFiniteSet({i} \X Places(i))
    <2>1. IsFiniteSet(1..Len(g.nodes[i].ins))
      <3>1. Len(g.nodes[i].ins) \in Nat
        BY GraphFacts
      <3>. QED
        BY <3>1, UpToFinite
    <2>2. Places(i) \in SUBSET (1..Len(g.nodes[i].ins))
      OBVIOUS
    <2>3. IsFiniteSet(Places(i))
      BY <2>1, <2>2, FS_Subset
    <2>4. IsFiniteSet({i})
      BY FS_Singleton
    <2>. QED
      BY <2>3, <2>4, FS_Product
  <1>5. \A T \in Parts : IsFiniteSet(T)
    BY <1>4
  <1>6. IsFiniteSet(UNION Parts)
    BY <1>3, <1>5, FS_UNION
  <1>. QED
    BY <1>6 DEF Uses

\* Node k's reads of v are what tells the uses from k on from those after k.
LEMMA CountSplit ==
    ASSUME NEW g \in Graphs, NEW v, NEW k \in Order(g)
    PROVE  /\ IsFiniteSet(UsesFrom(g, k, v))
           /\ IsFiniteSet(UsesFrom(g, k + 1, v))
           /\ Cardinality(UsesFrom(g, k + 1, v)) \in Nat
           /\ Occurrences(g.nodes[k], v) \in Nat
           /\ Cardinality(UsesFrom(g, k, v)) =
                 Cardinality(UsesFrom(g, k + 1, v)) + Occurrences(g.nodes[k], v)
           /\ Occurrences(g.nodes[k], v) > 0 <=> v \in InputsOf(g.nodes[k])
           /\ Cardinality(UsesFrom(g, k + 1, v)) = 0 <=> UsesFrom(g, k + 1, v) = {}
  <1> DEFINE Places == {j \in 1..Len(g.nodes[k].ins) : g.nodes[k].ins[j] = v}
             Here   == {k} \X Places
             After  == UsesFrom(g, k + 1, v)
  <1>0. k \in Nat /\ Len(g.nodes) \in Nat /\ Len(g.nodes[k].ins) \in Nat
    BY GraphFacts DEF Order
  <1>1. IsFiniteSet(UsesFrom(g, k, v)) /\ IsFiniteSet(After)
    BY UsesFinite, FS_Subset DEF UsesFrom
  <1>2. IsFiniteSet(Places) /\ IsFiniteSet({k}) /\ Cardinality({k}) = 1
    <2>1. IsFiniteSet(1..Len(g.nodes[k].ins))
      BY <1>0, UpToFinite
    <2>2. Places \in SUBSET (1..Len(g.nodes[k].ins))
      OBVIOUS
    <2>3. IsFiniteSet(Places)
      BY <2>1, <2>2, FS_Subset
    <2>4. IsFiniteSet({k}) /\ Cardinality({k}) = 1
      BY FS_Singleton
    <2>. QED
      BY <2>3, <2>4
  <1>3. /\ Cardinality(After) \in Nat
        /\ Cardinality(Places) \in Nat
        /\ Cardinality(After) = 0 <=> After = {}
        /\ Cardinality(Places) = 0 <=> Places = {}
    BY <1>1, <1>2, FS_CardinalityType, FS_EmptySet
  <1>4. IsFiniteSet(Here) /\ Cardinality(Here) = Cardinality(Places)
    <2>1. IsFiniteSet(Here) /\ Cardinality(Here) = Cardinality({k}) * Cardinality(Places)
      BY <1>2, FS_Product
    <2>. QED
      BY <2>1, <1>2, <1>3
  <1>5. UsesFrom(g, k, v) = After \cup Here
    <2>1. ASSUME NEW u PROVE u \in UsesFrom(g, k, v) <=> u \in After \/ u \in Here
      <3>1. ASSUME NEW i \in Order(g), NEW j \in 1..Len(g.nodes[i].ins), u = <<i, j>>
            PROVE  i >= k <=> i >= k + 1 \/ i = k
        BY <1>0 DEF Order
      <3>2. u \in Here <=>
               \E j \in 1..Len(g.nodes[k].ins) : u = <<k, j>> /\ g.nodes[k].ins[j] = v
        OBVIOUS
      <3>3. u \in Here => u \in Uses(g, v) /\ u[1] = k
        BY <3>2, UsesElements
      <3>4. u \in Uses(g, v) /\ u[1] = k => u \in Here
        BY <3>2, UsesElements
      <3>5. u \in Uses(g, v) => u[1] \in Nat
        BY UsesElements, <1>0 DEF Order
      <3>. QED
        BY <1>0, <3>3, <3>4, <3>5 DEF UsesFrom
    <2>. QED
      BY <2>1
  <1>6. After \cap Here = {}
    <2>1. ASSUME NEW u, u \in After, u \in Here PROVE FALSE
      BY <1>0, <2>1 DEF UsesFrom
    <2>. QED
      BY <2>1
  <1>7. Cardinality(After \cup Here) =
           Cardinality(After) + Cardinality(Here) - Cardinality(After \cap Here)
    BY <1>1, <1>4, FS_Union
  <1>8. Cardinality(UsesFrom(g, k, v)) = Cardinality(After) + Cardinality(Places)
    <2>1. Cardinality(After \cap Here) = 0
      BY <1>6, FS_EmptySet
    <2> HIDE DEF After, Here, Places
    <2>. QED
      BY <1>3, <1>4, <1>5, <1>7, <2>1
  <1>9. Occurrences(g.nodes[k], v) = Cardinality(Places)
    BY DEF Occurrences
  <1>10. Places # {} <=> v \in InputsOf(g.nodes[k])
    BY DEF InputsOf
  <1>. QED
    BY <1>1, <1>3, <1>8, <1>9, <1>10

\* A value nobody reads, and the reads of a value the node itself computes.
LEMMA UsersAreUses ==
    ASSUME NEW g \in Graphs, NEW v \in Values(g)
    PROVE  /\ g.users[v] = Cardinality(UsesFrom(g, 1, v))
           /\ g.users[v] \in Nat
           /\ g.users[v] = 0 <=> Uses(g, v) = {}
  <1>1. \A u \in Uses(g, v) : u[1] >= 1
    BY UsesElements, GraphFacts DEF Order
  <1>2. UsesFrom(g, 1, v) = Uses(g, v)
    BY <1>1 DEF UsesFrom
  <1>3. g.users[v] = Cardinality(Uses(g, v))
    BY GraphFacts DEF WellFormed
  <1>4. IsFiniteSet(Uses(g, v))
    BY UsesFinite
  <1>5. /\ Cardinality(Uses(g, v)) \in Nat
        /\ Cardinality(Uses(g, v)) = 0 <=> Uses(g, v) = {}
    BY <1>4, FS_CardinalityType, FS_EmptySet
  <1>. QED
    BY <1>2, <1>3, <1>5

LEMMA ReadAfterComputed ==
    ASSUME NEW g \in Graphs, NEW k \in Order(g), NEW v \in g.nodes[k].outs
    PROVE  /\ v \notin g.inputs
           /\ \A u \in Uses(g, v) : u[1] \in Order(g) /\ u[1] > k
           /\ UsesFrom(g, k + 1, v) = Uses(g, v)
           /\ v \notin InputsOf(g.nodes[k])
  <1>1. WellFormed(g) /\ k \in Nat /\ Len(g.nodes) \in Nat
    BY GraphFacts DEF Order
  <1>2. v \notin g.inputs
    BY <1>1 DEF WellFormed
  <1>3. ASSUME NEW i \in Order(g), v \in InputsOf(g.nodes[i])
        PROVE  i > k
    <2>1. PICK m \in 1..(i - 1) : v \in g.nodes[m].outs
      BY <1>1, <1>2, <1>3 DEF WellFormed
    <2>2. m \in Order(g)
      BY <1>1, <2>1 DEF Order
    <2>3. m = k
      BY <1>1, <2>1, <2>2 DEF WellFormed
    <2>. QED
      BY <2>3, <1>1 DEF Order
  <1>4. \A u \in Uses(g, v) : u[1] \in Order(g) /\ v \in InputsOf(g.nodes[u[1]])
    BY UsesElements, SMTT(60) DEF InputsOf
  <1>5. \A u \in Uses(g, v) : u[1] \in Order(g) /\ u[1] > k
    BY <1>3, <1>4
  <1>6. UsesFrom(g, k + 1, v) = Uses(g, v)
    BY <1>5, <1>1 DEF UsesFrom, Order
  <1>7. v \notin InputsOf(g.nodes[k])
    BY <1>3, <1>1
  <1>. QED
    BY <1>2, <1>5, <1>6, <1>7
-----------------------------------------------------------------------------
LEMMA InitIInv == Init => IInv
  <1> SUFFICES ASSUME Init PROVE IInv
    OBVIOUS
  <1>1. graph \in Graphs /\ inLoop \in BOOLEAN /\ next = 1
    BY DEF Init
  <1>2. Counted(graph, inLoop) \subseteq Values(graph)
    BY DEF Counted, Values
  <1>3. numUsers \in [Counted(graph, inLoop) -> Int]
    BY <1>1, <1>2, UsersAreUses DEF Init, UserCounts
  <1>4. TypeOK
    <2>1. next \in 1..(Len(graph.nodes) + 1)
      BY <1>1, GraphFacts
    <2>2. live \subseteq Values(graph)
      BY DEF Init, Values
    <2>3. /\ staged \subseteq graph.inputs
          /\ todoOutputs \subseteq graph.outputs
          /\ fault \in BOOLEAN
          /\ finished \in BOOLEAN
      BY DEF Init
    <2>. QED
      BY <1>1, <1>3, <2>1, <2>2, <2>3 DEF TypeOK
  <1>5. CountsAreRemainingUses
    BY <1>1, <1>2, UsersAreUses DEF Init, UserCounts, CountsAreRemainingUses
  <1>6. \A v : Computed(v) <=> FALSE
    BY <1>1 DEF Computed
  <1>7. LiveIsNeeded
    BY <1>1, <1>6 DEF Init, LiveIsNeeded, Available, Needed, Values
  <1>. QED
    BY <1>1, <1>4, <1>5, <1>7 DEF Init, IInv, SlotDiscipline, NothingLeaks
-----------------------------------------------------------------------------
(* One iteration of EmitGraph.                                             *)

\* A counted input is freed after node `next` exactly when that node is the
\* last to read it.
LEMMA FreedInputsAreLastReads ==
    ASSUME IInv, next \in Order(graph)
    PROVE  FreedInputs(graph.nodes[next]) =
              {v \in InputsOf(graph.nodes[next]) \cap Counted(graph, inLoop) :
                  UsesFrom(graph, next + 1, v) = {}}
  <1> DEFINE node == graph.nodes[next]
  <1>1. graph \in Graphs /\ DOMAIN numUsers = Counted(graph, inLoop)
    BY DEF IInv, TypeOK
  <1>2. ASSUME NEW v \in InputsOf(node) \cap Counted(graph, inLoop)
        PROVE  numUsers[v] \in 1..Occurrences(node, v) <=>
                  UsesFrom(graph, next + 1, v) = {}
    <2>1. numUsers[v] = Cardinality(UsesFrom(graph, next, v))
      BY <1>1, <1>2 DEF IInv, CountsAreRemainingUses
    <2> DEFINE after == Cardinality(UsesFrom(graph, next + 1, v))
               occ   == Occurrences(node, v)
    <2>2. /\ after \in Nat /\ occ \in Nat
          /\ numUsers[v] = after + occ
          /\ occ > 0
          /\ after = 0 <=> UsesFrom(graph, next + 1, v) = {}
      BY <1>1, <1>2, <2>1, CountSplit
    <2> HIDE DEF after
    <2>. QED
      BY <2>2
  <1>. QED
    BY <1>1, <1>2 DEF FreedInputs

LEMMA EmitNodeCounts ==
    ASSUME IInv, EmitNode
    PROVE  CountsAreRemainingUses' /\ numUsers' \in [Counted(graph, inLoop) -> Int]
  <1>1. graph \in Graphs /\ graph' = graph /\ next' = next + 1 /\ next \in Order(graph)
    BY GraphFacts DEF IInv, TypeOK, EmitNode, Order
  <1>2. DOMAIN numUsers = Counted(graph, inLoop)
    BY DEF IInv, TypeOK
  <1>3. numUsers' = [v \in DOMAIN numUsers |->
                        numUsers[v] - Occurrences(graph.nodes[next], v)]
    BY DEF EmitNode
  <1>4. ASSUME NEW v \in DOMAIN numUsers
        PROVE  /\ numUsers'[v] = Cardinality(UsesFrom(graph, next + 1, v))
               /\ numUsers'[v] \in Nat
    <2>1. numUsers[v] = Cardinality(UsesFrom(graph, next, v))
      BY <1>4 DEF IInv, CountsAreRemainingUses
    <2> DEFINE after == Cardinality(UsesFrom(graph, next + 1, v))
               occ   == Occurrences(graph.nodes[next], v)
    <2>2. after \in Nat /\ occ \in Nat /\ numUsers[v] = after + occ
      BY <1>1, <2>1, CountSplit
    <2>3. numUsers'[v] = numUsers[v] - occ
      BY <1>3
    <2> HIDE DEF after, occ
    <2>4. numUsers'[v] = after /\ after \in Nat
      BY <2>2, <2>3
    <2>. QED
      BY <2>4 DEF after
  <1>5. DOMAIN numUsers' = DOMAIN numUsers
    BY <1>3
  <1>6. CountsAreRemainingUses'
    BY <1>1, <1>4, <1>5 DEF CountsAreRemainingUses, UsesFrom
  <1>7. numUsers' \in [Counted(graph, inLoop) -> Int]
    BY <1>2, <1>3, <1>4
  <1>. QED
    BY <1>6, <1>7

\* The CHECKs of ChxVMState hold for the code of one node.
LEMMA EmitNodeChecks ==
    ASSUME IInv, EmitNode
    PROVE  LET node  == graph.nodes[next]
               ready == live \cup Staging(node)
           IN  /\ Staging(node) \cap live = {}
               /\ InputsOf(node) \subseteq ready
               /\ node.outs \cap ready = {}
               /\ FreedOutputs(node) \cap FreedInputs(node) = {}
               /\ FreedOutputs(node) \cup FreedInputs(node) \subseteq ready \cup node.outs
  <1> DEFINE node  == graph.nodes[next]
             ready == live \cup Staging(node)
  <1>1. /\ graph \in Graphs /\ WellFormed(graph) /\ next \in Order(graph)
        /\ next \in Nat /\ Len(graph.nodes) \in Nat
    BY GraphFacts DEF IInv, TypeOK, EmitNode, Order
  <1>2. live = {v \in Values(graph) : Available(v) /\ Needed(v)}
    BY <1>1 DEF IInv, LiveIsNeeded, EmitNode, Order
  <1>3. ASSUME NEW v, Computed(v)
        PROVE  v \notin graph.inputs /\ v \notin node.outs
    <2>1. PICK i \in 1..(next - 1) : v \in graph.nodes[i].outs
      BY <1>3 DEF Computed
    <2>2. i \in Order(graph) /\ i # next
      BY <1>1, <2>1 DEF Order
    <2>. QED
      BY <1>1, <2>1, <2>2 DEF WellFormed
  <1>4. Staging(node) \cap live = {}
    BY <1>2, <1>3 DEF Staging, Available
  <1>5. ASSUME NEW v \in InputsOf(node) PROVE v \in ready
    <2>1. v \in Values(graph)
      BY <1>1, <1>5, GraphFacts
    <2>2. UsesFrom(graph, next, v) # {}
      <3>1. PICK j \in 1..Len(node.ins) : node.ins[j] = v
        BY <1>5 DEF InputsOf
      <3>2. <<next, j>> \in Uses(graph, v)
        BY <1>1, <3>1, UsesElements
      <3>. QED
        BY <1>1, <3>2 DEF UsesFrom
    <2>3. Computed(v) => v \in live
      BY <1>2, <2>1, <2>2 DEF Available, Needed
    <2>4. v \in graph.inputs => v \in ready
      BY <1>2, <1>5, <2>1, <2>2 DEF Available, Needed, Staging
    <2>5. v \in graph.inputs \/ Computed(v)
      BY <1>1, <1>5 DEF WellFormed, Computed
    <2>. QED
      BY <2>3, <2>4, <2>5
  <1>6. node.outs \cap ready = {}
    <2>1. node.outs \cap live = {}
      BY <1>1, <1>2, <1>3, ReadAfterComputed DEF Available
    <2>2. node.outs \cap Staging(node) = {}
      BY <1>1, ReadAfterComputed DEF Staging
    <2>. QED
      BY <2>1, <2>2
  <1>7. FreedOutputs(node) \cap FreedInputs(node) = {}
    BY <1>1, ReadAfterComputed DEF FreedOutputs, FreedInputs
  <1>8. FreedOutputs(node) \cup FreedInputs(node) \subseteq ready \cup node.outs
    BY <1>5 DEF FreedOutputs, FreedInputs
  <1>. QED
    BY <1>4, <1>5, <1>6, <1>7, <1>8

\* After the code of one node, again exactly the needed values are live.
LEMMA EmitNodeLive ==
    ASSUME IInv, EmitNode
    PROVE  LiveIsNeeded'
  <1> DEFINE node  == graph.nodes[next]
             ready == live \cup Staging(node)
             freed == FreedOutputs(node) \cup FreedInputs(node)
             AvailableNext(v) ==
                 \/ Computed(v) \/ v \in node.outs
                 \/ v \in graph.inputs /\ (inLoop \/ v \in staged \cup Staging(node))
             NeededNext(v) ==
                 \/ v \in graph.outputs
                 \/ UsesFrom(graph, next + 1, v) # {}
                 \/ inLoop /\ v \in graph.inputs
  <1>1. /\ graph \in Graphs /\ WellFormed(graph) /\ next \in Order(graph)
        /\ next \in Nat /\ Len(graph.nodes) \in Nat
    BY GraphFacts DEF IInv, TypeOK, EmitNode, Order
  <1>2. live = {v \in Values(graph) : Available(v) /\ Needed(v)}
    BY <1>1 DEF IInv, LiveIsNeeded, EmitNode, Order
  <1>3. /\ graph' = graph /\ inLoop' = inLoop /\ next' = next + 1
        /\ live' = (ready \cup node.outs) \ freed
        /\ staged' = staged \cup Staging(node)
    BY DEF EmitNode
  <1>4. FreedInputs(node) = {v \in InputsOf(node) \cap Counted(graph, inLoop) :
                                UsesFrom(graph, next + 1, v) = {}}
    BY <1>1, FreedInputsAreLastReads
  <1>5. FreedOutputs(node) = {v \in node.outs \cap graph.temps : Uses(graph, v) = {}}
    <2>1. todoOutputs \cap graph.temps = {}
      BY <1>1 DEF IInv, TypeOK, WellFormed
    <2>2. \A v \in node.outs : graph.users[v] = 0 <=> Uses(graph, v) = {}
      BY <1>1, GraphFacts, UsersAreUses
    <2>. QED
      BY <2>1, <2>2 DEF FreedOutputs
  <1>6. \A v : UsesFrom(graph, next + 1, v) \subseteq UsesFrom(graph, next, v)
    <2>1. \A v : \A u \in Uses(graph, v) : u[1] \in Nat
      BY <1>1, UsesElements DEF Order
    <2>. QED
      BY <1>1, <2>1 DEF UsesFrom
  <1>7. ASSUME NEW v \in freed PROVE ~NeededNext(v)
    <2>1. CASE v \in FreedInputs(node)
      BY <1>1, <1>4, <2>1 DEF Counted, WellFormed
    <2>2. CASE v \in FreedOutputs(node)
      BY <1>1, <1>5, <2>2, ReadAfterComputed DEF WellFormed, UsesFrom
    <2>. QED
      BY <1>7, <2>1, <2>2
  <1>8. ASSUME NEW v \in Values(graph), AvailableNext(v), NeededNext(v)
        PROVE  v \in (ready \cup node.outs) \ freed
    <2>1. Available(v) => v \in live
      BY <1>2, <1>6, <1>8 DEF Needed
    <2>2. v \in ready \cup node.outs
      BY <1>8, <2>1 DEF Available
    <2>. QED
      BY <1>7, <1>8, <2>2
  <1>9. ASSUME NEW v \in (ready \cup node.outs) \ freed
        PROVE  v \in Values(graph) /\ AvailableNext(v) /\ NeededNext(v)
    <2>1. v \in Values(graph)
      BY <1>1, <1>2, <1>9, GraphFacts DEF Staging, Values
    <2>2. AvailableNext(v)
      BY <1>2, <1>9 DEF Available, Staging
    <2>3. CASE v \in node.outs
      <3>1. v \in graph.temps => Uses(graph, v) # {}
        BY <1>5, <1>9, <2>3
      <3>2. v \in graph.temps \cup graph.outputs
        BY <1>1, <2>3 DEF WellFormed
      <3>. QED
        BY <1>1, <2>1, <2>2, <2>3, <3>1, <3>2, ReadAfterComputed
    <2>4. CASE v \in InputsOf(node)
      <3>1. v \in Counted(graph, inLoop) => UsesFrom(graph, next + 1, v) # {}
        BY <1>4, <1>9, <2>4
      <3>. QED
        BY <2>1, <2>2, <3>1 DEF Counted, Values
    <2>5. CASE v \in live /\ v \notin InputsOf(node)
      <3>1. UsesFrom(graph, next, v) = UsesFrom(graph, next + 1, v)
        <4>1. ASSUME NEW u \in Uses(graph, v) PROVE u[1] \in Nat /\ u[1] # next
          BY <1>1, <2>5, UsesElements DEF InputsOf, Order
        <4>. QED
          BY <1>1, <4>1 DEF UsesFrom
      <3>. QED
        BY <1>2, <2>1, <2>2, <2>5, <3>1 DEF Needed
    <2>6. v \in node.outs \/ v \in live \/ v \in InputsOf(node)
      BY <1>9 DEF Staging
    <2>. QED
      BY <2>3, <2>4, <2>5, <2>6
  <1>10. \A v : Computed(v)' <=> Computed(v) \/ v \in node.outs
    <2>1. next' - 1 = next /\ 1..next = (1..(next - 1)) \cup {next}
      BY <1>1, <1>3 DEF Order
    <2>. QED
      BY <1>3, <2>1 DEF Computed
  <1>11. \A v : Available(v)' <=> AvailableNext(v)
    BY <1>3, <1>10 DEF Available
  <1>12. \A v : Needed(v)' <=> NeededNext(v)
    BY <1>3 DEF Needed, UsesFrom
  <1>13. Values(graph)' = Values(graph)
    BY <1>3
  <1> HIDE DEF AvailableNext, NeededNext
  <1>14. live' = {v \in Values(graph) : AvailableNext(v) /\ NeededNext(v)}
    BY <1>3, <1>8, <1>9
  <1>. QED
    BY <1>11, <1>12, <1>13, <1>14 DEF LiveIsNeeded
-----------------------------------------------------------------------------
\* At the end of EmitGraph only what the caller takes is live.
LEMMA LiveAtEnd ==
    ASSUME IInv, next = Len(graph.nodes) + 1, ~finished
    PROVE  live = graph.outputs \cup (IF inLoop THEN graph.inputs ELSE {})
  <1>1. graph \in Graphs /\ WellFormed(graph) /\ Len(graph.nodes) \in Nat
    BY GraphFacts DEF IInv
  <1>2. \A v : UsesFrom(graph, next, v) = {}
    <2>1. \A v : \A u \in Uses(graph, v) : u[1] \in Order(graph)
      BY UsesElements
    <2>. QED
      BY <1>1, <2>1 DEF UsesFrom, Order
  <1>3. \A v \in graph.outputs : Computed(v)
    BY <1>1 DEF WellFormed, Computed, Order
  <1>4. live = {v \in Values(graph) : Available(v) /\ Needed(v)}
    BY DEF IInv, LiveIsNeeded
  <1>. QED
    BY <1>2, <1>3, <1>4 DEF Available, Needed, Values

LEMMA NextIInv == IInv /\ [Next]_vars => IInv'
  <1> SUFFICES ASSUME IInv, [Next]_vars PROVE IInv'
    OBVIOUS
  <1>1. CASE EmitNode
    <2>1. /\ graph \in Graphs /\ next \in Order(graph)
          /\ next \in Nat /\ Len(graph.nodes) \in Nat
          /\ graph' = graph /\ inLoop' = inLoop /\ next' = next + 1
          /\ finished' = finished /\ ~finished
      BY <1>1, GraphFacts DEF IInv, TypeOK, EmitNode, Order
    <2>2. LiveIsNeeded'
      BY <1>1, EmitNodeLive
    <2>3. CountsAreRemainingUses' /\ numUsers' \in [Counted(graph, inLoop) -> Int]
      BY <1>1, EmitNodeCounts
    <2>4. ~fault'
      BY <1>1, EmitNodeChecks DEF EmitNode, IInv, SlotDiscipline
    <2>5. live' \subseteq Values(graph')
      BY <2>1, <2>2 DEF LiveIsNeeded
    <2>6. staged' \subseteq graph.inputs /\ todoOutputs' \subseteq graph.outputs
      BY <1>1 DEF EmitNode, IInv, TypeOK, Staging
    <2>7. TypeOK'
      <3>1. fault' \in BOOLEAN
        BY <1>1 DEF EmitNode
      <3>2. next' \in 1..(Len(graph.nodes) + 1)
        BY <2>1 DEF Order
      <3>3. inLoop' \in BOOLEAN /\ finished' \in BOOLEAN
        BY <2>1 DEF IInv, TypeOK
      <3>. QED
        BY <2>1, <2>3, <2>5, <2>6, <3>1, <3>2, <3>3 DEF TypeOK
    <2>. QED
      BY <2>1, <2>2, <2>3, <2>4, <2>7 DEF IInv, SlotDiscipline, NothingLeaks
  <1>2. CASE TakeOutputs
    <2> DEFINE taken == graph.outputs \cup (IF inLoop THEN graph.inputs ELSE {})
    <2>1. live = taken
      BY <1>2, LiveAtEnd DEF TakeOutputs
    <2>2. live' = {} /\ ~fault' /\ finished'
      BY <1>2, <2>1 DEF TakeOutputs, IInv, SlotDiscipline
    <2>3. /\ graph' = graph /\ inLoop' = inLoop /\ next' = next
          /\ numUsers' = numUsers /\ staged' = staged /\ todoOutputs' = todoOutputs
          /\ next = Len(graph.nodes) + 1
      BY <1>2 DEF TakeOutputs
    <2>4. TypeOK'
      <3>1. fault' \in BOOLEAN
        BY <1>2 DEF TakeOutputs
      <3>2. finished' \in BOOLEAN
        BY <1>2 DEF TakeOutputs
      <3>3. live' \subseteq Values(graph)'
        BY <2>2
      <3>4. /\ inLoop' \in BOOLEAN
            /\ next' \in 1..(Len(graph.nodes) + 1)
            /\ numUsers' \in [Counted(graph, inLoop) -> Int]
            /\ staged' \subseteq graph.inputs
            /\ todoOutputs' \subseteq graph.outputs
        BY <2>3 DEF IInv, TypeOK
      <3>. QED
        BY <2>3, <3>1, <3>2, <3>3, <3>4 DEF TypeOK
    <2>5. CountsAreRemainingUses'
      BY <2>3 DEF IInv, CountsAreRemainingUses, UsesFrom
    <2>. QED
      BY <2>2, <2>3, <2>4, <2>5 DEF IInv, SlotDiscipline, LiveIsNeeded, NothingLeaks
  <1>3. CASE UNCHANGED vars
    <2>1. TypeOK'
      BY <1>3, Zenon DEF IInv, TypeOK, Values, Counted, vars
    <2>2. CountsAreRemainingUses' /\ SlotDiscipline' /\ NothingLeaks'
      BY <1>3 DEF IInv, CountsAreRemainingUses, UsesFrom, SlotDiscipline, NothingLeaks, vars
    <2>3. LiveIsNeeded'
      BY <1>3 DEF IInv, LiveIsNeeded, Available, Needed, Computed, UsesFrom, vars
    <2>. QED
      BY <1>3, <2>1, <2>2, <2>3 DEF IInv, vars
  <1>. QED
    BY <1>1, <1>2, <1>3 DEF Next, Finished

\* Every state of an emission satisfies the inductive invariant.
THEOREM EmissionInvariant == Spec => []IInv
  BY InitIInv, NextIInv, PTL DEF Spec

\* The variables of the emitter keep their types.
THEOREM EmissionTypeCorrect == Spec => []TypeOK
  <1>1. IInv => TypeOK
    BY DEF IInv
  <1>. QED
    BY <1>1, EmissionInvariant, PTL

\* The emitted code of any graph never fails one of ChxVMState's CHECKs: no
\* variable is read or freed while unset, or set while it holds a value.
THEOREM EmittedCodeIsSafe == Spec => []SlotDiscipline
  <1>1. IInv => SlotDiscipline
    BY DEF IInv
  <1>. QED
    BY <1>1, EmissionInvariant, PTL

\* Exactly the values that are still to be read occupy memory.
THEOREM MemoryIsMinimal == Spec => []LiveIsNeeded
  <1>1. IInv => LiveIsNeeded
    BY DEF IInv
  <1>. QED
    BY <1>1, EmissionInvariant, PTL

\* The emitted code leaves no variable set behind.
THEOREM NoVariableLeaks == Spec => []NothingLeaks
  <1>1. IInv => NothingLeaks
    BY DEF IInv
  <1>. QED
    BY <1>1, EmissionInvariant, PTL

\* num_users counts the reads still to come.
THEOREM CountsAreExact == Spec => []CountsAreRemainingUses
  <1>1. IInv => CountsAreRemainingUses
    BY DEF IInv
  <1>. QED
    BY <1>1, EmissionInvariant, PTL
=============================================================================
