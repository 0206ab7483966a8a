-------------------------- MODULE Scheduler_proofs --------------------------
(***************************************************************************)
(* Proofs about Scheduler for every set of jobs: graphs of any size and    *)
(* shape, any requests, both schedulers.                                   *)
(***************************************************************************)
EXTENDS Scheduler, FiniteSetTheorems, TLAPS

JobInv == \E j \in Jobs : graph = j.graph /\ requests = j.requests

\* A value waits at most once in the queue, and only once it is known.
QueueInv ==
    /\ \A i, k \in 1..Len(values) :
          values[i] = values[k] => i = k \/ values[i] = Null
    /\ \A v \in Elements(values) : v \in Announced \/ v = Null

\* The uses still to be visited are reads of a known value taken from the
\* queue.
VisitInv ==
    \A n \in graph.nodes : \A j \in 1..Len(graph.ins[n]) :
        <<n, j>> \in visiting =>
            /\ graph.ins[n][j] # Null
            /\ graph.ins[n][j] \in Announced
            /\ graph.ins[n][j] \notin Elements(values)

\* The nodes begun in this call are the ones listed now or ordered before.
ListInv ==
    /\ Elements(nodes) \subseteq Begun
    /\ Begun \subseteq Elements(schedule) \cup Elements(nodes)

CallInv ==
    /\ calls \in 1..Len(requests)
    /\ DOMAIN inputCounts = NecessaryNodes(graph, Request.outputs)
    /\ \A n \in ready : inputCounts[n] = 0
    /\ QueueInv
    /\ VisitInv
    /\ ListInv

IInv ==
    /\ TypeOK
    /\ JobInv
    /\ busy => CallInv
    /\ CountsAreMissingInputs
    /\ idle => nodes = << >>
    /\ aborted => ~busy /\ calls \in 1..Len(requests)
    /\ AbortIsJustified
-----------------------------------------------------------------------------
(* Facts about sequences and graphs.                                       *)

LEMMA ElementsAppend ==
    ASSUME NEW S, NEW s \in Seq(S), NEW x \in S
    PROVE  Elements(Append(s, x)) = Elements(s) \cup {x}
  BY DEF Elements

LEMMA ElementsConcat ==
    ASSUME NEW S, NEW s \in Seq(S), NEW t \in Seq(S)
    PROVE  Elements(s \o t) = Elements(s) \cup Elements(t)
  <1>1. Len(s) \in Nat /\ Len(t) \in Nat /\ Len(s \o t) = Len(s) + Len(t)
    OBVIOUS
  <1>2. ASSUME NEW j \in 1..Len(s) PROVE s[j] \in Elements(s \o t)
    <2>1. (s \o t)[j] = s[j] /\ j \in 1..Len(s \o t)
      BY <1>1
    <2>. QED
      BY <2>1 DEF Elements
  <1>3. ASSUME NEW j \in 1..Len(t) PROVE t[j] \in Elements(s \o t)
    <2>1. (s \o t)[Len(s) + j] = t[j] /\ Len(s) + j \in 1..Len(s \o t)
      BY <1>1
    <2>. QED
      BY <2>1 DEF Elements
  <1>4. ASSUME NEW j \in 1..Len(s \o t)
        PROVE  (s \o t)[j] \in Elements(s) \cup Elements(t)
    BY <1>1 DEF Elements
  <1>. QED
    BY <1>2, <1>3, <1>4 DEF Elements

LEMMA ElementsHeadTail ==
    ASSUME NEW S, NEW s \in Seq(S), s # << >>
    PROVE  Elements(s) = {Head(s)} \cup Elements(Tail(s))
  <1>1. /\ Len(s) \in Nat \ {0} /\ Head(s) = s[1] /\ Len(Tail(s)) = Len(s) - 1
        /\ \A j \in 1..(Len(s) - 1) : Tail(s)[j] = s[j + 1]
    OBVIOUS
  <1>2. ASSUME NEW j \in 1..Len(s) PROVE s[j] \in {s[1]} \cup Elements(Tail(s))
    <2>1. CASE j = 1
      BY <2>1
    <2>2. CASE j # 1
      <3>1. j - 1 \in 1..Len(Tail(s)) /\ Tail(s)[j - 1] = s[j]
        BY <1>1, <2>2
      <3>. QED
        BY <3>1 DEF Elements
    <2>. QED
      BY <2>1, <2>2
  <1>3. ASSUME NEW j \in 1..Len(Tail(s)) PROVE Tail(s)[j] \in Elements(s)
    <2>1. j + 1 \in 1..Len(s) /\ Tail(s)[j] = s[j + 1]
      BY <1>1
    <2>. QED
      BY <2>1 DEF Elements
  <1>. QED
    BY <1>1, <1>2, <1>3 DEF Elements

LEMMA ConcatType ==
    ASSUME NEW S, NEW s \in Seq(S), NEW t \in Seq(S)
    PROVE  s \o t \in Seq(S)
  OBVIOUS

\* What the assumption on Jobs says of the job at hand.
LEMMA JobFacts ==
    ASSUME JobInv
    PROVE  /\ IsGraph(graph)
           /\ Len(requests) \in Nat
           /\ \A i \in 1..Len(requests) :
                 /\ IsRequest(graph, requests[i])
                 /\ requests[i].inputs \in Seq(graph.values)
  <1> DEFINE RequestSet(g) == [inputs : Seq(g.values), outputs : SUBSET g.values]
  <1>1. PICK j \in Jobs : graph = j.graph /\ requests = j.requests
    BY DEF JobInv
  <1>2. /\ IsGraph(graph)
        /\ requests \in Seq(RequestSet(graph))
        /\ \A i \in 1..Len(requests) : IsRequest(graph, requests[i])
    BY <1>1, JobsAssumption DEF JobsAssumption, IsJob
  <1>3. Len(requests) \in Nat /\
        \A i \in 1..Len(requests) : requests[i] \in RequestSet(graph)
    <2> HIDE DEF RequestSet
    <2>. QED
      BY <1>2
  <1>. QED
    BY <1>2, <1>3

LEMMA GraphFacts ==
    ASSUME JobInv, NEW n \in graph.nodes
    PROVE  /\ graph.ins[n] \in Seq(graph.values) /\ Len(graph.ins[n]) \in Nat
           /\ graph.outs[n] \in Seq(graph.values) /\ Len(graph.outs[n]) \in Nat
  <1>1. /\ graph.ins \in [graph.nodes -> Seq(graph.values)]
        /\ graph.outs \in [graph.nodes -> Seq(graph.values)]
    BY JobFacts DEF IsGraph
  <1>2. graph.ins[n] \in Seq(graph.values) /\ graph.outs[n] \in Seq(graph.values)
    BY <1>1
  <1>. QED
    BY <1>2

\* A named value has one producer, which computes it at one place.
LEMMA OneProducer ==
    ASSUME JobInv, NEW n \in graph.nodes, NEW m \in graph.nodes,
           NEW v \in Elements(graph.outs[n]), v \in Elements(graph.outs[m]),
           v # Null
    PROVE  n = m
  BY JobFacts DEF IsGraph, Elements

LEMMA MissingFinite ==
    ASSUME JobInv, NEW n \in graph.nodes
    PROVE  /\ IsFiniteSet(Missing(n)) /\ IsFiniteSet(ActualInputs(graph, n))
           /\ Cardinality(Missing(n)) \in Nat
           /\ Cardinality(ActualInputs(graph, n)) \in Nat
           /\ Cardinality(Missing(n)) = 0 <=> Missing(n) = {}
  <1>1. IsFiniteSet(1..Len(graph.ins[n]))
    <2>1. Len(graph.ins[n]) \in Nat
      BY GraphFacts
    <2>. QED
      BY <2>1, FS_Interval
  <1>2. /\ ActualInputs(graph, n) \in SUBSET (1..Len(graph.ins[n]))
        /\ Missing(n) \in SUBSET ActualInputs(graph, n)
    BY DEF ActualInputs, Missing
  <1>3. IsFiniteSet(ActualInputs(graph, n)) /\ IsFiniteSet(Missing(n))
    BY <1>1, <1>2, FS_Subset
  <1>. QED
    BY <1>3, FS_CardinalityType, FS_EmptySet

\* With a node, the producers of its inputs are necessary.
LEMMA NecessaryClosed ==
    ASSUME NEW g, NEW outputs, NEW n \in NecessaryNodes(g, outputs),
           NEW v \in Elements(g.ins[n]), NEW m \in g.nodes, Produces(g, m, v)
    PROVE  m \in NecessaryNodes(g, outputs)
  <1>1. ASSUME NEW S \in SUBSET g.nodes, IsNecessarySet(g, outputs, S)
        PROVE  m \in S
    <2>1. n \in S
      BY <1>1 DEF NecessaryNodes
    <2>. QED
      BY <1>1, <2>1 DEF IsNecessarySet
  <1>. QED
    BY <1>1 DEF NecessaryNodes

\* The elements of Uses.
LEMMA UsesElements ==
    ASSUME NEW v, NEW u
    PROVE  u \in Uses(graph, v) <=>
              \E n \in graph.nodes : \E j \in 1..Len(graph.ins[n]) :
                  u = <<n, j>> /\ graph.ins[n][j] = v
  BY DEF Uses
-----------------------------------------------------------------------------
(* The invariant holds initially and when a call begins.                   *)

LEMMA InitIInv == Init => IInv
  <1>. SUFFICES ASSUME Init PROVE IInv
    OBVIOUS
  <1>1. JobInv
    BY DEF Init, JobInv
  <1>2. Len(requests) \in Nat
    BY <1>1, JobFacts
  <1>3. TypeOK
    <2>1. DOMAIN inputCounts = {}
      BY DEF Init
    <2>2. 0 \in 0..Len(requests)
      BY <1>2
    <2>3. values \in Seq(graph.values) /\ nodes \in Seq(graph.nodes) /\ schedule \in Seq(graph.nodes)
      BY DEF Init
    <2>. QED
      BY <2>1, <2>2, <2>3 DEF Init, TypeOK
  <1>. QED
    BY <1>1, <1>3 DEF Init, IInv, CountsAreMissingInputs, AbortIsJustified

LEMMA BeginStep == IInv /\ Begin => IInv'
  <1>. SUFFICES ASSUME IInv, Begin PROVE IInv'
    OBVIOUS
  <1>. USE DEF job
  <1>. DEFINE r == requests[calls + 1]
              N == NecessaryNodes(graph, r.outputs)
  <1>1. JobInv /\ JobInv'
    BY DEF IInv, Begin, JobInv
  <1>2. /\ calls \in Nat /\ calls + 1 \in 1..Len(requests) /\ calls' = calls + 1
        /\ Len(requests) \in Nat
    BY <1>1, JobFacts DEF IInv, TypeOK, Begin
  <1>3. IsRequest(graph, r) /\ r.inputs \in Seq(graph.values)
    BY <1>1, <1>2, JobFacts
  <1>4. N \subseteq graph.nodes
    BY DEF NecessaryNodes
  <1>5. /\ inputCounts' = [n \in N |-> Cardinality(ActualInputs(graph, n))]
        /\ values' = r.inputs
        /\ ready' = {n \in N : inputCounts'[n] = 0}
        /\ visiting' = {} /\ nodes' = << >> /\ busy' = TRUE
        /\ aborted' = FALSE /\ aborted = FALSE
        /\ UNCHANGED <<graph, requests, scheduler, schedule>>
    BY DEF Begin, CountsFor, idle, IInv, TypeOK
  <1>6. \A n \in N : inputCounts'[n] \in Nat
    <2>. TAKE n \in N
    <2>1. Cardinality(ActualInputs(graph, n)) \in Nat
      BY <1>1, <1>4, MissingFinite
    <2>. QED
      BY <1>5, <2>1
  <1>7. TypeOK'
    <2>1. calls' \in 0..Len(requests)
      BY <1>2
    <2>2. DOMAIN inputCounts' = N /\ ready' \subseteq N
      BY <1>5
    <2>3. values' \in Seq(graph.values) /\ nodes' \in Seq(graph.nodes)
      BY <1>3, <1>5
    <2>. QED
      BY <1>4, <1>5, <1>6, <2>1, <2>2, <2>3 DEF IInv, TypeOK
  <1>8. Request' = r
    BY <1>2, <1>5 DEF Request
  <1>9. Begun' = {}
    BY <1>5 DEF Begun
  <1>10. Announced' = Elements(r.inputs)
    BY <1>5, <1>8, <1>9 DEF Announced
  <1>11. Elements(values)' = Elements(r.inputs)
    BY <1>5 DEF Elements
  <1>12. CallInv'
    <2>1. QueueInv'
      BY <1>3, <1>5, <1>10, <1>11 DEF QueueInv, IsRequest
    <2>2. VisitInv'
      BY <1>5 DEF VisitInv
    <2>3. ListInv'
      BY <1>5, <1>9 DEF ListInv, Elements
    <2>. QED
      BY <1>2, <1>5, <1>8, <2>1, <2>2, <2>3 DEF CallInv
  <1>13. CountsAreMissingInputs'
    <2>. SUFFICES ASSUME NEW n \in N
                  PROVE  inputCounts'[n] = Cardinality(Missing(n)')
      BY <1>5 DEF CountsAreMissingInputs
    <2>1. Missing(n)' = ActualInputs(graph, n)
      BY <1>5, <1>10, <1>11 DEF Missing, ActualInputs
    <2>. QED
      BY <1>5, <2>1
  <1>. QED
    BY <1>1, <1>5, <1>7, <1>12, <1>13 DEF IInv, idle, AbortIsJustified
-----------------------------------------------------------------------------
(* A value is taken from the queue, and a node comes next.                 *)

LEMMA TakeValueStep == IInv /\ TakeValue => IInv'
  <1>. SUFFICES ASSUME IInv, TakeValue PROVE IInv'
    OBVIOUS
  <1>. USE DEF job
  <1>. DEFINE v == Head(values)
  <1>1. /\ JobInv /\ JobInv' /\ busy /\ busy' /\ CallInv /\ ~aborted /\ ~aborted'
        /\ values \in Seq(graph.values) /\ values # << >> /\ visiting = {}
        /\ values' = Tail(values) /\ visiting' = UsersOf(v)
        /\ UNCHANGED <<graph, requests, scheduler, calls, busy, aborted,
                       inputCounts, ready, nodes, schedule>>
    BY DEF IInv, TypeOK, TakeValue, JobInv
  <1>2. Elements(values) = {v} \cup Elements(values')
    BY <1>1, ElementsHeadTail
  <1>3. values' \in Seq(graph.values)
    BY <1>1
  <1>4. /\ Len(values') = Len(values) - 1 /\ Len(values) \in Nat /\ v = values[1]
        /\ \A j \in 1..Len(values') : values'[j] = values[j + 1]
    BY <1>1
  <1>5. v # Null => v \notin Elements(values') /\ v \in Announced
    <2>. SUFFICES ASSUME v # Null PROVE v \notin Elements(values') /\ v \in Announced
      OBVIOUS
    <2>1. \A j \in 1..Len(values') : values'[j] # v
      <3>. TAKE j \in 1..Len(values')
      <3>1. j + 1 \in 1..Len(values) /\ 1 \in 1..Len(values) /\ j + 1 # 1
        BY <1>4
      <3>2. values[j + 1] # values[1]
        BY <1>1, <1>4, <3>1 DEF CallInv, QueueInv
      <3>. QED
        BY <1>4, <3>2
    <2>. QED
      BY <1>1, <1>2, <2>1 DEF Elements, CallInv, QueueInv
  <1>6. UNCHANGED <<Begun, Announced, Request>>
    BY <1>1 DEF Begun, Announced, Request
  <1>7. \A n \in graph.nodes : \A j \in 1..Len(graph.ins[n]) :
            <<n, j>> \in visiting' <=> v # Null /\ graph.ins[n][j] = v
    BY <1>1, UsesElements DEF UsersOf
  <1>8. TypeOK'
    <2>1. visiting' \subseteq UNION {{n} \X (1..Len(graph.ins[n])) : n \in graph.nodes}
      BY <1>1 DEF UsersOf, Uses
    <2>2. TypeOK /\ busy' = busy /\ aborted' = aborted
      BY <1>1 DEF IInv
    <2>. QED
      BY <1>1, <1>3, <2>1, <2>2 DEF TypeOK
  <1>9. QueueInv'
    <2>1. ASSUME NEW i \in 1..Len(values'), NEW k \in 1..Len(values'),
                 values'[i] = values'[k]
          PROVE  i = k \/ values'[i] = Null
      <3>1. i + 1 \in 1..Len(values) /\ k + 1 \in 1..Len(values)
        BY <1>4
      <3>2. values[i + 1] = values[k + 1]
        BY <1>4, <2>1
      <3>3. i + 1 = k + 1 \/ values[i + 1] = Null
        BY <1>1, <3>1, <3>2 DEF CallInv, QueueInv
      <3>. QED
        BY <1>4, <3>3
    <2>. QED
      BY <1>1, <1>2, <1>6, <2>1 DEF CallInv, QueueInv, Elements
  <1>10. VisitInv'
    BY <1>1, <1>5, <1>6, <1>7 DEF VisitInv, Elements
  <1>11. ListInv'
    BY <1>1, <1>6 DEF CallInv, ListInv, Elements
  <1>12. CountsAreMissingInputs'
    <2>. SUFFICES ASSUME NEW n \in DOMAIN inputCounts
                  PROVE  Missing(n)' = Missing(n)
      BY <1>1 DEF IInv, CountsAreMissingInputs
    <2>1. n \in graph.nodes
      BY DEF IInv, TypeOK
    <2>2. ASSUME NEW j \in ActualInputs(graph, n)
          PROVE  j \in Missing(n)' <=> j \in Missing(n)
      <3>1. j \in 1..Len(graph.ins[n]) /\ graph.ins[n][j] # Null
        BY <2>2 DEF ActualInputs
      <3>2. <<n, j>> \in visiting' <=> v # Null /\ graph.ins[n][j] = v
        BY <1>7, <2>1, <3>1
      <3>3. <<n, j>> \notin visiting
        BY <1>1
      <3>4. graph.ins[n][j] \in Elements(values) <=>
               graph.ins[n][j] = v \/ graph.ins[n][j] \in Elements(values')
        BY <1>2
      <3>5. j \in Missing(n)' <=> \/ graph.ins[n][j] \notin Announced
                                 \/ graph.ins[n][j] \in Elements(values')
                                 \/ <<n, j>> \in visiting'
        BY <1>1, <1>6, <2>2 DEF Missing, Elements, ActualInputs
      <3>. QED
        BY <2>2, <3>1, <3>2, <3>3, <3>4, <3>5 DEF Missing
    <2>. QED
      BY <1>1, <2>2 DEF Missing, ActualInputs
  <1>13. CallInv'
    BY <1>1, <1>6, <1>9, <1>10, <1>11 DEF CallInv
  <1>. QED
    BY <1>1, <1>8, <1>12, <1>13 DEF IInv, idle, AbortIsJustified
\* What holds when node n, all inputs of which are known, comes next.
LEMMA NodeBegins ==
    ASSUME TypeOK, JobInv, CallInv, NEW n \in DOMAIN inputCounts, n \notin Begun,
           \A j \in ActualInputs(graph, n) : graph.ins[n][j] \in Announced,
           UNCHANGED <<graph, requests, calls, schedule>>,
           ScheduleNode(n), Begun' = Begun \cup {n}, visiting' \subseteq visiting
    PROVE  /\ values' \in Seq(graph.values) /\ nodes' \in Seq(graph.nodes)
           /\ QueueInv' /\ VisitInv' /\ ListInv'
           /\ \A m \in graph.nodes : \A j \in ActualInputs(graph, m) :
                 j \in Missing(m)' <=> \/ graph.ins[m][j] \notin Announced
                                      \/ graph.ins[m][j] \in Elements(values)
                                      \/ <<m, j>> \in visiting'
           /\ \/ schedule' \o nodes' = schedule \o nodes
              \/ Topological!Put(n)
  <1>. DEFINE outs == graph.outs[n]
  <1>1. /\ n \in graph.nodes /\ outs \in Seq(graph.values) /\ Len(outs) \in Nat
        /\ values \in Seq(graph.values) /\ Len(values) \in Nat
        /\ nodes \in Seq(graph.nodes) /\ schedule \in Seq(graph.nodes)
    <2>1. /\ n \in graph.nodes
          /\ values \in Seq(graph.values)
          /\ nodes \in Seq(graph.nodes) /\ schedule \in Seq(graph.nodes)
      BY DEF TypeOK
    <2>. QED
      BY <2>1, GraphFacts
  <1>2. values' = values \o outs /\ nodes' = Listed(n)
    BY DEF ScheduleNode
  <1>3. values' \in Seq(graph.values) /\ nodes' \in Seq(graph.nodes)
    <2>1. values \o outs \in Seq(graph.values)
      BY <1>1, ConcatType
    <2>2. Append(nodes, n) \in Seq(graph.nodes)
      BY <1>1
    <2>. QED
      BY <1>1, <1>2, <2>1, <2>2 DEF Listed
  <1>4. Elements(values)' = Elements(values) \cup Elements(outs)
    <2>1. Elements(values \o outs) = Elements(values) \cup Elements(outs)
      BY <1>1, ElementsConcat
    <2>. QED
      BY <1>2, <2>1 DEF Elements
  <1>5. Request' = Request /\ IsRequest(graph, Request)
    BY JobFacts DEF Request, CallInv
  <1>6. Announced' = Announced \cup Elements(outs)
    BY <1>5 DEF Announced
  <1>7. \A v \in Elements(outs) : v \in Announced => v = Null
    <2>. SUFFICES ASSUME NEW v \in Elements(outs), v \in Announced, v # Null
                  PROVE  FALSE
      OBVIOUS
    <2>1. v \notin Elements(Request.inputs)
      BY <1>1, <1>5 DEF IsRequest
    <2>2. PICK m \in Begun : v \in Elements(graph.outs[m])
      BY <2>1 DEF Announced
    <2>3. m \in graph.nodes
      BY <2>2 DEF Begun, TypeOK
    <2>4. m = n
      BY <1>1, <2>2, <2>3, OneProducer
    <2>. QED
      BY <2>2, <2>4
  <1>8. QueueInv'
    <2>1. /\ Len(values') = Len(values) + Len(outs)
          /\ \A i \in 1..Len(values) : values'[i] = values[i]
          /\ \A i \in 1..Len(values') :
                i \notin 1..Len(values) => /\ values'[i] = outs[i - Len(values)]
                                          /\ i - Len(values) \in 1..Len(outs)
      BY <1>1, <1>2
    <2>2. ASSUME NEW i \in 1..Len(values'), NEW k \in 1..Len(values'),
                 values'[i] = values'[k], values'[i] # Null
          PROVE  i = k
      <3>1. CASE i \in 1..Len(values) /\ k \in 1..Len(values)
        BY <2>1, <2>2, <3>1 DEF CallInv, QueueInv
      <3>2. CASE i \notin 1..Len(values) /\ k \notin 1..Len(values)
        <4>1. outs[i - Len(values)] = outs[k - Len(values)]
          BY <2>1, <2>2, <3>2
        <4>2. outs[i - Len(values)] # Null
          BY <2>1, <2>2, <3>2
        <4>3. i - Len(values) = k - Len(values)
          BY <1>1, <2>1, <3>2, <4>1, <4>2, JobFacts DEF IsGraph
        <4>. QED
          BY <1>1, <4>3
      <3>3. ASSUME NEW a \in 1..Len(values), NEW b \in 1..Len(values'),
                   b \notin 1..Len(values), values'[a] = values'[b],
                   values'[a] # Null
            PROVE  FALSE
        <4>1. values'[a] \in Elements(values) /\ values'[b] \in Elements(outs)
          BY <2>1, <3>3 DEF Elements
        <4>2. values'[a] \in Announced
          BY <3>3, <4>1 DEF CallInv, QueueInv
        <4>. QED
          BY <1>7, <3>3, <4>1, <4>2
      <3>. QED
        BY <2>2, <3>1, <3>2, <3>3
    <2>3. \A v \in Elements(values)' : v \in Announced' \/ v = Null
      BY <1>4, <1>6 DEF CallInv, QueueInv
    <2>. QED
      BY <2>2, <2>3 DEF QueueInv
  <1>9. VisitInv'
    <2>. SUFFICES ASSUME NEW m \in graph.nodes, NEW j \in 1..Len(graph.ins[m]),
                         <<m, j>> \in visiting'
                  PROVE  /\ graph.ins[m][j] # Null
                         /\ graph.ins[m][j] \in Announced'
                         /\ graph.ins[m][j] \notin Elements(values)'
      BY DEF VisitInv
    <2>1. /\ graph.ins[m][j] # Null
          /\ graph.ins[m][j] \in Announced
          /\ graph.ins[m][j] \notin Elements(values)
      BY DEF CallInv, VisitInv
    <2>. QED
      BY <1>4, <1>6, <1>7, <2>1
  <1>10. Elements(nodes)' = IF n \in Elements(schedule) THEN Elements(nodes)
                            ELSE Elements(nodes) \cup {n}
    <2>1. Elements(Append(nodes, n)) = Elements(nodes) \cup {n}
      BY <1>1, ElementsAppend
    <2>. QED
      BY <1>2, <2>1 DEF Listed, Elements
  <1>11. ListInv'
    <2>1. Elements(schedule)' = Elements(schedule)
      BY DEF Elements
    <2>. QED
      BY <1>10, <2>1 DEF CallInv, ListInv
  <1>12. ASSUME NEW m \in graph.nodes, NEW j \in ActualInputs(graph, m)
         PROVE  j \in Missing(m)' <=> \/ graph.ins[m][j] \notin Announced
                                     \/ graph.ins[m][j] \in Elements(values)
                                     \/ <<m, j>> \in visiting'
    <2>1. graph.ins[m][j] # Null
      BY DEF ActualInputs
    <2>2. j \in Missing(m)' <=> \/ graph.ins[m][j] \notin Announced'
                               \/ graph.ins[m][j] \in Elements(values)'
                               \/ <<m, j>> \in visiting'
      BY <1>12 DEF Missing, ActualInputs
    <2>. QED
      BY <1>4, <1>6, <1>7, <2>1, <2>2
  <1>13. schedule' \o nodes' = schedule \o nodes \/ Topological!Put(n)
    <2>1. CASE n \in Elements(schedule)
      BY <1>2, <2>1 DEF Listed
    <2>2. CASE n \notin Elements(schedule)
      <3>1. nodes' = Append(nodes, n)
        BY <1>2, <2>2 DEF Listed
      <3>2. schedule' \o nodes' = Append(schedule \o nodes, n)
        BY <1>1, <3>1
      <3>3. Elements(schedule \o nodes) = Elements(schedule) \cup Elements(nodes)
        BY <1>1, ElementsConcat
      <3>4. n \notin Elements(schedule \o nodes)
        BY <2>2, <3>3 DEF CallInv, ListInv
      <3>5. ASSUME NEW j \in ActualInputs(graph, n)
            PROVE  Topological!Available(graph.ins[n][j])
        <4>1. CASE graph.ins[n][j] \in Elements(Request.inputs)
          <5>1. graph.ins[n][j] \in Given
            BY <4>1 DEF Given, Request, CallInv
          <5>. QED
            BY <5>1 DEF Topological!Available
        <4>2. CASE graph.ins[n][j] \notin Elements(Request.inputs)
          <5>1. PICK m \in Begun : graph.ins[n][j] \in Elements(graph.outs[m])
            BY <3>5, <4>2 DEF Announced
          <5>2. m \in Elements(schedule \o nodes)
            BY <3>3 DEF CallInv, ListInv
          <5>. QED
            BY <5>1, <5>2 DEF Topological!Available, Topological!Elements, Elements
        <4>. QED
          BY <4>1, <4>2
      <3>6. Given' = Given
        BY DEF Given
      <3>. QED
        BY <3>2, <3>4, <3>5, <3>6
           DEF Topological!Put, Topological!Elements, Topological!ActualInputs,
               Elements, ActualInputs
    <2>. QED
      BY <2>1, <2>2
  <1>. QED
    BY <1>3, <1>8, <1>9, <1>11, <1>12, <1>13

\* A node that waits for nothing, or a cheapest one, leaves `ready`.
LEMMA PopStep ==
    ASSUME IInv, busy, NEW n \in ready, ScheduleNode(n), ready' = ready \ {n},
           UNCHANGED <<graph, requests, scheduler, calls, busy, aborted,
                       inputCounts, visiting, schedule>>
    PROVE  /\ IInv'
           /\ schedule' \o nodes' = schedule \o nodes \/ Topological!Put(n)
  <1>1. TypeOK /\ JobInv /\ CallInv /\ CountsAreMissingInputs /\ ~aborted
    BY DEF IInv
  <1>2. n \in DOMAIN inputCounts /\ n \in graph.nodes /\ inputCounts[n] = 0
    BY <1>1 DEF TypeOK, CallInv
  <1>3. n \notin Begun /\ Begun' = Begun \cup {n}
    BY <1>2 DEF Begun
  <1>4. \A j \in ActualInputs(graph, n) : graph.ins[n][j] \in Announced
    <2>1. Cardinality(Missing(n)) = 0
      BY <1>1, <1>2 DEF CountsAreMissingInputs
    <2>2. Missing(n) = {}
      BY <1>1, <1>2, <2>1, MissingFinite
    <2>. QED
      BY <2>2 DEF Missing
  <1>5. /\ values' \in Seq(graph.values) /\ nodes' \in Seq(graph.nodes)
        /\ QueueInv' /\ VisitInv' /\ ListInv'
        /\ \A m \in graph.nodes : \A j \in ActualInputs(graph, m) :
              j \in Missing(m)' <=> \/ graph.ins[m][j] \notin Announced
                                   \/ graph.ins[m][j] \in Elements(values)
                                   \/ <<m, j>> \in visiting'
        /\ schedule' \o nodes' = schedule \o nodes \/ Topological!Put(n)
    BY <1>1, <1>2, <1>3, <1>4, NodeBegins
  <1>6. TypeOK'
    BY <1>1, <1>5 DEF TypeOK
  <1>7. CountsAreMissingInputs'
    <2>. SUFFICES ASSUME NEW m \in DOMAIN inputCounts PROVE Missing(m)' = Missing(m)
      BY <1>1 DEF CountsAreMissingInputs
    <2>1. m \in graph.nodes
      BY <1>1 DEF TypeOK
    <2>. QED
      BY <1>5, <2>1 DEF Missing, ActualInputs
  <1>8. CallInv'
    BY <1>1, <1>5 DEF CallInv, Request
  <1>. QED
    BY <1>1, <1>5, <1>6, <1>7, <1>8 DEF IInv, JobInv, idle, AbortIsJustified

LEMMA ScheduleSourceStep ==
    IInv /\ ScheduleSource =>
        IInv' /\ [Topological!TopoNext]_(Topological!topoVars)
  <1>. SUFFICES ASSUME IInv, ScheduleSource
                PROVE  IInv' /\ [Topological!TopoNext]_(Topological!topoVars)
    OBVIOUS
  <1>1. PICK n \in ready : ScheduleNode(n) /\ ready' = ready \ {n}
    BY DEF ScheduleSource
  <1>2. /\ busy
        /\ UNCHANGED <<graph, requests, scheduler, calls, busy, aborted,
                       inputCounts, visiting, schedule>>
    BY DEF ScheduleSource, job
  <1>3. IInv' /\ (schedule' \o nodes' = schedule \o nodes \/ Topological!Put(n))
    BY <1>1, <1>2, PopStep
  <1>4. n \in graph.nodes /\ Given' = Given
    BY <1>2 DEF IInv, TypeOK, Given
  <1>. QED
    BY <1>2, <1>3, <1>4 DEF Topological!TopoNext, Topological!topoVars

LEMMA TakeCheapestStep ==
    IInv /\ TakeCheapest =>
        IInv' /\ [Topological!TopoNext]_(Topological!topoVars)
  <1>. SUFFICES ASSUME IInv, TakeCheapest
                PROVE  IInv' /\ [Topological!TopoNext]_(Topological!topoVars)
    OBVIOUS
  <1>1. PICK n \in ready : ScheduleNode(n) /\ ready' = ready \ {n}
    BY DEF TakeCheapest
  <1>2. /\ busy
        /\ UNCHANGED <<graph, requests, scheduler, calls, busy, aborted,
                       inputCounts, visiting, schedule>>
    BY DEF TakeCheapest, job
  <1>3. IInv' /\ (schedule' \o nodes' = schedule \o nodes \/ Topological!Put(n))
    BY <1>1, <1>2, PopStep
  <1>4. n \in graph.nodes /\ Given' = Given
    BY <1>2 DEF IInv, TypeOK, Given
  <1>. QED
    BY <1>2, <1>3, <1>4 DEF Topological!TopoNext, Topological!topoVars
-----------------------------------------------------------------------------
(* A user of a value is visited.                                           *)

LEMMA VisitUserStep ==
    IInv /\ VisitUser => IInv' /\ [Topological!TopoNext]_(Topological!topoVars)
  <1>. SUFFICES ASSUME IInv, VisitUser
                PROVE  IInv' /\ [Topological!TopoNext]_(Topological!topoVars)
    OBVIOUS
  <1>1. /\ TypeOK /\ JobInv /\ JobInv' /\ CallInv /\ CountsAreMissingInputs
        /\ busy = TRUE /\ aborted = FALSE
        /\ UNCHANGED <<graph, requests, scheduler, calls, schedule>>
        /\ Given' = Given /\ Request' = Request
    BY DEF IInv, TypeOK, VisitUser, job, JobInv, Given, Request
  <1>2. PICK use \in visiting :
          LET n     == use[1]
              count == inputCounts[n] - 1
          IN  /\ visiting' = visiting \ {use}
              /\ IF n \notin DOMAIN inputCounts
                 THEN UNCHANGED <<inputCounts, ready, nodes, values, aborted,
                                  busy>>
                 ELSE /\ inputCounts' = [inputCounts EXCEPT ![n] = count]
                      /\ aborted' = (scheduler = "greedy" /\ count < 0)
                      /\ busy' = ~aborted'
                      /\ IF ~HasInputs(count)
                         THEN UNCHANGED <<ready, nodes, values>>
                         ELSE \/ /\ scheduler = "naive"
                                 /\ ScheduleNode(n)
                                 /\ UNCHANGED ready
                              \/ /\ scheduler = "greedy"
                                 /\ ready' = ready \cup {n}
                                 /\ UNCHANGED <<nodes, values>>
    BY DEF VisitUser
  <1>3. PICK n \in graph.nodes : \E j \in 1..Len(graph.ins[n]) : use = <<n, j>>
    BY <1>1, <1>2 DEF TypeOK
  <1>3a. PICK j \in 1..Len(graph.ins[n]) : use = <<n, j>>
    BY <1>3
  <1>4. /\ use[1] = n /\ visiting' = visiting \ {<<n, j>>} /\ <<n, j>> \in visiting
        /\ graph.ins[n][j] # Null /\ j \in ActualInputs(graph, n)
        /\ graph.ins[n][j] \in Announced
        /\ graph.ins[n][j] \notin Elements(values)
    BY <1>1, <1>2, <1>3a DEF CallInv, VisitInv, ActualInputs
  <1>5. \A m \in graph.nodes : \A k \in ActualInputs(graph, m) :
            <<m, k>> \in visiting' <=> <<m, k>> \in visiting /\ ~(m = n /\ k = j)
    BY <1>4
  <1>6. CASE n \notin DOMAIN inputCounts
    <2>1. UNCHANGED <<inputCounts, ready, nodes, values, aborted, busy>>
      BY <1>2, <1>4, <1>6
    <2>2. UNCHANGED <<Begun, Announced>>
      BY <1>1, <2>1 DEF Begun, Announced
    <2>3. TypeOK'
      BY <1>1, <1>4, <2>1 DEF TypeOK
    <2>4. CallInv'
      BY <1>1, <1>4, <2>1, <2>2
         DEF CallInv, QueueInv, VisitInv, ListInv, Elements
    <2>5. CountsAreMissingInputs'
      <3>. SUFFICES ASSUME NEW m \in DOMAIN inputCounts PROVE Missing(m)' = Missing(m)
        BY <1>1, <2>1 DEF CountsAreMissingInputs
      <3>1. m \in graph.nodes /\ m # n
        BY <1>1, <1>6 DEF TypeOK
      <3>. QED
        BY <1>1, <1>5, <2>1, <2>2, <3>1 DEF Missing, ActualInputs, Elements
    <2>6. IInv'
      BY <1>1, <2>1, <2>3, <2>4, <2>5 DEF IInv, idle, AbortIsJustified
    <2>. QED
      BY <1>1, <2>1, <2>6 DEF Topological!topoVars
  <1>7. CASE n \in DOMAIN inputCounts
    <2>. DEFINE count == inputCounts[n] - 1
    <2>1. /\ inputCounts' = [inputCounts EXCEPT ![n] = count]
          /\ aborted' = (scheduler = "greedy" /\ count < 0)
          /\ busy' = ~aborted'
      BY <1>2, <1>4, <1>7
    <2>2. /\ IsFiniteSet(Missing(n)) /\ inputCounts[n] = Cardinality(Missing(n))
          /\ Cardinality(Missing(n)) \in Nat
      BY <1>1, <1>7, MissingFinite DEF CountsAreMissingInputs
    <2>3. j \in Missing(n)
      BY <1>4 DEF Missing
    <2>4. /\ IsFiniteSet(Missing(n) \ {j})
          /\ Cardinality(Missing(n) \ {j}) = Cardinality(Missing(n)) - 1
      BY <2>2, <2>3, FS_RemoveElement
    <2>5. /\ count \in Nat /\ count = Cardinality(Missing(n) \ {j})
          /\ count = 0 <=> Missing(n) \ {j} = {}
      BY <2>2, <2>4, FS_CardinalityType, FS_EmptySet
    <2>6. aborted' = FALSE /\ busy' = TRUE
      <3>1. ~(count < 0)
        BY <2>5
      <3>. HIDE DEF count
      <3>. QED
        BY <2>1, <3>1, Zenon
    <2>7. /\ DOMAIN inputCounts' = DOMAIN inputCounts
          /\ inputCounts'[n] = count
          /\ \A m \in DOMAIN inputCounts : m # n => inputCounts'[m] = inputCounts[m]
      BY <2>1, <1>7
    <2>8. n \notin ready /\ n \notin Begun
      <3>1. inputCounts[n] # 0
        BY <2>2, <2>5
      <3>. QED
        BY <1>1, <3>1 DEF CallInv, Begun
    \* What is left to show once the step's effect on the lists is known.
    <2>9. ASSUME values' \in Seq(graph.values), nodes' \in Seq(graph.nodes),
                 ready' \subseteq DOMAIN inputCounts,
                 \A m \in ready' : inputCounts'[m] = 0,
                 QueueInv', VisitInv', ListInv',
                 \A m \in graph.nodes : \A k \in ActualInputs(graph, m) :
                    k \in Missing(m)' <=> \/ graph.ins[m][k] \notin Announced
                                         \/ graph.ins[m][k] \in Elements(values)
                                         \/ <<m, k>> \in visiting'
          PROVE  IInv'
      <3>1. TypeOK'
        <4>1. /\ DOMAIN inputCounts' \subseteq graph.nodes
              /\ \A m \in DOMAIN inputCounts' : inputCounts'[m] \in Nat
          BY <1>1, <2>5, <2>7 DEF TypeOK
        <4>2. visiting' \subseteq visiting
          BY <1>4
        <4>. QED
          BY <1>1, <2>6, <2>7, <2>9, <4>1, <4>2 DEF TypeOK
      <3>2. CountsAreMissingInputs'
        <4>. SUFFICES ASSUME NEW m \in DOMAIN inputCounts
                      PROVE  inputCounts'[m] = Cardinality(Missing(m)')
          BY <2>7 DEF CountsAreMissingInputs
        <4>1. m \in graph.nodes
          BY <1>1 DEF TypeOK
        <4>2. CASE m = n
          <5>1. Missing(n)' = Missing(n) \ {j}
            BY <1>1, <1>3, <1>4, <1>5, <2>9 DEF Missing, ActualInputs
          <5>. QED
            BY <2>5, <2>7, <4>2, <5>1
        <4>3. CASE m # n
          <5>1. Missing(m)' = Missing(m)
            BY <1>1, <1>5, <2>9, <4>1, <4>3 DEF Missing, ActualInputs
          <5>. QED
            BY <1>1, <2>7, <4>3, <5>1 DEF CountsAreMissingInputs
        <4>. QED
          BY <4>2, <4>3
      <3>3. CallInv'
        BY <1>1, <2>7, <2>9 DEF CallInv
      <3>. QED
        BY <1>1, <2>6, <3>1, <3>2, <3>3 DEF IInv, idle, AbortIsJustified
    <2>10. CASE ~HasInputs(count) \/ scheduler = "greedy"
      <3>1. /\ UNCHANGED <<nodes, values>>
            /\ ready' = IF HasInputs(count) THEN ready \cup {n} ELSE ready
        BY <1>2, <1>4, <1>7, <2>10
      <3>2. UNCHANGED <<Begun, Announced>>
        <4>1. Begun' = Begun
          BY <1>7, <2>5, <2>7, <2>8, <3>1 DEF Begun, HasInputs
        <4>. QED
          BY <1>1, <4>1 DEF Announced
      <3>3. QueueInv' /\ VisitInv' /\ ListInv'
        BY <1>1, <1>4, <3>1, <3>2 DEF CallInv, QueueInv, VisitInv, ListInv, Elements
      <3>4. /\ ready' \subseteq DOMAIN inputCounts
            /\ \A m \in ready' : inputCounts'[m] = 0
        BY <1>1, <1>7, <2>5, <2>7, <2>8, <3>1 DEF TypeOK, CallInv, HasInputs
      <3>5. \A m \in graph.nodes : \A k \in ActualInputs(graph, m) :
                k \in Missing(m)' <=> \/ graph.ins[m][k] \notin Announced
                                     \/ graph.ins[m][k] \in Elements(values)
                                     \/ <<m, k>> \in visiting'
        BY <1>1, <3>1, <3>2 DEF Missing, ActualInputs, Elements
      <3>6. values' \in Seq(graph.values) /\ nodes' \in Seq(graph.nodes)
        BY <1>1, <3>1 DEF TypeOK
      <3>7. IInv'
        BY <2>9, <3>3, <3>4, <3>5, <3>6
      <3>. QED
        BY <1>1, <3>1, <3>7 DEF Topological!topoVars
    <2>11. CASE HasInputs(count) /\ scheduler = "naive"
      <3>1. ScheduleNode(n) /\ UNCHANGED ready
        BY <1>2, <1>4, <1>7, <2>11
      <3>2. count = 0 /\ Missing(n) = {j}
        <4>1. count = 0
          <5>1. count \in Nat
            BY <2>5
          <5>2. HasInputs(count)
            BY <2>11
          <5>. HIDE DEF count
          <5>. QED
            BY <5>1, <5>2 DEF HasInputs
        <4>2. Missing(n) \ {j} = {}
          BY <2>5, <4>1
        <4>. QED
          BY <2>3, <4>1, <4>2
      <3>3. Begun' = Begun \cup {n}
        BY <1>7, <2>7, <2>8, <3>1, <3>2 DEF Begun
      <3>4. \A k \in ActualInputs(graph, n) : graph.ins[n][k] \in Announced
        BY <1>4, <3>2 DEF Missing
      <3>5. visiting' \subseteq visiting
        BY <1>4
      <3>6. /\ values' \in Seq(graph.values) /\ nodes' \in Seq(graph.nodes)
            /\ QueueInv' /\ VisitInv' /\ ListInv'
            /\ \A m \in graph.nodes : \A k \in ActualInputs(graph, m) :
                  k \in Missing(m)' <=> \/ graph.ins[m][k] \notin Announced
                                       \/ graph.ins[m][k] \in Elements(values)
                                       \/ <<m, k>> \in visiting'
            /\ schedule' \o nodes' = schedule \o nodes \/ Topological!Put(n)
        BY <1>1, <1>7, <2>8, <3>1, <3>3, <3>4, <3>5, NodeBegins
      <3>7. /\ ready' \subseteq DOMAIN inputCounts
            /\ \A m \in ready' : inputCounts'[m] = 0
        BY <1>1, <2>7, <2>8, <3>1 DEF TypeOK, CallInv
      <3>8. IInv'
        BY <2>9, <3>6, <3>7
      <3>. QED
        BY <1>1, <3>6, <3>8 DEF Topological!TopoNext, Topological!topoVars
    <2>. QED
      BY <1>1, <2>10, <2>11 DEF TypeOK, Schedulers
  <1>. QED
    BY <1>6, <1>7
-----------------------------------------------------------------------------
(* The end of a call, and the theorems.                                    *)

\* A necessary node that has not come next when the queues are empty cannot
\* be run: nodes that are not necessary, or have come next, never need it.
LEMMA NotBegunNotComputable ==
    ASSUME IInv, busy, drained, ready = {},
           NEW n \in DOMAIN inputCounts, n \notin Begun
    PROVE  n \notin Computable(graph, Elements(Request.inputs))
  <1>. DEFINE S == (graph.nodes \ DOMAIN inputCounts) \cup Begun
  <1>1. /\ JobInv /\ CallInv /\ CountsAreMissingInputs
        /\ DOMAIN inputCounts \subseteq graph.nodes
        /\ values = << >> /\ visiting = {}
    BY DEF IInv, TypeOK, drained
  <1>2. S \in SUBSET graph.nodes /\ n \notin S
    BY <1>1 DEF Begun
  <1>3. ASSUME NEW m \in graph.nodes, m \notin S,
               \A j \in ActualInputs(graph, m) :
                  \/ graph.ins[m][j] \in Elements(Request.inputs)
                  \/ \E k \in S : graph.ins[m][j] \in Elements(graph.outs[k])
        PROVE  FALSE
    <2>1. m \in DOMAIN inputCounts /\ m \notin Begun /\ inputCounts[m] # 0
      BY <1>3 DEF Begun
    <2>2. Missing(m) # {}
      <3>1. inputCounts[m] = Cardinality(Missing(m))
        BY <1>1, <2>1 DEF CountsAreMissingInputs
      <3>. QED
        BY <1>1, <2>1, <3>1, MissingFinite
    <2>3. PICK j \in Missing(m) : TRUE
      BY <2>2
    <2>. DEFINE v == graph.ins[m][j]
    <2>4. j \in ActualInputs(graph, m) /\ v \notin Announced
      BY <1>1, <2>3 DEF Missing, Elements
    <2>5. v # Null /\ v \in Elements(graph.ins[m])
      BY <2>4 DEF ActualInputs, Elements
    <2>6. PICK k \in S : v \in Elements(graph.outs[k])
      BY <1>3, <2>4 DEF Announced
    <2>7. k \in graph.nodes /\ Produces(graph, k, v)
      BY <1>2, <2>5, <2>6 DEF Produces
    <2>8. k \in DOMAIN inputCounts
      BY <1>1, <2>1, <2>5, <2>7, NecessaryClosed DEF CallInv
    <2>9. k \in Begun
      BY <2>6, <2>8
    <2>. QED
      BY <2>4, <2>6, <2>9 DEF Announced
  <1>4. \A m \in graph.nodes :
            (\A j \in ActualInputs(graph, m) :
                \/ graph.ins[m][j] \in Elements(Request.inputs)
                \/ \E k \in S : graph.ins[m][j] \in Elements(graph.outs[k]))
            => m \in S
    BY <1>3
  <1>. HIDE DEF S
  <1>. QED
    BY <1>2, <1>4 DEF Computable

LEMMA FinishStep ==
    IInv /\ Finish => IInv' /\ [Topological!TopoNext]_(Topological!topoVars)
  <1>. SUFFICES ASSUME IInv, Finish
                PROVE  IInv' /\ [Topological!TopoNext]_(Topological!topoVars)
    OBVIOUS
  <1>1. /\ TypeOK /\ JobInv /\ JobInv' /\ CallInv /\ busy /\ drained
        /\ ready = {} /\ busy' = FALSE /\ aborted' = (Unscheduled # {})
        /\ aborted' => schedule' = schedule /\ nodes' = nodes
        /\ ~aborted' => schedule' = schedule \o nodes /\ nodes' = << >>
        /\ UNCHANGED <<graph, requests, scheduler, calls, inputCounts, values,
                       visiting, ready>>
        /\ Given' = Given /\ Request' = Request
    BY DEF IInv, Finish, job, JobInv, Given, Request
  <1>2. /\ aborted' \in BOOLEAN
        /\ schedule \in Seq(graph.nodes) /\ nodes \in Seq(graph.nodes)
    BY <1>1 DEF TypeOK
  <1>3. schedule' \o nodes' = schedule \o nodes
    <2>1. CASE aborted'
      BY <1>1, <2>1
    <2>2. CASE ~aborted'
      <3>1. (schedule \o nodes) \o << >> = schedule \o nodes
        BY <1>2
      <3>. QED
        BY <1>1, <2>2, <3>1
    <2>. QED
      BY <2>1, <2>2
  <1>4. schedule' \in Seq(graph.nodes) /\ nodes' \in Seq(graph.nodes)
    <2>1. schedule \o nodes \in Seq(graph.nodes)
      BY <1>2, ConcatType
    <2>2. << >> \in Seq(graph.nodes)
      OBVIOUS
    <2>3. CASE aborted'
      BY <1>1, <1>2, <2>3
    <2>4. CASE ~aborted'
      BY <1>1, <2>1, <2>2, <2>4
    <2>. QED
      BY <2>3, <2>4
  <1>5. TypeOK'
    BY <1>1, <1>2, <1>4 DEF TypeOK
  <1>6. AbortIsJustified'
    <2>. SUFFICES ASSUME aborted'
                  PROVE  \E n \in NecessaryNodes(graph, Request.outputs)
                                    \ Elements(schedule') :
                            n \notin Computable(graph, Elements(Request.inputs))
      BY <1>1 DEF AbortIsJustified
    <2>1. schedule' = schedule
      BY <1>1
    <2>2. PICK n \in NecessaryNodes(graph, Request.outputs) :
              n \notin Elements(schedule) /\ n \notin Elements(nodes)
      BY <1>1 DEF Unscheduled
    <2>3. n \in DOMAIN inputCounts /\ n \notin Begun
      BY <1>1, <2>2 DEF CallInv, ListInv
    <2>. QED
      BY <1>1, <2>1, <2>2, <2>3, NotBegunNotComputable
  <1>7. IInv'
    BY <1>1, <1>5, <1>6 DEF IInv, idle, CountsAreMissingInputs, CallInv
  <1>. QED
    BY <1>1, <1>3, <1>7 DEF Topological!topoVars

LEMMA BeginRefines ==
    IInv /\ Begin => [Topological!TopoNext]_(Topological!topoVars)
  <1>. SUFFICES ASSUME IInv, Begin PROVE Topological!Give
    BY DEF Topological!TopoNext
  <1>1. /\ nodes = << >> /\ nodes' = << >> /\ schedule' = schedule
        /\ UNCHANGED <<graph, requests>> /\ calls' = calls + 1 /\ calls \in Nat
    <2>1. calls \in Nat
      BY JobFacts DEF IInv, TypeOK
    <2>. QED
      BY <2>1 DEF IInv, Begin, job
  <1>2. Given \subseteq Given'
    <2>1. 1..calls \subseteq 1..(calls + 1)
      BY <1>1
    <2>. QED
      BY <1>1, <2>1 DEF Given
  <1>. QED
    BY <1>1, <1>2 DEF Topological!Give

LEMMA TakeValueRefines ==
    IInv /\ TakeValue => [Topological!TopoNext]_(Topological!topoVars)
  BY DEF TakeValue, job, Topological!topoVars, Given

LEMMA NextStep ==
    IInv /\ [Next]_vars => IInv' /\ [Topological!TopoNext]_(Topological!topoVars)
  <1>. SUFFICES ASSUME IInv, [Next]_vars
                PROVE  IInv' /\ [Topological!TopoNext]_(Topological!topoVars)
    OBVIOUS
  <1>1. CASE Begin
    BY <1>1, BeginStep, BeginRefines
  <1>2. CASE ScheduleSource
    BY <1>2, ScheduleSourceStep
  <1>3. CASE TakeValue
    BY <1>3, TakeValueStep, TakeValueRefines
  <1>4. CASE VisitUser
    BY <1>4, VisitUserStep
  <1>5. CASE TakeCheapest
    BY <1>5, TakeCheapestStep
  <1>6. CASE Finish
    BY <1>6, FinishStep
  <1>7. CASE UNCHANGED vars
    <2>. USE <1>7 DEF vars
    <2>1. TypeOK' /\ JobInv' /\ UNCHANGED <<Request, Begun, Given>>
      BY DEF IInv, TypeOK, JobInv, Request, Begun, Given
    <2>2. UNCHANGED Announced
      BY <2>1 DEF Announced
    <2>3. (busy => CallInv') /\ CountsAreMissingInputs'
      <3>1. ASSUME NEW n PROVE Missing(n)' = Missing(n)
        BY <2>2 DEF Missing, ActualInputs, Elements
      <3>2. CountsAreMissingInputs'
        BY <3>1 DEF IInv, CountsAreMissingInputs
      <3>3. ASSUME busy PROVE CallInv'
        <4>1. QueueInv' /\ VisitInv' /\ ListInv'
          BY <2>1, <2>2, <3>3 DEF IInv, CallInv, QueueInv, VisitInv, ListInv
        <4>. QED
          BY <2>1, <3>3, <4>1 DEF IInv, CallInv
      <3>. QED
        BY <3>2, <3>3
    <2>4. AbortIsJustified'
      BY <2>1 DEF IInv, AbortIsJustified
    <2>5. IInv'
      BY <2>1, <2>3, <2>4 DEF IInv, idle
    <2>. QED
      BY <2>1, <2>5 DEF Topological!topoVars
  <1>. QED
    BY <1>1, <1>2, <1>3, <1>4, <1>5, <1>6, <1>7 DEF Next, Step, Stopped

\* Every state of a scheduling satisfies the inductive invariant.
THEOREM SchedulerInvariant == Spec => []IInv
  BY InitIInv, NextStep, PTL DEF Spec

\* The variables keep their types; in particular no count is ever negative.
THEOREM SchedulerTypeCorrect == Spec => []TypeOK
  <1>1. IInv => TypeOK
    BY DEF IInv
  <1>. QED
    BY <1>1, SchedulerInvariant, PTL

\* input_counts[n] is the number of n's inputs that are still missing.
THEOREM CountsAreExact == Spec => []CountsAreMissingInputs
  <1>1. IInv => CountsAreMissingInputs
    BY DEF IInv
  <1>. QED
    BY <1>1, SchedulerInvariant, PTL

\* Scheduling fails only when no order of the nodes could have met the call.
THEOREM SchedulerFailsOnlyIfItMust == Spec => []AbortIsJustified
  <1>1. IInv => AbortIsJustified
    BY DEF IInv
  <1>. QED
    BY <1>1, SchedulerInvariant, PTL

\* Both schedulers implement the topological schedule: each node is given one
\* order, after the nodes that compute its inputs, and keeps it.
THEOREM SchedulerImplementsTopologicalSchedule == Spec => SchedulesInOrder
  <1>1. Init => Topological!TopoInit
    BY DEF Init, Topological!TopoInit, Given
  <1>. QED
    BY <1>1, SchedulerInvariant, NextStep, PTL
       DEF Spec, SchedulesInOrder, Topological!TopoSpec
-----------------------------------------------------------------------------
(* What is handed to the emitter is what the emitter assumes.  Only the    *)
(* operators of GraphEmission on graphs are used; its variables have the   *)
(* values they have before a main graph is emitted.                        *)

Emission == INSTANCE GraphEmission
    WITH Graphs <- {}, graph <- HandedOver, inLoop <- FALSE, next <- 1,
         numUsers <- HandedOver.users, staged <- {}, todoOutputs <- Outputs, live <- {},
         fault <- FALSE, finished <- FALSE

\* Each node of q is there once, behind those that compute what it reads.
InOrder(g, given, q) ==
    /\ \A i, k \in 1..Len(q) : q[i] = q[k] => i = k
    /\ \A i \in 1..Len(q) : \A j \in ActualInputs(g, q[i]) :
          \/ g.ins[q[i]][j] \in given
          \/ \E k \in 1..(i - 1) : g.ins[q[i]][j] \in Elements(g.outs[q[k]])

Ordered == InOrder(graph, Given, schedule \o nodes)

\* The requests that have been met, and that their nodes have been scheduled.
Met == 1..(IF busy THEN calls - 1 ELSE calls)

RequestsMet ==
    ~aborted => \A i \in Met :
        NecessaryNodes(graph, requests[i].outputs) \subseteq Elements(schedule)

LEMMA OrderGrows ==
    ASSUME NEW g, NEW given, NEW q \in Seq(g.nodes), InOrder(g, given, q),
           NEW n \in g.nodes, n \notin Elements(q),
           \A j \in ActualInputs(g, n) :
              \/ g.ins[n][j] \in given
              \/ \E m \in Elements(q) : g.ins[n][j] \in Elements(g.outs[m])
    PROVE  InOrder(g, given, Append(q, n))
  <1>. DEFINE t == Append(q, n)
  <1>1. /\ Len(q) \in Nat /\ Len(t) = Len(q) + 1
        /\ \A i \in 1..Len(q) : t[i] = q[i]
        /\ t[Len(q) + 1] = n
    OBVIOUS
  <1>. HIDE DEF t
  <1>2. \A i \in 1..Len(q) : q[i] # n
    BY DEF Elements
  <1>3. \A i, k \in 1..Len(t) : t[i] = t[k] => i = k
    <2>1. ASSUME NEW i \in 1..Len(t), NEW k \in 1..Len(t), t[i] = t[k]
          PROVE  i = k
      <3>1. (i \in 1..Len(q) \/ i = Len(q) + 1) /\ (k \in 1..Len(q) \/ k = Len(q) + 1)
        BY <1>1
      <3>2. CASE i \in 1..Len(q) /\ k \in 1..Len(q)
        BY <1>1, <2>1, <3>2 DEF InOrder
      <3>3. CASE i = Len(q) + 1 \/ k = Len(q) + 1
        BY <1>1, <1>2, <2>1, <3>1, <3>3
      <3>. QED
        BY <3>1, <3>2, <3>3
    <2>. QED
      BY <2>1
  <1>4. ASSUME NEW i \in 1..Len(t), NEW j \in ActualInputs(g, t[i])
        PROVE  \/ g.ins[t[i]][j] \in given
               \/ \E k \in 1..(i - 1) : g.ins[t[i]][j] \in Elements(g.outs[t[k]])
    <2>1. CASE i \in 1..Len(q)
      <3>1. t[i] = q[i] /\ \A k \in 1..(i - 1) : k \in 1..Len(q) /\ t[k] = q[k]
        BY <1>1, <2>1
      <3>2. \/ g.ins[q[i]][j] \in given
            \/ \E k \in 1..(i - 1) : g.ins[q[i]][j] \in Elements(g.outs[q[k]])
        BY <1>4, <2>1, <3>1 DEF InOrder
      <3>. QED
        BY <3>1, <3>2
    <2>2. CASE i = Len(q) + 1
      <3>1. t[i] = n /\ \A k \in 1..Len(q) : k \in 1..(i - 1) /\ t[k] = q[k]
        BY <1>1, <2>2
      <3>2. j \in ActualInputs(g, n)
        BY <1>4, <3>1
      <3>3. CASE \E m \in Elements(q) : g.ins[n][j] \in Elements(g.outs[m])
        <4>1. PICK k \in 1..Len(q) : g.ins[n][j] \in Elements(g.outs[q[k]])
          BY <3>3 DEF Elements
        <4>. QED
          BY <3>1, <4>1
      <3>. QED
        BY <3>1, <3>2, <3>3
    <2>. QED
      BY <1>1, <2>1, <2>2
  <1>5. InOrder(g, given, t)
    BY <1>3, <1>4 DEF InOrder
  <1>. QED
    BY <1>5 DEF t

LEMMA OrderedStep ==
    ASSUME TypeOK, Ordered, [Topological!TopoNext]_(Topological!topoVars)
    PROVE  Ordered'
  <1>. DEFINE q == schedule \o nodes
  <1>1. q \in Seq(graph.nodes) /\ InOrder(graph, Given, q)
    BY ConcatType DEF TypeOK, Ordered
  <1>. SUFFICES InOrder(graph', Given', q')
    BY DEF Ordered
  <1>2. CASE UNCHANGED Topological!topoVars
    BY <1>1, <1>2 DEF Topological!topoVars
  <1>3. CASE Topological!Give
    <2>1. Given \subseteq Given' /\ graph' = graph /\ q' = q
      BY <1>3 DEF Topological!Give
    <2>. HIDE DEF q
    <2>2. InOrder(graph, Given', q)
      BY <1>1, <2>1 DEF InOrder
    <2>. QED
      BY <2>1, <2>2
  <1>4. ASSUME NEW n \in graph.nodes, Topological!Put(n)
        PROVE  InOrder(graph', Given', q')
    <2>1. /\ n \notin Elements(q) /\ graph' = graph /\ Given' = Given /\ q' = Append(q, n)
          /\ \A j \in ActualInputs(graph, n) :
                \/ graph.ins[n][j] \in Given
                \/ \E m \in Elements(q) : graph.ins[n][j] \in Elements(graph.outs[m])
      <3>1. ASSUME NEW s PROVE Topological!Elements(s) = Elements(s)
        BY DEF Topological!Elements, Elements
      <3>2. Topological!ActualInputs(graph, n) = ActualInputs(graph, n)
        BY DEF Topological!ActualInputs, ActualInputs
      <3>. QED
        BY <1>4, <3>1, <3>2 DEF Topological!Put, Topological!Available
    <2>. HIDE DEF q
    <2>2. InOrder(graph, Given, Append(q, n))
      BY <1>1, <1>4, <2>1, OrderGrows
    <2>. QED
      BY <2>1, <2>2
  <1>. QED
    BY <1>2, <1>3, <1>4 DEF Topological!TopoNext

\* A call is over when the nodes it needs have their order.
LEMMA MetStep ==
    ASSUME IInv, RequestsMet, [Next]_vars
    PROVE  RequestsMet'
  <1>1. TypeOK /\ calls \in Nat /\ aborted \in BOOLEAN /\ busy \in BOOLEAN
    BY JobFacts DEF IInv, TypeOK
  <1>2. CASE Begin
    <2>1. /\ ~busy /\ ~aborted /\ busy' /\ calls' = calls + 1
          /\ UNCHANGED <<graph, requests, aborted, schedule>>
      BY <1>2 DEF Begin, idle, job
    <2>2. Met' = Met
      BY <1>1, <2>1 DEF Met
    <2>. QED
      BY <2>1, <2>2 DEF RequestsMet
  <1>3. CASE ScheduleSource \/ TakeValue \/ TakeCheapest
    <2>1. UNCHANGED <<graph, requests, calls, busy, aborted, schedule>>
      BY <1>3 DEF ScheduleSource, TakeValue, TakeCheapest, job
    <2>. QED
      BY <2>1 DEF RequestsMet, Met
  <1>4. CASE VisitUser
    <2>1. /\ busy /\ UNCHANGED <<graph, requests, calls, schedule>>
          /\ busy' = ~aborted' \/ UNCHANGED <<busy, aborted>>
      BY <1>4 DEF VisitUser, job
    <2>2. ASSUME ~aborted' PROVE busy' = busy /\ aborted = FALSE
      BY <1>1, <2>1, <2>2 DEF IInv
    <2>3. ASSUME ~aborted' PROVE Met' = Met
      BY <1>1, <2>1, <2>2, <2>3 DEF Met
    <2>. QED
      BY <2>1, <2>2, <2>3 DEF RequestsMet
  <1>5. CASE Finish
    <2>1. /\ busy /\ busy' = FALSE /\ UNCHANGED <<graph, requests, calls>> /\ ~aborted
          /\ calls \in 1..Len(requests)
          /\ ~aborted' => Unscheduled = {} /\ schedule' = schedule \o nodes
      BY <1>1, <1>5 DEF Finish, job, IInv, CallInv
    <2>. SUFFICES ASSUME ~aborted', NEW i \in 1..calls
                  PROVE  NecessaryNodes(graph, requests[i].outputs) \subseteq Elements(schedule')
      BY <2>1 DEF RequestsMet, Met
    <2>2. Elements(schedule') = Elements(schedule) \cup Elements(nodes)
      <3>1. schedule \in Seq(graph.nodes) /\ nodes \in Seq(graph.nodes)
        BY <1>1 DEF TypeOK
      <3>2. schedule' = schedule \o nodes
        BY <2>1
      <3>. QED
        BY <3>1, <3>2, ElementsConcat
    <2>3. CASE i = calls
      BY <2>1, <2>2, <2>3 DEF Unscheduled, Request
    <2>4. CASE i # calls
      <3>1. i \in 1..(calls - 1)
        BY <1>1, <2>4
      <3>2. NecessaryNodes(graph, requests[i].outputs) \subseteq Elements(schedule)
        BY <2>1, <3>1 DEF RequestsMet, Met
      <3>. QED
        BY <2>2, <3>2
    <2>. QED
      BY <2>3, <2>4
  <1>6. CASE UNCHANGED vars
    BY <1>6 DEF vars, RequestsMet, Met
  <1>. QED
    BY <1>2, <1>3, <1>4, <1>5, <1>6 DEF Next, Step, Stopped

\* The places of numbers in a set, by size.
LEMMA PlacesAreNumbers ==
    ASSUME NEW n \in Nat, NEW S \in SUBSET (1..n)
    PROVE  /\ Cardinality(S) \in Nat
           /\ \A j \in S : Cardinality({i \in S : i <= j}) \in 1..Cardinality(S)
           /\ \A j, k \in S :
                 Cardinality({i \in S : i <= j}) = Cardinality({i \in S : i <= k}) => j = k
           /\ \A p \in 1..Cardinality(S) : \E j \in S : Cardinality({i \in S : i <= j}) = p
  <1>. DEFINE Below(j) == {i \in S : i <= j}
              c == Cardinality(S)
              f == [j \in S |-> Cardinality(Below(j))]
  <1>1. IsFiniteSet(S) /\ c \in Nat
    <2>1. IsFiniteSet(1..n)
      BY FS_Interval
    <2>2. IsFiniteSet(S)
      BY <2>1, FS_Subset
    <2>. QED
      BY <2>2, FS_CardinalityType
  <1>2. ASSUME NEW j \in S
        PROVE  IsFiniteSet(Below(j)) /\ Cardinality(Below(j)) \in 1..c
    <2>1. Below(j) \in SUBSET S /\ j \in Below(j)
      OBVIOUS
    <2>. HIDE DEF Below, c
    <2>2. IsFiniteSet(Below(j)) /\ Cardinality(Below(j)) <= c
      BY <1>1, <2>1, FS_Subset DEF c
    <2>3. Cardinality(Below(j)) \in Nat /\ Cardinality(Below(j)) # 0
      BY <2>1, <2>2, FS_CardinalityType, FS_EmptySet
    <2>. QED
      BY <1>1, <2>2, <2>3
  <1>3. ASSUME NEW j \in S, NEW k \in S, j < k
        PROVE  Cardinality(Below(j)) # Cardinality(Below(k))
    <2>1. Below(j) \in SUBSET Below(k) /\ k \in Below(k) /\ k \notin Below(j)
      <3>1. \A i \in S : i \in Int
        OBVIOUS
      <3>2. \A i \in S : i <= j => i <= k
        BY <1>3, <3>1
      <3>3. k <= k /\ ~(k <= j)
        BY <1>3, <3>1
      <3>. QED
        BY <3>2, <3>3
    <2>. HIDE DEF Below
    <2>. QED
      BY <1>2, <2>1, FS_Subset
  <1>. HIDE DEF Below, c
  <1>4. \A j, k \in S : Cardinality(Below(j)) = Cardinality(Below(k)) => j = k
    <2>1. \A j, k \in S : j < k \/ k < j \/ j = k
      OBVIOUS
    <2>. QED
      BY <1>3, <2>1
  <1>5. f \in Injection(S, 1..c)
    BY <1>2, <1>4 DEF Injection, IsInjective
  <1>6. IsFiniteSet(1..c) /\ Cardinality(1..c) = c
    <2>1. 1 \in Int /\ c \in Int /\ (1 > c => c = 0)
      BY <1>1
    <2>2. IsFiniteSet(1..c) /\ Cardinality(1..c) = IF 1 > c THEN 0 ELSE c - 1 + 1
      BY <2>1, FS_Interval
    <2>. QED
      BY <1>1, <2>1, <2>2
  <1>7. f \in Surjection(S, 1..c)
    <2>. HIDE DEF f
    <2>1. Cardinality(S) = Cardinality(1..c)
      BY <1>6 DEF c
    <2>. QED
      BY <1>5, <1>6, <2>1, FS_Injection
  <1>8. \A p \in 1..c : \E j \in S : Cardinality(Below(j)) = p
    BY <1>7 DEF Surjection
  <1>9. /\ c \in Nat /\ \A j \in S : Cardinality(Below(j)) \in 1..c
        /\ \A j, k \in S : Cardinality(Below(j)) = Cardinality(Below(k)) => j = k
        /\ \A p \in 1..c : \E j \in S : Cardinality(Below(j)) = p
    BY <1>1, <1>2, <1>4, <1>8
  <1>. QED
    BY <1>9 DEF Below, c

\* The input of n that comes at place p when null ones are left out.
InputAt(n, p) == CHOOSE j \in ActualInputs(graph, n) : Place(graph, n, j) = p

LEMMA InputsHavePlaces ==
    ASSUME JobInv, NEW n \in graph.nodes
    PROVE  LET c == Cardinality(ActualInputs(graph, n))
               s == NonNullInputs(graph, n)
           IN  /\ c \in Nat /\ Len(s) = c
               /\ s \in Seq({graph.ins[n][j] : j \in ActualInputs(graph, n)})
               /\ \A p \in 1..c : /\ InputAt(n, p) \in ActualInputs(graph, n)
                                  /\ s[p] = graph.ins[n][InputAt(n, p)]
               /\ \A p, q \in 1..c : InputAt(n, p) = InputAt(n, q) => p = q
               /\ \A j \in ActualInputs(graph, n) : \E p \in 1..c : InputAt(n, p) = j
  <1>. DEFINE A == ActualInputs(graph, n)
              c == Cardinality(A)
              s == NonNullInputs(graph, n)
  <1>1. A \in SUBSET (1..Len(graph.ins[n])) /\ Len(graph.ins[n]) \in Nat
    BY GraphFacts DEF ActualInputs
  <1>2. /\ c \in Nat
        /\ \A j \in A : Place(graph, n, j) \in 1..c
        /\ \A j, k \in A : Place(graph, n, j) = Place(graph, n, k) => j = k
        /\ \A p \in 1..c : \E j \in A : Place(graph, n, j) = p
    <2>. DEFINE m == Len(graph.ins[n])
                Below(j) == {i \in A : i <= j}
    <2>1. A \in SUBSET (1..m) /\ m \in Nat
      BY <1>1
    <2>2. \A j : Place(graph, n, j) = Cardinality(Below(j))
      BY DEF Place
    <2>. HIDE DEF A, m
    <2>3. /\ Cardinality(A) \in Nat
          /\ \A j \in A : Cardinality(Below(j)) \in 1..Cardinality(A)
          /\ \A j, k \in A : Cardinality(Below(j)) = Cardinality(Below(k)) => j = k
          /\ \A p \in 1..Cardinality(A) : \E j \in A : Cardinality(Below(j)) = p
      BY <2>1, PlacesAreNumbers
    <2>. HIDE DEF Below
    <2>. QED
      BY <2>2, <2>3
  <1>3. s = [p \in 1..c |-> graph.ins[n][InputAt(n, p)]]
    BY DEF NonNullInputs, InputAt
  <1>4. \A p : InputAt(n, p) = CHOOSE j \in A : Place(graph, n, j) = p
    BY DEF InputAt
  <1>. HIDE DEF A, c, s
  <1>5. \A p \in 1..c : InputAt(n, p) \in A /\ Place(graph, n, InputAt(n, p)) = p
    BY <1>2, <1>4
  <1>6. \A j \in A : \E p \in 1..c : InputAt(n, p) = j
    BY <1>2, <1>5
  <1>7. Len(s) = c /\ s \in Seq({graph.ins[n][j] : j \in A})
    <2>. DEFINE T == {graph.ins[n][j] : j \in A}
    <2>1. \A p \in 1..c : graph.ins[n][InputAt(n, p)] \in T
      BY <1>5
    <2>. HIDE DEF T
    <2>2. s \in [1..c -> T]
      BY <1>3, <2>1
    <2>3. s \in Seq(T) /\ Len(s) = c
      BY <1>2, <2>2
    <2>. QED
      BY <2>3 DEF T
  <1>8. /\ c \in Nat /\ Len(s) = c /\ s \in Seq({graph.ins[n][j] : j \in A})
        /\ \A p \in 1..c : InputAt(n, p) \in A /\ s[p] = graph.ins[n][InputAt(n, p)]
        /\ \A p, q \in 1..c : InputAt(n, p) = InputAt(n, q) => p = q
        /\ \A j \in A : \E p \in 1..c : InputAt(n, p) = j
    BY <1>2, <1>3, <1>5, <1>6, <1>7
  <1>. QED
    BY <1>8 DEF A, c, s

\* The outputs a caller asks for are values some node computes.
OutputsAreComputed ==
    \A v \in Outputs : v # Null /\ \E n \in graph.nodes : v \in Elements(graph.outs[n])

LEMMA ProducersAreNecessary ==
    ASSUME NEW g, NEW outputs, NEW v \in outputs, NEW n \in g.nodes, Produces(g, n, v)
    PROVE  n \in NecessaryNodes(g, outputs)
  <1>1. ASSUME NEW S \in SUBSET g.nodes, IsNecessarySet(g, outputs, S)
        PROVE  n \in S
    BY <1>1 DEF IsNecessarySet
  <1>. QED
    BY <1>1 DEF NecessaryNodes

LEMMA HandedOverFields ==
    LET h == HandedOver
    IN  /\ h.inputs = Given /\ h.outputs = Outputs /\ h.temps = Computed \ Outputs
        /\ h.nodes = [i \in 1..Len(schedule) |->
                         [ins  |-> NonNullInputs(graph, schedule[i]),
                          outs |-> Elements(graph.outs[schedule[i]]) \ {Null}]]
        /\ h.users = [v \in Given \cup Computed \cup Outputs |-> Cardinality(UsersLeft(v))]
  BY DEF HandedOver, ComputationSequence

\* What an idle scheduler has done, node by node.
NodesOf(h) ==
    /\ Len(schedule) \in Nat /\ DOMAIN h.nodes = 1..Len(schedule)
    /\ Len(h.nodes) = Len(schedule)
    /\ \A i \in 1..Len(schedule) :
          /\ schedule[i] \in graph.nodes
          /\ h.nodes[i] = [ins |-> h.nodes[i].ins, outs |-> h.nodes[i].outs]
          /\ h.nodes[i].ins = NonNullInputs(graph, schedule[i])
          /\ h.nodes[i].outs = Elements(graph.outs[schedule[i]]) \ {Null}
          /\ h.nodes[i].outs \subseteq Computed
    /\ \A i, k \in 1..Len(schedule) : schedule[i] = schedule[k] => i = k
    /\ \A v \in Computed : \E i \in 1..Len(schedule) : v \in h.nodes[i].outs
    /\ Outputs \subseteq Computed
    /\ Null \notin Given \cup Computed /\ Given \cap Computed = {}

LEMMA WhatIsHandedOver ==
    ASSUME IInv, Ordered, RequestsMet, idle, OutputsAreComputed
    PROVE  NodesOf(HandedOver)
  <1>. DEFINE h == HandedOver
              q == schedule
              N == Len(q)
  <1>1. /\ TypeOK /\ JobInv /\ ~busy /\ ~aborted /\ nodes = << >>
        /\ calls \in 0..Len(requests) /\ Len(requests) \in Nat
    BY JobFacts DEF IInv, TypeOK, idle
  <1>2. q \in Seq(graph.nodes) /\ N \in Nat /\ q \o nodes = q
    BY <1>1 DEF TypeOK
  <1>3. InOrder(graph, Given, q)
    BY <1>2 DEF Ordered
  <1>4. \A i \in 1..N : q[i] \in graph.nodes
    BY <1>2
  <1>5. \A n : n \in Elements(q) <=> \E i \in 1..N : n = q[i]
    BY DEF Elements
  <1>6. /\ DOMAIN h.nodes = 1..N /\ Len(h.nodes) = N
        /\ \A i \in 1..N : h.nodes[i] = [ins  |-> NonNullInputs(graph, q[i]),
                                         outs |-> Elements(graph.outs[q[i]]) \ {Null}]
    <2>1. h.nodes = [i \in 1..N |-> [ins  |-> NonNullInputs(graph, q[i]),
                                     outs |-> Elements(graph.outs[q[i]]) \ {Null}]]
      BY HandedOverFields
    <2>. HIDE DEF h
    <2>. QED
      BY <1>2, <2>1
  <1>. HIDE DEF h, N
  <1>7. ASSUME NEW i \in 1..N
        PROVE  /\ h.nodes[i] = [ins |-> h.nodes[i].ins, outs |-> h.nodes[i].outs]
               /\ h.nodes[i].ins = NonNullInputs(graph, q[i])
               /\ h.nodes[i].outs = Elements(graph.outs[q[i]]) \ {Null}
    <2>. DEFINE a == NonNullInputs(graph, q[i])
                o == Elements(graph.outs[q[i]]) \ {Null}
    <2>1. h.nodes[i] = [ins |-> a, outs |-> o]
      BY <1>6
    <2>. HIDE DEF a, o
    <2>2. h.nodes[i].ins = a /\ h.nodes[i].outs = o
      BY <2>1
    <2>. QED
      BY <2>1, <2>2 DEF a, o
  <1>8. \A v : v \in Computed <=>
           v # Null /\ \E i \in 1..N : v \in Elements(graph.outs[q[i]])
    <2>. DEFINE U == UNION {Elements(graph.outs[n]) : n \in Elements(q)}
    <2>1. Computed = U \ {Null}
      BY DEF Computed
    <2>2. ASSUME NEW v
          PROVE  v \in U <=> \E i \in 1..N : v \in Elements(graph.outs[q[i]])
      <3>1. v \in U <=> \E n \in Elements(q) : v \in Elements(graph.outs[n])
        OBVIOUS
      <3>. HIDE DEF U
      <3>. QED
        BY <1>5, <3>1
    <2>. HIDE DEF U
    <2>. QED
      BY <2>1, <2>2
  <1>9. \A i \in 1..N : h.nodes[i].outs \subseteq Computed
    <2>1. ASSUME NEW i \in 1..N, NEW v \in h.nodes[i].outs PROVE v \in Computed
      <3>1. v # Null /\ v \in Elements(graph.outs[q[i]])
        BY <1>7, <2>1
      <3>. QED
        BY <1>8, <3>1
    <2>. QED
      BY <2>1
  <1>10. ASSUME NEW v \in Computed PROVE \E i \in 1..N : v \in h.nodes[i].outs
    <2>1. PICK i \in 1..N : v # Null /\ v \in Elements(graph.outs[q[i]])
      BY <1>8
    <2>. QED
      BY <1>7, <2>1
  <1>11. ASSUME NEW v \in Outputs PROVE v \in Computed
    <2>1. PICK i \in 1..calls : v \in requests[i].outputs
      BY DEF Outputs
    <2>2. PICK n \in graph.nodes : v \in Elements(graph.outs[n])
      BY DEF OutputsAreComputed
    <2>3. v # Null
      BY DEF OutputsAreComputed
    <2>4. n \in NecessaryNodes(graph, requests[i].outputs)
      BY <2>1, <2>2, <2>3, ProducersAreNecessary DEF Produces
    <2>5. n \in Elements(q)
      BY <1>1, <2>1, <2>4 DEF RequestsMet, Met
    <2>6. PICK k \in 1..N : n = q[k]
      BY <1>5, <2>5
    <2>. QED
      BY <1>8, <2>2, <2>3, <2>6
  <1>12. ASSUME NEW v \in Given
         PROVE  v # Null /\ \A n \in graph.nodes : v \notin Elements(graph.outs[n])
    <2>1. PICK i \in 1..calls : v \in Elements(requests[i].inputs)
      BY DEF Given
    <2>2. i \in 1..Len(requests)
      BY <1>1
    <2>. QED
      BY <1>1, <2>1, <2>2, JobFacts DEF IsRequest
  <1>13. Given \cap Computed = {}
    BY <1>4, <1>5, <1>8, <1>12
  <1>14. \A i, k \in 1..N : q[i] = q[k] => i = k
    BY <1>3 DEF InOrder, N
  <1>15. /\ N \in Nat /\ DOMAIN h.nodes = 1..N /\ Len(h.nodes) = N
         /\ \A i \in 1..N :
               /\ q[i] \in graph.nodes
               /\ h.nodes[i] = [ins |-> h.nodes[i].ins, outs |-> h.nodes[i].outs]
               /\ h.nodes[i].ins = NonNullInputs(graph, q[i])
               /\ h.nodes[i].outs = Elements(graph.outs[q[i]]) \ {Null}
               /\ h.nodes[i].outs \subseteq Computed
         /\ \A i, k \in 1..N : q[i] = q[k] => i = k
         /\ \A v \in Computed : \E i \in 1..N : v \in h.nodes[i].outs
         /\ Outputs \subseteq Computed
         /\ Null \notin Given \cup Computed /\ Given \cap Computed = {}
    BY <1>2, <1>4, <1>6, <1>7, <1>8, <1>9, <1>10, <1>11, <1>12, <1>13, <1>14
  <1>. QED
    BY <1>15 DEF h, N, NodesOf

\* A node's inputs are given, or computed by a node before it.
LEMMA HandedOverInOrder ==
    ASSUME IInv, Ordered, RequestsMet, idle, OutputsAreComputed,
           NEW i \in 1..Len(schedule), NEW p \in 1..Len(HandedOver.nodes[i].ins)
    PROVE  LET v == HandedOver.nodes[i].ins[p]
           IN  \/ v \in Given
               \/ \E k \in 1..(i - 1) : v \in HandedOver.nodes[k].outs
  <1>. DEFINE h == HandedOver
              n == schedule[i]
              v == h.nodes[i].ins[p]
  <1>0. NodesOf(h)
    BY WhatIsHandedOver
  <1>. HIDE DEF h
  <1>1. n \in graph.nodes /\ h.nodes[i].ins = NonNullInputs(graph, n) /\ JobInv
    BY <1>0 DEF IInv, NodesOf
  <1>2. PICK j \in ActualInputs(graph, n) : v = graph.ins[n][j]
    <2>. DEFINE s == NonNullInputs(graph, n)
                A == ActualInputs(graph, n)
    <2>1. s \in Seq({graph.ins[n][j] : j \in A})
      BY <1>1, InputsHavePlaces
    <2>2. v = s[p] /\ p \in 1..Len(s)
      BY <1>1 DEF h
    <2>. HIDE DEF s, A, v
    <2>3. v \in {graph.ins[n][j] : j \in A}
      BY <2>1, <2>2
    <2>. QED
      BY <2>3 DEF A
  <1>3. v # Null
    BY <1>2 DEF ActualInputs
  <1>4. InOrder(graph, Given, schedule)
    <2>1. nodes = << >> /\ schedule \in Seq(graph.nodes)
      BY DEF IInv, TypeOK, idle
    <2>2. schedule \o nodes = schedule
      BY <2>1
    <2>. QED
      BY <2>2 DEF Ordered
  <1>5. v \in Given \/ \E k \in 1..(i - 1) : v \in Elements(graph.outs[schedule[k]])
    BY <1>2, <1>4 DEF InOrder
  <1>6. ASSUME NEW k \in 1..(i - 1), v \in Elements(graph.outs[schedule[k]])
        PROVE  v \in h.nodes[k].outs
    <2>1. k \in 1..Len(schedule)
      BY <1>0 DEF NodesOf
    <2>2. h.nodes[k].outs = Elements(graph.outs[schedule[k]]) \ {Null}
      BY <1>0, <2>1 DEF NodesOf
    <2>. QED
      BY <1>3, <1>6, <2>2
  <1>. QED
    BY <1>5, <1>6 DEF h

\* The places where a value is read in what is handed over.
LEMMA UsesHandedOver ==
    ASSUME NEW h, NEW v, NEW u
    PROVE  u \in Emission!Uses(h, v) <=>
              \E i \in 1..Len(h.nodes) : \E p \in 1..Len(h.nodes[i].ins) :
                  u = <<i, p>> /\ h.nodes[i].ins[p] = v
  BY DEF Emission!Uses, Emission!Order

LEMMA UsesAreFinite ==
    ASSUME JobInv, NEW v
    PROVE  IsFiniteSet(UsersLeft(v))
  <1>. DEFINE Reads(n) == {n} \X {j \in 1..Len(graph.ins[n]) : graph.ins[n][j] = v}
              f == [n \in graph.nodes |-> Reads(n)]
              T == {Reads(n) : n \in graph.nodes}
  <1>1. ASSUME NEW n \in graph.nodes PROVE IsFiniteSet(Reads(n))
    <2>. DEFINE J == {j \in 1..Len(graph.ins[n]) : graph.ins[n][j] = v}
    <2>1. Len(graph.ins[n]) \in Nat
      BY GraphFacts
    <2>2. IsFiniteSet(1..Len(graph.ins[n])) /\ J \in SUBSET (1..Len(graph.ins[n]))
      BY <2>1, FS_Interval
    <2>. HIDE DEF J
    <2>3. IsFiniteSet(J) /\ IsFiniteSet({n})
      BY <2>2, FS_Subset, FS_Singleton
    <2>4. IsFiniteSet({n} \X J)
      BY <2>3, FS_Product
    <2>. QED
      BY <2>4 DEF J
  <1>2. Uses(graph, v) = UNION T
    BY DEF Uses
  <1>. HIDE DEF Reads
  <1>3. f \in Surjection(graph.nodes, T)
    BY DEF Surjection
  <1>4. IsFiniteSet(graph.nodes)
    BY JobFacts DEF IsGraph
  <1>5. \A t \in T : IsFiniteSet(t)
    BY <1>1
  <1>. HIDE DEF f, T
  <1>6. IsFiniteSet(T)
    BY <1>3, <1>4, FS_Surjection
  <1>7. IsFiniteSet(UNION T)
    BY <1>5, <1>6, FS_UNION
  <1>8. UsersLeft(v) \in SUBSET Uses(graph, v)
    BY DEF UsersLeft
  <1>. QED
    BY <1>2, <1>7, <1>8, FS_Subset

\* A value's users are the places where the scheduled nodes read it: to each
\* read in what is handed over corresponds one in the graph.
LEMMA UsersAgree ==
    ASSUME IInv, NodesOf(HandedOver), NEW v, v # Null
    PROVE  Cardinality(UsersLeft(v)) = Cardinality(Emission!Uses(HandedOver, v))
  <1>. DEFINE h == HandedOver
              B == Emission!Uses(h, v)
              A == UsersLeft(v)
              f == [u \in B |-> <<schedule[u[1]], InputAt(schedule[u[1]], u[2])>>]
  <1>1. JobInv /\ Len(h.nodes) = Len(schedule) /\ Len(schedule) \in Nat
    BY DEF IInv, NodesOf
  <1>2. ASSUME NEW i \in 1..Len(schedule)
        PROVE  /\ schedule[i] \in graph.nodes /\ schedule[i] \in Elements(schedule)
               /\ Len(h.nodes[i].ins) = Cardinality(ActualInputs(graph, schedule[i]))
               /\ \A p \in 1..Len(h.nodes[i].ins) :
                     /\ InputAt(schedule[i], p) \in ActualInputs(graph, schedule[i])
                     /\ h.nodes[i].ins[p] = graph.ins[schedule[i]][InputAt(schedule[i], p)]
               /\ \A p, q \in 1..Len(h.nodes[i].ins) :
                     InputAt(schedule[i], p) = InputAt(schedule[i], q) => p = q
               /\ \A j \in ActualInputs(graph, schedule[i]) :
                     \E p \in 1..Len(h.nodes[i].ins) : InputAt(schedule[i], p) = j
    <2>. DEFINE n == schedule[i]
                s == h.nodes[i].ins
                c == Cardinality(ActualInputs(graph, n))
    <2>1. n \in graph.nodes /\ n \in Elements(schedule) /\ s = NonNullInputs(graph, n)
      BY <1>1 DEF NodesOf, Elements
    <2>. HIDE DEF n, s
    <2>2. /\ Len(s) = c
          /\ \A p \in 1..c : /\ InputAt(n, p) \in ActualInputs(graph, n)
                             /\ s[p] = graph.ins[n][InputAt(n, p)]
          /\ \A p, q \in 1..c : InputAt(n, p) = InputAt(n, q) => p = q
          /\ \A j \in ActualInputs(graph, n) : \E p \in 1..c : InputAt(n, p) = j
      BY <1>1, <2>1, InputsHavePlaces
    <2>. QED
      BY <2>1, <2>2 DEF n, s
  <1>. HIDE DEF h
  <1>3. \A u : u \in B <=>
           \E i \in 1..Len(schedule) : \E p \in 1..Len(h.nodes[i].ins) :
               u = <<i, p>> /\ h.nodes[i].ins[p] = v
    BY <1>1, UsesHandedOver
  <1>4. \A u : u \in A <=>
           \E n \in graph.nodes : \E j \in 1..Len(graph.ins[n]) :
               u = <<n, j>> /\ graph.ins[n][j] = v /\ n \in Elements(schedule)
    <2>1. ASSUME NEW u
          PROVE  u \in A <=> \E n \in graph.nodes : \E j \in 1..Len(graph.ins[n]) :
                                u = <<n, j>> /\ graph.ins[n][j] = v /\ n \in Elements(schedule)
      <3>1. u \in A <=> u \in Uses(graph, v) /\ u[1] \in Elements(schedule)
        BY DEF UsersLeft
      <3>2. u \in Uses(graph, v) <=> \E n \in graph.nodes : \E j \in 1..Len(graph.ins[n]) :
                                        u = <<n, j>> /\ graph.ins[n][j] = v
        BY UsesElements
      <3>3. \A n, j : u = <<n, j>> => u[1] = n
        OBVIOUS
      <3>. QED
        BY <3>1, <3>2, <3>3
    <2>. QED
      BY <2>1
  <1>. HIDE DEF A, B
  <1>5. ASSUME NEW u \in B
        PROVE  \E i \in 1..Len(schedule) : \E p \in 1..Len(h.nodes[i].ins) :
                  /\ u = <<i, p>> /\ f[u] = <<schedule[i], InputAt(schedule[i], p)>>
                  /\ f[u] \in A
    <2>0. PICK i \in 1..Len(schedule) : \E p \in 1..Len(h.nodes[i].ins) :
              u = <<i, p>> /\ h.nodes[i].ins[p] = v
      BY <1>3
    <2>1. PICK p \in 1..Len(h.nodes[i].ins) : u = <<i, p>> /\ h.nodes[i].ins[p] = v
      BY <2>0
    <2>2. u[1] = i /\ u[2] = p
      BY <2>1
    <2>3. f[u] = <<schedule[i], InputAt(schedule[i], p)>>
      BY <2>2
    <2>4. /\ InputAt(schedule[i], p) \in 1..Len(graph.ins[schedule[i]])
          /\ graph.ins[schedule[i]][InputAt(schedule[i], p)] = v
      BY <1>2, <2>1 DEF ActualInputs
    <2>5. f[u] \in A
      BY <1>2, <1>4, <2>3, <2>4
    <2>. QED
      BY <2>1, <2>3, <2>5
  <1>6. f \in Injection(B, A)
    <2>1. f \in [B -> A]
      BY <1>5
    <2>2. ASSUME NEW u \in B, NEW w \in B, f[u] = f[w]
          PROVE  u = w
      <3>a. PICK i \in 1..Len(schedule) : \E p \in 1..Len(h.nodes[i].ins) :
                u = <<i, p>> /\ f[u] = <<schedule[i], InputAt(schedule[i], p)>>
        BY <1>5
      <3>1. PICK p \in 1..Len(h.nodes[i].ins) :
                u = <<i, p>> /\ f[u] = <<schedule[i], InputAt(schedule[i], p)>>
        BY <3>a
      <3>b. PICK k \in 1..Len(schedule) : \E q \in 1..Len(h.nodes[k].ins) :
                w = <<k, q>> /\ f[w] = <<schedule[k], InputAt(schedule[k], q)>>
        BY <1>5
      <3>2. PICK q \in 1..Len(h.nodes[k].ins) :
                w = <<k, q>> /\ f[w] = <<schedule[k], InputAt(schedule[k], q)>>
        BY <3>b
      <3>3. schedule[i] = schedule[k] /\ InputAt(schedule[i], p) = InputAt(schedule[k], q)
        BY <2>2, <3>1, <3>2
      <3>4. i = k
        BY <3>3 DEF NodesOf
      <3>5. p = q
        BY <1>2, <3>3, <3>4
      <3>. QED
        BY <3>1, <3>2, <3>4, <3>5
    <2>. HIDE DEF f
    <2>. QED
      BY <2>1, <2>2 DEF Injection, IsInjective
  <1>7. f \in Surjection(B, A)
    <2>1. f \in [B -> A]
      BY <1>5
    <2>2. ASSUME NEW w \in A PROVE \E u \in B : f[u] = w
      <3>0. PICK n \in graph.nodes : \E j \in 1..Len(graph.ins[n]) :
                w = <<n, j>> /\ graph.ins[n][j] = v /\ n \in Elements(schedule)
        BY <1>4
      <3>1. PICK j \in 1..Len(graph.ins[n]) :
                w = <<n, j>> /\ graph.ins[n][j] = v /\ n \in Elements(schedule)
        BY <3>0
      <3>2. PICK i \in 1..Len(schedule) : n = schedule[i]
        BY <3>1 DEF Elements
      <3>3. j \in ActualInputs(graph, n)
        BY <3>1 DEF ActualInputs
      <3>4. PICK p \in 1..Len(h.nodes[i].ins) : InputAt(n, p) = j
        BY <1>2, <3>2, <3>3
      <3>5. h.nodes[i].ins[p] = v
        BY <1>2, <3>1, <3>2, <3>4
      <3>6. <<i, p>> \in B
        BY <1>3, <3>5
      <3>7. f[<<i, p>>] = <<schedule[i], InputAt(schedule[i], p)>>
        BY <3>6
      <3>. QED
        BY <3>1, <3>2, <3>4, <3>6, <3>7
    <2>. HIDE DEF f
    <2>. QED
      BY <2>1, <2>2 DEF Surjection
  <1>8. IsFiniteSet(A)
    BY <1>1, UsesAreFinite DEF A
  <1>. HIDE DEF f
  <1>9. IsFiniteSet(B) /\ Cardinality(B) = Cardinality(A)
    BY <1>6, <1>7, <1>8, FS_Injection
  <1>. QED
    BY <1>9 DEF A, B, h

\* The instance counts as this module does.
LEMMA SameCardinality == \A S : Emission!Cardinality(S) = Cardinality(S)
BY DEF Emission!Cardinality, Cardinality, Emission!IsFiniteSet, IsFiniteSet

LEMMA HandsOver ==
    ASSUME IInv, Ordered, RequestsMet, idle, OutputsAreComputed
    PROVE  Emission!IsGraph(HandedOver) /\ Emission!WellFormed(HandedOver)
  <1>. DEFINE h == HandedOver
              N == Len(schedule)
              All == Given \cup Computed
  <1>1. NodesOf(h)
    BY WhatIsHandedOver
  <1>2. /\ h.inputs = Given /\ h.outputs = Outputs /\ h.temps = Computed \ Outputs
        /\ h.users = [v \in Given \cup Computed \cup Outputs |-> Cardinality(UsersLeft(v))]
    BY HandedOverFields
  <1>3. \A i \in 1..N : \A p \in 1..Len(h.nodes[i].ins) :
            \/ h.nodes[i].ins[p] \in Given
            \/ \E k \in 1..(i - 1) : h.nodes[i].ins[p] \in h.nodes[k].outs
    BY HandedOverInOrder
  <1>4. \A v \in All : Cardinality(UsersLeft(v)) = Cardinality(Emission!Uses(h, v))
    <2>1. \A v \in All : v # Null
      BY <1>1 DEF NodesOf
    <2>. QED
      BY <1>1, <2>1, UsersAgree
  <1>5. ASSUME NEW i \in 1..N
        PROVE  h.nodes[i].ins \in Seq(All)
    <2>. DEFINE s == h.nodes[i].ins
                S == {graph.ins[schedule[i]][j] : j \in ActualInputs(graph, schedule[i])}
    <2>1. s \in Seq(S)
      <3>. DEFINE n == schedule[i]
      <3>1. n \in graph.nodes /\ s = NonNullInputs(graph, n) /\ JobInv
        BY <1>1 DEF NodesOf, IInv
      <3>. HIDE DEF n, s
      <3>2. s \in Seq({graph.ins[n][j] : j \in ActualInputs(graph, n)})
        BY <3>1, InputsHavePlaces
      <3>. QED
        BY <3>2 DEF n
    <2>2. Len(s) \in Nat /\ s = [p \in 1..Len(s) |-> s[p]]
      <3>. HIDE DEF s, S
      <3>. QED
        BY <2>1
    <2>3. \A p \in 1..Len(s) : s[p] \in All
      <3>1. \A k \in 1..(i - 1) : k \in 1..N
        BY <1>1 DEF NodesOf
      <3>2. \A k \in 1..N : h.nodes[k].outs \subseteq Computed
        BY <1>1 DEF NodesOf
      <3>. QED
        BY <1>3, <3>1, <3>2
    <2>. HIDE DEF s, All
    <2>. DEFINE m == Len(s)
    <2>4. s \in [1..m -> All] /\ m \in Nat
      BY <2>2, <2>3
    <2>. HIDE DEF m
    <2>5. s \in Seq(All)
      BY <2>4
    <2>. QED
      BY <2>5 DEF s
  <1>. HIDE DEF h
  <1>6. Outputs \subseteq Computed /\ Given \cap Computed = {} /\ N \in Nat /\ Len(h.nodes) = N
    BY <1>1 DEF NodesOf
  <1>7. Emission!Values(h) = All
    BY <1>2, <1>6 DEF Emission!Values
  <1>8. Emission!Order(h) = 1..N
    BY <1>6 DEF Emission!Order
  <1>9. Emission!IsGraph(h)
    <2>1. h.nodes \in Seq([ins : Seq(All), outs : SUBSET All])
      <3>. DEFINE R == [ins : Seq(All), outs : SUBSET All]
      <3>1. ASSUME NEW i \in 1..N PROVE h.nodes[i] \in R
        <4>1. /\ h.nodes[i] = [ins |-> h.nodes[i].ins, outs |-> h.nodes[i].outs]
              /\ h.nodes[i].outs \subseteq All
          BY <1>1 DEF NodesOf
        <4>2. h.nodes[i].ins \in Seq(All) /\ h.nodes[i].outs \in SUBSET All
          BY <1>5, <4>1
        <4>. HIDE DEF All
        <4>. QED
          BY <4>1, <4>2
      <3>2. h.nodes = [i \in 1..N |-> h.nodes[i]]
        BY HandedOverFields DEF h
      <3>. HIDE DEF R, N
      <3>3. h.nodes \in [1..N -> R]
        BY <3>1, <3>2
      <3>4. h.nodes \in Seq(R)
        BY <1>6, <3>3
      <3>. QED
        BY <3>4 DEF R
    <2>2. h.users \in [All -> Nat]
      <3>1. \A v \in All : Cardinality(UsersLeft(v)) \in Nat
        BY UsesAreFinite, FS_CardinalityType DEF IInv
      <3>2. h.users = [v \in All |-> Cardinality(UsersLeft(v))]
        BY <1>2, <1>6
      <3>. HIDE DEF All
      <3>. QED
        BY <3>1, <3>2
    <2>. QED
      BY <1>7, <2>1, <2>2 DEF Emission!IsGraph
  <1>10. \A i, k \in 1..N : i # k => h.nodes[i].outs \cap h.nodes[k].outs = {}
    <2>1. ASSUME NEW i \in 1..N, NEW k \in 1..N, NEW v \in h.nodes[i].outs, v \in h.nodes[k].outs
          PROVE  i = k
      <3>a. \A x \in 1..N : /\ schedule[x] \in graph.nodes
                             /\ h.nodes[x].outs = Elements(graph.outs[schedule[x]]) \ {Null}
        BY <1>1 DEF NodesOf
      <3>1. /\ schedule[i] \in graph.nodes /\ schedule[k] \in graph.nodes
            /\ v \in Elements(graph.outs[schedule[i]]) /\ v # Null
            /\ v \in Elements(graph.outs[schedule[k]])
        BY <2>1, <3>a
      <3>2. schedule[i] = schedule[k]
        BY <3>1, OneProducer DEF IInv
      <3>. QED
        BY <1>1, <3>2 DEF NodesOf
    <2>. QED
      BY <2>1
  <1>12. ASSUME NEW i \in 1..N, NEW v \in Emission!InputsOf(h.nodes[i])
         PROVE  v \in h.inputs \/ \E k \in 1..(i - 1) : v \in h.nodes[k].outs
    <2>1. PICK p \in 1..Len(h.nodes[i].ins) : v = h.nodes[i].ins[p]
      BY DEF Emission!InputsOf
    <2>. QED
      BY <1>2, <1>3, <2>1 DEF h
  <1>13. /\ \A i \in 1..N : h.nodes[i].outs \subseteq h.temps \cup h.outputs
         /\ \A v \in h.outputs : \E i \in 1..N : v \in h.nodes[i].outs
    BY <1>1, <1>2 DEF NodesOf
  <1>14. \A v \in All : h.users[v] = Emission!Cardinality(Emission!Uses(h, v))
    <2>1. ASSUME NEW v \in All PROVE h.users[v] = Cardinality(Emission!Uses(h, v))
      BY <1>2, <1>4 DEF h
    <2>. QED
      BY <2>1, SameCardinality
  <1>15. Emission!WellFormed(h)
    <2>. HIDE DEF All, N
    <2>. QED
      BY <1>2, <1>6, <1>7, <1>8, <1>10, <1>12, <1>13, <1>14 DEF Emission!WellFormed
  <1>. QED
    BY <1>9, <1>15 DEF h

\* Whenever the scheduler is done, the emitter can rely on what it is handed:
\* every node reads what was given or computed before, nothing is computed
\* twice, what was asked for is computed, and a value has as many users as
\* there are reads of it.  So the theorems on GraphEmission are about every
\* graph this compiler schedules, provided what it is asked for is computed.
THEOREM SchedulesCanBeEmitted ==
    Spec => [](idle /\ OutputsAreComputed =>
                  Emission!IsGraph(HandedOver) /\ Emission!WellFormed(HandedOver))
  <1>. DEFINE Good == IInv /\ Ordered /\ RequestsMet
              Emitted == idle /\ OutputsAreComputed =>
                            Emission!IsGraph(HandedOver) /\ Emission!WellFormed(HandedOver)
  <1>1. Init => Good
    <2>. SUFFICES ASSUME Init PROVE Good
      OBVIOUS
    <2>1. schedule \o nodes = << >> /\ calls = 0 /\ busy = FALSE
      BY DEF Init
    <2>2. Ordered
      BY <2>1 DEF Ordered, InOrder
    <2>3. RequestsMet
      BY <2>1 DEF RequestsMet, Met
    <2>. QED
      BY <2>2, <2>3, InitIInv
  <1>2. Good /\ [Next]_vars => Good'
    BY NextStep, OrderedStep, MetStep DEF IInv
  <1>3. Good => Emitted
    BY HandsOver
  <1>. HIDE DEF Good, Emitted
  <1>4. Spec => []Emitted
    BY <1>1, <1>2, <1>3, PTL DEF Spec
  <1>. QED
    BY <1>4 DEF Emitted
=============================================================================
