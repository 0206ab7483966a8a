----------------------------- MODULE Scheduler -----------------------------
(***************************************************************************)
(* ScheduleComputation (compiler/scheduler.cc): gives the nodes of a graph *)
(* that are needed for some outputs their chainer_order, the order in      *)
(* which they will run.  Both schedulers count down, for every necessary   *)
(* node, the inputs that are still missing.  ScheduleNaively schedules a   *)
(* node as soon as it has its inputs and keeps a queue of values;          *)
(* ScheduleGreedy keeps a multimap of the nodes that have their inputs and *)
(* takes one whose estimated memory increase is smallest.  The function    *)
(* may be called again for other outputs of the same graph.                *)
(*                                                                         *)
(* Choices left open: the order in which the std::map of nodes, keyed by   *)
(* pointer, is traversed; the order of a value's users; and, in the        *)
(* multimap, the order of nodes of the same cost.                          *)
(*                                                                         *)
(* DelaySimpleNodes does not appear: has_already_scheduled_nodes is set    *)
(* whenever a node is pushed to `nodes`, so that function is called with   *)
(* an empty vector only, which it returns.                                 *)
(***************************************************************************)
EXTENDS DataflowGraph

CONSTANT Jobs   \* [graph, requests]: the calls to be made, in their order

Schedulers == {"naive", "greedy"}

\* The inputs a caller passes are distinct values no node computes.
IsRequest(g, r) ==
    /\ \A i, k \in 1..Len(r.inputs) : r.inputs[i] = r.inputs[k] => i = k
    /\ \A v \in Elements(r.inputs) :
          v # Null /\ \A n \in g.nodes : v \notin Elements(g.outs[n])

IsJob(j) ==
    /\ IsGraph(j.graph)
    /\ j.requests \in Seq([inputs  : Seq(j.graph.values),
                           outputs : SUBSET j.graph.values])
    /\ \A i \in 1..Len(j.requests) : IsRequest(j.graph, j.requests[i])

ASSUME JobsAssumption == \A j \in Jobs : IsJob(j)

VARIABLES
    graph, requests, \* the job
    scheduler,      \* scheduler_type
    calls,          \* how many of the requests have been made
    busy,           \* inside ScheduleComputation
    aborted,        \* a CHECK has failed
    inputCounts,    \* input_counts
    values,         \* naive: the queue q; greedy: values to be made ready
    visiting,       \* what is left of the loop over a value's users
    ready,          \* greedy: q; naive: nodes without inputs, not yet begun
    nodes,          \* nodes
    schedule        \* the nodes with an order: n has its place as its order

vars == <<graph, requests, scheduler, calls, busy, aborted, inputCounts,
          values, visiting, ready, nodes, schedule>>

job    == <<graph, requests, scheduler>>
idle   == ~busy /\ ~aborted
drained == values = << >> /\ visiting = {}

Request == requests[calls]

Init ==
    /\ \E j \in Jobs : graph = j.graph /\ requests = j.requests
    /\ scheduler \in Schedulers
    /\ calls = 0
    /\ busy = FALSE
    /\ aborted = FALSE
    /\ inputCounts = << >>
    /\ values = << >>
    /\ visiting = {}
    /\ ready = {}
    /\ nodes = << >>
    /\ schedule = << >>
-----------------------------------------------------------------------------
\* Mutation of CountsFor: a value read twice by a node counts once.
CountsForValues(g, outputs) ==
    [n \in NecessaryNodes(g, outputs) |->
        Cardinality(Elements(g.ins[n]) \ {Null})]

\* GetNecessaryNodesAndInputCounts.
CountsFor(g, outputs) ==
    [n \in NecessaryNodes(g, outputs) |-> Cardinality(ActualInputs(g, n))]

\* ScheduleComputation is called.  The nodes that wait for nothing
\* (constants) are the first to be scheduled, or enqueued.
Begin ==
    /\ idle
    /\ calls < Len(requests)
    /\ LET request == requests[calls + 1]
           counts  == CountsFor(graph, request.outputs)
       IN  /\ inputCounts' = counts
           /\ values' = request.inputs
           /\ ready' = {n \in DOMAIN counts : counts[n] = 0}
    /\ calls' = calls + 1
    /\ busy' = TRUE
    /\ visiting' = {}
    /\ nodes' = << >>
    /\ UNCHANGED <<job, aborted, schedule>>

\* Mutation of Listed: has the node an order already? is not asked.
ListedAgain(n) == Append(nodes, n)

\* A node is pushed to `nodes` unless an earlier call gave it an order.
Listed(n) == IF n \in Elements(schedule) THEN nodes ELSE Append(nodes, n)

\* The node comes next and its results become ready.
ScheduleNode(n) ==
    /\ nodes' = Listed(n)
    /\ values' = values \o graph.outs[n]

\* Naive: the loop over the nodes that wait for nothing.
ScheduleSource ==
    /\ busy
    /\ scheduler = "naive"
    /\ \E n \in ready :
          /\ ScheduleNode(n)
          /\ ready' = ready \ {n}
    /\ UNCHANGED <<job, calls, busy, aborted, inputCounts, visiting, schedule>>

\* Mutation of UsersOf: the null value is taken for any other value.
UsersOfAny(v) == Uses(graph, v)

\* The users the loop visits: none for the null value.
UsersOf(v) == IF v = Null THEN {} ELSE Uses(graph, v)

\* The next value that is ready.
TakeValue ==
    /\ busy
    /\ scheduler = "naive" => ready = {}
    /\ visiting = {}
    /\ values # << >>
    /\ visiting' = UsersOf(Head(values))
    /\ values' = Tail(values)
    /\ UNCHANGED <<job, calls, busy, aborted, inputCounts, ready, nodes,
                   schedule>>

\* Mutation of HasInputs: off by one.
HasInputsLate(count) == count < 0

\* The test on a count that has just been decremented.
HasInputs(count) == count <= 0

\* One user of it.  Only the greedy scheduler checks for a negative count.
VisitUser ==
    /\ busy
    /\ \E use \in visiting :
          LET n     == use[1]
              count == inputCounts[n] - 1
          IN  /\ visiting' = visiting \ {use}
              /\ IF n \notin DOMAIN inputCounts
                 THEN UNCHANGED <<inputCounts, ready, nodes, values, aborted,
                                  busy>>
                 ELSE /\ inputCounts' = [inputCounts EXCEPT ![n] = count]
                      /\ aborted' = (scheduler = "greedy" /\ count < 0)
                      /\ busy' = ~aborted'
                      /\ IF ~HasInputs(count)
                         THEN UNCHANGED <<ready, nodes, values>>
                         ELSE \/ /\ scheduler = "naive"
                                 /\ ScheduleNode(n)
                                 /\ UNCHANGED ready
                              \/ /\ scheduler = "greedy"
                                 /\ ready' = ready \cup {n}
                                 /\ UNCHANGED <<nodes, values>>
    /\ UNCHANGED <<job, calls, schedule>>

\* Greedy: one of the cheapest nodes of the multimap comes next.
TakeCheapest ==
    /\ busy
    /\ scheduler = "greedy"
    /\ drained
    /\ \E n \in ready :
          /\ \A m \in ready : Cost(graph, n) <= Cost(graph, m)
          /\ ScheduleNode(n)
          /\ ready' = ready \ {n}
    /\ UNCHANGED <<job, calls, busy, aborted, inputCounts, visiting, schedule>>

\* CheckSanity: necessary nodes that have no order and are not in `nodes`.
Unscheduled ==
    NecessaryNodes(graph, Request.outputs)
        \ (Elements(schedule) \cup Elements(nodes))

\* Both loops are over: CheckSanity, then the orders are assigned.
Finish ==
    /\ busy
    /\ drained
    /\ ready = {}
    /\ busy' = FALSE
    /\ aborted' = (Unscheduled # {})
    /\ schedule' = IF aborted' THEN schedule ELSE schedule \o nodes
    /\ nodes' = IF aborted' THEN nodes ELSE << >>
    /\ UNCHANGED <<job, calls, inputCounts, values, visiting, ready>>

Step == ScheduleSource \/ TakeValue \/ VisitUser \/ TakeCheapest \/ Finish

Stopped ==
    /\ aborted \/ (idle /\ calls = Len(requests))
    /\ UNCHANGED vars

Next == Begin \/ Step \/ Stopped

Spec == Init /\ [][Next]_vars
-----------------------------------------------------------------------------
(* Properties.                                                             *)

TypeOK ==
    /\ scheduler \in Schedulers
    /\ calls \in 0..Len(requests)
    /\ busy \in BOOLEAN
    /\ aborted \in BOOLEAN
    /\ DOMAIN inputCounts \subseteq graph.nodes
    /\ \A n \in DOMAIN inputCounts : inputCounts[n] \in Nat
    /\ values \in Seq(graph.values)
    /\ visiting \subseteq UNION {{n} \X (1..Len(graph.ins[n])) :
                                   n \in graph.nodes}
    /\ ready \subseteq DOMAIN inputCounts
    /\ nodes \in Seq(graph.nodes)
    /\ schedule \in Seq(graph.nodes)

\* The nodes that came next in this call, and the values known by now.
Begun == {n \in DOMAIN inputCounts : inputCounts[n] = 0} \ ready

Announced ==
    Elements(Request.inputs) \cup UNION {Elements(graph.outs[n]) : n \in Begun}

\* The input numbers of n that no visit has counted down.
Missing(n) ==
    {j \in ActualInputs(graph, n) :
        \/ graph.ins[n][j] \notin Announced
        \/ graph.ins[n][j] \in Elements(values)
        \/ <<n, j>> \in visiting}

\* input_counts[n] is the number of n's inputs that are still missing: null
\* inputs are never counted, a value read twice is counted and visited
\* twice, and no value is made ready a second time.
CountsAreMissingInputs ==
    busy => \A n \in DOMAIN inputCounts :
                inputCounts[n] = Cardinality(Missing(n))

\* The nodes that can be run at all when the values of `given` are there.
Computable(g, given) ==
    {n \in g.nodes : \A S \in SUBSET g.nodes :
        (\A m \in g.nodes :
            (\A j \in ActualInputs(g, m) :
                \/ g.ins[m][j] \in given
                \/ \E k \in S : g.ins[m][j] \in Elements(g.outs[k]))
            => m \in S)
        => n \in S}

\* Scheduling fails only for a request that cannot be met: some necessary
\* node, not scheduled by an earlier call, lacks an input whatever the order.
\* In particular neither scheduler stops early, and the greedy one's check
\* that no count is negative never fails.
AbortIsJustified ==
    aborted =>
        \E n \in NecessaryNodes(graph, Request.outputs) \ Elements(schedule) :
            n \notin Computable(graph, Elements(Request.inputs))

Given == UNION {Elements(requests[i].inputs) : i \in 1..calls}

\* The inputs of n that are not null, by their place among them.
Place(g, n, j) == Cardinality({i \in ActualInputs(g, n) : i <= j})

NonNullInputs(g, n) ==
    [k \in 1..Cardinality(ActualInputs(g, n)) |->
        g.ins[n][CHOOSE j \in ActualInputs(g, n) : Place(g, n, j) = k]]

\* The values by kind: outputs of the graph, and what its nodes compute.
Outputs  == UNION {requests[i].outputs : i \in 1..calls}
Computed == (UNION {Elements(graph.outs[n]) : n \in Elements(schedule)}) \ {Null}

\* GetComputationSequence: the nodes with an order, by it.
ComputationSequence ==
    [i \in 1..Len(schedule) |->
        [ins  |-> NonNullInputs(graph, schedule[i]),
         outs |-> Elements(graph.outs[schedule[i]]) \ {Null}]]

\* CollectGarbageNode detaches the nodes without an order: they no longer
\* are users of what they read.
UsersLeft(v) == {u \in Uses(graph, v) : u[1] \in Elements(schedule)}

\* The graph the emitter gets.
HandedOver ==
    [inputs  |-> Given,
     outputs |-> Outputs,
     temps   |-> Computed \ Outputs,
     nodes   |-> ComputationSequence,
     users   |-> [v \in Given \cup Computed \cup Outputs |-> Cardinality(UsersLeft(v))]]

Topological == INSTANCE TopologicalSchedule
    WITH dataflow <- graph, given <- Given, sequence <- schedule \o nodes

\* Over all calls, every node gets one order, after those of the nodes that
\* compute its inputs, and keeps it.
SchedulesInOrder == Topological!TopoSpec

\* "Naivly delay single-input-single-output nodes until the outcome really
\* needed" (the comment on DelaySimpleNodes): in a first schedule such a
\* node, if it does not lower memory use, stands right before the reader of
\* its result when each is the only reader of what it reads and the latter's
\* results are read by nobody.
IsSimple(n) == Len(graph.ins[n]) = 1 /\ Len(graph.outs[n]) = 1

SimpleNodesWait ==
    (idle /\ calls = 1 /\ scheduler = "greedy") =>
        \A i, k \in 1..Len(schedule) :
            LET n == schedule[i]
                m == schedule[k]
            IN  /\ IsSimple(n)
                /\ EstimateMemoryIncrease(graph, n) >= 0
                /\ Uses(graph, graph.ins[n][1]) = {<<n, 1>>}
                /\ Uses(graph, graph.outs[n][1]) = {<<m, 1>>}
                /\ Len(graph.ins[m]) = 1
                /\ \A v \in Elements(graph.outs[m]) : Uses(graph, v) = {}
                => k = i + 1
=============================================================================
