-------------------------- MODULE GradientWithOrder --------------------------
(***************************************************************************)
(* Generation of the graph that computes the gradients of a model:         *)
(* AddGradientNodesForTraining and GenerateGradientNodes (gradient.cc),    *)
(* which take the nodes once, in reverse, and                              *)
(* AddGradientNodesForTrainingWithOrders (gradient_with_order.cc), which   *)
(* follows the orders of a policy, computing nodes again whose values were *)
(* forgotten.  Both work on one graph or, in two phases, on a forward and  *)
(* a backward graph, between which the values needed are retained.         *)
(***************************************************************************)
EXTENDS GradientOps, ComputationOrder
LOCAL INSTANCE SequencesExt
LOCAL INSTANCE FiniteSetsExt

CONSTANTS Jobs,        \* [graph, twoPhase, policy]
          MaxForgets   \* how many values a custom order forgets

\* Models of these six operators, with the inputs they have.
IsJob(j) ==
    /\ IsModel(j.graph)
    /\ j.graph.outputs \in Seq(Values(j.graph))
    /\ j.graph.params \subseteq j.graph.inputs
    /\ \A i \in DOMAIN j.graph.nodes :
          LET node == j.graph.nodes[i]
          IN  /\ node.op \in Operators
              /\ Len(node.ins) = IF node.op \in {"Add", "Mul"} THEN 2 ELSE 1
    /\ j.twoPhase \in BOOLEAN
    /\ j.policy \in {"none", "dummy", "dummy2", "chen", "gt", "custom"}

ASSUME JobsAreModels == \A j \in Jobs : IsJob(j)

VARIABLES
    job,      \* the model and how its gradients are asked for
    choice,   \* the splits of ChenPolicy, the chain of GTPolicy
    orders,   \* the orders that are left
    executed, \* the orders that have been carried out
    b,        \* the compiler's state
    pc        \* "begin", "build", "done" or "aborted"

vars == <<job, choice, orders, executed, b, pc>>

g == job.graph
Part(p) == IF job.twoPhase THEN p ELSE "forward"

(* b has the fields of GradientOps and: `schedule`, the nodes that have a  *)
(* place, with the graph they are in; `first` and `last`, the places of a  *)
(* node's first and last forward computation; `staged`; `turned`, whether  *)
(* the backward graph is current; `stagedInForward`; `recomputed`;         *)
(* `outGrads`, the gradients of the outputs; `forgotten`, the values given *)
(* up and when; `retainParts` and `gradOuts`, which the end adds.          *)
InitialState ==
    [grads |-> <<>>, retained |-> <<>>, added |-> <<>>, contexts |-> <<>>,
     fresh |-> 1 + Cardinality(Values(g)),
     schedule |-> <<>>, first |-> <<>>, last |-> <<>>,
     staged |-> [v \in g.inputs |-> v], turned |-> FALSE,
     stagedInForward |-> {}, recomputed |-> {}, outGrads |-> <<>>,
     forgotten |-> {}, retainParts |-> {}, gradOuts |-> <<>>]

Init ==
    /\ job \in Jobs
    /\ choice = {}
    /\ orders = <<>>
    /\ executed = <<>>
    /\ b = InitialState
    /\ pc = "begin"
-----------------------------------------------------------------------------
Scheduled(s, nodes, part) ==
    [s EXCEPT !.schedule = @ \o [k \in DOMAIN nodes |-> [node |-> nodes[k], part |-> part]]]

\* ScheduleAddedScope: what was added is put in order behind the rest.
ScheduleAdded(s, part) ==
    LET order == SortTopologically(s.added, ClassifiedInputs(s.added))
    IN  [Scheduled(s, [k \in DOMAIN order |-> s.added[order[k]]], part) EXCEPT !.added = <<>>]

\* schedule_recompute, for a computation of node n.
ScheduleForward(s, n, node, part) ==
    LET place == Len(s.schedule) + 1
    IN  [Scheduled(s, <<node>>, part) EXCEPT
            !.first = IF n \in DOMAIN @ THEN @ ELSE With(@, n, place),
            !.last  = With(@, n, place)]

\* The node of the model, with the outputs its gradient has added.
Original(s, n) ==
    IF n \in DOMAIN s.first THEN s.schedule[s.first[n]].node ELSE g.nodes[n]

\* SetInitialGradients, of both files: a constant, which takes the shape of
\* the output when the graph runs if there are no orders.
SetInitialGradients(s) ==
    LET y == g.outputs[1]
        c == Op(s, "Constant", <<>>)
        e == Op(Op(c, "Shape", <<y>>), "Expand", <<s.fresh, c.fresh>>)
        t == IF job.policy = "none" THEN e ELSE c
    IN  ScheduleAdded([t EXCEPT !.grads = WithGrad(@, y, t.fresh - 1)], "forward")

\* AddGradInputs: every output gets an input of the backward graph.
AddGradInputs(s) ==
    LET news == [v \in Elements(g.outputs) |-> s.fresh + Place(g.outputs, v)]
    IN  [s EXCEPT !.grads = Over(news, @),
                  !.outGrads = news,
                  !.fresh = @ + Len(g.outputs) + 1]
-----------------------------------------------------------------------------
\* The policies, and what each may choose.
PolicyChoices(j) ==
    CASE j.policy = "chen" -> SUBSET FindArticulationPoints(j.graph)
      [] j.policy = "gt"   -> Chains(j.graph)
      [] OTHER             -> {{}}

\* Mutation of GradientNodes: the nodes are not reversed.
GradientNodesInOrder(h) ==
    Among(GetTopologicallySortedNodes(h),
          NecessaryNodes(h) \cap NodesAfter(h, GetParamValues(h)))

\* The nodes GenerateGradientNodes takes.
GradientNodes(h) ==
    Among(Reverse(GetTopologicallySortedNodes(h)),
          NecessaryNodes(h) \cap NodesAfter(h, GetParamValues(h)))

OrdersOf(j, c) ==
    CASE j.policy = "none"   -> Each(GradientNodes(j.graph), ComputeBackward)
      [] j.policy = "dummy"  -> DummyPolicy(j.graph)
      [] j.policy = "dummy2" -> DummyPolicy2(j.graph)
      [] j.policy = "chen"   -> ChenPolicy(j.graph, c)
      [] j.policy = "gt"     -> GTPolicy(j.graph, c)
      [] j.policy = "custom" -> Each(GetTopologicallySortedNodes(j.graph), ComputeForward)

\* Without a policy all nodes are in place before their gradients.
AllForward(s) ==
    LET sorted == GetTopologicallySortedNodes(g)
        nodes  == [k \in DOMAIN sorted |-> g.nodes[sorted[k]]]
        places == [n \in Elements(sorted) |-> Len(s.schedule) + Place(sorted, n)]
    IN  [Scheduled(s, nodes, "forward") EXCEPT
            !.first = places, !.last = places,
            !.staged = Over([v \in ComputedBy(nodes) |-> v], @)]

\* GetComputationOrder, and what comes before the first order.
Begin ==
    /\ pc = "begin"
    /\ choice' \in PolicyChoices(job)
    /\ LET plain == job.policy = "none"
           s == IF plain THEN AllForward(b) ELSE b
           t == IF ~job.twoPhase THEN SetInitialGradients(s)
                ELSE IF plain THEN [AddGradInputs(s) EXCEPT !.turned = TRUE]
                ELSE s
       IN  IF \/ ~job.twoPhase /\ Len(g.outputs) # 1
              \/ job.policy = "dummy2" /\ ~IsChain(g)
           THEN pc' = "aborted" /\ UNCHANGED <<orders, b>>
           ELSE pc' = "build" /\ orders' = OrdersOf(job, choice') /\ b' = t
    /\ UNCHANGED <<job, executed>>
-----------------------------------------------------------------------------
\* CheckConstraints.
Constraints(s) ==
    LET forward == Values(g)
                       \cup ComputedBy([n \in DOMAIN s.first |-> Original(s, n)])
    IN  /\ \A v \in DOMAIN s.staged :
              /\ v \in forward
              /\ s.staged[v] # v => s.staged[v] \in s.recomputed
        /\ \A v \in DOMAIN s.retained : s.retained[v] # v =>
              /\ job.twoPhase
              /\ v \in forward
              /\ s.retained[v] \notin forward \cup s.recomputed

\* In two phases, the backward graph becomes current as soon as all outputs
\* of the forward graph are staged.
Turn(s) ==
    IF job.twoPhase /\ ~s.turned /\ Elements(g.outputs) \subseteq DOMAIN s.staged
    THEN [AddGradInputs(s) EXCEPT
             !.turned = TRUE, !.stagedInForward = Elements(s.staged)]
    ELSE s

ForwardIsCurrent(s)  == ~job.twoPhase \/ ~s.turned
BackwardIsCurrent(s) == ~job.twoPhase \/ s.turned

AllStaged(s, vs) == Elements(vs) \subseteq DOMAIN s.staged

\* GetMappedValues(staged, ...), GetRetainedStagedValues.
GetStaged(s, vs) == [k \in DOMAIN vs |-> s.staged[vs[k]]]
GetRetainedStaged(s, vs) ==
    [k \in DOMAIN vs |->
        LET v == s.staged[vs[k]]
        IN  IF v \in DOMAIN s.retained THEN s.retained[v] ELSE v]

\* Each order either goes as `ok` says or fails a CHECK.
Execute(ok, s) ==
    /\ orders' = Tail(orders)
    /\ IF ok
       THEN b' = s /\ executed' = Append(executed, Head(orders)) /\ pc' = pc
       ELSE pc' = "aborted" /\ UNCHANGED <<b, executed>>
    /\ UNCHANGED <<job, choice>>

IsNext(kind) == pc = "build" /\ orders # <<>> /\ Head(orders).kind = kind
-----------------------------------------------------------------------------
\* A node is computed for the first time: from values that were not computed
\* again, and into the forward graph.
FirstForward ==
    /\ IsNext("ComputeForward")
    /\ Head(orders).node \notin DOMAIN b.first
    /\ LET n    == Head(orders).node
           node == g.nodes[n]
           s    == Turn(b)
           t    == ScheduleForward(s, n, node, "forward")
       IN  Execute(/\ Constraints(b)
                   /\ ForwardIsCurrent(s)
                   /\ AllStaged(s, node.ins)
                   /\ GetStaged(s, node.ins) = node.ins
                   /\ Elements(node.outs) \cap DOMAIN s.staged = {},
                   [t EXCEPT !.staged = Over([v \in Elements(node.outs) |-> v], @)])

\* A value of the forward graph that is needed to compute something again
\* gets one that stands for it in the backward graph.
MoveToBackward(s, vs) ==
    LET moved  == Elements(vs) \cap s.stagedInForward
        news   == moved \ DOMAIN s.retained
        Copy(v) == s.fresh + Place(vs, v)
        Origin(c) == CHOOSE v \in news : Copy(v) = c
        graded == {v \in news \cap Elements(g.outputs) : HasGrad(s, v)}
    IN  [s EXCEPT
            !.stagedInForward = @ \ moved,
            !.retained = Over([v \in news |-> Copy(v)],
                              Over([c \in {Copy(v) : v \in news} |-> c], @)),
            !.grads = Over([c \in {Copy(v) : v \in graded} |-> Grad(s, Origin(c))], @),
            !.fresh = @ + Len(vs) + 1]

\* Mutation of Recomputed: the values of the forward graph are read directly.
RecomputedFromForward(s, n, node) ==
    LET news == [k \in DOMAIN node.outs |-> s.fresh + k - 1]
        copy == Node(node.op, GetStaged(s, node.ins), news)
    IN  [ScheduleForward(s, n, copy, Part("backward")) EXCEPT
            !.retained   = Over([v \in Elements(news) |-> v], @),
            !.recomputed = @ \cup Elements(news),
            !.staged     = Over([v \in Elements(node.outs) |-> news[Place(node.outs, v)]], @),
            !.fresh      = @ + Len(news)]

\* A copy of the node reads the staged values and computes new ones.
Recomputed(s, n, node) ==
    LET moved == MoveToBackward(s, GetStaged(s, node.ins))
        news  == [k \in DOMAIN node.outs |-> moved.fresh + k - 1]
        copy  == Node(node.op, GetRetainedStaged(moved, node.ins), news)
    IN  [ScheduleForward(moved, n, copy, Part("backward")) EXCEPT
            !.retained   = Over([v \in Elements(news) |-> v], @),
            !.recomputed = @ \cup Elements(news),
            !.staged     = Over([v \in Elements(node.outs) |-> news[Place(node.outs, v)]], @),
            !.fresh      = @ + Len(news)]

\* A node is computed again: its outputs must have been forgotten.
Recompute ==
    /\ IsNext("ComputeForward")
    /\ Head(orders).node \in DOMAIN b.first
    /\ LET n    == Head(orders).node
           s    == Turn(b)
           node == Original(s, n)
           ok   == /\ Constraints(b)
                   /\ BackwardIsCurrent(s)
                   /\ AllStaged(s, node.ins)
                   /\ Elements(node.outs) \cap DOMAIN s.staged = {}
       IN  Execute(ok, IF ok THEN Recomputed(s, n, node) ELSE s)

\* staged.erase; what was staged must not be read from now on.
Forgotten(s, v) ==
    LET copy == GetRetainedStaged(s, <<v>>)[1]
    IN  [s EXCEPT !.staged = [u \in DOMAIN @ \ {v} |-> @[u]],
                  !.forgotten = @ \cup {[value |-> copy, at |-> Len(s.schedule),
                      part |-> IF s.turned THEN Part("backward") ELSE "forward"]}]

ForgetStaged ==
    /\ IsNext("ForgetForward")
    /\ LET v == Head(orders).value
           s == Turn(b)
           ok == Constraints(b) /\ AllStaged(s, <<v>>)
       IN  Execute(ok, IF ok THEN Forgotten(s, v) ELSE s)
-----------------------------------------------------------------------------
\* v->set_grad(u->grad()) for the values of two sequences.
CopyGrads(s, from, to) ==
    LET grads[k \in 0..Len(to)] ==
            IF k = 0 THEN s.grads
            ELSE LET before == grads[k - 1]
                 IN  IF from[k] \in DOMAIN before
                     THEN WithGrad(before, to[k], before[from[k]])
                     ELSE WithoutGrad(before, to[k])
    IN  [s EXCEPT !.grads = grads[Len(to)]]

\* An output that AddGradientForNode added belongs to the node at this place.
WithContexts(s, place) ==
    [s EXCEPT !.schedule[place].node.outs = @ \o s.contexts, !.contexts = <<>>]

\* Mutation of GradientsOf: the gradients the original node's inputs have
\* already are not copied to the last computation.
GradientsOfAfresh(s, n) ==
    LET place    == s.last[n]
        original == Original(s, n)
        own      == place = s.first[n]
        keep     == job.twoPhase /\ own
        Staged(vs) == IF keep THEN GetStaged(s, vs) ELSE GetRetainedStaged(s, vs)
        begun    == IF own THEN s
                    ELSE CopyGrads(s, original.outs, s.schedule[place].node.outs)
        added    == AddGradientForNode(begun, keep, original.op,
                        Staged(original.ins), Staged(original.outs))
    IN  ScheduleAdded(
            CopyGrads(WithContexts(added, place), Staged(original.ins), original.ins),
            Part("backward"))

\* The gradients of node n: the gradients known so far go from the original
\* to the last computation of the node, which is made to read and compute the
\* staged values while nodes are added, and those of its inputs come back.
GradientsOf(s, n) ==
    LET place    == s.last[n]
        original == Original(s, n)
        node     == s.schedule[place].node
        own      == place = s.first[n]
        keep     == job.twoPhase /\ own
        Staged(vs) == IF keep THEN GetStaged(s, vs) ELSE GetRetainedStaged(s, vs)
        begun    == IF own THEN s
                    ELSE CopyGrads(CopyGrads(s, original.ins, node.ins),
                                   original.outs, node.outs)
        added    == AddGradientForNode(begun, keep, original.op,
                        Staged(original.ins), Staged(original.outs))
    IN  ScheduleAdded(
            CopyGrads(WithContexts(added, place), Staged(original.ins), original.ins),
            Part("backward"))

ComputeGradients ==
    /\ IsNext("ComputeBackward")
    /\ job.policy # "none"
    /\ LET n  == Head(orders).node
           s  == Turn(b)
           ok == /\ Constraints(b)
                 /\ BackwardIsCurrent(s)
                 /\ n \in DOMAIN s.first
                 /\ AllStaged(s, Original(s, n).ins)
                 /\ AllStaged(s, Original(s, n).outs)
       IN  Execute(ok, IF ok THEN GradientsOf(s, n) ELSE s)

\* GenerateGradientNodes: one node, which has been computed once.
AddGradient ==
    /\ IsNext("ComputeBackward")
    /\ job.policy = "none"
    /\ LET n     == Head(orders).node
           node  == Original(b, n)
           added == AddGradientForNode(b, job.twoPhase, node.op, node.ins, node.outs)
       IN  Execute(TRUE, ScheduleAdded(WithContexts(added, b.first[n]),
                                       Part("backward")))
-----------------------------------------------------------------------------
(* Orders given by hand (policy_custom.cc): once everything is computed,   *)
(* values are forgotten and nodes computed again as the user likes, within *)
(* what the game allows.                                                   *)

Taken(done) == {done[i].node : i \in {j \in DOMAIN done :
                                         done[j].kind = "ComputeBackward"}}

CustomChoices ==
    LET forgets == Cardinality({i \in DOMAIN executed :
                                   executed[i].kind = "ForgetForward"})
        held == DOMAIN b.staged
        InsHeld(n)  == Elements(Original(b, n).ins) \subseteq held
        OutsHeld(n) == Elements(Original(b, n).outs) \subseteq held
    IN  {ForgetForward(v) : v \in IF forgets < MaxForgets THEN held \ g.inputs ELSE {}}
        \cup {ComputeForward(n) : n \in {m \in DOMAIN g.nodes :
                 InsHeld(m) /\ Elements(Original(b, m).outs) \cap held = {}}}
        \cup {ComputeBackward(n) : n \in {m \in DOMAIN g.nodes \ Taken(executed) :
                 /\ InsHeld(m) /\ OutsHeld(m)
                 /\ \A k \in DOMAIN g.nodes :
                       Elements(g.nodes[k].ins) \cap Elements(g.nodes[m].outs) # {}
                           => k \in Taken(executed)}}

CustomPolicy ==
    /\ pc = "build"
    /\ job.policy = "custom"
    /\ orders = <<>>
    /\ Taken(executed) # DOMAIN g.nodes
    /\ \E order \in CustomChoices : orders' = <<order>>
    /\ UNCHANGED <<job, choice, executed, b, pc>>
-----------------------------------------------------------------------------
\* AddRetainedParts: what is retained becomes an output of the forward graph
\* and an input of the backward graph, of one name.
AddRetainedParts(s) ==
    LET kept == InOrder({v \in DOMAIN s.retained : s.retained[v] # v})
        Name(k) == s.fresh + k
    IN  [Scheduled(s, [k \in DOMAIN kept |-> Node("Identity", <<kept[k]>>, <<Name(k)>>)],
                   "forward") EXCEPT
            !.retainParts = {Node("Identity", <<Name(k)>>, <<s.retained[kept[k]]>>) :
                                k \in DOMAIN kept},
            !.fresh = @ + Len(kept) + 1]

\* ExposeParamGradsAsOutputs.
ExposeParamGradsAsOutputs(s) ==
    LET xs == InOrder({x \in GetParamValues(g) : HasGrad(s, x)})
    IN  [Scheduled(s, [k \in DOMAIN xs |->
                          Node("Identity", <<Grad(s, xs[k])>>, <<s.fresh + k>>)],
                   Part("backward")) EXCEPT
            !.gradOuts = [x \in Elements(xs) |-> s.fresh + Place(xs, x)],
            !.fresh = @ + Len(xs) + 1]

\* Without orders, a parameter without a gradient is an error.
Finish ==
    /\ pc = "build"
    /\ orders = <<>>
    /\ job.policy = "custom" => Taken(executed) = DOMAIN g.nodes
    /\ IF job.policy = "none" /\ \E x \in GetParamValues(g) : ~HasGrad(b, x)
       THEN pc' = "aborted" /\ UNCHANGED b
       ELSE pc' = "done" /\ b' = ExposeParamGradsAsOutputs(AddRetainedParts(b))
    /\ UNCHANGED <<job, choice, orders, executed>>

Stopped == pc \in {"done", "aborted"} /\ UNCHANGED vars

Next ==
    \/ Begin
    \/ FirstForward
    \/ Recompute
    \/ ForgetStaged
    \/ ComputeGradients
    \/ AddGradient
    \/ CustomPolicy
    \/ Finish
    \/ Stopped

Spec == Init /\ [][Next]_vars
-----------------------------------------------------------------------------
(* The generated graphs are run on one set of arguments.                   *)

Args == [v \in g.inputs |-> 2 * v + 1]

\* The gradients the caller gives for the outputs.
GivenGrad(v) == IF job.twoPhase THEN v + 7 ELSE 1

NodesOf(part) ==
    LET places == SelectSeq(b.schedule, LAMBDA e : e.part = part)
    IN  [i \in DOMAIN places |-> places[i].node]

\* The retained values come first: their nodes have the smallest orders.
BackwardNodes == SetToSeq(b.retainParts) \o NodesOf("backward")

ForwardRun == RunNodes(NodesOf("forward"), Args)

BackwardRun ==
    RunNodes(BackwardNodes,
        Over([u \in Elements(b.outGrads) |->
                 GivenGrad(CHOOSE v \in DOMAIN b.outGrads : b.outGrads[v] = u)],
             [u \in UNION {Elements(n.ins) : n \in b.retainParts} |-> Look(ForwardRun, u)]))

Results == IF job.twoPhase THEN BackwardRun ELSE ForwardRun

\* What the chain rule gives for a parameter.
Expected(x) ==
    LET rate == Derivatives(g, Args, x)
    IN  MapThenSumSet(LAMBDA v : GivenGrad(v) * rate[v], Elements(g.outputs)) % Prime

\* Some value is forgotten between the gradients of two of its readers, and
\* the later one is not computed again from the new copy.
Refetched ==
    \E i, k \in DOMAIN executed : \E f \in (i + 1)..(k - 1) :
        /\ executed[i].kind = "ComputeBackward"
        /\ executed[k].kind = "ComputeBackward"
        /\ executed[f].kind = "ForgetForward"
        /\ {executed[i].node, executed[k].node} \subseteq
               Readers(g.nodes, executed[f].value)
        /\ \A c \in (f + 1)..(k - 1) :
              executed[c] # ComputeForward(executed[k].node)

\* The outputs of the generated graph are the gradients of the parameters,
\* whatever was forgotten and computed again, and however many nodes a value
\* is read by; unless a value is fetched again between two of its readers.
GradientsAreRight ==
    pc = "done" /\ ~Refetched =>
        \A x \in GetParamValues(g) :
            IF x \in DOMAIN b.gradOuts
            THEN Look(Results, b.gradOuts[x]) = Expected(x)
            ELSE Expected(x) = 0

\* Every node reads what an earlier node of its graph computed or what was
\* given to the graph, and no copy of a value after it was forgotten: its
\* memory can be reused, which is what the orders are for.
ReadsAreKept ==
    pc = "done" =>
        \A i \in DOMAIN b.schedule :
            LET node   == b.schedule[i].node
                part   == b.schedule[i].part
                before == {j \in 1..(i - 1) : b.schedule[j].part = part}
                given  == IF part = "forward" THEN g.inputs
                          ELSE Elements(b.outGrads)
                                   \cup UNION {Elements(n.outs) : n \in b.retainParts}
            IN  \A v \in Elements(node.ins) :
                    /\ v \in given \cup UNION {Elements(b.schedule[j].node.outs) : j \in before}
                    /\ \A f \in b.forgotten :
                          f.value = v /\ f.part = part => i <= f.at

Unread(v) == Readers(g.nodes, v) = {}

\* Some output is forgotten before all of them have been computed.
OutputForgottenEarly ==
    \E i \in DOMAIN executed :
        /\ executed[i].kind = "ForgetForward"
        /\ executed[i].value \in Elements(g.outputs)
        /\ \E v \in Elements(g.outputs) :
              \A j \in 1..(i - 1) :
                  executed[j] # ComputeForward(Producer(g.nodes, v))

\* The compiler gives up only where a policy does not fit the graph.  In one
\* phase there must be one output; in two, an output that is forgotten early
\* keeps the backward graph from its turn.  DummyPolicy2 needs a chain;
\* ChenPolicy must not split at a node with an output nobody reads, as the
\* node is computed again without having been forgotten; GTPolicy computes a node
\* once per output; and without a policy every parameter needs a gradient.
AbortsOnlyMisfits ==
    pc = "aborted" =>
        \/ ~job.twoPhase /\ Len(g.outputs) # 1
        \/ job.twoPhase /\ OutputForgottenEarly
        \/ CASE job.policy = "none" ->
                   \E x \in GetParamValues(g) : Expected(x) = 0
             [] job.policy = "dummy2" ->
                   \/ ~IsChain(g)
                   \/ \E v \in ComputedBy(g.nodes) : Unread(v) /\ v \notin
                         Elements(g.nodes[Last(GetTopologicallySortedNodes(g))].outs)
             [] job.policy = "chen" ->
                   \E n \in choice : \E v \in Elements(g.nodes[n].outs) : Unread(v)
             [] job.policy = "gt" ->
                   \E n \in DOMAIN g.nodes : Len(g.nodes[n].outs) > 1
             [] OTHER -> FALSE

Game == INSTANCE Rematerialization WITH
            game  <- g,
            held  <- IF job.policy = "none" THEN Values(g) ELSE DOMAIN b.staged \cap Values(g),
            taken <- Taken(executed)

\* What is staged follows the rules of the game: nothing is computed from or
\* differentiated with a value that is not held, nothing is computed twice
\* without having been forgotten, and each node's gradients are taken once,
\* after those of all the nodes that read its outputs.
PlaysTheGame == Game!GameSpec
=============================================================================
