# chainer-compiler in TLA+

chainer-compiler translates the Python source of a Chainer model to ONNX, turns
the ONNX graph into a program for a small virtual machine (ChxVM) and runs it.
This directory holds TLA+ models of the parts of it where order, sharing and
lifetime decide correctness: the two front ends that read Python's control flow,
the inference of types from example inputs, the generation of gradients, with values forgotten and recomputed to save memory,
the scheduler that orders a graph, the emitter that turns an ordered graph into
instructions, the machine that executes them, and the threads that feed training
data. TLC checks them on small instances; TLAPS proves the central properties of
six of them for every value of the constants: the iterator, the scheduler, the
life of variables, the machine, the generation of gradients and the history of
variables in the front end.

Contents: [inventory](#1-inventory), [modules](#2-modules-and-their-code),
[runs](#3-what-the-runs-show), [bounds](#4-bounds), [fairness](#5-fairness),
[proofs](#6-proofs), [disagreements found](#7-where-the-code-does-not-do-what-it-says),
[what is not modelled](#8-not-modelled), [plan](#9-plan).

## 1. Inventory

A model's way through the system:

    Python --> elichika: canonicalizer --> evaluator --> exporter --+
        \                (flags for jumps)  (recorded     (ONNX)     |
         \                                   graph)                  |
          +--> ch2o: interpreter that adds ONNX nodes as it goes ----+--> ONNX
                                                                           |
    +----------------------------------------------------------------------+
    +--> Graph --> passes --> scheduler --> emitter --> ChxVM
         (nodes,   (rewrite   (gives each   (program)   (runs the
         values)   the graph; node an                   program)
                   one adds   order)
                   gradients)
    data set --> DataIterator (loader thread, buffer) --> trainer --> ChxVM

The front ends run once, in one thread, in Python; each statement of a forward
method changes what is known of the variables. Everything up to the emitter runs
once, in one thread, on one shared mutable graph. ChxVM is a loop of one thread. Threads appear in the feeder, and several
processes in the kernel cache.

| Component | State it keeps | Operations | What is hard | What makes it correct |
|---|---|---|---|---|
| **DataIterator** `feeder/data_iterator.cc` | the buffer, two flags, a mutex, one condition variable, the loader thread | Start, GetNext, Terminate, Loop | interleaving of threads; one condition variable for three kinds of waiter; join under the mutex | batches are handed out in order and once; the end is reported only at the end; nobody sleeps through its event; Terminate returns |
| ImageNetIterator `feeder/imagenet_iterator.cc` | the position in the list of images | GetNextImpl, GetStatus | GetStatus reads the position without a lock | the status is only displayed |
| **Scheduler** `compiler/scheduler.cc` | the nodes' `chainer_order`; during a call the counts of missing inputs and the queue | ScheduleComputation (naive, greedy), CheckSanity | values read twice, null inputs, nodes ordered by an earlier call | a topological order of what is needed, or an abort when there is none |
| **Graph** `compiler/graph.cc`, `node.cc`, `value.cc` | nodes, values, producer and users of each value | AddNode, DetachNode, ReplaceValue, GetNecessaryNodesAndInputCounts | producer and users are two records of one fact, edited by all passes | they agree; every value is computed once |
| **Emitter, life of variables** `compiler/chxvm/emitter.cc` (EmitGraph) | the number of readers still to come of every value, outputs still to be computed, inputs already brought in | EmitGraph, EmitModel | when to free: repeated inputs, unread results, outputs, inputs of bodies | nothing is read unset, set twice or leaked; nothing is kept longer than it is read |
| **Emitter, control flow** `emitter.cc` (EmitIf, EmitLoop, EmitFusionGroup), `simple_node_emitter.cc` | the program under construction | one per operator with a body or a sequence | jumps patched later, optional trip count and condition, states, scans, null outputs, in-place changes of sequences | the program computes what the graph computes |
| Variable ids `compiler/chxvm/chxvm_value.cc` | the id of every value | GetValueId, AssignNextId | | distinct values have distinct variables |
| **ChxVM** `runtime/chxvm.cc`, `chxvm_state.cc`, `chxvm_var.cc` | program counter, variables, inputs and outputs | Run and one operation per instruction | sequences are shared by `shared_ptr`; a body's code runs again | a run ends, with nothing left set and the caller's inputs intact |
| **ChxVM instructions** `runtime/ops/*.cc` | none of their own | one per operator | typed reads of null values; moves out of a variable | each does what its operator means |
| Memory simulator `compiler/memory_simulator.cc` | live bytes, peak | SimulateMemoryUsage | unknown (negative) sizes | it frees what the emitter frees |
| **Gradient** `compiler/gradient.cc`, `gradient_ops.cc` | the gradient of each value, the number of its readers still to be differentiated | AddGradientNodes, accumulation, one function per operator | reversed order, several readers, readers that give no gradient | a gradient is complete before it is used |
| **Gradient with order** `compiler/gradient_with_order.cc`, `computation_order/` | which values are staged, and under which copy; which nodes were computed | AddGradientNodesForTrainingWithOrders, the policies (dummy, dummy2, chen, gt, custom) | values renamed by each recomputation while gradients are kept by name | nothing forgotten is used, and gradients stay right |
| **Topology** `compiler/topology.cc` | none | SortTopologically, ClassifyValues | | an order of the graph |
| Fusion `compiler/fusion.cc` | sets of nodes to be fused | RejectCyclicNodes, CreateFusionGroup | another path around a fused set | the graph stays acyclic |
| Fusion back ends, simplifier, merge, quantize, shape inference, flops | none | local rewrites, one per operator | when to stop rewriting | the graph computes the same |
| Constant propagation and evaluator | none | replace a node by its result | nodes with effects | same |
| Subgraph canonicalizer | none | makes outer values inputs of bodies | | bodies are closed |
| File cache, NVRTC/TVM kernels `compiler/file_cache.cc` | files | look up, write a temporary, rename | several processes use one temporary name | a published file is complete |
| Model, ONNX import and export | none | conversion | | |
| Numeric kernels, runtime utilities | profiling data | pure functions of arrays | | |
| **elichika: canonicalizer** `elichika/parser/canonicalizer.py` | per enclosing loop and function, whether a continue, a break, a return was met | one visit per kind of statement | flags set, tested and cleared in different loops | the method returns what it returned |
| **elichika: values and history** `elichika/parser/values.py` | fields: stacks of attribute collections; Objects that hold Values and can be revised in place | get_attribute, revise, push_history, pop_history, get_inputs, get_outputs | Objects shared by names, by nested bodies, by callers | a body is undone when it is left, and its inputs and outputs are what it took in and changed |
| **elichika: evaluator** `elichika/parser/vevaluator.py`, `functions.py`, `core.py` | the fields, the graph under construction | one function per kind of AST node; UserDefinedFunction.vcall | an if is evaluated on both sides, a loop's body once; the tests that are known | the graph computes what the method computes |
| **elichika: exporter** `elichika/onnx_converters.py` | names of values, initializers | preprocess, generate_graph, generate_model | values shared by bodies; a value that is input and output | names are unique and in scope |
| elichika: converters of functions and links | none | one per Chainer function or link | | |
| **elichika: type inference** `elichika/typing/` | type variables, set in place; the types of the variables and of every expression | unify, join, is_subtype; one infer_ function per kind of AST node | both sides of an if are inferred from copies that share type variables; loops are inferred twice; errors are caught half-way | a value is of its inferred type; variables say what the equations say |
| **ch2o** `ch2o/chainer2onnx.py`, `env.py`, `value.py`, `utils.py` | environments (variables and nodes), a counter of names | eval_ast and one function per kind of node; find_in_out; make_graph | Python values become ONNX values lazily, in an outer block too | the graph computes what the method computes |
| ch2o: functions and links | none | one per Chainer function or link | | |
| **Test case generation** `testtools/testcasegen.py` | files | run the model with Chainer, store inputs and outputs beside the graph | | the graph gives what Chainer gave |
| Python bindings, tools, menoh, scripts, tests, common, configs | | wrappers and command lines | | |

Components in bold are modelled here. `PROJECT.json` lists all of them with
their sources, their status and the reason where one is left out, and the
hazards, each at the line where it bites with the properties that watch it.

How the modelled parts meet: the scheduler's output order is the `nodes` of a
graph in `GraphEmission` and `ComputationGraph`; `TopologicalSchedule`
guarantees what `GraphEmission` assumes of it (`WellFormed`: a value is
computed before it is read; that what is handed over satisfies all of it is the
theorem `SchedulesCanBeEmitted`). `GraphEmission` covers one EmitGraph call in
isolation, for all graphs; `ChxVMEmitter` uses the same algorithm inside the
bodies of If and Loop and produces the actual instructions, which `ChxVM`
executes in `CompiledModel`. `GradientWithOrder` adds the backward nodes to a
graph, with the copies of forward nodes that a recomputation order asks for; its
result is again a list of nodes in a fixed order, which is what the emitter is
given. `FrontEnds` takes a method to an ONNX graph; `OnnxGraph` says
what such a graph computes and what the compiler's `Graph::Construct` accepts of
it, which is where the second half starts.

## 2. Modules and their code

| Module | Models | Notes |
|---|---|---|
| `BatchStream` | what callers of a DataIterator may expect | abstract specification: no thread, buffer or lock |
| `DataIterator` | `feeder/data_iterator.cc`, all of it but construction and destruction | implements `BatchStream` |
| `DataflowGraph` | the graph as the scheduler sees it; GetNecessaryNodesAndInputCounts, EstimateMemoryIncrease | operators only |
| `TopologicalSchedule` | what a scheduler promises | abstract specification: no counts, queues or sizes |
| `Scheduler` | ScheduleComputation with both schedulers and CheckSanity | implements `TopologicalSchedule` |
| `GraphEmission` | EmitGraph: In, the node, Free | which variables are set after each node |
| `ComputationGraph` | graphs with bodies, and what they compute | the reference semantics; not code of the emitter |
| `ChxVMEmitter` | EmitModel, EmitGraph, EmitIf, EmitLoop, EmitFusionGroup, sequence operators | a pure function from graph to program |
| `ChxVM` | ChxVM::Run, ChxVMState, the instructions | a state machine over any program |
| `ChxVMCode` | what the CHECKs of ChxVMState ask, as a property of the code alone | abstract specification: the machine with any verified code and any inputs |
| `CompiledModel` | emitter and machine together | implements `ChxVMCode`; the properties of the pair |
| `TrainingGraph` | graphs that can be differentiated: nodes, values, what they compute and their derivatives | reference semantics; SortTopologically and the classes of values |
| `GradientOps` | the gradient functions of `gradient_ops.cc`, one per kind | operators only |
| `ComputationOrder` | `computation_order/`: all five policies | from a graph and a choice to a sequence of compute and forget steps |
| `Rematerialization` | what a recomputation order may do | abstract specification: a pebble game on the graph, without copies or gradients |
| `GradientWithOrder` | `gradient.cc` and `gradient_with_order.cc` | implements `Rematerialization` |
| `PythonProgram` | the part of Python that decides control flow, and what Chainer returns | external: the language, not the repository |
| `Canonicalizer` | `canonicalizer.py` | a function from programs to programs |
| `Field` | Field, AttributeCollection, Attribute, Object | operators on one field and the heap of Objects |
| `BranchStack` | what the evaluator relies on: entering a body copies the variables, leaving it gives back those from before | abstract specification: no Objects, no records |
| `FieldHistory` | any program's reads, assignments and bodies on one field | implements `BranchStack` |
| `VEvaluator` | veval_ast_* , vcall, convert_model | from a canonicalized program to the recorded graph |
| `OnnxExport` | preprocess, generate_graph, generate_model | from the recorded graph to ONNX |
| `OnnxGraph` | what an ONNX graph computes; single assignment, scope, acceptance | mostly external; If, Loop and acceptance follow the compiler |
| `Ch2o` | eval_ast and its functions, Env, Value, make_graph, compile_model | from a program to ONNX |
| `FrontEnds` | both front ends and the test case that compares them with Chainer | the state machine |
| `TypeTerms` | types: deref, occur, unify, is_subtype, join (`types.py`) | operators only |
| `TypeConstraints` | what solving type equations means | abstract specification: the set of all solutions, no variable is ever set |
| `TypeSolver` | any sequence of calls of unify on shared type variables | implements `TypeConstraints` |
| `TypedPython` | the part of Python that is typed: tuples, lists that are shared and grow, arrays by their shapes | external: the language; records the values of every expression |
| `TypeInference` | `type_inference.py`: the walk over a method, its operators and builtin functions | a state machine: infer, then run the method |
| `MC...` | instances for TLC | families of small graphs and models |
| `..._proofs` | theorems | section 6 |

**DataIterator.** One mutex guards the object, so whatever runs between taking
it and releasing it (by returning or by `cond_.wait`) is one action. The
exception is `thread_->join()`, performed with the mutex held: `joining` says
who holds it, and nobody else can run a critical section meanwhile
(`MutexFree`). A thread in `cond_.wait` is in `asleep`; `notify_all` empties
that set. `loopPc` and `pc` say where the loader and each client are;
`GetNextImpl` runs outside the lock and is a step of its own (`Load`), so
Terminate may come between loading and delivering. `handed` and `answer` record
history for the properties. `Spurious` says whether waits may wake unasked, as
`std::condition_variable` allows.

**Scheduler.** A job is a graph and the calls made for it, in order. `Begin`
is the entry of ScheduleComputation with GetNecessaryNodesAndInputCounts;
`ScheduleSource`, `TakeValue`, `VisitUser` and `TakeCheapest` are the bodies of
the loops; `Finish` is CheckSanity and the assignment of orders. What the code
leaves to pointer values is left open: the traversal of a `std::map` keyed by
pointer, the order of a value's users, and equal costs in the multimap. The
null value is one object per graph with one producer, as Graph::Construct makes
it; it has no influence on counts. DelaySimpleNodes is only ever called with an
empty vector (section 7), so it does not appear. `HandedOver` is what the
emitter then gets: the nodes in the order GetComputationSequence returns, without
those CollectGarbageNode removes, their inputs and outputs without the null value,
and the users that are left.

**GraphEmission.** The state is what EmitGraph keeps (`numUsers`, `staged`,
`todoOutputs`) and, since the code it emits is straight-line, the set `live` of
variables that are set after it, with `fault` for a failed CHECK of ChxVMState.
`EmitNode` is one iteration of the loop, `TakeOutputs` what the caller does with
the outputs: EmitOutputs for a main graph, MOVE for a body.

**ComputationGraph, ChxVMEmitter, ChxVM, CompiledModel.** `Evaluate` says what a
graph means. `EmitModel` compiles it with recursive operators that follow the
emitter's functions, threading the program through them because jumps are
absolute. `ChxVM` executes: its variables are a function from names to values,
sequences live on a heap so that sharing is visible, and a failed CHECK or a
value of the wrong kind stops it with `failed`. `ChxVMCode` says when the CHECKs
about variables cannot fail: `KnownAt` follows the code once from its beginning
and notes at each place what is `set`, what of it is `own` (refers to no sequence
of the caller's), which inputs were `taken` and which outputs are `done`; code is
`Verified` if every instruction is `Allowed` by what is known before it, all ways
to a place agree, and nothing is set at the end. Arrays are sequences of integers
and only as many operators are modelled as differ in control flow, aliasing or
the life of variables: all others behave like Add.

**TrainingGraph, GradientOps, ComputationOrder, GradientWithOrder,
Rematerialization.** A job is a graph, whether it is differentiated in two phases
(`twoPhase`: a forward and a backward graph, or one) and a `policy`; `orders` is
what is left of what the policy returns. With a policy `none` the gradient pass
is that of gradient.cc: all nodes are in place, and `AddGradient` takes them
backwards. Otherwise `executed` are the orders carried out and `b` is the
compiler's state: the nodes made so far, the copy under which each value is
staged, its gradient. `FirstForward` makes a node, `Recompute` a copy of it,
`ForgetStaged` drops the staged copy, `ComputeGradients` adds what computes the
gradients of a node's inputs; in two phases the backward graph becomes current
(`Turn`) when all outputs are staged. A gradient function that asks for the
gradient of an output that has none adds nothing, as does one that does not exist.
Arrays are numbers modulo 97: a gradient is right if it
is the derivative, computed forward, of every path to the output (`Derivatives`).
Six operators stand for the kinds of gradient functions there are: those that
read nothing (Add), the inputs (Mul), the output (Exp), an output added for the
purpose (AveragePool), the gradients of all outputs (Split), and those that do not
exist (Floor). Bytes and flops
decide only which of the admissible splits the policies take, so any set of
articulation points splits a graph for Chen's policy and any chain of lower sets
is a solution for GT's. The refinement maps the staged values to the pebbles.

**PythonProgram, Canonicalizer.** Programs are records: expressions of numbers,
booleans, None, names, `+ - *`, comparisons, `not`, `and`, `or`, `range` and
calls; statements `=`, `+=`, if, for, break, continue, return. `PyRun` is
Python's meaning of them. `Canonicalizer` threads the transformer's three stacks
through the statements; one operator per visit method. What a visit returns is
what replaces the statement, with the guard where the code adds it and without
where it forgets it (`visit_Break`, `visit_Continue`).

**Field, FieldHistory, BranchStack.** A field is a sequence of collections; a
collection maps names to Objects (`attributes`) and remembers the Object and the
value of every name that was looked up from outside it (`inputs`). `heap` is
`Object.value`: `+=` revises it in place. `FieldHistory` lets any of Read,
Assign, AugAssign, PushHistory, PopHistory come at any time, and Merge, which is
what veval_ast_if does with the outputs after a body: `released` are the Objects
that left with them. `Scopes` is the refinement mapping: the value of every name
at every level.

Only variables whose assignment makes an Object of their own are modelled there:
numbers, booleans, None, strings, tuples. Lists and tensors share one Object
after `y = x`, and for them the promise is not made.

**VEvaluator.** The state of the walk is a record threaded through the
operators, which are named as in the code; `Then` gives the result of one step
to the next. An if evaluates both bodies, each in a history and a graph of its
own, and merges them by comparing `InputsOf` and `OutputsOf`; a test whose value
is known skips a body. A for evaluates its body once; its condition is the
variable `#keepgoing` if the body has one. The order in which `value_pairs`
(a dictionary) is walked is an arbitrary fixed order here: the code's is the
order of insertion, and nothing depends on it but positions.

**OnnxExport.** Values become names: the value's number, or for the extra values
a converter makes a negative number derived from it. Copies are inserted where an
output is an input, or two outputs are one; constants are emitted in the graph
that first mentions them.

**Ch2o.** The environment is a sequence; a block (the body of an if or of a loop)
has nodes of its own, a function's environment adds to its caller's. A variable
is a Python object or an ONNX name, and `get_var` makes it an ONNX value in the
block where it is found. An exception (`ValueReturn`, an unsupported statement)
is `returned` or `ok`.

**TypeTerms, TypeSolver, TypeConstraints.** A type is a record; a number or a
dimension that is known is a set of one, one that is not the empty set. `bindings`
(in the engine `vars`) is the field `ty` of the type variables that are set.
`Unify` returns what was set along with the answer, because a call that raises
UnifyError has set variables before: nothing is undone, and `call_function`
catches the error. The refinement maps the variables to the set of all
assignments that agree with them.

**TypedPython, TypeInference.** A program is a tree, and each expression is named
by its place in it: `types` gives the inferred type of each place (`nodetype`),
`ran.seen` the values Python computed there. The engine's state is a record
threaded through operators named after its methods; an error nobody catches
clears `ok`. deref replaces, in place, the type inside a list by what it was set
to, so whether `isinstance` finds a variable there depends on who looked before:
`eager` is either answer, for a whole job. Variable 0 stands for the one that
`joins` starts from, and gets a number of its own afterwards (`Named`). `flaws`
records where the engine is known to claim too much (section 7); `TypesAreRight`
is asked of the other methods.

**FrontEnds.** One action per stage, the stages of the two front ends interleave
freely (they share nothing), and `Run` compares the results on arguments other
than those the evaluator was given.

## 3. What the runs show

| Run | Module, states | Properties | Shows |
|---|---|---|---|
| `iterator_trainer` | DataIterator, 469 | JoinAfterExit, TerminateReturns, StreamIsServed | One client, no spurious wakeup, more batches than two buffers hold: every call is answered until Terminate, Terminate returns, and the join finds the loader gone. |
| `iterator_shared` | DataIterator, 10 089 | TypeOK, StreamInOrder, EndIsTruthful, NoLostWakeup, NothingPushedAfterFinish, StreamIsSafe | Two clients and spurious wakeups: no batch is lost, repeated or reordered, and no thread sleeps through what it waits for. |
| `iterator_spurious` | DataIterator | TerminateReturns **violated** | Finding 1 below. |
| `scheduler` | MCScheduler, 284 403 | TypeOK, CountsAreMissingInputs, AbortIsJustified, SchedulesInOrder | Both schedulers on all graphs of three nodes, asked once or twice: a topological order, kept by the second call; an abort only if no order exists. |
| `scheduler_delay` | MCScheduler | SimpleNodesWait **violated** | Finding 3 below. |
| `emission` | MCGraphEmission, 89 760 | TypeOK, SlotDiscipline, LiveIsNeeded, NothingLeaks, CountsAreRemainingUses | All graphs of three nodes, as main graph and as body: exactly the values still needed are held between two nodes. |
| `vm_control` | MCCompiledModel, 118 415 | TypeOK, ResultsAreRight, CallerKeepsInputs, RunsVerifiedCode, EverythingIsFreed, NoSilentOverwrite, RunsToTheEnd | If, Loop, fusion groups, If or Loop inside Loop, and chains of sequence operators in which a moved sequence has no other holder: the compiled program is verified code, computes what the graph does, leaves nothing behind and keeps the caller's sequences as they were. |
| `vm_shared` | MCCompiledModel | ResultsAreRight **violated** | Finding 2 below. |
| `gradients` | MCGradient, 284 844 | GradientsAreRight, ReadsAreKept, AbortsOnlyMisfits, PlaysTheGame | Graphs of two to four nodes under every policy, in one and two phases: the gradients are the derivatives, nothing forgotten is read, and a policy whose orders do not fit the graph aborts rather than build another. |
| `history` | MCFieldHistory, 77 028 | TypeOK, ChangesAreOutputs, InputsComeFromOutside, BodiesAreUndone | Any sequence of reads, assignments, revisions in place and nested bodies: a body is undone exactly, and nothing it changed or took in is missed. |
| `front_ends` | MCFrontEnds, 32 599 | CanonicalMeansTheSame, ElichikaMeansTheSame, Ch2oMeansTheSame, CompilerAccepts | Some 2 500 methods on twelve arguments each: the canonicalized method and the graphs of both front ends give what Chainer gives, and the graphs are well formed. |
| `typing` | MCTyping, 76 384 | TypesAreRight, NoCycles, SolvesConstraints | 1 546 other methods on eight pairs of arguments: every value is of the type inferred for it. Thirteen equations in any order: the variables that are set say what the solved equations say, and contain no cycle. |

Every property of a passing run is accompanied in `PROJECT.json` by a mutation
of the code that breaks it under the same bounds (a notify forgotten, a count
per node instead of per input, a guard dropped); the mutated definitions stand
next to the originals, marked "Mutation of".

Deadlock is checked in all runs except where the system really stops: the two
iterator runs with spurious wakeups, in which Terminate may hang (finding 1),
`vm_shared`, in which a run may abort, and `front_ends` and `typing`, where a job
ends with its last stage or with an exception of an earlier one. In `typing` a
behaviour types a method or solves equations, and leaves the other part idle.

## 4. Bounds

* DataIterator: buffers of 2 and 3, 4 to 8 batches, one or two clients. A data
  set longer than twice the buffer lets the buffer fill, drain and fill again;
  two clients are enough for one to take what another waits for and for a
  second Terminate. The proofs cover any number of each.
* Scheduler: three nodes with at most two inputs (`Reads`) and two results; a
  constant, a sink, a dead node, a value read twice or by two nodes, a null
  input, a null result, an unknown size, an input nobody gives; one call or two
  overlapping ones. The order of a node's inputs does not matter to the code.
  The proofs cover all finite graphs and all sequences of calls.
* GraphEmission: three nodes, at most `MaxInputs` = 2 inputs and two results
  each, every choice of temporary and output results. Three nodes give a value a
  producer and two readers with a node in between. The proofs cover all graphs.
* Compiled models: chains of `MaxNodes` = 3 operators; trip counts up to
  `MaxTrips` = 3 (none, one, a second that meets what the first left, and one
  after that); conditions absent, false, true and computed; two levels of bodies.
  The second trip and the second level are where variables left set show.
  That the emitter's programs are verified code and compute the right results
  has no proof for all graphs, so there the bounds are what is known; what the
  machine does with verified code is proved for all of it.
* Gradients: two nodes of any two operators, so that each kind of gradient
  function meets each; three nodes for a value with two readers of different
  depth; four for a chain that Chen's and GT's policies cut more than once. One or
  two inputs, an input that asks for no gradient (`Frozen`), a value that is read
  and an output too (`Tapped`). Orders made by hand (`custom`) forget at most
  `MaxForgets` = 2 times. Left out by name: a Split one of whose outputs gets no
  gradient, nodes nobody needs, and orders made by hand that fetch a value again
  between two of its readers' backward steps (`Refetched`, section 7). The proofs
  of `PlaysTheGame` and `ReadsAreKept` cover all of these and every model, choice of
  a policy and order made by hand.
* Field history: two names and two values (a name that is changed and one that is
  not, the same Object or another), `MaxDepth` = 3 collections (a body, a body in
  a body), `MaxObjects` = 3. The proofs cover any number of each.
* Front ends: methods are all sequences of up to three statements (four for the
  jumps) out of a few that read and write the same variables, so that each sees
  what the others did: `JumpJobs` one loop with break, continue and return under
  tests; `NestedJobs` loops in and after loops; `PlainJobs` ifs, loops and
  arithmetic; `AliasJobs` names that stand for one value; `FlagJobs` tests that
  the evaluator decides; `CallJobs` calls of functions that return early, assign
  or loop. Arguments 0 to 3 and 0 to 2 give loops of no trip, of one, and a jump
  in the first, a middle, the last or no trip. There is no proof for all methods.

* Type equations: three variables (a chain of two that are not set, a cycle of
  three), thirteen equations, among them one of a variable with a list of itself and
  pairs whose second elements may disagree after the first were unified; `Ground`,
  the types that variables may stand for, are number, None, and lists and pairs of
  them.
* Type inference: 1 546 methods of up to four statements with ifs, loops, an if or
  a loop in a loop, tuples taken apart, growing lists, calls and arrays; eight
  pairs of arguments (numbers, None, tuples, one list twice, two lists, arrays
  that broadcast), lists of up to three elements, so that a loop makes a trip
  after the two that are inferred. 24 736 jobs, of which some 7 500 are inferred
  and run to the end without a flaw, and so are compared.

The exported families of methods leave out what is known to go wrong, each with a hazard
in `PROJECT.json`: a loop without break around or after one that breaks (section
7); a bare break or continue after a continue (section 7); a constant flag that
a loop changes; and, for ch2o, jumps and returns under a test, which it does not
support. An argument that is changed in place by `+=` in a called function is
changed for the caller too; the called functions use `=`.

The families of compiled models leave out, by name in `LoopModels`: loops with
neither trip count nor condition (the emitter rejects them), loops whose
condition never fails and that have no trip count (they run for ever), and loops
that make no trip but have a scan output, which abort in chainerx::Stack.
Outputs of the main graph are never null. `vm_control` takes only the models in which a sequence is moved by its sole holder (`MovesOnlyOwned`);
`vm_shared` takes the others.

## 5. Fairness

* DataIterator: weak fairness of each thread inside the object. Critical
  sections end, so the mutex comes free again and a runnable thread eventually
  takes it; the only unbounded hold is the join, which is modelled. Clients are
  under no obligation to call anything. Weak fairness of a client's or the
  loader's steps grants no luck in a race: it is the disjunction of the thread's
  actions, of which at most one kind is enabled at a time.
* CompiledModel: weak fairness of the machine's loop, which is one thread that
  does nothing else.
* Gradient generation is one call in one thread; `Stopped` is the only way to
  end, and deadlock is checked, so no order is stuck in the middle.
* The front ends are sequential and are not asked to finish: every stage is a
  function of the one before, which TLC evaluates to the end.
* Scheduler and GraphEmission have no liveness property; that the loops end is
  visible in the runs (no deadlock other than at the end, finite state spaces)
  but is not stated.

## 6. Proofs

The theorems are about every behaviour of a specification (`Spec => ...`), for
every value of the constants that satisfies the named assumption, except two that
say what operators compute for every model (`ModelOrder`, `PoliciesAreProper`).

**DataIterator** (`IteratorAssumption`: the loader is not a client, sizes are
natural numbers). `Invariant` is the inductive invariant: the properties of
`iterator_shared` together with `LoaderInv`, which ties the loader's local
variable to what it has loaded (`StreamInOrder` counts batches in flight and is
not preserved unless the batch being delivered is the last one loaded), and
`SleepInv`, which says at which places a client may sleep at all. It yields
`TypeCorrect`, `Fifo`, `TruthfulEnd`, `WakeupsArrive`, and with one step more
`NoLatePush` and `Refinement` (the iterator implements `BatchStream`'s safety).
`JoinNeverBlocks` needs what the code does not promise, hence two more premises:
a single client and no spurious wakeups; `TerminateInv` then says that while
Terminate waits, only the loader's exit can wake it.

**GraphEmission** (`GraphsAssumption`: each graph is well formed: kinds are
disjoint, values are computed once and before they are read, outputs are
computed, and user lists agree with inputs). The invariant is the conjunction of
the five properties of the run: the counts are the uses still to come, and
exactly the values available and needed are live. Neither part is inductive
alone: a Free is right because the count is exact, a read finds its variable set
because every value with uses left is live. `CountSplit` is the arithmetic: the
uses from one node on are those of that node plus the rest.

**Scheduler** (`JobsAssumption`: graphs are finite, a value is computed once, the
inputs of a call are distinct and computed by no node). `CountsAreMissingInputs`
says what a count is; to preserve it one needs that a value waits in the queue at
most once and is known when it does (`QueueInv`), that pending visits are reads
of known values not in the queue (`VisitInv`), and that the nodes begun in this
call are those listed or ordered by an earlier one (`ListInv`). `NodeBegins`
does the work: when a node begins, its results were announced by nobody before,
so no count changes. That an abort is justified follows at the end of the loops:
the queue is empty, so a count that is not zero stands for an input nobody
announced; hence the nodes begun, with all unnecessary ones, form a set closed
under "has its inputs", and the node that was not begun lies outside the least
such set. The refinement maps the listed and ordered nodes to the abstract
sequence; only the steps that begin a node are not stuttering.

`SchedulesCanBeEmitted` joins the scheduler to the emitter: whenever a call has
succeeded and what it was asked for is computed by nodes (`OutputsAreComputed`: an
output that is an input or the null value is no output of a graph that
GraphEmission takes), `HandedOver` satisfies `GraphsAssumption` of `GraphEmission`,
so that what is proved there of any well-formed graph holds of every graph that is
scheduled here. The invariant is `IInv` with `Ordered` (each node listed reads what
was given or an earlier one computes) and `RequestsMet` (what a finished call was
asked for has its producers listed). That user counts agree is a
bijection between the users the scheduler leaves on a value and the places where
nodes read it.

**FieldHistory** (`FieldAssumption`: `Undefined` is no value, the bounds are
natural numbers). A body is undone because whatever it changes was recorded when
it was first looked up, in every collection between. The inductive invariant
`IInv` says so for all levels: the types (`Typed`); an input of a body is an
attribute of it and of the level around it, recorded with the Object it has
there (`InputsMatch`); the levels that have a name follow each other, and all
but the outermost have it as an input (`Contiguous`); an Object is or was given
to one name only (`OneOwner`), or restoring it for one name would change another;
and when the Object of an output is also the one the name has further out, the
level between has the name (`ReleasedBelow`), without which Merge would change a
level it did not record. From it follow `OutputsComplete`, `InputsOutside` and the
refinement `HistoryImplementsScopes`: PushHistory duplicates the abstract top
scope, PopHistory drops it, an assignment changes one name of the top scope, and
reading is a stutter.

**ChxVM** (no assumption on constants: `MachineSpec` of `ChxVMCode` starts with
any program, inputs and sequences of the caller, of which `MachineInit` says that
the program is verified code and finds the inputs it takes). The machine looks
at an instruction only when it executes it; what makes it safe is that the state
agrees with what is known at the place where the program counter stands.
`MachineInv` says so: `DOMAIN slots` is what is set there, outputs and inputs
taken are as known, the variables known to be `own` refer to sequences beyond
those of the caller, and everything refers to sequences that exist. One lemma per
instruction gives its effect (`Abort` or `Effect`), and `Agrees` carries what is
known over each jump. It yields `MachineTypeCorrect`, `MachineFreesEverything`,
`MachineKeepsCallersInputs`, `MachineOverwritesNothing` and `MachineNeedsAreMet`:
a run of verified code never fails a CHECK about a variable, so that it can stop
early only over the kind or size of a value. That the emitter's programs are
verified code is what `RunsVerifiedCode` checks, with TLC.

**Gradients** (`JobsAreModels`: a model is a graph of the six operators that
SortTopologically can sort, with the number of inputs each operator has; its
values are computed once, and its outputs and parameters are values and inputs
of it). Three modules build on each other.

`ComputationOrder_proofs` starts with the lemmas on sequences and on the two
recursive functions of topology.cc. The induction theorems of the library take an operator
and cannot be used; here induction is over a set (`Induction`: a set of numbers
that contains 0 and with a number the next contains all), and the value of a
recursive function is obtained from the set of its approximations
(`RecursionUpTo`); both rest on `<` being well founded. `ModelOrder` is the result:
GetTopologicallySortedNodes returns every node once, each behind those it reads
from. The rest of the module is about the policies. `Proper` is what an order list owes
the game: a node's gradients are taken once and after those of all necessary
nodes that read its outputs, or the list has computed a node twice without
forgetting before (`ComputedTwice`), where the compiler stops: GT's policy does so
for a node with two outputs. `PoliciesAreProper` holds for every model, every set
of splits and every chain of lower sets. Chen's policy and GT's concatenate blocks
(`FlattenSeq`); gradients go against the flow within a block, and a later block's
nodes feed only nodes of earlier ones.

`GradientWithOrder_proofs` is about the compiler's state. `Inv` says: the state is
well formed (`Sound`), the orders carried out and left are together a list as
`Proper` demands (`Ordered`), and `Remembers`: what a node has computed is staged or
has been forgotten since. The last is what `ComputedTwice` needs: the orders alone
say that a node is computed twice, the state must show that this fails a CHECK. One lemma per action shows that `Inv` is kept and that the
action is a move of `Rematerialization` or a stutter (`Held` is the refinement
mapping; a failed CHECK is a stutter). The theorems are `OrdersFit` and
`GradientsPlayTheGame`: for every model, policy and choice, and any orders made by
hand, nothing is computed from or differentiated with a value that is not held.

`GradientReads_proofs` is about the graphs that come out. The game is played on
values of the model; the nodes that are generated read names: of the values,
of copies computed again, of copies retained for the backward graph, of gradients
and of what lies between. `ReadsAlwaysKept` says that none reads a name
before it is computed in its graph or after it has been forgotten. `Inv` does not
see names; `Track` adds what each of them stands for:

* every name below `fresh`, and those behind it unused (`Named`), so that a new one
  is neither forgotten nor a value of the model;
* each node that is placed reads what is there at its place (`Fed`), which is the
  property itself, and each that is added but not placed yet reads what can be read
  now or what is added before it (`AddedWell`);
* a gradient is none of the values, staged, retained or forgotten names
  (`Graded`): what a Forget step removes is in use by no gradient;
* a retained name is computed in the forward graph and, in the other graph, its
  copy is given (`RetainedWell`); a staged name is there and was not forgotten, and no
  two values have the same one (`StagedWell`): forgetting one value must not
  take what another is staged as;
* a name in the range of the model's values is computed by the model's node
  (`OriginsWell`), a node computed twice is in the graph of the gradients the
  second time (`PlacesWell`), and what the phases exclude (`Phases`).

None of these is inductive without the others: that a gradient may read a staged
value needs `StagedWell`, which Forget keeps only because names are unique, which
adding a node keeps only because of `Named`. `GradientWithOrder_proofs` has the
lemmas that adding any node, and with it each gradient function of
`gradient_ops.cc`, keeps `Track`; `GradientReads_proofs` has those on placing
what was added, on the turn from one graph to the other, on computing again, and
on each action.

Model-checked only: the front ends and type inference (`TypesAreRight`, `NoCycles`,
`SolvesConstraints`), whose programs, graphs and types are recursive data;
that gradients are derivatives (`GradientsAreRight`), which compares two
evaluations of a graph; `AbortsOnlyMisfits`, for which the orders of each policy
would have to be shown legal, not only proper;
what the emitter produces (`ResultsAreRight`, `RunsVerifiedCode`), as emitter and
semantics are recursive operators;
liveness (TerminateReturns, StreamIsServed, RunsToTheEnd); and SimpleNodesWait,
which is violated.

## 7. Where the code does not do what it says

1. **Terminate can hang** (`iterator_spurious`, `feeder/data_iterator.cc:36`).
   Terminate waits on the condition variable once, without a predicate, then
   joins with the mutex held. A wakeup that is not the loader's exit, a spurious
   one or a notify_all that another thread's GetNext sends, lets it join while
   the loader still needs the mutex to leave Loop.
2. **A sequence with one reader may be moved though others hold it**
   (`vm_shared`, `compiler/chxvm/simple_node_emitter.cc:572`). The number of
   readers in the graph decides; being a graph output is not a read, and the
   variable of a body's input, or one made by Identity, shares its sequence with
   the outer one. The output or the later reader sees an empty sequence.
3. **Simple nodes are never delayed** (`scheduler_delay`,
   `compiler/scheduler.cc:191`). The flag that keeps DelaySimpleNodes from
   running after an earlier schedule is set by every node of the present one.
Seen while modelling, without a run of its own:

In `elichika/typing/`, whose README says that it "infers the types and shapes of
the forward function" (`typing/README.md:21`); where one of these may have
happened `flaws` names it (in quotes here), and nothing is claimed of the method:

* `occur` answers False for a TyOptional whatever is in it (`types.py:525`). Unify b
  with Optional(c), then a list of b with a list of c, and c is set to
  Optional(c): printing it does not end. The equations checked have no optionals.
* A loop's body is inferred twice and no more (`type_inference.py:536`). In
  `u = z = y = 1; for i in x: y = z; z = u; u = None` the third trip makes y None,
  and its type is int ("loop").
* `range` of a number that is not known is typed as range(1), whose elements are the
  number 0 (`type_inference.py:97`). In `for i in range(len(x)): y = (1, None, 1)[i]`
  y has the type of the first element ("dummy").
* A tuple times n is typed as n elements, whatever the length of the tuple
  (`std/builtin_ops.py:19`, "repeat").
* An unknown dimension equals any, so with a 1 it broadcasts to 1
  (`ext/common.py:66`, "broadcast"); unify and join do not
  compare numbers and dimensions, so that one of two is lost ("merge"); a return
  before the last statement is ignored ("return").

In the evaluator: a loop stops when another loop broke
(`elichika/parser/vevaluator.py:1158`). The condition of a loop is looked up by the
name `#keepgoing`, which is one for all loops; a loop without break whose body
contains, or that comes after, a loop that breaks takes over the flag that one left.
Of

    for i in range(n):
        for j in range(k):
            if i == j: break
            x += j
        y += 1

the exported outer loop stops after the first trip whose inner loop broke. The
test for nested breaks (`testcases/elichika_tests/syntax/Break.py:17`) has a break
in the outer loop too, which resets the flag.

In the canonicalizer: a bare `break` or `continue` in a
block after a statement that may `continue` loses its guard
(`canonicalizer.py:149`): of

    for i in range(n):
        x += 1
        if i == k: continue
        break

the canonicalized loop breaks in the very trip that continues. The tests
(`testcases/elichika_tests/canonicalizer/`) have every jump under an if, which is
guarded as a whole.

In `compiler/gradient_with_order.cc` and `computation_order/`:

* Gradients are lost with some orders made by hand. Line 368 says "Copying inputs
  is necessary to accumulate gradients", but only a copy (`node != orig_node`)
  gets that treatment: when a value is forgotten and fetched again between the
  backward steps of two of its readers, the part collected under its former name
  is not added to the new one. The policies in the directory do not do this.
* A gradient that is missing aborts without orders (`gradient.cc`) and is passed
  over with them: the line that would say so is commented out (`// ok = false;`).
* The custom policy's header comment describes `CB`, the code accepts `BF`
  (`policy_custom.cc:5` and `:50`).
* Chen's policy aborts on a graph in which a node of a split has an output nobody
  reads, and GT's computes a node with two outputs once for each and aborts. Both
  stop by a CHECK; `AbortsOnlyMisfits` says that nothing else does.

Hazards noted without a property, with the reason, are in `PROJECT.json`: among
them GetNext waiting for ever when another client terminates the iterator, the
Resize upgrade in `node.cc:46` that appends an input after users were recorded,
and the temporary file name of `file_cache.cc:67`.

## 8. Not modelled

Out of a model checker's reach or of no interest to it: numeric kernels, shape
inference, code generation, import of models, command lines; the converters of
single Chainer functions and links in both front ends, each a fixed node or two.
Of the gradients: the formulas of the other operators, gradients of If and Loop,
the choice among admissible splits (the dynamic program of GT's policy and the
sizes Chen's goes by), BatchNormalization's flag.
Of the front ends: lists, tuples, dictionaries, subscripts, slices,
comprehensions, attributes and instances, `with`, lambdas, tensors and their
shapes, names given for people to read, NodeInput and NodeReturn, which are
dropped again by the exporter.
Of type inference: dictionaries, strings, dtypes, classes and attributes other than
`shape`, slices, comprehensions, symbolic dimensions, type hints, and the tables of
types of library functions, one formula each. The exporter makes no use of types.
Left out of the modelled components: DataIterator's destructor and a second
Start; external fusion back ends, instructions without effect on control,
sharing or lifetime, tracing and memory statistics of ChxVM; editing of graphs.

## 9. Plan

Done, in this order: DataIterator with its abstract stream; GraphEmission; the
compiled-model stack; Scheduler with its abstract schedule; the proofs of the
first, second and fourth; the front ends with the history of variables and its
proof; gradients with recomputation; type inference and its solver; the machine
proved for all verified code; the game of recomputation, and what the generated
graphs read, proved for all models and policies; the scheduler's guarantee shown
to be the emitter's assumption.

Next, by importance:

1. *Graph editing*: AddNode, DetachNode, ReplaceValue, AddOutput as actions on
   producer and user lists, with the agreement that GraphEmission and Scheduler
   assume as the invariant to be proved; the Resize upgrade and shared null
   values as the steps that may break it.
2. *Topology and fusion*: ClassifyValues and RejectCyclicNodes; a fused graph is
   acyclic and computes the same; a theorem that a convex set stays acyclic when
   contracted.
3. *Memory simulator*: refinement against GraphEmission's `live`.
4. *File cache*: processes with crash between write and rename.
5. *DataIterator's lifetime*: the destructor, which stops the loader when the
   derived iterator is gone already, unless its owner called Terminate
   before; a second Start; ImageNetIterator.
6. *DelaySimpleNodes* as the function it is meant to be.
7. *Front ends, further*: lists and attributes of instances (in `Field`, an
   attribute of a module or an instance is a look-up through a second field),
   loops that are unrolled, and the composition with `CompiledModel`: an exported
   graph, compiled and run on the machine.
8. *Gradients, further*: the bodies of If and Loop (`GenerateGradientNodesTo`).
9. *Type inference, further*: classes and attributes, symbolic dimensions, the
   signatures of library functions, example inputs that share lists.

Theorems to aim for: `AbortsOnlyMisfits`, from the legality of each policy's
orders; the graph-editing invariant, and from it the assumption on graphs that the
scheduler makes; convexity of fused sets; that unification makes no
cycle, for which `TypeTerms` would have to do without recursive operators.
