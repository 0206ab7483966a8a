------------------------------ MODULE FrontEnds ------------------------------
(***************************************************************************)
(* The two front ends at work on the forward method of a model: elichika   *)
(* canonicalizes it, evaluates it and exports the graph it recorded        *)
(* (parser/core.py, onnx_converters.py); ch2o interprets it into a graph   *)
(* at once.  The exported graphs are then run on the arguments that        *)
(* Chainer ran the method on, as the test cases of both do                 *)
(* (elichika/testtools/testcasegen.py, ch2o/testcasegen.py).               *)
(*                                                                         *)
(* What each stage made is a sequence: empty until the stage is over.      *)
(***************************************************************************)
EXTENDS OnnxExport

CONSTANT Jobs   \* what to export: [source, args, tools], the tools being front ends

Ch2o  == INSTANCE Ch2o
Model == INSTANCE OnnxGraph

VARIABLES
  job,         \* the method, the arguments it may be run on, and who exports it
  canonical,   \* elichika: the canonicalized functions
  evaluated,   \* elichika: the evaluator's graph and its values
  exported,    \* elichika: the graph
  translated,  \* ch2o: the graph
  run          \* what Chainer and the exported graphs give for some arguments

vars == << job, canonical, evaluated, exported, translated, run >>

Init ==
  /\ job \in Jobs
  /\ canonical = <<>>
  /\ evaluated = <<>>
  /\ exported = <<>>
  /\ translated = <<>>
  /\ run = <<>>

SampleArgs == CHOOSE args \in job.args : TRUE

CanonicalizeSource ==
  /\ "elichika" \in job.tools
  /\ canonical = <<>>
  /\ canonical' = << Canonicalize(job.source) >>
  /\ UNCHANGED << job, evaluated, exported, translated, run >>

Evaluate ==
  /\ canonical # <<>> /\ evaluated = <<>>
  /\ evaluated' = << convert_model(canonical[1], SampleArgs) >>
  /\ UNCHANGED << job, canonical, exported, translated, run >>

Export ==
  /\ evaluated # <<>> /\ exported = <<>>
  /\ evaluated[1].ok
  /\ exported' = << generate_model(evaluated[1].s, evaluated[1].graph) >>
  /\ UNCHANGED << job, canonical, evaluated, translated, run >>

Translate ==
  /\ "ch2o" \in job.tools
  /\ translated = <<>>
  /\ LET r == Ch2o!compile_model(job.source, Len(SampleArgs)) IN
     /\ r.ok
     /\ translated' = << r.graph >>
  /\ UNCHANGED << job, canonical, evaluated, exported, run >>

Done ==
  /\ "elichika" \in job.tools => exported # <<>>
  /\ "ch2o" \in job.tools => translated # <<>>

Results(graphs, args) == IF graphs = <<>> THEN <<>> ELSE Model!RunGraph(graphs[1], args)

Run(args) ==
  /\ Done
  /\ run = <<>>
  /\ run' = << [chainer   |-> << PyRun(job.source, args) >>,
                canonical |-> IF canonical = <<>> THEN <<>> ELSE << PyRun(canonical[1], args) >>,
                elichika  |-> Results(exported, args),
                ch2o      |-> Results(translated, args)] >>
  /\ UNCHANGED << job, canonical, evaluated, exported, translated >>

Next ==
  \/ CanonicalizeSource
  \/ Evaluate
  \/ Export
  \/ Translate
  \/ \E args \in job.args : Run(args)

Spec == Init /\ [][Next]_vars

-----------------------------------------------------------------------------
\* The canonicalized method returns what the method returns: replacing
\* break, continue and return by flags and guards changes no result.
CanonicalMeansTheSame ==
  run # <<>> /\ canonical # <<>> => run[1].canonical = run[1].chainer

\* The graph that elichika exports computes what Chainer computes, for
\* arguments on which neither the evaluator nor the exporter ran the method.
ElichikaMeansTheSame ==
  run # <<>> /\ exported # <<>> => run[1].elichika = run[1].chainer

\* The same of the graph that ch2o exports.
Ch2oMeansTheSame ==
  run # <<>> /\ translated # <<>> => run[1].ch2o = run[1].chainer

\* The compiler can read what is exported.  No two nodes of a graph, however
\* deep, compute the same value, and none computes an input of the graph; what
\* a node or a body output reads was computed before it in its graph or in one
\* around it, or is an input of one of them; and no graph or body has two
\* inputs or outputs of one name, or passes an input on under its name
\* (compiler/graph.cc refuses a duplicated value name).  Names stay unique and
\* in scope when values are shared between the bodies of an if, passed on, or
\* carried by a loop.
CompilerAccepts ==
  \A graphs \in {exported, translated} : graphs # <<>> =>
    /\ Model!SingleAssignment(graphs[1])
    /\ Model!WellScoped(graphs[1])
    /\ Model!Accepted(graphs[1])

=============================================================================
