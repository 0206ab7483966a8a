----------------------------- MODULE GradientOps -----------------------------
(***************************************************************************)
(* AddGradientForNode (compiler/gradient_ops.cc): the nodes that compute   *)
(* the gradients of a node's inputs from those of its outputs.             *)
(*                                                                         *)
(* The compiler's state is a record b.  `grads` is Value::grad() and       *)
(* `retained` the map from forward values to the values that stand for     *)
(* them in the backward graph, both partial; `added` holds the nodes added *)
(* and `contexts` the outputs added to the node; `fresh` names the next    *)
(* value.  `keep` tells whether `retained` was passed.                     *)
(***************************************************************************)
EXTENDS TrainingGraph

Grad(b, v) == b.grads[v]
HasGrad(b, v) == v \in DOMAIN b.grads

WithGrad(grads, v, g) == With(grads, v, g)
WithoutGrad(grads, v) == [u \in DOMAIN grads \ {v} |-> grads[u]]

\* GraphBuilder::Op: its result is b.fresh.
Op(b, op, ins) ==
    [b EXCEPT !.added = Append(@, Node(op, ins, <<b.fresh>>)),
              !.fresh = @ + 1]

\* GradientOpContext::Retain.
Retain(b, keep, v) ==
    IF ~keep \/ v \in DOMAIN b.retained THEN b
    ELSE [b EXCEPT !.retained = With(@, v, b.fresh), !.fresh = @ + 1]

\* What Retain returned.
Kept(b, keep, v) == IF keep THEN b.retained[v] ELSE v

\* Mutation of SetGrad: the last gradient replaces the others.
SetGradOnce(b, x, gx) == [b EXCEPT !.grads = WithGrad(@, x, gx)]

\* GradientOpContext::SetGrad.
SetGrad(b, x, gx) ==
    IF HasGrad(b, x)
    THEN LET c == Op(b, "AccumulateGrad", <<Grad(b, x), gx>>)
         IN  [c EXCEPT !.grads = WithGrad(@, x, b.fresh)]
    ELSE [b EXCEPT !.grads = WithGrad(@, x, gx)]

\* GradientOpContext::GradOp: the value is made, then added to what x has
\* (by a node that comes before the one that computes it), then computed.
GradOp(b, op, x, ins) ==
    LET c == SetGrad([b EXCEPT !.fresh = @ + 1], x, b.fresh)
    IN  [c EXCEPT !.added = Append(@, Node(op, ins, <<b.fresh>>))]

AddGradFn(b, x, gy) == SetGrad(SetGrad(b, x[1], gy), x[2], gy)

MulGradFn(b, keep, x, gy) ==
    LET ForInput(c, i) ==
            LET c1 == Retain(c, keep, x[3 - i])
                c2 == Op(c1, "Mul", <<gy, Kept(c1, keep, x[3 - i])>>)
                c3 == Retain(c2, keep, x[i])
                c4 == Op(c3, "Shape", <<Kept(c3, keep, x[i])>>)
            IN  GradOp(c4, "ReduceSumTo", x[i], <<c1.fresh, c3.fresh>>)
    IN  ForInput(ForInput(b, 1), 2)

\* y is retained before gy is asked for, which may not be there.
ExpGradFn(b, keep, x, y) ==
    LET c == Retain(b, keep, y[1])
    IN  IF HasGrad(c, y[1])
        THEN GradOp(c, "Mul", x[1], <<Kept(c, keep, y[1]), Grad(c, y[1])>>)
        ELSE c

\* The node gets an output more, gradient or not.
AveragePoolGradFn(b, keep, x, y) ==
    LET c1 == [b EXCEPT !.contexts = <<b.fresh>>, !.fresh = @ + 1]
        c2 == Retain(c1, keep, b.fresh)
    IN  IF HasGrad(c2, y[1])
        THEN GradOp(c2, "AveragePoolGrad", x[1],
                    <<Grad(c2, y[1]), Kept(c2, keep, b.fresh)>>)
        ELSE c2

\* The gradient functions: three start by asking for the gradients of all
\* outputs, and throw NoGradient.
AddGradientForNode(b, keep, op, x, y) ==
    IF op \in {"Add", "Mul", "Split"} /\ \E k \in DOMAIN y : ~HasGrad(b, y[k])
    THEN b
    ELSE CASE op = "Exp"         -> ExpGradFn(b, keep, x, y)
           [] op = "AveragePool" -> AveragePoolGradFn(b, keep, x, y)
           [] op = "Floor"       -> b
           [] op = "Add"         -> AddGradFn(b, x, Grad(b, y[1]))
           [] op = "Mul"         -> MulGradFn(b, keep, x, Grad(b, y[1]))
           [] op = "Split"       ->
                 GradOp(b, "Concat", x[1], [k \in DOMAIN y |-> Grad(b, y[k])])
=============================================================================
