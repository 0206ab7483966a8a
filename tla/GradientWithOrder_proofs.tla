----------------------- MODULE GradientWithOrder_proofs -----------------------
(***************************************************************************)
(* Gradients with orders play the game, for every model, every policy and  *)
(* every choice of it.                                                     *)
(***************************************************************************)
EXTENDS GradientWithOrder, ComputationOrder_proofs
LOCAL INSTANCE SequencesExt
-----------------------------------------------------------------------------
(* The compiler's state while nodes are added for a gradient.              *)

BuilderFields == {"grads", "retained", "added", "contexts", "fresh"}
OtherFields ==
    {"schedule", "first", "last", "staged", "turned", "stagedInForward", "recomputed",
     "outGrads", "forgotten", "retainParts", "gradOuts"}

IsMap(f) == f \in [DOMAIN f -> Nat]

\* Names are numbers; what is made from now on is not a value of the model.
Builder(h, s) ==
    /\ DOMAIN s = BuilderFields \cup OtherFields
    /\ IsMap(s.grads) /\ IsMap(s.retained)
    /\ s.added \in Seq(Nodes)
    /\ s.contexts \in Seq(Nat \ Values(h))
    /\ s.fresh \in Nat /\ \A v \in Values(h) : v < s.fresh

\* t is s with more nodes added.
Builds(h, s, t) == Builder(h, t) /\ \A f \in OtherFields : t[f] = s[f]

LEMMA BuildsMore ==
    ASSUME NEW h, NEW s, NEW t, NEW u, Builds(h, s, t), Builds(h, t, u)
    PROVE  Builds(h, s, u)
BY DEF Builds

LEMMA OpBuilds ==
    ASSUME NEW h, IsModel(h), NEW s, Builder(h, s), NEW op \in Operators \cup AddedOperators, NEW ins \in Seq(Nat)
    PROVE  Builds(h, s, Op(s, op, ins)) /\ Op(s, op, ins).fresh = s.fresh + 1
<1> DEFINE t == Op(s, op, ins)
           node == Node(op, ins, <<s.fresh>>)
<1>1. node \in Nodes
  <2>1. <<s.fresh>> \in Seq(Nat)
    BY DEF Builder
  <2> QED  BY <2>1 DEF Node, Nodes
<1> HIDE DEF node
<1>2. /\ DOMAIN t = DOMAIN s /\ t.added = Append(s.added, node) /\ t.fresh = s.fresh + 1
      /\ \A f \in (BuilderFields \cup OtherFields) \ {"added", "fresh"} : t[f] = s[f]
  BY DEF Op, node, Builder, BuilderFields, OtherFields
<1> HIDE DEF t
<1>3. t.grads = s.grads /\ t.retained = s.retained /\ t.contexts = s.contexts
  BY <1>2 DEF BuilderFields
<1>4. \A f \in OtherFields : t[f] = s[f]
  BY <1>2 DEF OtherFields
<1>5. \A v \in Values(h) : v < s.fresh + 1
  <2>1. Values(h) \subseteq Nat
    BY ModelValues
  <2> QED  BY <2>1 DEF Builder
<1>6. Append(s.added, node) \in Seq(Nodes)
  BY <1>1 DEF Builder
<1>7. Builder(h, t)
  BY <1>2, <1>3, <1>5, <1>6 DEF Builder
<1> QED  BY <1>2, <1>4, <1>7 DEF Builds, t

\* A map of numbers with another entry.
LEMMA WithType ==
    ASSUME NEW f, IsMap(f), NEW x, NEW y \in Nat
    PROVE  /\ IsMap(With(f, x, y))
           /\ DOMAIN With(f, x, y) = DOMAIN f \cup {x}
           /\ With(f, x, y)[x] = y
           /\ \A u \in DOMAIN f : u # x => With(f, x, y)[u] = f[u]
BY DEF IsMap, With, Over

LEMMA OverType ==
    ASSUME NEW f, IsMap(f), NEW e, IsMap(e)
    PROVE  /\ IsMap(Over(e, f))
           /\ DOMAIN Over(e, f) = DOMAIN e \cup DOMAIN f
BY DEF IsMap, Over

LEMMA WithoutType ==
    ASSUME NEW f, IsMap(f), NEW x
    PROVE  IsMap(WithoutGrad(f, x))
BY DEF IsMap, WithoutGrad

LEMMA RetainBuilds ==
    ASSUME NEW h, IsModel(h), NEW s, Builder(h, s), NEW keep \in BOOLEAN, NEW v \in Nat
    PROVE  Builds(h, s, Retain(s, keep, v)) /\ Kept(Retain(s, keep, v), keep, v) \in Nat
<1> DEFINE t == Retain(s, keep, v)
<1>1. CASE ~keep \/ v \in DOMAIN s.retained
  <2>1. t = s
    BY <1>1 DEF Retain
  <2>2. Kept(t, keep, v) \in Nat
    BY <1>1, <2>1 DEF Kept, Builder, IsMap
  <2> QED  BY <2>1, <2>2 DEF Builds
<1>2. CASE keep /\ v \notin DOMAIN s.retained
  <2>1. t = [s EXCEPT !.retained = With(@, v, s.fresh), !.fresh = @ + 1]
    BY <1>2 DEF Retain
  <2>2. /\ DOMAIN t = DOMAIN s /\ t.retained = With(s.retained, v, s.fresh) /\ t.fresh = s.fresh + 1
        /\ \A f \in (BuilderFields \cup OtherFields) \ {"retained", "fresh"} : t[f] = s[f]
    BY <2>1 DEF Builder, BuilderFields, OtherFields
  <2> HIDE DEF t
  <2>3. t.grads = s.grads /\ t.added = s.added /\ t.contexts = s.contexts
    BY <2>2 DEF BuilderFields
  <2>4. \A f \in OtherFields : t[f] = s[f]
    BY <2>2 DEF OtherFields
  <2>5. \A u \in Values(h) : u < s.fresh + 1
    <3>1. Values(h) \subseteq Nat
      BY ModelValues
    <3> QED  BY <3>1 DEF Builder
  <2>6. IsMap(t.retained) /\ t.retained[v] = s.fresh
    <3> DEFINE f == s.retained
               y == s.fresh
    <3>1. IsMap(f) /\ y \in Nat
      BY DEF Builder
    <3>2. t.retained = With(f, v, y)
      BY <2>2
    <3> HIDE DEF f
    <3> HIDE DEF y
    <3>3. IsMap(With(f, v, y))
      BY <3>1, WithType
    <3>4. With(f, v, y)[v] = y
      BY DEF With, Over
    <3> QED  BY <3>2, <3>3, <3>4 DEF y
  <2>7. Builder(h, t)
    BY <2>2, <2>3, <2>5, <2>6 DEF Builder
  <2>8. Kept(t, keep, v) \in Nat
    BY <1>2, <2>6 DEF Kept, Builder
  <2> QED  BY <2>4, <2>7, <2>8 DEF Builds, t
<1> QED  BY <1>1, <1>2

\* The gradient of x is replaced.
LEMMA GradsBuild ==
    ASSUME NEW h, NEW s, Builder(h, s), NEW grads, IsMap(grads)
    PROVE  Builds(h, s, [s EXCEPT !.grads = grads])
<1> DEFINE t == [s EXCEPT !.grads = grads]
<1>1. /\ DOMAIN t = DOMAIN s /\ t.grads = grads
      /\ \A f \in (BuilderFields \cup OtherFields) \ {"grads"} : t[f] = s[f]
  BY DEF Builder, BuilderFields, OtherFields
<1> HIDE DEF t
<1>2. /\ t.retained = s.retained /\ t.added = s.added /\ t.contexts = s.contexts
      /\ t.fresh = s.fresh
  BY <1>1 DEF BuilderFields
<1>3. \A f \in OtherFields : t[f] = s[f]
  BY <1>1 DEF OtherFields
<1>4. Builder(h, t)
  BY <1>1, <1>2 DEF Builder
<1> QED  BY <1>3, <1>4 DEF Builds, t

LEMMA SetGradBuilds ==
    ASSUME NEW h, IsModel(h), NEW s, Builder(h, s), NEW x, NEW gx \in Nat
    PROVE  Builds(h, s, SetGrad(s, x, gx))
<1>1. CASE HasGrad(s, x)
  <2> DEFINE ins == <<Grad(s, x), gx>>
             c   == Op(s, "AccumulateGrad", ins)
             grads == WithGrad(c.grads, x, s.fresh)
  <2>1. ins \in Seq(Nat)
    <3>1. Grad(s, x) \in Nat
      BY <1>1 DEF HasGrad, Grad, Builder, IsMap
    <3> QED  BY <3>1
  <2>2. SetGrad(s, x, gx) = [c EXCEPT !.grads = grads]
    BY <1>1 DEF SetGrad
  <2> HIDE DEF ins
  <2>3. Builds(h, s, c)
    <3> DEFINE op == "AccumulateGrad"
    <3>1. op \in Operators \cup AddedOperators
      BY DEF Operators, AddedOperators
    <3> HIDE DEF op
    <3>2. Builds(h, s, Op(s, op, ins))
      BY <2>1, <3>1, OpBuilds
    <3> QED  BY <3>2 DEF op
  <2> HIDE DEF c
  <2>4. IsMap(grads)
    BY <2>3, WithType DEF WithGrad, Builds, Builder
  <2> HIDE DEF grads
  <2>5. Builds(h, c, [c EXCEPT !.grads = grads])
    BY <2>3, <2>4, GradsBuild DEF Builds
  <2> QED  BY <2>2, <2>3, <2>5, BuildsMore
<1>2. CASE ~HasGrad(s, x)
  <2> DEFINE grads == WithGrad(s.grads, x, gx)
  <2>1. SetGrad(s, x, gx) = [s EXCEPT !.grads = grads]
    BY <1>2 DEF SetGrad
  <2>2. IsMap(grads)
    BY WithType DEF WithGrad, Builder
  <2> HIDE DEF grads
  <2> QED  BY <2>1, <2>2, GradsBuild
<1> QED  BY <1>1, <1>2

\* A value is named.
LEMMA NamingBuilds ==
    ASSUME NEW h, IsModel(h), NEW s, Builder(h, s)
    PROVE  Builds(h, s, [s EXCEPT !.fresh = @ + 1])
<1> DEFINE t == [s EXCEPT !.fresh = @ + 1]
<1>1. /\ DOMAIN t = DOMAIN s /\ t.fresh = s.fresh + 1
      /\ \A f \in (BuilderFields \cup OtherFields) \ {"fresh"} : t[f] = s[f]
  BY DEF Builder, BuilderFields, OtherFields
<1> HIDE DEF t
<1>2. /\ t.retained = s.retained /\ t.added = s.added /\ t.contexts = s.contexts
      /\ t.grads = s.grads
  BY <1>1 DEF BuilderFields
<1>3. \A f \in OtherFields : t[f] = s[f]
  BY <1>1 DEF OtherFields
<1>4. t.fresh \in Nat /\ \A v \in Values(h) : v < t.fresh
  <2>1. Values(h) \subseteq Nat
    BY ModelValues
  <2> QED  BY <1>1, <2>1 DEF Builder
<1>5. Builder(h, t)
  BY <1>1, <1>2, <1>4 DEF Builder
<1> QED  BY <1>3, <1>5 DEF Builds, t

LEMMA AddedBuilds ==
    ASSUME NEW h, NEW s, Builder(h, s), NEW node \in Nodes
    PROVE  Builds(h, s, [s EXCEPT !.added = Append(@, node)])
<1> DEFINE t == [s EXCEPT !.added = Append(@, node)]
<1>1. /\ DOMAIN t = DOMAIN s /\ t.added = Append(s.added, node)
      /\ \A f \in (BuilderFields \cup OtherFields) \ {"added"} : t[f] = s[f]
  BY DEF Builder, BuilderFields, OtherFields
<1> HIDE DEF t
<1>2. /\ t.retained = s.retained /\ t.fresh = s.fresh /\ t.contexts = s.contexts
      /\ t.grads = s.grads
  BY <1>1 DEF BuilderFields
<1>3. \A f \in OtherFields : t[f] = s[f]
  BY <1>1 DEF OtherFields
<1>4. t.added \in Seq(Nodes)
  BY <1>1 DEF Builder
<1>5. Builder(h, t)
  BY <1>1, <1>2, <1>4 DEF Builder
<1> QED  BY <1>3, <1>5 DEF Builds, t

LEMMA GradOpBuilds ==
    ASSUME NEW h, IsModel(h), NEW s, Builder(h, s), NEW op \in Operators \cup AddedOperators, NEW x,
           NEW ins \in Seq(Nat)
    PROVE  Builds(h, s, GradOp(s, op, x, ins))
<1> DEFINE r == [s EXCEPT !.fresh = @ + 1]
           c == SetGrad(r, x, s.fresh)
           node == Node(op, ins, <<s.fresh>>)
<1>1. s.fresh \in Nat
  BY DEF Builder
<1>2. node \in Nodes
  BY <1>1 DEF Node, Nodes
<1>3. GradOp(s, op, x, ins) = [c EXCEPT !.added = Append(@, node)]
  BY DEF GradOp
<1>4. Builds(h, s, r)
  BY NamingBuilds
<1> HIDE DEF r, node
<1>5. Builds(h, r, c)
  BY <1>1, <1>4, SetGradBuilds DEF Builds
<1> HIDE DEF c
<1>6. Builds(h, c, [c EXCEPT !.added = Append(@, node)])
  BY <1>2, <1>5, AddedBuilds DEF Builds
<1>7. Builds(h, s, c)
  BY <1>4, <1>5, BuildsMore
<1> QED  BY <1>3, <1>6, <1>7, BuildsMore

LEMMA AddBuilds ==
    ASSUME NEW h, IsModel(h), NEW s, Builder(h, s), NEW x, NEW gy \in Nat
    PROVE  Builds(h, s, AddGradFn(s, x, gy))
<1> DEFINE c == SetGrad(s, x[1], gy)
<1>1. Builds(h, s, c)
  BY SetGradBuilds
<1> HIDE DEF c
<1>2. Builds(h, c, SetGrad(c, x[2], gy))
  BY <1>1, SetGradBuilds DEF Builds
<1>3. AddGradFn(s, x, gy) = SetGrad(c, x[2], gy)
  BY DEF AddGradFn, c
<1> QED  BY <1>1, <1>2, <1>3, BuildsMore

LEMMA MulBuilds ==
    ASSUME NEW h, IsModel(h), NEW s, Builder(h, s), NEW keep \in BOOLEAN, NEW x,
           x[1] \in Nat, x[2] \in Nat, NEW gy \in Nat
    PROVE  Builds(h, s, MulGradFn(s, keep, x, gy))
<1> DEFINE ForInput(c, i) ==
               LET c1 == Retain(c, keep, x[3 - i])
                   c2 == Op(c1, "Mul", <<gy, Kept(c1, keep, x[3 - i])>>)
                   c3 == Retain(c2, keep, x[i])
                   c4 == Op(c3, "Shape", <<Kept(c3, keep, x[i])>>)
               IN  GradOp(c4, "ReduceSumTo", x[i], <<c1.fresh, c3.fresh>>)
<1>1. ASSUME NEW c, Builder(h, c), NEW i \in {1, 2} PROVE Builds(h, c, ForInput(c, i))
  <2> DEFINE c1 == Retain(c, keep, x[3 - i])
             ins2 == <<gy, Kept(c1, keep, x[3 - i])>>
             c2 == Op(c1, "Mul", ins2)
             c3 == Retain(c2, keep, x[i])
             ins4 == <<Kept(c3, keep, x[i])>>
             c4 == Op(c3, "Shape", ins4)
             ins5 == <<c1.fresh, c3.fresh>>
  <2>1. x[3 - i] \in Nat /\ x[i] \in Nat
    OBVIOUS
  <2>2. Builds(h, c, c1) /\ Kept(c1, keep, x[3 - i]) \in Nat
    BY <1>1, <2>1, RetainBuilds
  <2>3. ForInput(c, i) = GradOp(c4, "ReduceSumTo", x[i], ins5)
    OBVIOUS
  <2> HIDE DEF c1, ForInput
  <2>4. ins2 \in Seq(Nat)
    BY <2>2
  <2> HIDE DEF ins2
  <2>5. Builds(h, c1, c2)
    <3> DEFINE op == "Mul"
    <3>1. op \in Operators \cup AddedOperators /\ Builder(h, c1)
      BY <2>2 DEF Builds, Operators, AddedOperators
    <3> HIDE DEF op
    <3>2. Builds(h, c1, Op(c1, op, ins2))
      BY <2>4, <3>1, OpBuilds
    <3> QED  BY <3>2 DEF op
  <2> HIDE DEF c2
  <2>6. Builds(h, c2, c3) /\ Kept(c3, keep, x[i]) \in Nat
    <3>1. Builder(h, c2)
      BY <2>5 DEF Builds
    <3> QED  BY <2>1, <3>1, RetainBuilds
  <2> HIDE DEF c3
  <2>7. ins4 \in Seq(Nat) /\ ins5 \in Seq(Nat)
    <3>1. c1.fresh \in Nat /\ c3.fresh \in Nat
      BY <2>2, <2>6 DEF Builds, Builder
    <3> QED  BY <2>6, <3>1
  <2> HIDE DEF ins4, ins5
  <2>8. Builds(h, c3, c4)
    <3> DEFINE op == "Shape"
    <3>1. op \in Operators \cup AddedOperators /\ Builder(h, c3)
      BY <2>6 DEF Builds, Operators, AddedOperators
    <3> HIDE DEF op
    <3>2. Builds(h, c3, Op(c3, op, ins4))
      BY <2>7, <3>1, OpBuilds
    <3> QED  BY <3>2 DEF op
  <2> HIDE DEF c4
  <2>9. Builds(h, c4, GradOp(c4, "ReduceSumTo", x[i], ins5))
    <3> DEFINE op == "ReduceSumTo"
               z  == x[i]
    <3>1. op \in Operators \cup AddedOperators /\ Builder(h, c4)
      BY <2>8 DEF Builds, Operators, AddedOperators
    <3> HIDE DEF op, z
    <3>2. Builds(h, c4, GradOp(c4, op, z, ins5))
      BY <2>7, <3>1, GradOpBuilds
    <3> QED  BY <3>2 DEF op, z
  <2>10. Builds(h, c, c3)
    BY <2>2, <2>5, <2>6, BuildsMore
  <2>11. Builds(h, c, c4)
    BY <2>8, <2>10, BuildsMore
  <2> QED  BY <2>3, <2>9, <2>11, BuildsMore
<1>2. MulGradFn(s, keep, x, gy) = ForInput(ForInput(s, 1), 2)
  BY DEF MulGradFn
<1> HIDE DEF ForInput
<1>3. Builds(h, s, ForInput(s, 1))
  BY <1>1
<1>4. Builds(h, ForInput(s, 1), ForInput(ForInput(s, 1), 2))
  BY <1>1, <1>3 DEF Builds
<1> QED  BY <1>2, <1>3, <1>4, BuildsMore

LEMMA ExpBuilds ==
    ASSUME NEW h, IsModel(h), NEW s, Builder(h, s), NEW keep \in BOOLEAN, NEW x,
           NEW y, y[1] \in Nat
    PROVE  Builds(h, s, ExpGradFn(s, keep, x, y))
<1> DEFINE c   == Retain(s, keep, y[1])
           ins == <<Kept(c, keep, y[1]), Grad(c, y[1])>>
<1>1. Builds(h, s, c) /\ Kept(c, keep, y[1]) \in Nat
  BY RetainBuilds
<1>2. ExpGradFn(s, keep, x, y) = IF HasGrad(c, y[1]) THEN GradOp(c, "Mul", x[1], ins) ELSE c
  BY DEF ExpGradFn
<1> HIDE DEF c
<1>3. CASE HasGrad(c, y[1])
  <2>1. Grad(c, y[1]) \in Nat
    BY <1>1, <1>3 DEF HasGrad, Grad, Builds, Builder, IsMap
  <2>2. ins \in Seq(Nat)
    BY <1>1, <2>1
  <2> HIDE DEF ins
  <2>3. Builds(h, c, GradOp(c, "Mul", x[1], ins))
    <3> DEFINE op == "Mul"
               z  == x[1]
    <3>1. op \in Operators \cup AddedOperators /\ Builder(h, c)
      BY <1>1 DEF Builds, Operators, AddedOperators
    <3> HIDE DEF op, z
    <3>2. Builds(h, c, GradOp(c, op, z, ins))
      BY <2>2, <3>1, GradOpBuilds
    <3> QED  BY <3>2 DEF op, z
  <2>4. ExpGradFn(s, keep, x, y) = GradOp(c, "Mul", x[1], ins)
    BY <1>2, <1>3
  <2> QED  BY <1>1, <2>3, <2>4, BuildsMore
<1>4. CASE ~HasGrad(c, y[1])
  BY <1>1, <1>2, <1>4
<1> QED  BY <1>3, <1>4

LEMMA AveragePoolBuilds ==
    ASSUME NEW h, IsModel(h), NEW s, Builder(h, s), NEW keep \in BOOLEAN, NEW x, NEW y
    PROVE  Builds(h, s, AveragePoolGradFn(s, keep, x, y))
<1> DEFINE c1 == [s EXCEPT !.contexts = <<s.fresh>>, !.fresh = @ + 1]
           c  == Retain(c1, keep, s.fresh)
           ins == <<Grad(c, y[1]), Kept(c, keep, s.fresh)>>
<1>1. s.fresh \in Nat /\ s.fresh \notin Values(h)
  BY DEF Builder
<1>2. Builds(h, s, c1)
  <2>1. /\ DOMAIN c1 = DOMAIN s /\ c1.contexts = <<s.fresh>> /\ c1.fresh = s.fresh + 1
        /\ \A f \in (BuilderFields \cup OtherFields) \ {"contexts", "fresh"} : c1[f] = s[f]
    BY DEF Builder, BuilderFields, OtherFields
  <2> HIDE DEF c1
  <2>2. c1.retained = s.retained /\ c1.added = s.added /\ c1.grads = s.grads
    BY <2>1 DEF BuilderFields
  <2>3. \A f \in OtherFields : c1[f] = s[f]
    BY <2>1 DEF OtherFields
  <2>4. c1.contexts \in Seq(Nat \ Values(h))
    BY <1>1, <2>1
  <2>5. c1.fresh \in Nat /\ \A v \in Values(h) : v < c1.fresh
    <3>1. Values(h) \subseteq Nat
      BY ModelValues
    <3> QED  BY <2>1, <3>1 DEF Builder
  <2>6. Builder(h, c1)
    BY <2>1, <2>2, <2>4, <2>5 DEF Builder
  <2> QED  BY <2>3, <2>6 DEF Builds
<1>3. AveragePoolGradFn(s, keep, x, y)
          = IF HasGrad(c, y[1]) THEN GradOp(c, "AveragePoolGrad", x[1], ins) ELSE c
  BY DEF AveragePoolGradFn
<1> HIDE DEF c1
<1>4. Builds(h, c1, c) /\ Kept(c, keep, s.fresh) \in Nat
  <2>1. Builder(h, c1)
    BY <1>2 DEF Builds
  <2> QED  BY <1>1, <2>1, RetainBuilds
<1> HIDE DEF c
<1>5. Builds(h, s, c)
  BY <1>2, <1>4, BuildsMore
<1>6. CASE HasGrad(c, y[1])
  <2>1. Grad(c, y[1]) \in Nat
    BY <1>4, <1>6 DEF HasGrad, Grad, Builds, Builder, IsMap
  <2>2. ins \in Seq(Nat)
    BY <1>4, <2>1
  <2> HIDE DEF ins
  <2>3. Builds(h, c, GradOp(c, "AveragePoolGrad", x[1], ins))
    <3> DEFINE op == "AveragePoolGrad"
               z  == x[1]
    <3>1. op \in Operators \cup AddedOperators /\ Builder(h, c)
      BY <1>4 DEF Builds, Operators, AddedOperators
    <3> HIDE DEF op, z
    <3>2. Builds(h, c, GradOp(c, op, z, ins))
      BY <2>2, <3>1, GradOpBuilds
    <3> QED  BY <3>2 DEF op, z
  <2>4. AveragePoolGradFn(s, keep, x, y) = GradOp(c, "AveragePoolGrad", x[1], ins)
    BY <1>3, <1>6
  <2> QED  BY <1>5, <2>3, <2>4, BuildsMore
<1>7. CASE ~HasGrad(c, y[1])
  BY <1>3, <1>5, <1>7
<1> QED  BY <1>6, <1>7

\* An operator has as many inputs as it takes, and an output.
Fits(op, x, y) ==
    /\ op \in Operators
    /\ x \in Seq(Nat) /\ Len(x) = IF op \in {"Add", "Mul"} THEN 2 ELSE 1
    /\ y \in Seq(Nat) /\ y # <<>>

LEMMA GradientBuilds ==
    ASSUME NEW h, IsModel(h), NEW s, Builder(h, s), NEW keep \in BOOLEAN,
           NEW op, NEW x, NEW y, Fits(op, x, y)
    PROVE  Builds(h, s, AddGradientForNode(s, keep, op, x, y))
<1>1. /\ op \in Operators /\ x \in Seq(Nat) /\ y \in Seq(Nat)
      /\ y[1] \in Nat /\ 1 \in DOMAIN y
      /\ op \in {"Add", "Mul"} => x[1] \in Nat /\ x[2] \in Nat
  BY DEF Fits
<1>2. CASE op = "Exp"
  <2>1. AddGradientForNode(s, keep, "Exp", x, y) = ExpGradFn(s, keep, x, y)
    BY DEF AddGradientForNode
  <2> QED  BY <1>1, <1>2, <2>1, ExpBuilds
<1>3. CASE op = "AveragePool"
  <2>1. AddGradientForNode(s, keep, "AveragePool", x, y) = AveragePoolGradFn(s, keep, x, y)
    BY DEF AddGradientForNode
  <2> QED  BY <1>3, <2>1, AveragePoolBuilds
<1>4. CASE op = "Floor"
  <2>1. AddGradientForNode(s, keep, op, x, y) = s
    BY <1>4 DEF AddGradientForNode
  <2> QED  BY <2>1 DEF Builds
<1>5. CASE op \in {"Add", "Mul", "Split"} /\ \E k \in DOMAIN y : ~HasGrad(s, y[k])
  <2>1. AddGradientForNode(s, keep, op, x, y) = s
    BY <1>5 DEF AddGradientForNode
  <2> QED  BY <2>1 DEF Builds
<1>6. CASE op \in {"Add", "Mul", "Split"} /\ \A k \in DOMAIN y : HasGrad(s, y[k])
  <2>1. \A k \in DOMAIN y : Grad(s, y[k]) \in Nat
    BY <1>6 DEF HasGrad, Grad, Builder, IsMap
  <2>2. CASE op = "Add"
    <3>1. AddGradientForNode(s, keep, op, x, y) = AddGradFn(s, x, Grad(s, y[1]))
      BY <1>6, <2>2 DEF AddGradientForNode
    <3> QED  BY <1>1, <2>1, <3>1, AddBuilds
  <2>3. CASE op = "Mul"
    <3>1. AddGradientForNode(s, keep, op, x, y) = MulGradFn(s, keep, x, Grad(s, y[1]))
      BY <1>6, <2>3 DEF AddGradientForNode
    <3>2. Grad(s, y[1]) \in Nat /\ x[1] \in Nat /\ x[2] \in Nat
      BY <1>1, <2>1, <2>3
    <3> QED  BY <3>1, <3>2, MulBuilds
  <2>4. CASE op = "Split"
    <3> DEFINE ins == [k \in DOMAIN y |-> Grad(s, y[k])]
    <3>1. AddGradientForNode(s, keep, op, x, y) = GradOp(s, "Concat", x[1], ins)
      BY <1>6, <2>4 DEF AddGradientForNode
    <3>2. ins \in Seq(Nat)
      <4>1. DOMAIN y = 1..Len(y) /\ Len(y) \in Nat
        BY <1>1
      <4> QED  BY <2>1, <4>1
    <3> HIDE DEF ins
    <3> DEFINE fn == "Concat"
               z  == x[1]
    <3>3. fn \in Operators \cup AddedOperators
      BY DEF Operators, AddedOperators
    <3>4. AddGradientForNode(s, keep, op, x, y) = GradOp(s, fn, z, ins)
      BY <3>1
    <3>5. Builds(h, s, GradOp(s, fn, z, ins))
      <4> HIDE DEF fn, z
      <4> QED  BY <3>2, <3>3, GradOpBuilds
    <3> QED  BY <3>4, <3>5
  <2> QED  BY <1>6, <2>2, <2>3, <2>4
<1> QED  BY <1>1, <1>2, <1>3, <1>4, <1>5, <1>6 DEF Operators
-----------------------------------------------------------------------------
(* The compiler's state between two orders.                                *)

Parts == {"forward", "backward"}
Entries == [node : Nodes, part : Parts]

\* A computation of node n, perhaps with outputs its gradient has added.
Stands(h, node, n) ==
    /\ node.op = h.nodes[n].op /\ node.ins = h.nodes[n].ins
    /\ Elements(node.outs) \cap Values(h) = Elements(h.nodes[n].outs)

Placed(h, s) ==
    /\ DOMAIN s.first = DOMAIN s.last /\ DOMAIN s.first \subseteq DOMAIN h.nodes
    /\ \A n \in DOMAIN s.first :
          /\ s.first[n] \in DOMAIN s.schedule /\ s.last[n] \in DOMAIN s.schedule
          /\ Stands(h, s.schedule[s.first[n]].node, n)

Sound(h, s) ==
    /\ Builder(h, s)
    /\ s.schedule \in Seq(Entries)
    /\ IsMap(s.staged) /\ DOMAIN s.staged \subseteq Nat
    /\ Placed(h, s)

\* What is staged and where nodes are computed is the same in t as in s.
Keeps(h, s, t) ==
    /\ Sound(h, t)
    /\ t.staged = s.staged /\ t.first = s.first /\ t.last = s.last

LEMMA KeepsMore ==
    ASSUME NEW h, NEW s, NEW t, NEW u, Keeps(h, s, t), Keeps(h, t, u)
    PROVE  Keeps(h, s, u)
BY DEF Keeps

LEMMA BuildsKeep ==
    ASSUME NEW h, NEW s, Sound(h, s), NEW t, Builds(h, s, t)
    PROVE  Keeps(h, s, t)
<1>1. Builder(h, t) /\ t.schedule = s.schedule /\ t.staged = s.staged
      /\ t.first = s.first /\ t.last = s.last
  BY DEF Builds, OtherFields
<1>2. Placed(h, t)
  BY <1>1 DEF Sound, Placed
<1> QED  BY <1>1, <1>2 DEF Keeps, Sound

\* Fields that say neither are of no concern.
LEMMA OthersKeep ==
    ASSUME NEW h, NEW s, Sound(h, s), NEW t, Builder(h, t),
           \A f \in {"schedule", "staged", "first", "last"} : t[f] = s[f]
    PROVE  Keeps(h, s, t)
<1>1. t.schedule = s.schedule /\ t.staged = s.staged /\ t.first = s.first /\ t.last = s.last
  OBVIOUS
<1>2. Placed(h, t)
  BY <1>1 DEF Sound, Placed
<1> QED  BY <1>1, <1>2 DEF Keeps, Sound

\* The schedule gets longer.
LEMMA ScheduleGrows ==
    ASSUME NEW h, NEW s, Sound(h, s), NEW more \in Seq(Entries)
    PROVE  Keeps(h, s, [s EXCEPT !.schedule = @ \o more])
<1> DEFINE t == [s EXCEPT !.schedule = @ \o more]
           a == s.schedule
<1>1. /\ DOMAIN t = DOMAIN s /\ t.schedule = a \o more
      /\ \A f \in (BuilderFields \cup OtherFields) \ {"schedule"} : t[f] = s[f]
  BY DEF Sound, Builder, BuilderFields, OtherFields
<1> HIDE DEF t
<1>2. Builder(h, t)
  <2>1. \A f \in BuilderFields : t[f] = s[f]
    BY <1>1 DEF BuilderFields
  <2> QED  BY <1>1, <2>1 DEF Sound, Builder, BuilderFields
<1>3. t.staged = s.staged /\ t.first = s.first /\ t.last = s.last
  BY <1>1 DEF OtherFields
<1>4. a \in Seq(Entries)
  BY DEF Sound
<1>5. Placed(h, s) /\ IsMap(s.staged) /\ DOMAIN s.staged \subseteq Nat
  BY DEF Sound
<1> HIDE DEF a
<1>6. a \o more \in Seq(Entries)
      /\ \A i \in DOMAIN a : i \in DOMAIN (a \o more) /\ (a \o more)[i] = a[i]
  BY <1>4
<1>7. Placed(h, t)
  <2>1. \A n \in DOMAIN s.first : s.first[n] \in DOMAIN a /\ s.last[n] \in DOMAIN a
                                  /\ Stands(h, a[s.first[n]].node, n)
    BY <1>5 DEF Placed, a
  <2> QED  BY <1>1, <1>3, <1>5, <1>6, <2>1 DEF Placed
<1> QED  BY <1>1, <1>2, <1>3, <1>5, <1>6, <1>7 DEF Keeps, Sound, t

LEMMA ScheduledKeeps ==
    ASSUME NEW h, NEW s, Sound(h, s), NEW nodes \in Seq(Nodes), NEW part \in Parts
    PROVE  Keeps(h, s, Scheduled(s, nodes, part))
<1> DEFINE more == [k \in DOMAIN nodes |-> [node |-> nodes[k], part |-> part]]
<1>1. more \in Seq(Entries)
  <2>1. DOMAIN nodes = 1..Len(nodes) /\ Len(nodes) \in Nat /\ \A k \in DOMAIN nodes : nodes[k] \in Nodes
    OBVIOUS
  <2>2. \A k \in DOMAIN nodes : [node |-> nodes[k], part |-> part] \in Entries
    BY <2>1 DEF Entries
  <2> QED  BY <2>1, <2>2
<1>2. Scheduled(s, nodes, part) = [s EXCEPT !.schedule = @ \o more]
  BY DEF Scheduled
<1> HIDE DEF more
<1>3. Keeps(h, s, [s EXCEPT !.schedule = @ \o more])
  BY <1>1, ScheduleGrows
<1> QED  BY <1>2, <1>3, Zenon

LEMMA ScheduleAddedKeeps ==
    ASSUME NEW h, NEW s, Sound(h, s), NEW part \in Parts
    PROVE  Keeps(h, s, ScheduleAdded(s, part))
<1> DEFINE order == SortTopologically(s.added, ClassifiedInputs(s.added))
           nodes == [k \in DOMAIN order |-> s.added[order[k]]]
           t     == Scheduled(s, nodes, part)
           u     == [t EXCEPT !.added = <<>>]
<1>1. s.added \in Seq(Nodes)
  BY DEF Sound, Builder
<1>2. order \in Seq(DOMAIN s.added)
  <2> DEFINE added == s.added
  <2> HIDE DEF added
  <2>1. added \in Seq(Nodes)
    BY <1>1 DEF added
  <2>2. SortTopologically(added, ClassifiedInputs(added)) \in Seq(DOMAIN added)
    BY <2>1, SortAddedType
  <2> QED  BY <2>2 DEF added
<1>3. ScheduleAdded(s, part) = u
  BY DEF ScheduleAdded
<1> HIDE DEF order
<1>4. nodes \in Seq(Nodes)
  <2>1. DOMAIN order = 1..Len(order) /\ Len(order) \in Nat
        /\ \A k \in DOMAIN order : order[k] \in DOMAIN s.added
    BY <1>2
  <2>2. \A k \in DOMAIN order : s.added[order[k]] \in Nodes
    BY <1>1, <2>1
  <2> QED  BY <2>1, <2>2
<1> HIDE DEF nodes
<1>5. Keeps(h, s, t)
  BY <1>4, ScheduledKeeps
<1>6. Sound(h, t) /\ Builder(h, t)
  BY <1>5 DEF Keeps, Sound
<1> HIDE DEF t
<1>7. /\ DOMAIN u = DOMAIN t /\ u.added = <<>>
      /\ \A f \in (BuilderFields \cup OtherFields) \ {"added"} : u[f] = t[f]
  BY <1>6 DEF Builder, BuilderFields, OtherFields
<1> HIDE DEF u
<1>8. Builder(h, u)
  <2>1. /\ u.grads = t.grads /\ u.retained = t.retained /\ u.contexts = t.contexts
        /\ u.fresh = t.fresh
    BY <1>7 DEF BuilderFields
  <2>2. u.added \in Seq(Nodes)
    BY <1>7
  <2> QED  BY <1>6, <1>7, <2>1, <2>2 DEF Builder
<1>9. \A f \in {"schedule", "staged", "first", "last"} : u[f] = t[f]
  BY <1>7 DEF OtherFields
<1>10. Keeps(h, t, u)
  BY <1>6, <1>8, <1>9, OthersKeep
<1> QED  BY <1>3, <1>5, <1>10, KeepsMore

\* The outputs that were added are not values of the model.
LEMMA WithContextsKeeps ==
    ASSUME NEW h, NEW s, Sound(h, s), NEW place \in DOMAIN s.schedule
    PROVE  Keeps(h, s, WithContexts(s, place))
<1> DEFINE t == WithContexts(s, place)
           a == s.schedule
           c == [a[place].node EXCEPT !.outs = a[place].node.outs \o s.contexts]
           e == [a[place] EXCEPT !.node = c]
<1>1. /\ DOMAIN t = DOMAIN s /\ t.schedule = [a EXCEPT ![place] = e] /\ t.contexts = <<>>
      /\ \A f \in (BuilderFields \cup OtherFields) \ {"schedule", "contexts"} : t[f] = s[f]
  <2>1. t = [s EXCEPT !.schedule = [a EXCEPT ![place] = e], !.contexts = <<>>]
    BY DEF WithContexts
  <2> HIDE DEF t, e
  <2> QED  BY <2>1 DEF Sound, Builder, BuilderFields, OtherFields
<1> HIDE DEF t
<1>2. Builder(h, t)
  <2>1. /\ t.grads = s.grads /\ t.retained = s.retained /\ t.added = s.added
        /\ t.fresh = s.fresh
    BY <1>1 DEF BuilderFields
  <2>2. t.contexts \in Seq(Nat \ Values(h))
    BY <1>1
  <2> QED  BY <1>1, <2>1, <2>2 DEF Sound, Builder
<1>3. t.staged = s.staged /\ t.first = s.first /\ t.last = s.last
  BY <1>1 DEF OtherFields
<1>4. a \in Seq(Entries) /\ a[place] \in Entries /\ s.contexts \in Seq(Nat \ Values(h))
  BY DEF Sound, Builder
<1> DEFINE node == a[place].node
           outs == node.outs
           more == s.contexts
<1>5. node \in Nodes /\ outs \in Seq(Nat) /\ a[place].part \in Parts
  BY <1>4 DEF Entries, Nodes
<1>6. /\ e.node.op = node.op /\ e.node.ins = node.ins /\ e.node.outs = outs \o more
      /\ e \in Entries
  <2>1. more \in Seq(Nat)
    BY <1>4
  <2>2. outs \o more \in Seq(Nat)
    BY <1>5, <2>1
  <2>3. c \in Nodes /\ c.op = node.op /\ c.ins = node.ins /\ c.outs = outs \o more
    BY <1>5, <2>2 DEF Nodes
  <2> HIDE DEF c
  <2>5. e.node = c /\ e \in Entries
    BY <1>4, <2>3 DEF Entries
  <2> QED  BY <2>3, <2>5
<1> HIDE DEF e
<1>7. t.schedule \in Seq(Entries) /\ DOMAIN t.schedule = DOMAIN a
      /\ t.schedule[place] = e /\ \A i \in DOMAIN a : i # place => t.schedule[i] = a[i]
  <2> DEFINE d == [a EXCEPT ![place] = e]
             N == Len(a)
  <2>1. a \in [1..N -> Entries] /\ N \in Nat /\ DOMAIN a = 1..N /\ place \in 1..N
    BY <1>4
  <2> HIDE DEF a, N
  <2>2. /\ d \in [1..N -> Entries] /\ DOMAIN d = DOMAIN a
        /\ d[place] = e /\ \A i \in DOMAIN a : i # place => d[i] = a[i]
    BY <1>6, <2>1
  <2>3. t.schedule = d
    BY <1>1
  <2> HIDE DEF d
  <2>4. d \in Seq(Entries)
    BY <2>1, <2>2
  <2> QED  BY <2>2, <2>3, <2>4
<1>8. Elements(e.node.outs) \cap Values(h) = Elements(outs) \cap Values(h)
  <2>1. more \in Seq(Nat)
    BY <1>4
  <2>2. Elements(more) \cap Values(h) = {}
    BY <1>4 DEF Elements
  <2> HIDE DEF outs, more
  <2>3. Elements(outs \o more) = Elements(outs) \cup Elements(more)
    BY <1>5, <2>1, ElementsOfConcatenation
  <2> QED  BY <1>6, <2>2, <2>3
<1>9. Placed(h, s) /\ IsMap(s.staged) /\ DOMAIN s.staged \subseteq Nat
  BY DEF Sound
<1>10. Placed(h, t)
  <2> SUFFICES ASSUME NEW n \in DOMAIN s.first
               PROVE  /\ s.first[n] \in DOMAIN a /\ s.last[n] \in DOMAIN a
                      /\ Stands(h, t.schedule[s.first[n]].node, n)
    BY <1>3, <1>7, <1>9 DEF Placed
  <2>1. s.first[n] \in DOMAIN a /\ s.last[n] \in DOMAIN a /\ Stands(h, a[s.first[n]].node, n)
    BY <1>9 DEF Placed
  <2>2. CASE s.first[n] = place
    BY <1>6, <1>7, <1>8, <2>1, <2>2 DEF Stands
  <2>3. CASE s.first[n] # place
    BY <1>7, <2>1, <2>3
  <2> QED  BY <2>1, <2>2, <2>3
<1> QED  BY <1>2, <1>3, <1>7, <1>9, <1>10 DEF Keeps, Sound, t

\* Gradients are copied one after the other.
LEMMA CopiedGrads ==
    ASSUME NEW h, NEW s, Builder(h, s), NEW from, NEW to \in Seq(Nat)
    PROVE  \E m : /\ IsMap(m) /\ Elements(m) \subseteq Elements(s.grads)
                  /\ CopyGrads(s, from, to) = [s EXCEPT !.grads = m]
<1> DEFINE n == Len(to)
           E == DOMAIN s.grads \cup Elements(to)
           R == Elements(s.grads)
           X == UNION {[D -> R] : D \in SUBSET E}
           Copied(m, k) == IF from[k] \in DOMAIN m THEN WithGrad(m, to[k], m[from[k]])
                           ELSE WithoutGrad(m, to[k])
           F == [q \in X \X (1..n) |-> Copied(q[1], q[2])]
           Body(f) == [k \in 0..n |-> IF k = 0 THEN s.grads ELSE Copied(f[k - 1], k)]
           grads == CHOOSE f : f = Body(f)
<1>1. n \in Nat /\ \A k \in 1..n : to[k] \in E
  BY DEF Elements
<1>2. s.grads \in X
  <2>1. s.grads \in [DOMAIN s.grads -> R]
    BY DEF Builder, IsMap, Elements
  <2> HIDE DEF R
  <2> QED  BY <2>1
<1>3. ASSUME NEW m \in X, NEW k \in 1..n PROVE Copied(m, k) \in X
  <2> HIDE DEF R
  <2>1. PICK D \in SUBSET E : m \in [D -> R]
    OBVIOUS
  <2>2. CASE from[k] \in DOMAIN m
    <3> DEFINE x == to[k]
               y == m[from[k]]
    <3>1. x \in E /\ y \in R
      BY <1>1, <2>1, <2>2
    <3> HIDE DEF x, y, E
    <3>2. With(m, x, y) \in [D \cup {x} -> R]
      BY <2>1, <3>1 DEF With, Over
    <3>3. D \cup {x} \in SUBSET E
      BY <3>1
    <3>4. With(m, x, y) \in X
      BY <3>2, <3>3
    <3>5. Copied(m, k) = With(m, x, y)
      BY <2>2 DEF WithGrad, x, y
    <3> QED  BY <3>4, <3>5
  <2>3. CASE from[k] \notin DOMAIN m
    <3> DEFINE x == to[k]
    <3> HIDE DEF x, E
    <3>1. WithoutGrad(m, x) \in [D \ {x} -> R]
      BY <2>1 DEF WithoutGrad
    <3>2. D \ {x} \in SUBSET E
      OBVIOUS
    <3>3. WithoutGrad(m, x) \in X
      BY <3>1, <3>2
    <3>4. Copied(m, k) = WithoutGrad(m, x)
      BY <2>3 DEF x
    <3> QED  BY <3>3, <3>4
  <2> QED  BY <2>2, <2>3
<1>4. CopyGrads(s, from, to) = [s EXCEPT !.grads = grads[n]]
  BY DEF CopyGrads
<1>5. \A m \in X : IsMap(m) /\ Elements(m) \subseteq R
  <2>1. R \subseteq Nat
    BY DEF Builder, IsMap, Elements
  <2> HIDE DEF R
  <2> QED  BY <2>1 DEF IsMap, Elements
<1> HIDE DEF X, Copied, n
<1>6. F \in [X \X (1..n) -> X] /\ \A m \in X, k \in 1..n : F[<<m, k>>] = Copied(m, k)
  BY <1>3
<1> HIDE DEF F
<1>7. PICK f : f \in Recursions(X, s.grads, n, F)
  <2>1. Recursions(X, s.grads, n, F) # {}
    BY <1>1, <1>2, <1>6, RecursionUpTo, Zenon
  <2> QED  BY <2>1
<1>8. f \in [0..n -> X] /\ f[0] = s.grads /\ \A k \in 1..n : f[k] = F[<<f[k - 1], k>>]
  BY <1>7 DEF Recursions
<1>9. f = Body(f)
  <2>1. \A k \in 0..n : f[k] = Body(f)[k]
    <3> SUFFICES ASSUME NEW k \in 0..n PROVE f[k] = Body(f)[k]
      OBVIOUS
    <3>1. CASE k = 0
      BY <3>1, <1>8
    <3>2. CASE k \in 1..n
      <4>1. k - 1 \in 0..n
        BY <1>1, <3>2
      <4> QED  BY <3>2, <4>1, <1>6, <1>8
    <3> QED  BY <3>1, <3>2, <1>1
  <2>2. f = [k \in 0..n |-> f[k]] /\ Body(f) = [k \in 0..n |-> Body(f)[k]]
    BY <1>8
  <2> HIDE DEF Body
  <2> QED  BY <2>1, <2>2
<1>10. grads = Body(grads)
  <2> HIDE DEF Body
  <2> QED  BY <1>9
<1> HIDE DEF grads
<1> DEFINE T == {k \in Nat : k <= n => grads[k] \in X}
<1>11. 0 \in T
  BY <1>1, <1>2, <1>10
<1>12. ASSUME NEW k \in Nat, k \in T PROVE k + 1 \in T
  <2> SUFFICES ASSUME k + 1 <= n PROVE grads[k + 1] \in X
    OBVIOUS
  <2>1. k + 1 \in 1..n /\ k + 1 \in 0..n /\ (k + 1) - 1 = k /\ k + 1 # 0
    BY <1>1
  <2>2. grads[k + 1] = Copied(grads[k], k + 1)
    BY <1>10, <2>1
  <2>3. grads[k] \in X
    BY <1>12, <1>1
  <2> QED  BY <1>3, <2>1, <2>2, <2>3
<1>13. grads[n] \in X
  <2>1. \A k \in Nat : k \in T
    <3> HIDE DEF T
    <3> QED  BY <1>11, <1>12, Induction
  <2> QED  BY <1>1, <2>1
<1> DEFINE m == grads[n]
<1>14. IsMap(m) /\ Elements(m) \subseteq Elements(s.grads)
  BY <1>5, <1>13
<1>15. CopyGrads(s, from, to) = [s EXCEPT !.grads = m]
  BY <1>4
<1> HIDE DEF m
<1> QED  BY <1>14, <1>15

LEMMA CopyGradsKeeps ==
    ASSUME NEW h, NEW s, Sound(h, s), NEW from, NEW to \in Seq(Nat)
    PROVE  Keeps(h, s, CopyGrads(s, from, to))
<1>1. PICK m : IsMap(m) /\ CopyGrads(s, from, to) = [s EXCEPT !.grads = m]
  BY CopiedGrads DEF Sound
<1>2. Builds(h, s, [s EXCEPT !.grads = m])
  BY <1>1, GradsBuild DEF Sound
<1> DEFINE t == [s EXCEPT !.grads = m]
<1> HIDE DEF t
<1> QED  BY <1>1, <1>2, BuildsKeep DEF t

\* In two phases: the outputs get gradients, which are values of their own.
LEMMA PlaceOfElement ==
    ASSUME NEW s \in Seq(Nat), NEW x \in Elements(s)
    PROVE  Place(s, x) \in 1..Len(s) /\ s[Place(s, x)] = x
<1>1. \E k \in DOMAIN s : s[k] = x
  BY DEF Elements
<1> QED  BY <1>1 DEF Place

LEMMA NaturalOutputs ==
    ASSUME IsJob(job)
    PROVE  IsModel(g) /\ g.outputs \in Seq(Nat) /\ Elements(g.outputs) \subseteq Values(g)
<1>1. IsModel(g) /\ g.outputs \in Seq(Values(g))
  BY DEF IsJob, g
<1>2. Values(g) \subseteq Nat
  BY <1>1, ModelValues
<1> QED  BY <1>1, <1>2 DEF Elements

LEMMA AddGradInputsKeeps ==
    ASSUME IsJob(job), NEW s, Sound(g, s)
    PROVE  Keeps(g, s, AddGradInputs(s))
<1> DEFINE t == AddGradInputs(s)
           news == [v \in Elements(g.outputs) |-> s.fresh + Place(g.outputs, v)]
<1>1. /\ DOMAIN t = DOMAIN s /\ t.grads = Over(news, s.grads)
      /\ t.fresh = s.fresh + Len(g.outputs) + 1
      /\ \A f \in (BuilderFields \cup OtherFields) \ {"grads", "outGrads", "fresh"} : t[f] = s[f]
  <2>1. t = [s EXCEPT !.grads = Over(news, @), !.outGrads = news,
                      !.fresh = @ + Len(g.outputs) + 1]
    BY DEF AddGradInputs
  <2> HIDE DEF t, news
  <2> QED  BY <2>1 DEF Sound, Builder, BuilderFields, OtherFields
<1>2. IsModel(g) /\ g.outputs \in Seq(Nat) /\ Len(g.outputs) \in Nat /\ Values(g) \subseteq Nat
  BY NaturalOutputs, ModelValues
<1>3. s.fresh \in Nat /\ IsMap(s.grads) /\ \A v \in Values(g) : v < s.fresh
  BY DEF Sound, Builder
<1> HIDE DEF t
<1>4. IsMap(t.grads)
  <2>1. \A v \in Elements(g.outputs) : Place(g.outputs, v) \in Nat
    BY <1>2, PlaceOfElement
  <2>2. IsMap(news)
    BY <1>3, <2>1 DEF IsMap
  <2> DEFINE f == s.grads
  <2> HIDE DEF news, f
  <2>3. IsMap(f)
    BY <1>3 DEF f
  <2>4. IsMap(Over(news, f))
    BY <2>2, <2>3, OverType
  <2> QED  BY <1>1, <2>4 DEF f
<1> HIDE DEF news
<1>5. Builder(g, t)
  <2>1. /\ t.retained = s.retained /\ t.added = s.added /\ t.contexts = s.contexts
    BY <1>1 DEF BuilderFields
  <2>2. t.fresh \in Nat /\ \A v \in Values(g) : v < t.fresh
    BY <1>1, <1>2, <1>3
  <2>3. DOMAIN t = BuilderFields \cup OtherFields /\ IsMap(s.retained)
        /\ s.added \in Seq(Nodes) /\ s.contexts \in Seq(Nat \ Values(g))
    BY <1>1 DEF Sound, Builder
  <2> QED  BY <1>4, <2>1, <2>2, <2>3 DEF Builder
<1>6. \A f \in {"schedule", "staged", "first", "last"} : t[f] = s[f]
  BY <1>1 DEF OtherFields
<1> QED  BY <1>5, <1>6, OthersKeep DEF t

LEMMA TurnKeeps ==
    ASSUME IsJob(job), NEW s, Sound(g, s)
    PROVE  Keeps(g, s, Turn(s))
<1> DEFINE turns == job.twoPhase /\ ~s.turned /\ Elements(g.outputs) \subseteq DOMAIN s.staged
           t == AddGradInputs(s)
           u == [t EXCEPT !.turned = TRUE, !.stagedInForward = Elements(s.staged)]
<1>1. CASE turns
  <2>1. Turn(s) = u
    BY <1>1 DEF Turn
  <2>2. Keeps(g, s, t)
    BY AddGradInputsKeeps
  <2> HIDE DEF t
  <2>3. Sound(g, t)
    BY <2>2 DEF Keeps
  <2>4. /\ DOMAIN u = DOMAIN t
        /\ \A f \in (BuilderFields \cup OtherFields) \ {"turned", "stagedInForward"} : u[f] = t[f]
    BY <2>3 DEF Sound, Builder, BuilderFields, OtherFields
  <2> HIDE DEF u
  <2>5. Builder(g, u)
    <3>1. u.grads = t.grads /\ u.retained = t.retained /\ u.added = t.added
          /\ u.contexts = t.contexts /\ u.fresh = t.fresh
      BY <2>4 DEF BuilderFields, OtherFields
    <3> QED  BY <2>3, <2>4, <3>1 DEF Sound, Builder
  <2>6. \A f \in {"schedule", "staged", "first", "last"} : u[f] = t[f]
    BY <2>4 DEF OtherFields
  <2>7. Keeps(g, t, u)
    BY <2>3, <2>5, <2>6, OthersKeep
  <2> QED  BY <2>1, <2>2, <2>7, KeepsMore
<1>2. CASE ~turns
  <2>1. Turn(s) = s
    BY <1>2 DEF Turn
  <2> QED  BY <2>1 DEF Keeps
<1> QED  BY <1>1, <1>2

\* The model has an output, whose gradient is a constant, perhaps expanded.
LEMMA InitialGradientsKeep ==
    ASSUME IsJob(job), Len(g.outputs) = 1, NEW s, Sound(g, s)
    PROVE  Keeps(g, s, SetInitialGradients(s))
<1> DEFINE y == g.outputs[1]
           k1 == "Constant"
           k2 == "Shape"
           k3 == "Expand"
           c == Op(s, k1, <<>>)
           i2 == <<y>>
           d == Op(c, k2, i2)
           i3 == <<s.fresh, c.fresh>>
           e == Op(d, k3, i3)
           t == IF job.policy = "none" THEN e ELSE c
           grads == WithGrad(t.grads, y, t.fresh - 1)
           u == [t EXCEPT !.grads = grads]
<1>1. IsModel(g) /\ y \in Nat
  <2>1. IsModel(g) /\ g.outputs \in Seq(Nat)
    BY NaturalOutputs
  <2> QED  BY <2>1
<1>2. SetInitialGradients(s) = ScheduleAdded(u, "forward")
  BY DEF SetInitialGradients
<1>3. /\ k1 \in Operators \cup AddedOperators /\ k2 \in Operators \cup AddedOperators
      /\ k3 \in Operators \cup AddedOperators
  BY DEF Operators, AddedOperators
<1>4. Builder(g, s) /\ s.fresh \in Nat
  BY DEF Sound, Builder
<1> HIDE DEF k1, k2, k3, y
<1>5. <<>> \in Seq(Nat) /\ i2 \in Seq(Nat)
  BY <1>1
<1> HIDE DEF i2
<1> DEFINE i1 == <<>>
<1>6. Builds(g, s, c) /\ c.fresh = s.fresh + 1
  <2>1. i1 \in Seq(Nat) /\ c = Op(s, k1, i1)
    BY <1>5
  <2> HIDE DEF c, i1
  <2>2. Builds(g, s, Op(s, k1, i1))
    BY <1>1, <1>3, <1>4, <2>1, OpBuilds
  <2>3. Op(s, k1, i1).fresh = s.fresh + 1
    BY <1>1, <1>3, <1>4, <2>1, OpBuilds
  <2> QED  BY <2>1, <2>2, <2>3
<1> HIDE DEF c
<1>7. Builder(g, c) /\ i3 \in Seq(Nat)
  BY <1>4, <1>6 DEF Builds, Builder
<1> HIDE DEF i3
<1>8. Builds(g, c, d) /\ d.fresh = c.fresh + 1
  <2>1. Builds(g, c, Op(c, k2, i2))
    BY <1>1, <1>3, <1>5, <1>7, OpBuilds
  <2>2. Op(c, k2, i2).fresh = c.fresh + 1
    BY <1>1, <1>3, <1>5, <1>7, OpBuilds
  <2> QED  BY <2>1, <2>2
<1> HIDE DEF d
<1>9. Builder(g, d)
  BY <1>8 DEF Builds
<1>10. Builds(g, d, e) /\ e.fresh = d.fresh + 1
  <2>1. Builds(g, d, Op(d, k3, i3))
    BY <1>1, <1>3, <1>7, <1>9, OpBuilds
  <2>2. Op(d, k3, i3).fresh = d.fresh + 1
    BY <1>1, <1>3, <1>7, <1>9, OpBuilds
  <2> QED  BY <2>1, <2>2
<1> HIDE DEF e
<1>11. Builds(g, s, t) /\ t.fresh - 1 \in Nat
  <2>1. Builds(g, s, d)
    BY <1>6, <1>8, BuildsMore
  <2>2. Builds(g, s, e)
    BY <1>10, <2>1, BuildsMore
  <2>3. CASE job.policy = "none"
    BY <1>4, <1>6, <1>8, <1>10, <2>2, <2>3
  <2>4. CASE job.policy # "none"
    BY <1>4, <1>6, <2>4
  <2> QED  BY <2>3, <2>4
<1> HIDE DEF t
<1>12. Builder(g, t)
  BY <1>11 DEF Builds
<1>13. IsMap(grads)
  <2> DEFINE f == t.grads
             x == t.fresh - 1
  <2>1. IsMap(f) /\ x \in Nat
    BY <1>11, <1>12 DEF Builder
  <2> HIDE DEF f, x
  <2>2. IsMap(With(f, y, x))
    BY <2>1, WithType
  <2> QED  BY <2>2 DEF WithGrad, f, x
<1> HIDE DEF grads
<1>14. Builds(g, t, u)
  BY <1>12, <1>13, GradsBuild
<1> HIDE DEF u
<1>15. Builds(g, s, u)
  BY <1>11, <1>14, BuildsMore
<1>16. Keeps(g, s, u)
  BY <1>15, BuildsKeep
<1>17. Keeps(g, u, ScheduleAdded(u, "forward"))
  <2>1. Sound(g, u)
    BY <1>16 DEF Keeps
  <2>2. "forward" \in Parts
    BY DEF Parts
  <2> QED  BY <2>1, <2>2, ScheduleAddedKeeps
<1> QED  BY <1>2, <1>16, <1>17, KeepsMore

LEMMA OneMore ==
    ASSUME NEW X, NEW a \in Seq(X), NEW more \in Seq(X), Len(more) = 1
    PROVE  /\ a \o more \in Seq(X) /\ (a \o more)[Len(a) + 1] = more[1]
           /\ Len(a) + 1 \in DOMAIN (a \o more)
           /\ \A i \in DOMAIN a : i \in DOMAIN (a \o more) /\ (a \o more)[i] = a[i]
<1>1. Len(a) \in Nat /\ DOMAIN a = 1..Len(a) /\ a \o more \in Seq(X)
      /\ Len(a \o more) = Len(a) + 1
  <2>1. a \o more \in Seq(X) /\ Len(a \o more) = Len(a) + Len(more)
    BY Concatenation
  <2>2. Len(a) \in Nat /\ DOMAIN a = 1..Len(a)
    OBVIOUS
  <2> QED  BY <2>1, <2>2
<1>2. DOMAIN (a \o more) = 1..(Len(a) + 1)
  BY <1>1
<1>3. \A i \in 1..Len(a) : (a \o more)[i] = a[i]
  BY <1>1
<1>4. (a \o more)[Len(a) + 1] = more[1]
  BY <1>1
<1> QED  BY <1>1, <1>2, <1>3, <1>4

\* A node is placed behind the rest.
LEMMA ForwardIsSound ==
    ASSUME NEW h, NEW s, Sound(h, s), NEW n \in DOMAIN h.nodes, NEW node \in Nodes,
           NEW part \in Parts, n \notin DOMAIN s.first => Stands(h, node, n)
    PROVE  LET t == ScheduleForward(s, n, node, part)
           IN  Sound(h, t) /\ t.staged = s.staged
<1> DEFINE place == Len(s.schedule) + 1
           a == s.schedule
           more == <<[node |-> node, part |-> part]>>
           t == ScheduleForward(s, n, node, part)
           first == IF n \in DOMAIN s.first THEN s.first ELSE With(s.first, n, place)
           last == With(s.last, n, place)
<1>1. /\ DOMAIN t = DOMAIN s /\ t.schedule = a \o more /\ t.first = first /\ t.last = last
      /\ \A f \in (BuilderFields \cup OtherFields) \ {"schedule", "first", "last"} : t[f] = s[f]
  <2> DEFINE z == Scheduled(s, <<node>>, part)
  <2>1. t = [z EXCEPT !.first = IF n \in DOMAIN @ THEN @ ELSE With(@, n, place),
                      !.last = With(@, n, place)]
    BY DEF ScheduleForward
  <2>2. z = [s EXCEPT !.schedule = a \o more]
    <3>1. [k \in DOMAIN <<node>> |-> [node |-> <<node>>[k], part |-> part]] = more
      OBVIOUS
    <3> QED  BY <3>1 DEF Scheduled
  <2> HIDE DEF z, t, more
  <2>3. /\ DOMAIN z = DOMAIN s /\ z.schedule = a \o more /\ z.first = s.first /\ z.last = s.last
        /\ \A f \in (BuilderFields \cup OtherFields) \ {"schedule"} : z[f] = s[f]
    BY <2>2 DEF Sound, Builder, BuilderFields, OtherFields
  <2> QED  BY <2>1, <2>3 DEF Sound, Builder, BuilderFields, OtherFields
<1> HIDE DEF t
<1>2. Builder(h, t)
  <2>1. t.grads = s.grads /\ t.retained = s.retained /\ t.added = s.added
        /\ t.contexts = s.contexts /\ t.fresh = s.fresh
    BY <1>1 DEF BuilderFields, OtherFields
  <2> QED  BY <1>1, <2>1 DEF Sound, Builder
<1>3. t.staged = s.staged /\ IsMap(s.staged) /\ DOMAIN s.staged \subseteq Nat
  BY <1>1 DEF OtherFields, Sound
<1>4. /\ a \in Seq(Entries) /\ more \in Seq(Entries) /\ Len(more) = 1
      /\ more[1].node = node /\ place = Len(a) + 1
  BY DEF Sound, Entries
<1> HIDE DEF more
<1>5. /\ a \o more \in Seq(Entries) /\ (a \o more)[place].node = node
      /\ place \in DOMAIN (a \o more)
      /\ \A i \in DOMAIN a : i \in DOMAIN (a \o more) /\ (a \o more)[i] = a[i]
  <2> HIDE DEF a, place
  <2>1. a \in Seq(Entries) /\ more \in Seq(Entries) /\ Len(more) = 1
    BY <1>4
  <2> QED  BY <1>4, <2>1, OneMore
<1>6. Placed(h, s)
  BY DEF Sound
<1>7. /\ DOMAIN last = DOMAIN s.last \cup {n} /\ last[n] = place
      /\ \A m \in DOMAIN s.last : m # n => last[m] = s.last[m]
  BY DEF With, Over
<1>8. /\ DOMAIN first = DOMAIN s.first \cup {n}
      /\ n \notin DOMAIN s.first => first[n] = place
      /\ \A m \in DOMAIN s.first : first[m] = s.first[m]
  <2>1. CASE n \in DOMAIN s.first
    BY <2>1
  <2>2. CASE n \notin DOMAIN s.first
    BY <2>2 DEF With, Over
  <2> QED  BY <2>1, <2>2
<1> HIDE DEF first, last, a, place
<1>9. Placed(h, t)
  <2> SUFFICES ASSUME NEW m \in DOMAIN s.first \cup {n}
               PROVE  /\ first[m] \in DOMAIN (a \o more) /\ last[m] \in DOMAIN (a \o more)
                      /\ Stands(h, (a \o more)[first[m]].node, m)
    BY <1>1, <1>6, <1>7, <1>8 DEF Placed
  <2>1. \A k \in DOMAIN s.first : s.first[k] \in DOMAIN a /\ s.last[k] \in DOMAIN a
                                  /\ Stands(h, a[s.first[k]].node, k)
    BY <1>6 DEF Placed, a
  <2>2. last[m] \in DOMAIN (a \o more)
    BY <1>5, <1>6, <1>7, <2>1 DEF Placed
  <2>3. CASE m \in DOMAIN s.first
    BY <1>5, <1>8, <2>1, <2>2, <2>3
  <2>4. CASE m \notin DOMAIN s.first
    BY <1>5, <1>8, <2>2, <2>4
  <2> QED  BY <2>3, <2>4
<1> QED  BY <1>1, <1>2, <1>3, <1>5, <1>9 DEF Sound, t

\* Values of the forward graph get others that stand for them.
LEMMA MovingKeeps ==
    ASSUME NEW h, IsModel(h), NEW s, Sound(h, s), NEW vs \in Seq(Nat)
    PROVE  Keeps(h, s, MoveToBackward(s, vs))
<1> DEFINE t == MoveToBackward(s, vs)
           moved  == Elements(vs) \cap s.stagedInForward
           news   == moved \ DOMAIN s.retained
           Copy(v) == s.fresh + Place(vs, v)
           Origin(c) == CHOOSE v \in news : Copy(v) = c
           graded == {v \in news \cap Elements(g.outputs) : HasGrad(s, v)}
           r1 == [v \in news |-> Copy(v)]
           r2 == [c \in {Copy(v) : v \in news} |-> c]
           g1 == [c \in {Copy(v) : v \in graded} |-> Grad(s, Origin(c))]
<1>1. /\ DOMAIN t = DOMAIN s /\ t.retained = Over(r1, Over(r2, s.retained))
      /\ t.grads = Over(g1, s.grads) /\ t.fresh = s.fresh + Len(vs) + 1
      /\ \A f \in (BuilderFields \cup OtherFields)
                      \ {"retained", "grads", "fresh", "stagedInForward"} : t[f] = s[f]
  <2>1. t = [s EXCEPT !.stagedInForward = @ \ moved, !.retained = Over(r1, Over(r2, @)),
                      !.grads = Over(g1, @), !.fresh = @ + Len(vs) + 1]
    BY DEF MoveToBackward
  <2> HIDE DEF t, moved, r1, r2, g1
  <2> QED  BY <2>1 DEF Sound, Builder, BuilderFields, OtherFields
<1> HIDE DEF t
<1>2. s.fresh \in Nat /\ IsMap(s.grads) /\ IsMap(s.retained) /\ \A v \in Values(h) : v < s.fresh
      /\ Values(h) \subseteq Nat
  BY ModelValues DEF Sound, Builder
<1>3. \A v \in news : Place(vs, v) \in Nat /\ vs[Place(vs, v)] = v
  BY PlaceOfElement
<1>4. \A v \in news : Copy(v) \in Nat
  BY <1>2, <1>3
<1>5. \A v, w \in news : Copy(v) = Copy(w) => v = w
  <2> SUFFICES ASSUME NEW v \in news, NEW w \in news, Copy(v) = Copy(w) PROVE v = w
    OBVIOUS
  <2>1. Place(vs, v) = Place(vs, w)
    BY <1>2, <1>3
  <2> QED  BY <1>3, <2>1
<1>6. graded \subseteq news /\ \A v \in graded : v \in DOMAIN s.grads
  BY DEF HasGrad
<1> HIDE DEF news, graded, Copy
<1>7. \A v \in graded : Origin(Copy(v)) = v
  <2> SUFFICES ASSUME NEW v \in graded PROVE Origin(Copy(v)) = v
    OBVIOUS
  <2>1. \E w \in news : Copy(w) = Copy(v)
    BY <1>6
  <2> QED  BY <1>5, <1>6, <2>1
<1> HIDE DEF Origin
<1>8. IsMap(r1) /\ IsMap(r2)
  BY <1>4 DEF IsMap
<1>9. IsMap(g1)
  <2>1. ASSUME NEW c \in {Copy(v) : v \in graded} PROVE Grad(s, Origin(c)) \in Nat
    <3>1. PICK v \in graded : c = Copy(v)
      OBVIOUS
    <3>2. Origin(c) = v
      BY <1>7, <3>1
    <3> QED  BY <1>2, <1>6, <3>2 DEF Grad, IsMap
  <2> QED  BY <2>1 DEF IsMap
<1> HIDE DEF r1, r2, g1
<1>10. IsMap(t.retained)
  <2> DEFINE f == s.retained
             e == Over(r2, f)
  <2>1. IsMap(f)
    BY <1>2
  <2> HIDE DEF f
  <2>2. IsMap(e)
    BY <1>8, <2>1, OverType
  <2> HIDE DEF e
  <2>3. IsMap(Over(r1, e))
    BY <1>8, <2>2, OverType
  <2> QED  BY <1>1, <2>3 DEF e, f
<1>11. IsMap(t.grads)
  <2> DEFINE f == s.grads
  <2>1. IsMap(f)
    BY <1>2
  <2> HIDE DEF f
  <2>2. IsMap(Over(g1, f))
    BY <1>9, <2>1, OverType
  <2> QED  BY <1>1, <2>2 DEF f
<1>12. Builder(h, t)
  <2>1. t.added = s.added /\ t.contexts = s.contexts
    BY <1>1 DEF BuilderFields
  <2>2. t.fresh \in Nat /\ \A v \in Values(h) : v < t.fresh
    <3>1. Len(vs) \in Nat
      OBVIOUS
    <3> QED  BY <1>1, <1>2, <3>1
  <2>3. DOMAIN t = BuilderFields \cup OtherFields /\ s.added \in Seq(Nodes)
        /\ s.contexts \in Seq(Nat \ Values(h))
    BY <1>1 DEF Sound, Builder
  <2> QED  BY <1>10, <1>11, <2>1, <2>2, <2>3 DEF Builder
<1>13. \A f \in {"schedule", "staged", "first", "last"} : t[f] = s[f]
  BY <1>1 DEF OtherFields
<1> QED  BY <1>12, <1>13, OthersKeep DEF t

\* What is staged, and what stands for it.
LEMMA StagedType ==
    ASSUME NEW h, NEW s, Sound(h, s), NEW vs \in Seq(Nat), AllStaged(s, vs)
    PROVE  /\ GetStaged(s, vs) \in Seq(Nat) /\ Len(GetStaged(s, vs)) = Len(vs)
           /\ GetRetainedStaged(s, vs) \in Seq(Nat) /\ Len(GetRetainedStaged(s, vs)) = Len(vs)
<1>1. DOMAIN vs = 1..Len(vs) /\ Len(vs) \in Nat
  OBVIOUS
<1>2. \A k \in DOMAIN vs : s.staged[vs[k]] \in Nat
  BY DEF AllStaged, Elements, Sound, IsMap
<1> DEFINE Read(v) == IF v \in DOMAIN s.retained THEN s.retained[v] ELSE v
<1>3. \A k \in DOMAIN vs : Read(s.staged[vs[k]]) \in Nat
  BY <1>2 DEF Sound, Builder, IsMap
<1>4. GetStaged(s, vs) = [k \in DOMAIN vs |-> s.staged[vs[k]]]
  BY DEF GetStaged
<1>5. GetRetainedStaged(s, vs) = [k \in DOMAIN vs |-> Read(s.staged[vs[k]])]
  BY DEF GetRetainedStaged
<1>6. GetStaged(s, vs) \in Seq(Nat) /\ Len(GetStaged(s, vs)) = Len(vs)
  BY <1>1, <1>2, <1>4
<1> HIDE DEF Kept
<1>7. GetRetainedStaged(s, vs) \in Seq(Nat) /\ Len(GetRetainedStaged(s, vs)) = Len(vs)
  BY <1>1, <1>3, <1>5
<1> QED  BY <1>6, <1>7

\* The node of the model that stands in place is one.
LEMMA OriginalStands ==
    ASSUME IsModel(g), NEW s, Sound(g, s), NEW n \in DOMAIN s.first
    PROVE  Original(s, n) \in Nodes /\ Stands(g, Original(s, n), n) /\ n \in DOMAIN g.nodes
<1>1. /\ s.first[n] \in DOMAIN s.schedule /\ Stands(g, s.schedule[s.first[n]].node, n)
      /\ n \in DOMAIN g.nodes
  BY DEF Sound, Placed
<1>2. s.schedule[s.first[n]] \in Entries
  BY <1>1 DEF Sound
<1>3. Original(s, n) = s.schedule[s.first[n]].node
  BY DEF Original
<1> QED  BY <1>1, <1>2, <1>3 DEF Entries

\* A computation of n that reads what stands for its inputs.
LEMMA RecomputedIsSound ==
    ASSUME IsModel(g), NEW s, Sound(g, s), NEW n \in DOMAIN s.first,
           AllStaged(s, Original(s, n).ins)
    PROVE  LET t == Recomputed(s, n, Original(s, n))
           IN  /\ Sound(g, t)
               /\ DOMAIN t.staged = DOMAIN s.staged \cup Elements(Original(s, n).outs)
<1> DEFINE node  == Original(s, n)
           moved == MoveToBackward(s, GetStaged(s, node.ins))
           news  == [k \in DOMAIN node.outs |-> moved.fresh + k - 1]
           copy  == Node(node.op, GetRetainedStaged(moved, node.ins), news)
           part  == Part("backward")
           u     == ScheduleForward(moved, n, copy, part)
           t     == Recomputed(s, n, node)
           r1    == [v \in Elements(news) |-> v]
           s1    == [v \in Elements(node.outs) |-> news[Place(node.outs, v)]]
<1>1. node \in Nodes /\ n \in DOMAIN g.nodes
  BY OriginalStands
<1>2. node.ins \in Seq(Nat) /\ node.outs \in Seq(Nat) /\ node.op \in Operators \cup AddedOperators
  BY <1>1 DEF Nodes
<1>3. Keeps(g, s, moved)
  <2> DEFINE vs == GetStaged(s, node.ins)
  <2>1. vs \in Seq(Nat)
    <3> DEFINE ins == node.ins
    <3>1. ins \in Seq(Nat) /\ AllStaged(s, ins)
      BY <1>2
    <3> HIDE DEF ins
    <3>2. GetStaged(s, ins) \in Seq(Nat)
      BY <3>1, StagedType
    <3> QED  BY <3>2 DEF ins
  <2> HIDE DEF vs, node
  <2>2. Keeps(g, s, MoveToBackward(s, vs))
    BY <2>1, MovingKeeps
  <2> QED  BY <2>2 DEF vs
<1>4. t = [u EXCEPT !.retained = Over(r1, @), !.recomputed = @ \cup Elements(news),
                    !.staged = Over(s1, @), !.fresh = @ + Len(news)]
  BY DEF Recomputed
<1> HIDE DEF node, moved
<1>5. Sound(g, moved) /\ moved.fresh \in Nat /\ moved.staged = s.staged /\ moved.first = s.first
  BY <1>3 DEF Keeps, Sound, Builder
<1>6. news \in Seq(Nat) /\ Len(news) \in Nat
  <2>1. DOMAIN node.outs = 1..Len(node.outs) /\ Len(node.outs) \in Nat
    BY <1>2
  <2>2. \A k \in DOMAIN node.outs : moved.fresh + k - 1 \in Nat
    BY <1>5, <2>1
  <2> QED  BY <2>1, <2>2
<1>7. \A v \in Elements(node.outs) : news[Place(node.outs, v)] \in Nat
  <2> DEFINE outs == node.outs
  <2>1. outs \in Seq(Nat)
    BY <1>2
  <2>2. DOMAIN news = DOMAIN outs /\ DOMAIN outs = 1..Len(outs)
    BY <2>1
  <2> HIDE DEF outs, news
  <2>3. \A v \in Elements(outs) : Place(outs, v) \in 1..Len(outs)
    BY <2>1, PlaceOfElement
  <2>4. \A k \in DOMAIN news : news[k] \in Nat
    BY <1>6
  <2> QED  BY <2>2, <2>3, <2>4 DEF outs
<1> HIDE DEF news
<1>8. copy \in Nodes
  <2> DEFINE ins == GetRetainedStaged(moved, node.ins)
  <2>1. ins \in Seq(Nat)
    <3> DEFINE vs == node.ins
    <3>1. vs \in Seq(Nat) /\ AllStaged(s, vs)
      BY <1>2 DEF node
    <3> HIDE DEF vs
    <3>2. AllStaged(moved, vs)
      BY <1>5, <3>1 DEF AllStaged
    <3>3. GetRetainedStaged(moved, vs) \in Seq(Nat)
      BY <1>5, <3>1, <3>2, StagedType
    <3> QED  BY <3>3 DEF vs
  <2> HIDE DEF ins
  <2>2. Node(node.op, ins, news) \in Nodes
    BY <1>2, <1>6, <2>1 DEF Node, Nodes
  <2> QED  BY <2>2 DEF ins
<1> HIDE DEF copy
<1>9. part \in Parts
  BY DEF Part, Parts
<1> HIDE DEF part
<1>10. n \in DOMAIN moved.first
  BY <1>5
<1>11. Sound(g, u) /\ u.staged = moved.staged
  BY <1>1, <1>5, <1>8, <1>9, <1>10, ForwardIsSound
<1> HIDE DEF u
<1>12. IsMap(r1) /\ IsMap(s1)
  <2>1. \A v \in Elements(news) : v \in Nat
    BY <1>6 DEF Elements
  <2> QED  BY <1>7, <2>1 DEF IsMap
<1>13. /\ DOMAIN t = DOMAIN u /\ t.retained = Over(r1, u.retained) /\ t.staged = Over(s1, u.staged)
       /\ t.fresh = u.fresh + Len(news)
       /\ \A f \in (BuilderFields \cup OtherFields)
                      \ {"retained", "recomputed", "staged", "fresh"} : t[f] = u[f]
  <2> HIDE DEF r1, s1, t
  <2> QED  BY <1>4, <1>11 DEF Sound, Builder, BuilderFields, OtherFields
<1> HIDE DEF t
<1>14. DOMAIN s1 = Elements(node.outs)
  OBVIOUS
<1> HIDE DEF r1, s1
<1>15. IsMap(t.retained)
  <2> DEFINE f == u.retained
  <2>1. IsMap(f)
    BY <1>11 DEF Sound, Builder
  <2> HIDE DEF f
  <2>2. IsMap(Over(r1, f))
    BY <1>12, <2>1, OverType
  <2> QED  BY <1>13, <2>2 DEF f
<1>16. IsMap(t.staged) /\ DOMAIN t.staged = DOMAIN s.staged \cup Elements(node.outs)
  <2> DEFINE f == u.staged
  <2>1. IsMap(f) /\ DOMAIN f = DOMAIN s.staged
    BY <1>5, <1>11 DEF Sound
  <2>2. t.staged = Over(s1, f)
    BY <1>13
  <2> HIDE DEF f
  <2>3. IsMap(Over(s1, f))
    BY <1>12, <2>1, OverType
  <2>4. DOMAIN Over(s1, f) = DOMAIN s1 \cup DOMAIN f
    BY <1>12, <2>1, OverType
  <2> QED  BY <1>14, <2>1, <2>2, <2>3, <2>4
<1>17. Builder(g, t)
  <2>1. t.grads = u.grads /\ t.added = u.added /\ t.contexts = u.contexts
    BY <1>13 DEF BuilderFields, OtherFields
  <2>2. t.fresh \in Nat /\ \A v \in Values(g) : v < t.fresh
    <3>1. u.fresh \in Nat /\ Values(g) \subseteq Nat /\ \A v \in Values(g) : v < u.fresh
      BY <1>11, ModelValues DEF Sound, Builder
    <3> QED  BY <1>6, <1>13, <3>1
  <2>3. DOMAIN t = BuilderFields \cup OtherFields /\ IsMap(u.grads) /\ u.added \in Seq(Nodes)
        /\ u.contexts \in Seq(Nat \ Values(g))
    BY <1>11, <1>13 DEF Sound, Builder
  <2> QED  BY <1>15, <2>1, <2>2, <2>3 DEF Builder
<1>18. t.schedule = u.schedule /\ t.first = u.first /\ t.last = u.last
  BY <1>13 DEF OtherFields
<1>19. Placed(g, t) /\ t.schedule \in Seq(Entries)
  BY <1>11, <1>18 DEF Sound, Placed
<1>20. DOMAIN t.staged \subseteq Nat
  BY <1>2, <1>16 DEF Sound, Elements
<1> QED  BY <1>16, <1>17, <1>19, <1>20 DEF Sound, t, node

\* A node is computed for the first time.
LEMMA ComputedIsSound ==
    ASSUME IsModel(g), NEW s, Sound(g, s), NEW n \in DOMAIN g.nodes
    PROVE  LET node == g.nodes[n]
               t    == ScheduleForward(s, n, node, "forward")
               u    == [t EXCEPT !.staged = Over([v \in Elements(node.outs) |-> v], @)]
           IN  Sound(g, u) /\ DOMAIN u.staged = DOMAIN s.staged \cup Elements(node.outs)
<1> DEFINE node == g.nodes[n]
           part == "forward"
           t    == ScheduleForward(s, n, node, part)
           e    == [v \in Elements(node.outs) |-> v]
           u    == [t EXCEPT !.staged = Over(e, @)]
<1>1. node \in Nodes /\ part \in Parts
  BY DEF IsModel, Parts
<1>2. Stands(g, node, n)
  <2>1. Elements(node.outs) \subseteq Values(g)
    BY DEF Values, ComputedBy
  <2> QED  BY <2>1 DEF Stands
<1>3. IsMap(e) /\ DOMAIN e = Elements(node.outs) /\ DOMAIN e \subseteq Nat
  BY <1>1 DEF IsMap, Nodes, Elements
<1> HIDE DEF node, part
<1>4. Sound(g, t) /\ t.staged = s.staged
  BY <1>1, <1>2, ForwardIsSound
<1> HIDE DEF t, e
<1>5. /\ DOMAIN u = DOMAIN t /\ u.staged = Over(e, t.staged)
      /\ \A f \in (BuilderFields \cup OtherFields) \ {"staged"} : u[f] = t[f]
  BY <1>4 DEF Sound, Builder, BuilderFields, OtherFields
<1> HIDE DEF u
<1>6. IsMap(u.staged) /\ DOMAIN u.staged = DOMAIN s.staged \cup DOMAIN e
  <2> DEFINE f == t.staged
  <2>1. IsMap(f) /\ f = s.staged
    BY <1>4 DEF Sound
  <2>2. u.staged = Over(e, f)
    BY <1>5
  <2> HIDE DEF f
  <2>3. IsMap(Over(e, f))
    BY <1>3, <2>1, OverType
  <2>4. DOMAIN Over(e, f) = DOMAIN e \cup DOMAIN f
    BY <1>3, <2>1, OverType
  <2> QED  BY <2>1, <2>2, <2>3, <2>4
<1>7. Builder(g, u)
  <2>1. \A f \in BuilderFields : u[f] = t[f]
    BY <1>5 DEF BuilderFields
  <2> QED  BY <1>4, <1>5, <2>1 DEF Sound, Builder, BuilderFields
<1>8. u.schedule = t.schedule /\ u.first = t.first /\ u.last = t.last
  BY <1>5 DEF OtherFields
<1>9. Placed(g, u) /\ u.schedule \in Seq(Entries)
  BY <1>4, <1>8 DEF Sound, Placed
<1>10. DOMAIN u.staged \subseteq Nat
  BY <1>3, <1>6 DEF Sound
<1> QED  BY <1>3, <1>6, <1>7, <1>9, <1>10 DEF Sound, u, t, e, node, part

\* A value is forgotten.
LEMMA ForgottenIsSound ==
    ASSUME NEW h, NEW s, Sound(h, s), NEW v
    PROVE  Sound(h, Forgotten(s, v)) /\ DOMAIN Forgotten(s, v).staged = DOMAIN s.staged \ {v}
<1> DEFINE t == Forgotten(s, v)
           rest == [u \in DOMAIN s.staged \ {v} |-> s.staged[u]]
<1>1. /\ DOMAIN t = DOMAIN s /\ t.staged = rest
      /\ \A f \in (BuilderFields \cup OtherFields) \ {"staged", "forgotten"} : t[f] = s[f]
  BY DEF Forgotten, Sound, Builder, BuilderFields, OtherFields
<1> HIDE DEF t
<1>2. IsMap(rest) /\ DOMAIN rest = DOMAIN s.staged \ {v} /\ DOMAIN rest \subseteq Nat
  BY DEF Sound, IsMap
<1> HIDE DEF rest
<1>3. Builder(h, t)
  <2>1. \A f \in BuilderFields : t[f] = s[f]
    BY <1>1 DEF BuilderFields, OtherFields
  <2> QED  BY <1>1, <2>1 DEF Sound, Builder, BuilderFields
<1>4. t.schedule = s.schedule /\ t.first = s.first /\ t.last = s.last
  BY <1>1 DEF OtherFields
<1>5. Placed(h, t) /\ t.schedule \in Seq(Entries)
  BY <1>4 DEF Sound, Placed
<1> QED  BY <1>1, <1>2, <1>3, <1>5 DEF Sound, t

\* The operators have the inputs they take.
LEMMA JobsFit ==
    ASSUME IsJob(job), NEW n \in DOMAIN g.nodes
    PROVE  /\ g.nodes[n] \in Nodes /\ g.nodes[n].op \in Operators
           /\ Len(g.nodes[n].ins) = IF g.nodes[n].op \in {"Add", "Mul"} THEN 2 ELSE 1
           /\ Elements(g.nodes[n].outs) # {}
<1>1. IsModel(g) /\ g.nodes[n].op \in Operators
      /\ Len(g.nodes[n].ins) = IF g.nodes[n].op \in {"Add", "Mul"} THEN 2 ELSE 1
  BY DEF IsJob, g
<1>2. g.nodes[n] \in Nodes /\ g.nodes[n].outs # <<>>
  BY <1>1 DEF IsModel
<1>3. Elements(g.nodes[n].outs) # {}
  <2> DEFINE outs == g.nodes[n].outs
  <2>1. outs \in Seq(Nat) /\ outs # <<>>
    BY <1>2 DEF Nodes
  <2> HIDE DEF outs
  <2>2. 1 \in DOMAIN outs
    BY <2>1
  <2>3. outs[1] \in Elements(outs)
    BY <2>2 DEF Elements
  <2> QED  BY <2>3 DEF outs
<1> QED  BY <1>1, <1>2, <1>3

\* The gradients of a node that has been computed, from what is staged.
LEMMA GradientsAreSound ==
    ASSUME IsJob(job), NEW s, Sound(g, s), NEW n \in DOMAIN s.first,
           AllStaged(s, Original(s, n).ins), AllStaged(s, Original(s, n).outs)
    PROVE  Keeps(g, s, GradientsOf(s, n))
<1> DEFINE place    == s.last[n]
           original == Original(s, n)
           node     == s.schedule[place].node
           own      == place = s.first[n]
           keep     == job.twoPhase /\ own
           Staged(vs) == IF keep THEN GetStaged(s, vs) ELSE GetRetainedStaged(s, vs)
           c1       == CopyGrads(s, original.ins, node.ins)
           begun    == IF own THEN s ELSE CopyGrads(c1, original.outs, node.outs)
           x        == Staged(original.ins)
           y        == Staged(original.outs)
           added    == AddGradientForNode(begun, keep, original.op, x, y)
           with     == WithContexts(added, place)
           back     == CopyGrads(with, x, original.ins)
           part     == Part("backward")
<1>1. GradientsOf(s, n) = ScheduleAdded(back, part)
  BY DEF GradientsOf
<1>2. /\ IsModel(g) /\ keep \in BOOLEAN /\ part \in Parts
      /\ place \in DOMAIN s.schedule /\ node \in Nodes
  <2>1. IsModel(g) /\ job.twoPhase \in BOOLEAN
    BY DEF IsJob, g
  <2>2. s.last[n] \in DOMAIN s.schedule /\ s.schedule \in Seq(Entries)
    BY DEF Sound, Placed
  <2>3. s.schedule[s.last[n]] \in Entries
    BY <2>2
  <2> QED  BY <2>1, <2>2, <2>3 DEF Part, Parts, Entries
<1>3. original \in Nodes /\ Stands(g, original, n) /\ n \in DOMAIN g.nodes
  BY <1>2, OriginalStands
<1>4. original.ins \in Seq(Nat) /\ original.outs \in Seq(Nat)
      /\ node.ins \in Seq(Nat) /\ node.outs \in Seq(Nat)
  BY <1>2, <1>3 DEF Nodes
<1>5. /\ original.op \in Operators
      /\ Len(original.ins) = IF original.op \in {"Add", "Mul"} THEN 2 ELSE 1
      /\ original.outs # <<>>
  <2>1. original.op = g.nodes[n].op /\ original.ins = g.nodes[n].ins
        /\ Elements(g.nodes[n].outs) \subseteq Elements(original.outs)
    BY <1>3 DEF Stands
  <2>2. Elements(original.outs) # {}
    BY <1>3, <2>1, JobsFit
  <2>3. original.outs # <<>>
    BY <2>2 DEF Elements
  <2> QED  BY <1>3, <2>1, <2>3, JobsFit
<1>6. AllStaged(s, original.ins) /\ AllStaged(s, original.outs)
  OBVIOUS
<1>7. \A vs \in Seq(Nat) : AllStaged(s, vs) => Staged(vs) \in Seq(Nat) /\ Len(Staged(vs)) = Len(vs)
  <2> SUFFICES ASSUME NEW vs \in Seq(Nat), AllStaged(s, vs)
               PROVE  Staged(vs) \in Seq(Nat) /\ Len(Staged(vs)) = Len(vs)
    OBVIOUS
  <2>1. GetStaged(s, vs) \in Seq(Nat) /\ Len(GetStaged(s, vs)) = Len(vs)
    BY StagedType
  <2>2. GetRetainedStaged(s, vs) \in Seq(Nat) /\ Len(GetRetainedStaged(s, vs)) = Len(vs)
    BY StagedType
  <2> HIDE DEF keep
  <2> QED  BY <2>1, <2>2
<1> DEFINE ins  == original.ins
           outs == original.outs
           op   == original.op
<1>8. ins \in Seq(Nat) /\ outs \in Seq(Nat) /\ AllStaged(s, ins) /\ AllStaged(s, outs)
  BY <1>4, <1>6
<1>9. x \in Seq(Nat) /\ y \in Seq(Nat) /\ Len(x) = Len(ins) /\ Len(y) = Len(outs)
  <2>1. x = Staged(ins) /\ y = Staged(outs)
    OBVIOUS
  <2> HIDE DEF Staged, ins, outs, x, y
  <2> QED  BY <1>7, <1>8, <2>1
<1>10. op \in Operators /\ Len(ins) = (IF op \in {"Add", "Mul"} THEN 2 ELSE 1) /\ outs # <<>>
  BY <1>5
<1> HIDE DEF Staged, x, y
<1>11. Fits(op, x, y)
  <2> HIDE DEF op, ins, outs
  <2>1. Len(outs) # 0
    BY <1>8, <1>10
  <2>2. y # <<>>
    BY <1>9, <2>1
  <2> QED  BY <1>9, <1>10, <2>2 DEF Fits
<1>12. Keeps(g, s, begun)
  <2>1. CASE own
    BY <2>1 DEF Keeps
  <2>2. CASE ~own
    <3> DEFINE i == node.ins
               o == node.outs
    <3>1. i \in Seq(Nat) /\ o \in Seq(Nat)
      BY <1>4
    <3>2. begun = CopyGrads(c1, outs, o) /\ c1 = CopyGrads(s, ins, i)
      BY <2>2
    <3> HIDE DEF i, o, ins, outs, begun, c1
    <3>3. Keeps(g, s, CopyGrads(s, ins, i))
      BY <3>1, CopyGradsKeeps
    <3>4. Sound(g, c1)
      BY <3>2, <3>3 DEF Keeps
    <3>5. Keeps(g, c1, CopyGrads(c1, outs, o))
      BY <3>1, <3>4, CopyGradsKeeps
    <3> QED  BY <3>2, <3>3, <3>5, KeepsMore
  <2> QED  BY <2>1, <2>2
<1>13. added = AddGradientForNode(begun, keep, op, x, y)
  OBVIOUS
<1>14. back = CopyGrads(with, x, ins)
  OBVIOUS
<1> HIDE DEF begun, keep, op, ins, added, back, part
<1>15. Keeps(g, begun, added)
  <2>1. Sound(g, begun) /\ Builder(g, begun)
    BY <1>12 DEF Keeps, Sound
  <2>2. Builds(g, begun, AddGradientForNode(begun, keep, op, x, y))
    BY <1>2, <1>11, <2>1, GradientBuilds
  <2> QED  BY <1>13, <2>1, <2>2, BuildsKeep
<1>16. Keeps(g, s, added)
  BY <1>12, <1>15, KeepsMore
<1>17. Sound(g, added) /\ place \in DOMAIN added.schedule
  <2>1. Sound(g, added) /\ added.last = s.last /\ n \in DOMAIN added.first
    BY <1>16 DEF Keeps
  <2> QED  BY <2>1 DEF Sound, Placed
<1> HIDE DEF place, with
<1>18. Keeps(g, added, with)
  <2>1. Keeps(g, added, WithContexts(added, place))
    BY <1>17, WithContextsKeeps
  <2> QED  BY <2>1 DEF with
<1>19. Sound(g, with)
  BY <1>18 DEF Keeps
<1>20. Keeps(g, with, back)
  <2>1. ins \in Seq(Nat)
    BY <1>8
  <2>2. Keeps(g, with, CopyGrads(with, x, ins))
    BY <1>19, <2>1, CopyGradsKeeps
  <2> QED  BY <1>14, <2>2
<1>21. Sound(g, back)
  BY <1>20 DEF Keeps
<1>22. Keeps(g, back, ScheduleAdded(back, part))
  BY <1>2, <1>21, ScheduleAddedKeeps
<1>23. Keeps(g, s, with)
  BY <1>16, <1>18, KeepsMore
<1>24. Keeps(g, s, back)
  BY <1>20, <1>23, KeepsMore
<1> QED  BY <1>1, <1>22, <1>24, KeepsMore

\* Without a policy: the node has its place.
LEMMA AddedGradientIsSound ==
    ASSUME IsJob(job), NEW s, Sound(g, s), NEW n \in DOMAIN s.first
    PROVE  LET node  == Original(s, n)
               added == AddGradientForNode(s, job.twoPhase, node.op, node.ins, node.outs)
           IN  Keeps(g, s, ScheduleAdded(WithContexts(added, s.first[n]), Part("backward")))
<1> DEFINE node  == Original(s, n)
           op    == node.op
           x     == node.ins
           y     == node.outs
           keep  == job.twoPhase
           place == s.first[n]
           added == AddGradientForNode(s, keep, op, x, y)
           with  == WithContexts(added, place)
           part  == Part("backward")
<1>1. IsModel(g) /\ keep \in BOOLEAN /\ part \in Parts
  BY DEF IsJob, g, Part, Parts
<1>2. node \in Nodes /\ Stands(g, node, n) /\ n \in DOMAIN g.nodes
  BY <1>1, OriginalStands
<1>3. Fits(op, x, y)
  <2>1. op = g.nodes[n].op /\ x = g.nodes[n].ins
        /\ Elements(g.nodes[n].outs) \subseteq Elements(y)
    BY <1>2 DEF Stands
  <2>2. Elements(y) # {}
    BY <1>2, <2>1, JobsFit
  <2>3. y # <<>>
    BY <2>2 DEF Elements
  <2>4. x \in Seq(Nat) /\ y \in Seq(Nat)
    BY <1>2 DEF Nodes
  <2>5. op \in Operators /\ Len(x) = IF op \in {"Add", "Mul"} THEN 2 ELSE 1
    BY <1>2, <2>1, JobsFit
  <2> QED  BY <2>3, <2>4, <2>5 DEF Fits
<1> HIDE DEF op, x, y, keep, part
<1>4. Keeps(g, s, added)
  <2>1. Builder(g, s)
    BY DEF Sound
  <2>2. Builds(g, s, AddGradientForNode(s, keep, op, x, y))
    BY <1>1, <1>3, <2>1, GradientBuilds
  <2> QED  BY <2>2, BuildsKeep
<1>5. Sound(g, added) /\ place \in DOMAIN added.schedule
  <2>1. Sound(g, added) /\ added.first = s.first
    BY <1>4 DEF Keeps
  <2> QED  BY <2>1 DEF Sound, Placed
<1> HIDE DEF added, place
<1>6. Keeps(g, added, with)
  BY <1>5, WithContextsKeeps
<1> HIDE DEF with
<1>7. Keeps(g, with, ScheduleAdded(with, part))
  <2>1. Sound(g, with)
    BY <1>6 DEF Keeps
  <2> QED  BY <1>1, <2>1, ScheduleAddedKeeps
<1>8. Keeps(g, s, with)
  BY <1>4, <1>6, KeepsMore
<1>9. Keeps(g, s, ScheduleAdded(with, part))
  BY <1>7, <1>8, KeepsMore
<1> QED  BY <1>9 DEF with, added, place, part, keep, op, x, y

\* Without a policy all nodes are placed first.
LEMMA AllForwardIsSound ==
    ASSUME IsModel(g), NEW s, Sound(g, s)
    PROVE  Sound(g, AllForward(s)) /\ DOMAIN AllForward(s).first = DOMAIN g.nodes
<1> DEFINE sorted == GetTopologicallySortedNodes(g)
           nodes  == [k \in DOMAIN sorted |-> g.nodes[sorted[k]]]
           places == [n \in Elements(sorted) |-> Len(s.schedule) + Place(sorted, n)]
           e == [v \in ComputedBy(nodes) |-> v]
           a == s.schedule
           part == "forward"
           t == Scheduled(s, nodes, part)
           u == AllForward(s)
           more == [k \in DOMAIN nodes |-> [node |-> nodes[k], part |-> part]]
<1>1. /\ sorted \in Seq(DOMAIN g.nodes) /\ Elements(sorted) = DOMAIN g.nodes
      /\ g.nodes \in Seq(Nodes)
  BY ModelOrder DEF IsModel
<1>2. u = [t EXCEPT !.first = places, !.last = places, !.staged = Over(e, @)]
  BY DEF AllForward
<1> HIDE DEF u
<1>3. \A n \in DOMAIN g.nodes : /\ Place(sorted, n) \in 1..Len(sorted)
                                /\ sorted[Place(sorted, n)] = n
  <2> DEFINE Y == DOMAIN g.nodes
  <2>1. sorted \in Seq(Nat) /\ Elements(sorted) = Y
    <3>1. DOMAIN g.nodes \subseteq Nat
      BY <1>1
    <3> HIDE DEF sorted
    <3> QED  BY <1>1, <3>1
  <2> HIDE DEF Y, sorted
  <2>2. \A n \in Elements(sorted) : /\ Place(sorted, n) \in 1..Len(sorted)
                                    /\ sorted[Place(sorted, n)] = n
    BY <2>1, PlaceOfElement
  <2> QED  BY <2>1, <2>2 DEF Y
<1> HIDE DEF sorted
<1>4. /\ DOMAIN sorted = 1..Len(sorted) /\ Len(sorted) \in Nat
      /\ \A k \in 1..Len(sorted) : sorted[k] \in DOMAIN g.nodes /\ g.nodes[sorted[k]] \in Nodes
  BY <1>1
<1>5. nodes \in Seq(Nodes) /\ Len(nodes) = Len(sorted)
      /\ \A k \in 1..Len(sorted) : nodes[k] = g.nodes[sorted[k]]
  BY <1>4
<1> HIDE DEF nodes
<1>6. more \in Seq(Entries) /\ Len(more) = Len(sorted)
      /\ \A k \in 1..Len(sorted) : more[k].node = g.nodes[sorted[k]]
  <2>1. DOMAIN nodes = 1..Len(nodes) /\ \A k \in DOMAIN nodes : nodes[k] \in Nodes
    BY <1>5
  <2>2. \A k \in DOMAIN nodes : [node |-> nodes[k], part |-> part] \in Entries
    BY <2>1 DEF Entries, Parts
  <2> QED  BY <1>4, <1>5, <2>1, <2>2
<1>7. Keeps(g, s, t) /\ t.schedule = a \o more
  <2>1. part \in Parts
    BY DEF Parts
  <2> HIDE DEF part
  <2>2. Keeps(g, s, Scheduled(s, nodes, part))
    BY <1>5, <2>1, ScheduledKeeps
  <2>3. Scheduled(s, nodes, part).schedule
            = s.schedule \o [k \in DOMAIN nodes |-> [node |-> nodes[k], part |-> part]]
    BY DEF Scheduled, Sound, Builder, OtherFields
  <2> QED  BY <2>2, <2>3
<1> HIDE DEF t, more
<1>8. Sound(g, t) /\ t.staged = s.staged /\ IsMap(s.staged) /\ DOMAIN s.staged \subseteq Nat /\ a \in Seq(Entries)
  BY <1>7 DEF Keeps, Sound
<1> HIDE DEF a, e
<1>9. /\ DOMAIN u = DOMAIN t /\ u.first = places /\ u.last = places /\ u.staged = Over(e, t.staged)
      /\ \A f \in (BuilderFields \cup OtherFields) \ {"first", "last", "staged"} : u[f] = t[f]
  <2> HIDE DEF places
  <2> QED  BY <1>2, <1>8 DEF Sound, Builder, BuilderFields, OtherFields
<1>10. Builder(g, u)
  <2>1. \A f \in BuilderFields : u[f] = t[f]
    BY <1>9 DEF BuilderFields, OtherFields
  <2> QED  BY <1>8, <1>9, <2>1 DEF Sound, Builder, BuilderFields
<1>11. IsMap(u.staged) /\ DOMAIN u.staged \subseteq Nat
  <2>1. IsMap(e) /\ DOMAIN e \subseteq Nat
    <3>1. ComputedBy(nodes) \subseteq Nat
      <4>1. \A i \in DOMAIN nodes : nodes[i].outs \in Seq(Nat)
        BY <1>5, DomainOfNodes
      <4> QED  BY <4>1 DEF ComputedBy, Elements
    <3>2. DOMAIN e = ComputedBy(nodes) /\ \A v \in ComputedBy(nodes) : e[v] = v
      BY DEF e
    <3>3. IsMap(e)
      BY <3>1 DEF e, IsMap
    <3> QED  BY <3>1, <3>2, <3>3
  <2> DEFINE f == t.staged
  <2>2. IsMap(f) /\ DOMAIN f \subseteq Nat /\ u.staged = Over(e, f)
    BY <1>8, <1>9
  <2> HIDE DEF f
  <2>3. IsMap(Over(e, f))
    BY <2>1, <2>2, OverType
  <2>4. DOMAIN Over(e, f) = DOMAIN e \cup DOMAIN f
    BY <2>1, <2>2, OverType
  <2> QED  BY <2>1, <2>2, <2>3, <2>4
<1>12. u.schedule = a \o more
  BY <1>7, <1>9 DEF OtherFields
<1>13. /\ a \o more \in Seq(Entries)
       /\ \A i \in 1..Len(sorted) : Len(a) + i \in DOMAIN (a \o more)
                                    /\ (a \o more)[Len(a) + i] = more[i]
  <2>1. a \o more \in Seq(Entries)
    BY <1>6, <1>8, Concatenation
  <2>2. \A i \in 1..Len(more) : Len(a) + i \in 1..Len(a \o more) /\ (a \o more)[Len(a) + i] = more[i]
    BY <1>6, <1>8, Concatenation
  <2>3. DOMAIN (a \o more) = 1..Len(a \o more)
    BY <2>1
  <2> QED  BY <1>6, <2>1, <2>2, <2>3
<1>14. DOMAIN places = DOMAIN g.nodes /\ \A n \in DOMAIN g.nodes : places[n] = Len(a) + Place(sorted, n)
  BY <1>1 DEF a
<1> HIDE DEF places
<1>15. Placed(g, u)
  <2>1. ASSUME NEW n \in DOMAIN g.nodes
        PROVE  /\ places[n] \in DOMAIN (a \o more) /\ Stands(g, (a \o more)[places[n]].node, n)
    <3> DEFINE k == Place(sorted, n)
    <3>1. k \in 1..Len(sorted) /\ sorted[k] = n /\ places[n] = Len(a) + k
      BY <1>3, <1>14
    <3> HIDE DEF k
    <3>2. places[n] \in DOMAIN (a \o more) /\ (a \o more)[places[n]].node = g.nodes[n]
      BY <1>6, <1>13, <3>1
    <3>3. Elements(g.nodes[n].outs) \subseteq Values(g)
      BY DEF Values, ComputedBy
    <3> QED  BY <3>2, <3>3 DEF Stands
  <2> QED  BY <1>9, <1>12, <1>14, <2>1 DEF Placed
<1>16. Sound(g, u)
  BY <1>10, <1>11, <1>12, <1>13, <1>15 DEF Sound
<1> QED  BY <1>9, <1>14, <1>16 DEF u
-----------------------------------------------------------------------------
(* The orders that have been carried out.                                  *)

\* The gradients of n may be taken now.
NextInTurn(h, done, n) ==
    /\ n \notin Taken(done)
    /\ \A m \in NecessaryNodes(h) : Feeds(h, n, m) => m \in Taken(done)

\* What was computed is held or has been forgotten since, and nothing is
\* computed twice without having been forgotten.
Remembers(h, done, held) ==
    \A i \in DOMAIN done : \A n \in DOMAIN h.nodes : \A v \in Elements(h.nodes[n].outs) :
        IsForward(done[i], n) =>
            /\ v \in held \/ \E f \in DOMAIN done : i < f /\ IsForget(done[f], v)
            /\ \A k \in DOMAIN done : i < k /\ IsForward(done[k], n) =>
                  \E f \in DOMAIN done : i < f /\ f < k /\ IsForget(done[f], v)

LEMMA Appended ==
    ASSUME NEW X, NEW s \in Seq(X), NEW x \in X
    PROVE  /\ Append(s, x) \in Seq(X) /\ DOMAIN s = 1..Len(s) /\ Len(s) \in Nat
           /\ DOMAIN Append(s, x) = 1..(Len(s) + 1)
           /\ Append(s, x)[Len(s) + 1] = x
           /\ \A i \in DOMAIN s : Append(s, x)[i] = s[i]
OBVIOUS

\* It stays so when a node is computed whose outputs are not held, ...
LEMMA RemembersForward ==
    ASSUME NEW h, NEW done \in Seq(Orders(h)), NEW held, Remembers(h, done, held),
           NEW o \in Orders(h), o.kind = "ComputeForward",
           NEW more, Elements(h.nodes[o.node].outs) \subseteq more,
           Elements(h.nodes[o.node].outs) \cap held = {}
    PROVE  Remembers(h, Append(done, o), held \cup more)
<1> DEFINE ds == Append(done, o)
           last == Len(done) + 1
<1>1. /\ DOMAIN done = 1..Len(done) /\ Len(done) \in Nat /\ DOMAIN ds = 1..last
      /\ ds[last] = o /\ \A i \in DOMAIN done : ds[i] = done[i]
  BY Appended
<1> HIDE DEF ds
<1>2. ASSUME NEW i \in DOMAIN ds, NEW n \in DOMAIN h.nodes, NEW v \in Elements(h.nodes[n].outs),
             IsForward(ds[i], n)
      PROVE  /\ v \in held \cup more \/ \E f \in DOMAIN ds : i < f /\ IsForget(ds[f], v)
             /\ \A k \in DOMAIN ds : i < k /\ IsForward(ds[k], n) =>
                   \E f \in DOMAIN ds : i < f /\ f < k /\ IsForget(ds[f], v)
  <2>1. CASE i = last
    <3>1. v \in more
      BY <1>1, <1>2, <2>1 DEF IsForward
    <3>2. \A k \in DOMAIN ds : ~(i < k)
      BY <1>1, <2>1
    <3> QED  BY <3>1, <3>2
  <2>2. CASE i \in DOMAIN done
    <3>1. IsForward(done[i], n)
      BY <1>1, <1>2, <2>2
    <3>2. v \in held \/ \E f \in DOMAIN done : i < f /\ IsForget(done[f], v)
      BY <2>2, <3>1 DEF Remembers
    <3>3. \A k \in DOMAIN done : i < k /\ IsForward(done[k], n) =>
              \E f \in DOMAIN done : i < f /\ f < k /\ IsForget(done[f], v)
      BY <2>2, <3>1 DEF Remembers
    <3>4. \A f \in DOMAIN done : f \in DOMAIN ds /\ f < last /\ ds[f] = done[f]
      BY <1>1
    <3>5. v \in held \cup more \/ \E f \in DOMAIN ds : i < f /\ IsForget(ds[f], v)
      BY <3>2, <3>4
    <3>6. ASSUME NEW k \in DOMAIN ds, i < k, IsForward(ds[k], n)
          PROVE  \E f \in DOMAIN ds : i < f /\ f < k /\ IsForget(ds[f], v)
      <4>1. CASE k = last
        <5>1. o.node = n
          BY <1>1, <3>6, <4>1 DEF IsForward
        <5>2. v \notin held
          BY <5>1
        <5> QED  BY <3>2, <3>4, <4>1, <5>2
      <4>2. CASE k \in DOMAIN done
        BY <3>3, <3>4, <3>6, <4>2
      <4> QED  BY <1>1, <4>1, <4>2
    <3> QED  BY <3>5, <3>6
  <2> QED  BY <1>1, <2>1, <2>2
<1>3. Remembers(h, ds, held \cup more)
  BY <1>2 DEF Remembers
<1> QED  BY <1>3 DEF ds

\* ... and when another order is carried out that gives up what it says.
LEMMA RemembersOthers ==
    ASSUME NEW h, NEW done \in Seq(Orders(h)), NEW held, Remembers(h, done, held),
           NEW o \in Orders(h), o.kind # "ComputeForward",
           NEW rest, \A v \in held : v \in rest \/ IsForget(o, v)
    PROVE  Remembers(h, Append(done, o), rest)
<1> DEFINE ds == Append(done, o)
           last == Len(done) + 1
<1>1. /\ DOMAIN done = 1..Len(done) /\ Len(done) \in Nat /\ DOMAIN ds = 1..last
      /\ ds[last] = o /\ \A i \in DOMAIN done : ds[i] = done[i]
  BY Appended
<1> HIDE DEF ds
<1>2. \A n : ~IsForward(ds[last], n)
  BY <1>1 DEF IsForward
<1>3. ASSUME NEW i \in DOMAIN ds, NEW n \in DOMAIN h.nodes, NEW v \in Elements(h.nodes[n].outs),
             IsForward(ds[i], n)
      PROVE  /\ v \in rest \/ \E f \in DOMAIN ds : i < f /\ IsForget(ds[f], v)
             /\ \A k \in DOMAIN ds : i < k /\ IsForward(ds[k], n) =>
                   \E f \in DOMAIN ds : i < f /\ f < k /\ IsForget(ds[f], v)
  <2>1. i \in DOMAIN done
    BY <1>1, <1>2, <1>3
  <2>2. IsForward(done[i], n)
    BY <1>1, <1>3, <2>1
  <2>3. v \in held \/ \E f \in DOMAIN done : i < f /\ IsForget(done[f], v)
    BY <2>1, <2>2 DEF Remembers
  <2>4. \A k \in DOMAIN done : i < k /\ IsForward(done[k], n) =>
            \E f \in DOMAIN done : i < f /\ f < k /\ IsForget(done[f], v)
    BY <2>1, <2>2 DEF Remembers
  <2>5. \A f \in DOMAIN done : f \in DOMAIN ds /\ f < last /\ ds[f] = done[f]
    BY <1>1
  <2>6. v \in rest \/ \E f \in DOMAIN ds : i < f /\ IsForget(ds[f], v)
    <3>1. CASE v \in held
      <4>1. v \in rest \/ IsForget(ds[last], v)
        BY <1>1, <3>1
      <4>2. last \in DOMAIN ds /\ i < last
        BY <1>1, <2>1
      <4> QED  BY <4>1, <4>2
    <3>2. CASE v \notin held
      BY <2>3, <2>5, <3>2
    <3> QED  BY <3>1, <3>2
  <2>7. ASSUME NEW k \in DOMAIN ds, i < k, IsForward(ds[k], n)
        PROVE  \E f \in DOMAIN ds : i < f /\ f < k /\ IsForget(ds[f], v)
    <3>1. k \in DOMAIN done
      BY <1>1, <1>2, <2>7
    <3> QED  BY <2>4, <2>5, <2>7, <3>1
  <2> QED  BY <2>6, <2>7
<1>4. Remembers(h, ds, rest)
  BY <1>3 DEF Remembers
<1> QED  BY <1>4 DEF ds

\* What has been carried out, and the node of which gradients were taken.
LEMMA TakenMore ==
    ASSUME NEW h, NEW done \in Seq(Orders(h)), NEW o \in Orders(h)
    PROVE  Taken(Append(done, o)) =
               IF o.kind = "ComputeBackward" THEN Taken(done) \cup {o.node} ELSE Taken(done)
<1> DEFINE ds == Append(done, o)
           last == Len(done) + 1
<1>1. /\ DOMAIN done = 1..Len(done) /\ Len(done) \in Nat /\ DOMAIN ds = 1..last
      /\ ds[last] = o /\ \A i \in DOMAIN done : ds[i] = done[i]
  BY Appended
<1> HIDE DEF ds
<1>2. \A i \in DOMAIN ds : i = last \/ i \in DOMAIN done
  BY <1>1
<1>3. ASSUME NEW x \in Taken(done) PROVE x \in Taken(ds)
  <2>1. PICK i \in DOMAIN done : done[i].kind = "ComputeBackward" /\ x = done[i].node
    BY DEF Taken
  <2>2. i \in DOMAIN ds /\ ds[i] = done[i]
    BY <1>1
  <2> QED  BY <2>1, <2>2 DEF Taken
<1>4. ASSUME NEW x \in Taken(ds)
      PROVE  x \in Taken(done) \/ (o.kind = "ComputeBackward" /\ x = o.node)
  <2>1. PICK i \in DOMAIN ds : ds[i].kind = "ComputeBackward" /\ x = ds[i].node
    BY DEF Taken
  <2>2. CASE i = last
    BY <1>1, <2>1, <2>2
  <2>3. CASE i \in DOMAIN done
    BY <1>1, <2>1, <2>3 DEF Taken
  <2> QED  BY <1>2, <2>2, <2>3
<1>5. o.kind = "ComputeBackward" => o.node \in Taken(ds)
  <2>1. last \in DOMAIN ds
    BY <1>1
  <2> QED  BY <1>1, <2>1 DEF Taken
<1>6. CASE o.kind = "ComputeBackward"
  BY <1>3, <1>4, <1>5, <1>6 DEF ds
<1>7. CASE o.kind # "ComputeBackward"
  BY <1>3, <1>4, <1>7 DEF ds
<1> QED  BY <1>6, <1>7

\* What is left of proper orders goes on in turn.
LEMMA ProperGoesOn ==
    ASSUME NEW h, NEW done \in Seq(Orders(h)), NEW os \in Seq(Orders(h)), os # <<>>,
           Proper(h, done \o os), NEW held, Remembers(h, done, held),
           Head(os).kind = "ComputeBackward"
    PROVE  NextInTurn(h, done, Head(os).node)
<1> DEFINE all == done \o os
           p   == Len(done) + 1
<1>1. /\ Len(done) \in Nat /\ DOMAIN done = 1..Len(done) /\ DOMAIN os = 1..Len(os)
      /\ Len(os) \in Nat /\ Len(os) >= 1 /\ Head(os) = os[1]
      /\ DOMAIN all = 1..Len(all)
  OBVIOUS
<1>2. \A i \in 1..Len(done) : i \in 1..Len(all) /\ all[i] = done[i]
  BY Concatenation
<1>3. p \in DOMAIN all /\ all[p] = Head(os)
  <2>1. \A i \in 1..Len(os) : Len(done) + i \in 1..Len(all) /\ all[Len(done) + i] = os[i]
    BY Concatenation
  <2>2. 1 \in 1..Len(os)
    BY <1>1
  <2> QED  BY <1>1, <2>1, <2>2
<1> HIDE DEF all
<1>4. ~ComputedTwice(h, all, p)
  <2> SUFFICES ASSUME NEW i \in DOMAIN all, NEW k \in DOMAIN all, NEW n \in DOMAIN h.nodes,
                      NEW v \in Elements(h.nodes[n].outs), i < k, k < p,
                      IsForward(all[i], n), IsForward(all[k], n),
                      \A f \in DOMAIN all : i < f /\ f < k => ~IsForget(all[f], v)
               PROVE  FALSE
    BY DEF ComputedTwice
  <2>1. i \in DOMAIN done /\ k \in DOMAIN done
    BY <1>1
  <2>2. IsForward(done[i], n) /\ IsForward(done[k], n)
    BY <1>1, <1>2, <2>1
  <2>3. PICK f \in DOMAIN done : i < f /\ f < k /\ IsForget(done[f], v)
    BY <2>1, <2>2 DEF Remembers
  <2>4. f \in DOMAIN all /\ all[f] = done[f]
    BY <1>1, <1>2
  <2> QED  BY <2>3, <2>4
<1>5. InTurn(h, all, p)
  BY <1>3, <1>4 DEF Proper, all
<1>6. Head(os).node \notin Taken(done)
  <2> SUFFICES ASSUME NEW i \in DOMAIN done, IsBackward(done[i], Head(os).node) PROVE FALSE
    BY DEF Taken, IsBackward
  <2>1. i \in DOMAIN all /\ i < p /\ all[i] = done[i]
    BY <1>1, <1>2
  <2> QED  BY <1>3, <1>5, <2>1 DEF InTurn
<1>7. ASSUME NEW m \in NecessaryNodes(h), Feeds(h, Head(os).node, m) PROVE m \in Taken(done)
  <2>1. PICK i \in DOMAIN all : i < p /\ IsBackward(all[i], m)
    BY <1>3, <1>5, <1>7 DEF InTurn
  <2>2. i \in DOMAIN done /\ all[i] = done[i]
    BY <1>1, <1>2, <2>1
  <2> QED  BY <2>1, <2>2 DEF Taken, IsBackward
<1> QED  BY <1>6, <1>7 DEF NextInTurn
-----------------------------------------------------------------------------
(* The invariant, and that every step goes by the rules.                   *)

Ordered(j, done, os) ==
    /\ done \in Seq(Orders(j.graph)) /\ os \in Seq(Orders(j.graph))
    /\ j.policy = "custom" =>
          \A p \in DOMAIN os : os[p].kind = "ComputeBackward" =>
              Len(os) = 1 /\ NextInTurn(j.graph, done, os[p].node)
    /\ j.policy # "custom" => Proper(j.graph, done \o os)
    /\ j.policy = "none" => \A p \in DOMAIN os : os[p].kind = "ComputeBackward"

Building(j, done, os, s) ==
    /\ Sound(j.graph, s)
    /\ Ordered(j, done, os)
    /\ Remembers(j.graph, done, DOMAIN s.staged)
    /\ j.policy = "none" => DOMAIN s.first = DOMAIN j.graph.nodes

\* When the compiler has given up or is done, nothing is ordered any more.
Inv ==
    /\ IsJob(job)
    /\ pc = "begin" => executed = <<>> /\ Sound(job.graph, b)
    /\ pc = "build" => Building(job, executed, orders, b)

Held == IF job.policy = "none" THEN Values(g) ELSE DOMAIN b.staged \cap Values(g)
played == <<g, Held, Taken(executed)>>

LEMMA OrderedNext ==
    ASSUME NEW j, NEW done, NEW os, Ordered(j, done, os), os # <<>>
    PROVE  /\ Ordered(j, Append(done, Head(os)), Tail(os))
           /\ Head(os) \in Orders(j.graph) /\ done \in Seq(Orders(j.graph))
           /\ j.policy = "none" => Head(os).kind = "ComputeBackward"
<1> DEFINE X == Orders(j.graph)
           o == Head(os)
<1>1. done \in Seq(X) /\ os \in Seq(X)
  BY DEF Ordered
<1> HIDE DEF X
<1>2. o \in X /\ Tail(os) \in Seq(X) /\ Append(done, o) \in Seq(X)
      /\ Len(os) \in Nat /\ 1 \in DOMAIN os /\ os[1] = o /\ DOMAIN os = 1..Len(os)
      /\ DOMAIN Tail(os) = 1..(Len(os) - 1) /\ \A p \in DOMAIN Tail(os) : Tail(os)[p] = os[p + 1]
  BY <1>1
<1>3. Append(done, o) \o Tail(os) = done \o os
  <2>1. /\ Append(done, o) \o Tail(os) \in Seq(X) /\ done \o os \in Seq(X)
        /\ Len(Append(done, o) \o Tail(os)) = Len(done \o os)
    BY <1>1, <1>2
  <2>2. \A p \in 1..Len(done \o os) : (Append(done, o) \o Tail(os))[p] = (done \o os)[p]
    BY <1>1, <1>2
  <2> QED  BY <2>1, <2>2
<1>4. j.policy = "custom" => \A p \in DOMAIN Tail(os) : Tail(os)[p].kind # "ComputeBackward"
  <2> SUFFICES ASSUME j.policy = "custom", NEW p \in DOMAIN Tail(os),
                      Tail(os)[p].kind = "ComputeBackward"
               PROVE  FALSE
    OBVIOUS
  <2>1. p + 1 \in DOMAIN os /\ os[p + 1].kind = "ComputeBackward" /\ p >= 1
    BY <1>2
  <2>2. Len(os) = 1
    BY <2>1 DEF Ordered
  <2> QED  BY <1>2, <2>1, <2>2
<1>5. j.policy = "none" => /\ o.kind = "ComputeBackward"
                           /\ \A p \in DOMAIN Tail(os) : Tail(os)[p].kind = "ComputeBackward"
  <2> SUFFICES ASSUME j.policy = "none"
               PROVE  /\ o.kind = "ComputeBackward"
                      /\ \A p \in DOMAIN Tail(os) : Tail(os)[p].kind = "ComputeBackward"
    OBVIOUS
  <2>1. \A p \in DOMAIN os : os[p].kind = "ComputeBackward"
    BY DEF Ordered
  <2>2. \A p \in DOMAIN Tail(os) : p + 1 \in DOMAIN os
    BY <1>2
  <2> QED  BY <1>2, <2>1, <2>2
<1> HIDE DEF o
<1>6. Ordered(j, Append(done, o), Tail(os))
  <2>1. j.policy # "custom" => Proper(j.graph, Append(done, o) \o Tail(os))
    BY <1>3 DEF Ordered
  <2> QED  BY <1>2, <1>4, <1>5, <2>1 DEF Ordered, X
<1> QED  BY <1>1, <1>2, <1>5, <1>6 DEF X, o

LEMMA OrderedInTurn ==
    ASSUME NEW j, NEW done, NEW os, Ordered(j, done, os), os # <<>>,
           NEW held, Remembers(j.graph, done, held), Head(os).kind = "ComputeBackward"
    PROVE  NextInTurn(j.graph, done, Head(os).node)
<1>1. done \in Seq(Orders(j.graph)) /\ os \in Seq(Orders(j.graph))
  BY DEF Ordered
<1>2. CASE j.policy = "custom"
  <2>1. 1 \in DOMAIN os /\ Head(os) = os[1]
    BY <1>1
  <2> QED  BY <1>2, <2>1 DEF Ordered
<1>3. CASE j.policy # "custom"
  <2>1. Proper(j.graph, done \o os)
    BY <1>3 DEF Ordered
  <2> QED  BY <1>1, <2>1, ProperGoesOn
<1> QED  BY <1>2, <1>3

\* An order that fails a check ends it; nothing has been played.
LEMMA AbortStutters ==
    ASSUME Inv, pc' = "aborted", UNCHANGED <<job, b, executed>>
    PROVE  Inv' /\ played' = played
<1>1. Inv'
  BY DEF Inv
<1>2. played' = played
  BY DEF played, Held, g
<1> QED  BY <1>1, <1>2

\* Another order has been carried out.
LEMMA ExecutedKeepsInv ==
    ASSUME Inv, pc = "build", pc' = pc, job' = job, orders # <<>>,
           orders' = Tail(orders), executed' = Append(executed, Head(orders)),
           NEW s, Sound(job.graph, s),
           Remembers(job.graph, Append(executed, Head(orders)), DOMAIN s.staged),
           job.policy = "none" => DOMAIN s.first = DOMAIN b.first
    PROVE  IsJob(job) /\ Building(job, executed', orders', s)
<1>1. Building(job, executed, orders, b)
  BY DEF Inv
<1>2. Ordered(job, executed', orders')
  <2>1. Ordered(job, executed, orders)
    BY <1>1 DEF Building
  <2>2. Ordered(job, Append(executed, Head(orders)), Tail(orders))
    BY <2>1, OrderedNext
  <2> QED  BY <2>2
<1> QED  BY <1>1, <1>2 DEF Inv, Building

LEMMA FirstOrders ==
    ASSUME NEW j, IsJob(j), NEW c \in PolicyChoices(j)
    PROVE  Ordered(j, <<>>, OrdersOf(j, c))
<1> DEFINE h  == j.graph
           os == OrdersOf(j, c)
           X  == Orders(h)
<1>1. IsModel(h) /\ j.policy \in {"none", "dummy", "dummy2", "chen", "gt", "custom"}
  BY DEF IsJob
<1> HIDE DEF h
<1>2. <<>> \in Seq(X)
  OBVIOUS
<1>3. ASSUME Proper(h, os) PROVE os \in Seq(X) /\ Proper(h, <<>> \o os)
  <2>1. os \in Seq(X)
    BY <1>3 DEF Proper
  <2> HIDE DEF os, X
  <2>2. <<>> \o os = os
    BY <2>1
  <2> QED  BY <1>3, <2>1, <2>2
<1>4. ASSUME j.policy = "none" PROVE Ordered(j, <<>>, os)
  <2>1. os = Each(Among(Reverse(Sorted(h)), NecessaryNodes(h) \cap NodesAfter(h, GetParamValues(h))),
                  ComputeBackward)
    BY <1>4 DEF OrdersOf, GradientNodes, Sorted, h
  <2>2. Proper(h, os) /\ \A i \in DOMAIN os : os[i].kind = "ComputeBackward"
    <3> HIDE DEF os
    <3> QED  BY <1>1, <2>1, GradientOrders
  <2> HIDE DEF os
  <2> QED  BY <1>2, <1>3, <1>4, <2>2 DEF Ordered, h, X
<1>5. ASSUME j.policy = "custom" PROVE Ordered(j, <<>>, os)
  <2>1. os = Each(Sorted(h), ComputeForward)
    BY <1>5 DEF OrdersOf, Sorted, h
  <2>2. Sorted(h) \in Seq(DOMAIN h.nodes)
    BY <1>1, ModelOrder DEF Sorted
  <2>3. Quiet(h, os)
    BY <1>1, <2>1, <2>2, QuietForwards
  <2> HIDE DEF os
  <2> QED  BY <1>2, <1>5, <2>3 DEF Ordered, Quiet, h, X
<1>6. ASSUME j.policy \in {"dummy", "dummy2", "chen", "gt"} PROVE Ordered(j, <<>>, os)
  <2>1. Proper(h, os)
    <3>1. CASE j.policy = "dummy"
      <4>1. os = DummyPolicy(h)
        BY <3>1 DEF OrdersOf, h
      <4> QED  BY <1>1, <4>1, DummyIsProper
    <3>2. CASE j.policy = "dummy2"
      <4>1. os = DummyPolicy2(h)
        BY <3>2 DEF OrdersOf, h
      <4> QED  BY <1>1, <4>1, Dummy2IsProper
    <3>3. CASE j.policy = "chen"
      <4>1. os = ChenPolicy(h, c)
        BY <3>3 DEF OrdersOf, h
      <4> QED  BY <1>1, <4>1, ChenIsProper
    <3>4. CASE j.policy = "gt"
      <4>1. os = GTPolicy(h, c) /\ c \in Chains(h)
        BY <3>4 DEF OrdersOf, PolicyChoices, h
      <4> QED  BY <1>1, <4>1, GTIsProper
    <3> QED  BY <1>6, <3>1, <3>2, <3>3, <3>4
  <2> HIDE DEF os
  <2> QED  BY <1>2, <1>3, <1>6, <2>1 DEF Ordered, h, X
<1> QED  BY <1>1, <1>4, <1>5, <1>6

\* GetComputationOrder finds orders, and nothing is played yet.
LEMMA BeginPlays ==
    ASSUME Inv, Begin
    PROVE  Inv' /\ played' = played
<1> DEFINE plain == job.policy = "none"
           s == IF plain THEN AllForward(b) ELSE b
           r == AddGradInputs(s)
           t == IF ~job.twoPhase THEN SetInitialGradients(s)
                ELSE IF plain THEN [r EXCEPT !.turned = TRUE]
                ELSE s
           refused == \/ ~job.twoPhase /\ Len(g.outputs) # 1
                      \/ job.policy = "dummy2" /\ ~IsChain(g)
<1>1. /\ IsJob(job) /\ executed = <<>> /\ Sound(g, b) /\ job' = job /\ executed' = executed
      /\ choice' \in PolicyChoices(job)
  BY DEF Inv, Begin, g
<1>2. IF refused THEN pc' = "aborted" /\ UNCHANGED <<orders, b>>
      ELSE pc' = "build" /\ orders' = OrdersOf(job, choice') /\ b' = t
  BY DEF Begin
<1>3. CASE refused
  BY <1>1, <1>2, <1>3, AbortStutters
<1>4. ASSUME ~refused PROVE Inv' /\ played' = played
  <2>1. pc' = "build" /\ orders' = OrdersOf(job, choice') /\ b' = t
    BY <1>2, <1>4
  <2>2. Sound(g, s) /\ (plain => DOMAIN s.first = DOMAIN g.nodes) /\ (~plain => s = b)
    <3>1. IsModel(g)
      BY <1>1, NaturalOutputs
    <3>2. CASE plain
      BY <1>1, <3>1, <3>2, AllForwardIsSound
    <3>3. CASE ~plain
      BY <1>1, <3>3
    <3> QED  BY <3>2, <3>3
  <2>3. ~job.twoPhase => Len(g.outputs) = 1
    BY <1>4
  <2> HIDE DEF s, refused
  <2>4. Keeps(g, s, t)
    <3>1. CASE ~job.twoPhase
      <4>1. t = SetInitialGradients(s)
        BY <3>1
      <4> HIDE DEF t
      <4>2. Keeps(g, s, SetInitialGradients(s))
        BY <1>1, <2>2, <2>3, <3>1, InitialGradientsKeep
      <4> QED  BY <4>1, <4>2
    <3>2. ASSUME job.twoPhase, plain PROVE Keeps(g, s, t)
      <4>1. t = [r EXCEPT !.turned = TRUE]
        BY <3>2
      <4>2. Keeps(g, s, r)
        BY <1>1, <2>2, AddGradInputsKeeps
      <4> HIDE DEF r, t
      <4>3. Sound(g, r)
        BY <4>2 DEF Keeps
      <4>4. /\ DOMAIN t = DOMAIN r
            /\ \A f \in (BuilderFields \cup OtherFields) \ {"turned"} : t[f] = r[f]
        BY <4>1, <4>3 DEF Sound, Builder, BuilderFields, OtherFields
      <4>5. Builder(g, t)
        <5>1. t.grads = r.grads /\ t.retained = r.retained /\ t.added = r.added
              /\ t.contexts = r.contexts /\ t.fresh = r.fresh
          BY <4>4 DEF BuilderFields, OtherFields
        <5> QED  BY <4>3, <4>4, <5>1 DEF Sound, Builder
      <4>6. \A f \in {"schedule", "staged", "first", "last"} : t[f] = r[f]
        BY <4>4 DEF OtherFields
      <4>7. Keeps(g, r, t)
        BY <4>3, <4>5, <4>6, OthersKeep
      <4> QED  BY <4>2, <4>7, KeepsMore
    <3>3. ASSUME job.twoPhase, ~plain PROVE Keeps(g, s, t)
      <4>1. t = s
        BY <3>3
      <4> HIDE DEF t
      <4> QED  BY <2>2, <4>1 DEF Keeps
    <3> QED  BY <3>1, <3>2, <3>3
  <2> HIDE DEF t
  <2>5. Ordered(job, <<>>, orders')
    BY <1>1, <2>1, FirstOrders
  <2>6. Remembers(g, <<>>, DOMAIN t.staged)
    BY DEF Remembers
  <2>7. Building(job, <<>>, orders', t)
    BY <2>2, <2>4, <2>5, <2>6 DEF Building, Keeps, g
  <2>8. Inv'
    BY <1>1, <2>1, <2>7 DEF Inv
  <2>9. played' = played
    <3>1. Held' = Held
      BY <1>1, <2>1, <2>2, <2>4 DEF Held, Keeps, g
    <3> QED  BY <1>1, <3>1 DEF played, g
  <2> QED  BY <2>8, <2>9
<1> QED  BY <1>3, <1>4

\* The game speaks of the same graph.
LEMMA SameGraph ==
    /\ \A n : Game!Ins(n) = Elements(g.nodes[n].ins) /\ Game!Outs(n) = Elements(g.nodes[n].outs)
    /\ Game!Values(g) = Values(g)
    /\ Game!NecessaryNodes(g) = NecessaryNodes(g)
    /\ Game!gameVars = played
<1>1. \A n : Game!Ins(n) = Elements(g.nodes[n].ins) /\ Game!Outs(n) = Elements(g.nodes[n].outs)
  BY DEF Game!Ins, Game!Outs, Game!Elements, Elements
<1>2. Game!Values(g) = Values(g)
  BY DEF Game!Values, Values, Game!ComputedBy, ComputedBy, Game!Elements, Elements
<1>3. Game!NecessaryNodes(g) = NecessaryNodes(g)
  BY DEF Game!NecessaryNodes, NecessaryNodes, Game!Reached, Reached, Game!NodePairs, NodePairs,
         Game!Feeds, Feeds, Game!Elements, Elements
<1>4. Game!gameVars = played
  BY DEF Game!gameVars, played, Held
<1> QED  BY <1>1, <1>2, <1>3, <1>4

\* A node is computed, from what is staged, and its outputs are staged.
LEMMA ComputedPlays ==
    ASSUME Inv, IsNext("ComputeForward"), pc' = pc, job' = job,
           orders' = Tail(orders), executed' = Append(executed, Head(orders)),
           Sound(g, b'), Elements(g.nodes[Head(orders).node].ins) \subseteq DOMAIN b.staged,
           NEW outs, outs \cap DOMAIN b.staged = {},
           outs \cap Values(g) = Elements(g.nodes[Head(orders).node].outs),
           DOMAIN b'.staged = DOMAIN b.staged \cup outs
    PROVE  Inv' /\ [Game!GameNext]_played
<1> DEFINE o == Head(orders)
           n == o.node
<1>1. /\ pc = "build" /\ orders # <<>> /\ o.kind = "ComputeForward"
      /\ IsJob(job) /\ Building(job, executed, orders, b)
  BY DEF IsNext, Inv
<1>2. Ordered(job, executed, orders) /\ Remembers(g, executed, DOMAIN b.staged)
  BY <1>1 DEF Building, g
<1>3. o \in Orders(g) /\ executed \in Seq(Orders(g)) /\ job.policy # "none"
  BY <1>1, <1>2, OrderedNext DEF g
<1>4. n \in DOMAIN g.nodes /\ IsModel(g)
  BY <1>1, <1>3, NaturalOutputs DEF Orders
<1>5. Elements(g.nodes[n].outs) \subseteq Values(g) /\ Elements(g.nodes[n].ins) \subseteq Values(g)
  <2>1. Elements(g.nodes[n].outs) \subseteq Values(g)
    BY <1>4 DEF Values, ComputedBy
  <2> QED  BY <1>4, <2>1, ModelOrder
<1>6. Remembers(g, Append(executed, o), DOMAIN b.staged \cup outs)
  <2>1. Elements(g.nodes[n].outs) \subseteq outs /\ Elements(g.nodes[n].outs) \cap DOMAIN b.staged = {}
    OBVIOUS
  <2> HIDE DEF o
  <2> QED  BY <1>1, <1>2, <1>3, <2>1, RemembersForward
<1>7. Inv'
  <2> DEFINE s == b'
  <2>1. /\ Sound(job.graph, s) /\ Remembers(job.graph, Append(executed, Head(orders)), DOMAIN s.staged)
        /\ job.policy = "none" => DOMAIN s.first = DOMAIN b.first
    BY <1>3, <1>6 DEF g
  <2> HIDE DEF s
  <2>2. Building(job, executed', orders', s)
    BY <1>1, <2>1, ExecutedKeepsInv
  <2> QED  BY <1>1, <2>2 DEF Inv, s
<1>8. g' = g /\ Held = DOMAIN b.staged \cap Values(g) /\ Held' = (DOMAIN b.staged \cup outs) \cap Values(g)
  BY <1>3 DEF g, Held
<1>9. Taken(executed') = Taken(executed)
  BY <1>1, <1>3, TakenMore
<1>10. Game!Compute(n)
  <2>1. Elements(g.nodes[n].ins) \subseteq Held /\ Elements(g.nodes[n].outs) \cap Held = {}
    BY <1>5, <1>8
  <2>2. Held' = Held \cup Elements(g.nodes[n].outs)
    BY <1>5, <1>8
  <2> QED  BY <1>8, <1>9, <2>1, <2>2, SameGraph DEF Game!Compute, Held
<1> QED  BY <1>4, <1>7, <1>10 DEF Game!GameNext

LEMMA FirstForwardPlays ==
    ASSUME Inv, FirstForward
    PROVE  Inv' /\ [Game!GameNext]_played
<1> DEFINE n    == Head(orders).node
           node == g.nodes[n]
           s    == Turn(b)
           t    == ScheduleForward(s, n, node, "forward")
           u    == [t EXCEPT !.staged = Over([v \in Elements(node.outs) |-> v], @)]
           ok   == /\ Constraints(b)
                   /\ ForwardIsCurrent(s)
                   /\ AllStaged(s, node.ins)
                   /\ GetStaged(s, node.ins) = node.ins
                   /\ Elements(node.outs) \cap DOMAIN s.staged = {}
<1>1. IsNext("ComputeForward") /\ Execute(ok, u)
  BY DEF FirstForward
<1>2. /\ pc = "build" /\ orders # <<>> /\ Head(orders).kind = "ComputeForward"
      /\ IsJob(job) /\ Building(job, executed, orders, b)
  BY <1>1 DEF IsNext, Inv
<1>3. n \in DOMAIN g.nodes /\ IsModel(g) /\ Sound(g, b)
  <2>1. Ordered(job, executed, orders) /\ Sound(g, b)
    BY <1>2 DEF Building, g
  <2>2. Head(orders) \in Orders(g)
    BY <1>2, <2>1, OrderedNext DEF g
  <2> QED  BY <1>2, <2>1, <2>2, NaturalOutputs DEF Orders
<1>4. Keeps(g, b, s)
  BY <1>2, <1>3, TurnKeeps
<1>5. Sound(g, s) /\ s.staged = b.staged
  BY <1>4 DEF Keeps
<1> HIDE DEF s, n
<1>6. Sound(g, u) /\ DOMAIN u.staged = DOMAIN s.staged \cup Elements(node.outs)
  BY <1>3, <1>5, ComputedIsSound
<1> HIDE DEF u
<1>7. /\ orders' = Tail(orders) /\ job' = job
      /\ IF ok THEN b' = u /\ executed' = Append(executed, Head(orders)) /\ pc' = pc
         ELSE pc' = "aborted" /\ UNCHANGED <<b, executed>>
  BY <1>1 DEF Execute
<1>8. CASE ok
  <2>1. /\ Elements(g.nodes[Head(orders).node].ins) \subseteq DOMAIN b.staged
        /\ Elements(node.outs) \cap DOMAIN b.staged = {}
    BY <1>5, <1>8 DEF AllStaged, n
  <2>2. Elements(node.outs) \subseteq Values(g)
    BY <1>3 DEF Values, ComputedBy
  <2> DEFINE outs == Elements(node.outs)
  <2>3. outs \cap Values(g) = Elements(g.nodes[Head(orders).node].outs)
    BY <2>2 DEF n
  <2>4. outs \cap DOMAIN b.staged = {} /\ DOMAIN b'.staged = DOMAIN b.staged \cup outs /\ Sound(g, b')
    BY <1>5, <1>6, <1>7, <1>8, <2>1
  <2>5. executed' = Append(executed, Head(orders)) /\ pc' = pc
    BY <1>7, <1>8
  <2> HIDE DEF outs, ok
  <2> QED  BY <1>1, <1>7, <2>1, <2>3, <2>4, <2>5, ComputedPlays
<1>9. CASE ~ok
  <2> HIDE DEF ok
  <2>1. pc' = "aborted" /\ UNCHANGED <<job, b, executed>>
    BY <1>7, <1>9
  <2> QED  BY <2>1, AbortStutters
<1> QED  BY <1>8, <1>9

LEMMA RecomputePlays ==
    ASSUME Inv, Recompute
    PROVE  Inv' /\ [Game!GameNext]_played
<1> DEFINE n    == Head(orders).node
           s    == Turn(b)
           node == Original(s, n)
           ok   == /\ Constraints(b)
                   /\ BackwardIsCurrent(s)
                   /\ AllStaged(s, node.ins)
                   /\ Elements(node.outs) \cap DOMAIN s.staged = {}
           u    == IF ok THEN Recomputed(s, n, node) ELSE s
<1>1. IsNext("ComputeForward") /\ n \in DOMAIN b.first /\ Execute(ok, u)
  BY DEF Recompute
<1>2. /\ pc = "build" /\ orders # <<>> /\ Head(orders).kind = "ComputeForward"
      /\ IsJob(job) /\ Building(job, executed, orders, b)
  BY <1>1 DEF IsNext, Inv
<1>3. IsModel(g) /\ Sound(g, b)
  <2>1. Sound(g, b)
    BY <1>2 DEF Building, g
  <2> QED  BY <1>2, <2>1, NaturalOutputs
<1>4. Keeps(g, b, s)
  BY <1>2, <1>3, TurnKeeps
<1>5. Sound(g, s) /\ s.staged = b.staged /\ s.first = b.first
  BY <1>4 DEF Keeps
<1> HIDE DEF s, n
<1>6. Stands(g, node, n)
  BY <1>1, <1>3, <1>5, OriginalStands
<1>7. /\ orders' = Tail(orders) /\ job' = job
      /\ IF ok THEN b' = u /\ executed' = Append(executed, Head(orders)) /\ pc' = pc
         ELSE pc' = "aborted" /\ UNCHANGED <<b, executed>>
  BY <1>1 DEF Execute
<1>8. ASSUME ok PROVE Inv' /\ [Game!GameNext]_played
  <2>1. b' = Recomputed(s, n, node)
    BY <1>7, <1>8
  <2>2. AllStaged(s, node.ins) /\ Elements(node.outs) \cap DOMAIN s.staged = {}
    BY <1>8
  <2>3. Sound(g, Recomputed(s, n, node))
        /\ DOMAIN Recomputed(s, n, node).staged = DOMAIN s.staged \cup Elements(node.outs)
    BY <1>1, <1>3, <1>5, <2>2, RecomputedIsSound
  <2> DEFINE outs == Elements(node.outs)
  <2>4. /\ Elements(g.nodes[Head(orders).node].ins) \subseteq DOMAIN b.staged
        /\ outs \cap Values(g) = Elements(g.nodes[Head(orders).node].outs)
    BY <1>5, <1>6, <2>2 DEF AllStaged, Stands, n
  <2>5. outs \cap DOMAIN b.staged = {} /\ DOMAIN b'.staged = DOMAIN b.staged \cup outs /\ Sound(g, b')
    BY <1>5, <2>1, <2>2, <2>3
  <2>6. executed' = Append(executed, Head(orders)) /\ pc' = pc
    BY <1>7, <1>8
  <2> HIDE DEF outs, ok
  <2> QED  BY <1>1, <1>7, <2>4, <2>5, <2>6, ComputedPlays
<1>9. ASSUME ~ok PROVE Inv' /\ [Game!GameNext]_played
  <2> HIDE DEF ok, u
  <2>1. pc' = "aborted" /\ UNCHANGED <<job, b, executed>>
    BY <1>7, <1>9
  <2> QED  BY <2>1, AbortStutters
<1> QED  BY <1>8, <1>9

LEMMA ForgetStagedPlays ==
    ASSUME Inv, ForgetStaged
    PROVE  Inv' /\ [Game!GameNext]_played
<1> DEFINE o  == Head(orders)
           v  == o.value
           s  == Turn(b)
           ok == Constraints(b) /\ AllStaged(s, <<v>>)
           u  == IF ok THEN Forgotten(s, v) ELSE s
<1>1. IsNext("ForgetForward") /\ Execute(ok, u)
  BY DEF ForgetStaged
<1>2. /\ pc = "build" /\ orders # <<>> /\ o.kind = "ForgetForward"
      /\ IsJob(job) /\ Building(job, executed, orders, b)
  BY <1>1 DEF IsNext, Inv
<1>3. Ordered(job, executed, orders) /\ Remembers(g, executed, DOMAIN b.staged) /\ Sound(g, b)
  BY <1>2 DEF Building, g
<1>4. o \in Orders(g) /\ executed \in Seq(Orders(g)) /\ job.policy # "none"
  BY <1>2, <1>3, OrderedNext DEF g
<1>5. Keeps(g, b, s)
  BY <1>2, <1>3, TurnKeeps
<1>6. Sound(g, s) /\ s.staged = b.staged
  BY <1>5 DEF Keeps
<1>7. /\ orders' = Tail(orders) /\ job' = job
      /\ IF ok THEN b' = u /\ executed' = Append(executed, Head(orders)) /\ pc' = pc
         ELSE pc' = "aborted" /\ UNCHANGED <<b, executed>>
  BY <1>1 DEF Execute
<1> HIDE DEF s, v
<1>8. ASSUME ok PROVE Inv' /\ [Game!GameNext]_played
  <2>1. b' = Forgotten(s, v) /\ executed' = Append(executed, o) /\ pc' = pc
    BY <1>7, <1>8
  <2>2. v \in DOMAIN b.staged
    BY <1>6, <1>8 DEF AllStaged, Elements
  <2>3. Sound(g, Forgotten(s, v)) /\ DOMAIN Forgotten(s, v).staged = DOMAIN s.staged \ {v}
    BY <1>6, ForgottenIsSound
  <2> DEFINE t    == b'
             rest == DOMAIN b.staged \ {v}
  <2>4. Sound(g, t) /\ DOMAIN t.staged = rest
    BY <1>6, <2>1, <2>3
  <2>5. Remembers(g, Append(executed, o), rest)
    <3>1. o.kind # "ComputeForward"
      BY <1>2
    <3>2. \A w \in DOMAIN b.staged : w \in rest \/ IsForget(o, w)
      BY <1>2 DEF IsForget, v
    <3> HIDE DEF rest, o
    <3> QED  BY <1>3, <1>4, <3>1, <3>2, RemembersOthers
  <2>6. Inv'
    <3>1. /\ Sound(job.graph, t) /\ Remembers(job.graph, Append(executed, Head(orders)), DOMAIN t.staged)
          /\ job.policy = "none" => DOMAIN t.first = DOMAIN b.first
      BY <1>4, <2>4, <2>5 DEF g
    <3> HIDE DEF t
    <3>2. Building(job, executed', orders', t)
      BY <1>2, <1>7, <2>1, <3>1, ExecutedKeepsInv
    <3> QED  BY <1>2, <1>7, <2>1, <3>2 DEF Inv, t
  <2>7. g' = g /\ Held = DOMAIN b.staged \cap Values(g) /\ Held' = rest \cap Values(g)
    BY <1>4, <1>7, <2>4 DEF g, Held
  <2>8. Taken(executed') = Taken(executed)
    BY <1>2, <1>4, <2>1, TakenMore
  <2>9. CASE v \in Values(g)
    <3>1. v \in Held /\ Held' = Held \ {v}
      BY <2>2, <2>7, <2>9
    <3>2. Game!Forget(v)
      BY <2>7, <2>8, <3>1 DEF Game!Forget, Held
    <3>3. Game!GameNext
      BY <3>1, <3>2 DEF Game!GameNext, Held
    <3> QED  BY <2>6, <3>3
  <2>10. CASE v \notin Values(g)
    <3>1. played' = played
      BY <2>7, <2>8, <2>10 DEF played
    <3> QED  BY <2>6, <3>1
  <2> QED  BY <2>9, <2>10
<1>9. ASSUME ~ok PROVE Inv' /\ [Game!GameNext]_played
  <2> HIDE DEF ok, u
  <2>1. pc' = "aborted" /\ UNCHANGED <<job, b, executed>>
    BY <1>7, <1>9
  <2> QED  BY <2>1, AbortStutters
<1> QED  BY <1>8, <1>9

\* The gradients of a node are taken, in turn.
LEMMA DifferentiatedPlays ==
    ASSUME Inv, IsNext("ComputeBackward"), pc' = pc, job' = job,
           orders' = Tail(orders), executed' = Append(executed, Head(orders)),
           Keeps(g, b, b'),
           LET node == g.nodes[Head(orders).node]
           IN  Elements(node.ins) \cup Elements(node.outs) \subseteq Held
    PROVE  Inv' /\ [Game!GameNext]_played
<1> DEFINE o == Head(orders)
           n == o.node
<1>1. /\ pc = "build" /\ orders # <<>> /\ o.kind = "ComputeBackward"
      /\ IsJob(job) /\ Building(job, executed, orders, b)
  BY DEF IsNext, Inv
<1>2. Ordered(job, executed, orders) /\ Remembers(g, executed, DOMAIN b.staged)
  BY <1>1 DEF Building, g
<1>3. o \in Orders(g) /\ executed \in Seq(Orders(g))
  BY <1>1, <1>2, OrderedNext DEF g
<1>4. NextInTurn(g, executed, n)
  BY <1>1, <1>2, OrderedInTurn DEF g
<1>5. n \in DOMAIN g.nodes /\ IsModel(g)
  BY <1>1, <1>3, NaturalOutputs DEF Orders
<1> DEFINE s == b'
<1>6. Sound(g, s) /\ s.staged = b.staged /\ s.first = b.first
  BY DEF Keeps
<1>7. Remembers(g, Append(executed, o), DOMAIN b.staged)
  <2>1. o.kind # "ComputeForward" /\ \A w \in DOMAIN b.staged : w \in DOMAIN b.staged \/ IsForget(o, w)
    BY <1>1
  <2> HIDE DEF o
  <2> QED  BY <1>2, <1>3, <2>1, RemembersOthers
<1>8. Inv'
  <2>1. /\ Sound(job.graph, s) /\ Remembers(job.graph, Append(executed, Head(orders)), DOMAIN s.staged)
        /\ job.policy = "none" => DOMAIN s.first = DOMAIN b.first
    BY <1>6, <1>7 DEF g
  <2> HIDE DEF s
  <2>2. Building(job, executed', orders', s)
    BY <1>1, <2>1, ExecutedKeepsInv
  <2> QED  BY <1>1, <2>2 DEF Inv, s
<1>9. g' = g /\ Held' = Held
  BY <1>6 DEF g, Held
<1>10. Taken(executed') = Taken(executed) \cup {n}
  BY <1>1, <1>3, TakenMore
<1>11. Game!Differentiate(n)
  <2>1. n \notin Taken(executed)
    BY <1>4 DEF NextInTurn
  <2>2. ASSUME NEW m \in NecessaryNodes(g), Elements(g.nodes[m].ins) \cap Elements(g.nodes[n].outs) # {}
        PROVE  m \in Taken(executed)
    BY <1>4, <2>2 DEF NextInTurn, Feeds
  <2>3. Elements(g.nodes[n].ins) \cup Elements(g.nodes[n].outs) \subseteq Held
    OBVIOUS
  <2> HIDE DEF n
  <2> QED  BY <1>9, <1>10, <2>1, <2>2, <2>3, SameGraph DEF Game!Differentiate, Held
<1> QED  BY <1>5, <1>8, <1>11 DEF Game!GameNext

LEMMA ComputeGradientsPlays ==
    ASSUME Inv, ComputeGradients
    PROVE  Inv' /\ [Game!GameNext]_played
<1> DEFINE n  == Head(orders).node
           s  == Turn(b)
           ok == /\ Constraints(b)
                 /\ BackwardIsCurrent(s)
                 /\ n \in DOMAIN s.first
                 /\ AllStaged(s, Original(s, n).ins)
                 /\ AllStaged(s, Original(s, n).outs)
           u  == IF ok THEN GradientsOf(s, n) ELSE s
<1>1. IsNext("ComputeBackward") /\ Execute(ok, u) /\ job.policy # "none"
  BY DEF ComputeGradients
<1>2. IsJob(job) /\ Building(job, executed, orders, b)
  BY <1>1 DEF IsNext, Inv
<1>3. IsModel(g) /\ Sound(g, b)
  <2>1. Sound(g, b)
    BY <1>2 DEF Building, g
  <2> QED  BY <1>2, <2>1, NaturalOutputs
<1>4. Keeps(g, b, s)
  BY <1>2, <1>3, TurnKeeps
<1>5. Sound(g, s) /\ s.staged = b.staged
  BY <1>4 DEF Keeps
<1>6. /\ orders' = Tail(orders) /\ job' = job
      /\ IF ok THEN b' = u /\ executed' = Append(executed, Head(orders)) /\ pc' = pc
         ELSE pc' = "aborted" /\ UNCHANGED <<b, executed>>
  BY <1>1 DEF Execute
<1> HIDE DEF s, n
<1>7. ASSUME ok PROVE Inv' /\ [Game!GameNext]_played
  <2>1. b' = GradientsOf(s, n) /\ executed' = Append(executed, Head(orders)) /\ pc' = pc
    BY <1>6, <1>7
  <2>2. n \in DOMAIN s.first /\ AllStaged(s, Original(s, n).ins) /\ AllStaged(s, Original(s, n).outs)
    BY <1>7
  <2>3. Keeps(g, s, GradientsOf(s, n))
    BY <1>2, <1>5, <2>2, GradientsAreSound
  <2>4. Keeps(g, b, b')
    BY <1>4, <2>1, <2>3, KeepsMore
  <2>5. Stands(g, Original(s, n), n) /\ n \in DOMAIN g.nodes
    BY <1>3, <1>5, <2>2, OriginalStands
  <2>6. Elements(g.nodes[n].ins) \cup Elements(g.nodes[n].outs) \subseteq Held
    <3>1. Elements(g.nodes[n].ins) \cup Elements(g.nodes[n].outs) \subseteq Values(g)
      <4>1. Elements(g.nodes[n].outs) \subseteq Values(g)
        BY <2>5 DEF Values, ComputedBy
      <4> QED  BY <1>3, <2>5, <4>1, ModelOrder
    <3>2. Elements(g.nodes[n].ins) \cup Elements(g.nodes[n].outs) \subseteq DOMAIN s.staged
      BY <2>2, <2>5 DEF Stands, AllStaged
    <3> QED  BY <1>1, <1>5, <3>1, <3>2 DEF Held
  <2> HIDE DEF ok, u
  <2> QED  BY <1>1, <1>6, <2>1, <2>4, <2>6, DifferentiatedPlays DEF n
<1>8. ASSUME ~ok PROVE Inv' /\ [Game!GameNext]_played
  <2> HIDE DEF ok, u
  <2>1. pc' = "aborted" /\ UNCHANGED <<job, b, executed>>
    BY <1>6, <1>8
  <2> QED  BY <2>1, AbortStutters
<1> QED  BY <1>7, <1>8

LEMMA AddGradientPlays ==
    ASSUME Inv, AddGradient
    PROVE  Inv' /\ [Game!GameNext]_played
<1> DEFINE n     == Head(orders).node
           node  == Original(b, n)
           added == AddGradientForNode(b, job.twoPhase, node.op, node.ins, node.outs)
           u     == ScheduleAdded(WithContexts(added, b.first[n]), Part("backward"))
<1>1. IsNext("ComputeBackward") /\ Execute(TRUE, u) /\ job.policy = "none"
  BY DEF AddGradient
<1>2. IsJob(job) /\ Building(job, executed, orders, b) /\ orders # <<>>
  BY <1>1 DEF IsNext, Inv
<1>3. Ordered(job, executed, orders) /\ Sound(g, b) /\ DOMAIN b.first = DOMAIN g.nodes
  BY <1>1, <1>2 DEF Building, g
<1>4. IsModel(g)
  BY <1>2, NaturalOutputs
<1>5. n \in DOMAIN g.nodes
  <2>1. Head(orders) \in Orders(g)
    BY <1>2, <1>3, OrderedNext DEF g
  <2> QED  BY <1>1, <2>1 DEF Orders, IsNext
<1> HIDE DEF n
<1>6. Keeps(g, b, u)
  BY <1>2, <1>3, <1>5, AddedGradientIsSound
<1> HIDE DEF u
<1>7. /\ orders' = Tail(orders) /\ job' = job /\ b' = u
      /\ executed' = Append(executed, Head(orders)) /\ pc' = pc
  BY <1>1 DEF Execute
<1>8. Elements(g.nodes[n].ins) \cup Elements(g.nodes[n].outs) \subseteq Held
  <2>1. Elements(g.nodes[n].outs) \subseteq Values(g)
    BY <1>5 DEF Values, ComputedBy
  <2>2. Elements(g.nodes[n].ins) \subseteq Values(g)
    BY <1>4, <1>5, ModelOrder
  <2> QED  BY <1>1, <2>1, <2>2 DEF Held
<1> QED  BY <1>1, <1>6, <1>7, <1>8, DifferentiatedPlays DEF n

\* What is chosen by hand is in turn too, and nothing is played yet.
LEMMA CustomPolicyPlays ==
    ASSUME Inv, CustomPolicy
    PROVE  Inv' /\ played' = played
<1>1. /\ pc = "build" /\ pc' = pc /\ job.policy = "custom" /\ job' = job /\ executed' = executed /\ b' = b
      /\ IsJob(job) /\ Building(job, executed, orders, b)
  BY DEF CustomPolicy, Inv
<1>2. Ordered(job, executed, orders) /\ Sound(g, b) /\ Remembers(g, executed, DOMAIN b.staged)
  BY <1>1 DEF Building, g
<1>3. PICK order \in CustomChoices : orders' = <<order>>
  BY DEF CustomPolicy
<1>4. NecessaryNodes(g) \subseteq DOMAIN g.nodes /\ DOMAIN g.nodes \subseteq Nat /\ DOMAIN b.staged \subseteq Nat
  <2>1. IsModel(g)
    BY <1>1, NaturalOutputs
  <2>2. g.nodes \in Seq(Nodes)
    BY <2>1, ModelValues
  <2> QED  BY <1>2, <2>1, <2>2, Searches DEF Sound
<1>5. /\ order \in Orders(g)
      /\ order.kind = "ComputeBackward" => NextInTurn(g, executed, order.node)
  <2>1. \/ \E v \in DOMAIN b.staged : order = ForgetForward(v)
        \/ \E n \in DOMAIN g.nodes : order = ComputeForward(n)
        \/ \E n \in DOMAIN g.nodes \ Taken(executed) :
              /\ order = ComputeBackward(n)
              /\ \A k \in DOMAIN g.nodes :
                    Elements(g.nodes[k].ins) \cap Elements(g.nodes[n].outs) # {} => k \in Taken(executed)
    BY <1>3 DEF CustomChoices
  <2>2. CASE \E v \in DOMAIN b.staged : order = ForgetForward(v)
    BY <1>4, <2>2 DEF ForgetForward, Orders
  <2>3. CASE \E n \in DOMAIN g.nodes : order = ComputeForward(n)
    BY <1>4, <2>3 DEF ComputeForward, Orders
  <2>4. ASSUME NEW n \in DOMAIN g.nodes \ Taken(executed), order = ComputeBackward(n),
               \A k \in DOMAIN g.nodes :
                  Elements(g.nodes[k].ins) \cap Elements(g.nodes[n].outs) # {} => k \in Taken(executed)
        PROVE  order \in Orders(g) /\ NextInTurn(g, executed, order.node)
    <3>1. order \in Orders(g) /\ order.node = n
      BY <1>4, <2>4 DEF ComputeBackward, Orders
    <3>2. NextInTurn(g, executed, n)
      BY <1>4, <2>4 DEF NextInTurn, Feeds
    <3> QED  BY <3>1, <3>2
  <2> QED  BY <2>1, <2>2, <2>3, <2>4
<1>6. Ordered(job, executed, orders')
  <2>1. orders' \in Seq(Orders(g)) /\ DOMAIN orders' = {1} /\ Len(orders') = 1 /\ orders'[1] = order
    BY <1>3, <1>5
  <2>2. executed \in Seq(Orders(g))
    BY <1>2 DEF Ordered, g
  <2> QED  BY <1>1, <1>5, <2>1, <2>2 DEF Ordered, g
<1>7. Inv'
  <2>1. Building(job, executed, orders', b)
    BY <1>1, <1>6 DEF Building
  <2> QED  BY <1>1, <2>1 DEF Inv
<1>8. played' = played
  BY <1>1 DEF played, Held, g
<1> QED  BY <1>7, <1>8

LEMMA FinishPlays ==
    ASSUME Inv, Finish
    PROVE  Inv' /\ played' = played
<1>1. pc = "build" /\ job' = job /\ executed' = executed /\ pc' \in {"aborted", "done"}
      /\ (b' = b \/ b' = ExposeParamGradsAsOutputs(AddRetainedParts(b)))
  BY DEF Finish
<1>2. IsJob(job) /\ Sound(g, b)
  BY <1>1 DEF Inv, Building, g
<1>3. Inv'
  BY <1>1, <1>2 DEF Inv
<1>4. b'.staged = b.staged
  <2>1. DOMAIN b = BuilderFields \cup OtherFields
    BY <1>2 DEF Sound, Builder
  <2>2. ASSUME NEW s, DOMAIN s = BuilderFields \cup OtherFields
        PROVE  /\ DOMAIN AddRetainedParts(s) = DOMAIN s /\ AddRetainedParts(s).staged = s.staged
               /\ ExposeParamGradsAsOutputs(s).staged = s.staged
    BY <2>2 DEF AddRetainedParts, ExposeParamGradsAsOutputs, Scheduled, BuilderFields, OtherFields
  <2> QED  BY <1>1, <2>1, <2>2
<1>5. played' = played
  BY <1>1, <1>4 DEF played, Held, g
<1> QED  BY <1>3, <1>5

\* At the beginning the inputs are staged.
LEMMA InitPlays ==
    ASSUME Init
    PROVE  Inv /\ Game!GameInit
<1>1. IsJob(job) /\ pc = "begin" /\ executed = <<>> /\ b = InitialState
  BY JobsAreModels DEF Init
<1>2. IsModel(g) /\ g.inputs \subseteq Nat /\ g.inputs \subseteq Values(g)
  <2>1. IsModel(g)
    BY <1>1, NaturalOutputs
  <2>2. g.inputs \subseteq Nat
    BY <2>1, ModelValues
  <2> QED  BY <2>1, <2>2 DEF Values
<1>3. Sound(g, b)
  <2> DEFINE s == InitialState
  <2>1. /\ DOMAIN s = BuilderFields \cup OtherFields
        /\ s.grads = <<>> /\ s.retained = <<>> /\ s.added = <<>> /\ s.contexts = <<>>
        /\ s.fresh = 1 + Cardinality(Values(g)) /\ s.schedule = <<>>
        /\ s.first = <<>> /\ s.last = <<>> /\ s.staged = [v \in g.inputs |-> v]
    BY DEF InitialState, BuilderFields, OtherFields
  <2> HIDE DEF s
  <2>2. s.fresh \in Nat /\ \A v \in Values(g) : v < s.fresh
    <3>1. Cardinality(Values(g)) \in Nat /\ Values(g) = 1..Cardinality(Values(g))
      BY <1>2, ModelValues
    <3> QED  BY <2>1, <3>1
  <2>3. IsMap(s.grads) /\ IsMap(s.retained)
    BY <2>1 DEF IsMap
  <2>4. s.added \in Seq(Nodes) /\ s.contexts \in Seq(Nat \ Values(g)) /\ s.schedule \in Seq(Entries)
    BY <2>1
  <2>5. Builder(g, s)
    BY <2>1, <2>2, <2>3, <2>4 DEF Builder
  <2>6. IsMap(s.staged) /\ DOMAIN s.staged \subseteq Nat
    BY <1>2, <2>1 DEF IsMap
  <2>7. Placed(g, s)
    <3>1. DOMAIN s.first = {} /\ DOMAIN s.last = {}
      BY <2>1
    <3> QED  BY <3>1 DEF Placed
  <2>8. Sound(g, s)
    BY <2>4, <2>5, <2>6, <2>7 DEF Sound
  <2> QED  BY <1>1, <2>8 DEF s
<1>4. Inv
  BY <1>1, <1>3 DEF Inv, g
<1>5. Held \in {g.inputs, Values(g)}
  <2>1. DOMAIN b.staged = g.inputs
    BY <1>1 DEF InitialState
  <2> QED  BY <1>2, <2>1 DEF Held
<1>6. Taken(executed) = {}
  BY <1>1 DEF Taken
<1> QED  BY <1>4, <1>5, <1>6, SameGraph DEF Game!GameInit, Held

\* Every step of the compiler is a step of the game or none.
LEMMA NextPlays ==
    ASSUME Inv, [Next]_vars
    PROVE  Inv' /\ [Game!GameNext]_played
<1>1. CASE Begin
  BY <1>1, BeginPlays
<1>2. CASE FirstForward
  BY <1>2, FirstForwardPlays
<1>3. CASE Recompute
  BY <1>3, RecomputePlays
<1>4. CASE ForgetStaged
  BY <1>4, ForgetStagedPlays
<1>5. CASE ComputeGradients
  BY <1>5, ComputeGradientsPlays
<1>6. CASE AddGradient
  BY <1>6, AddGradientPlays
<1>7. CASE CustomPolicy
  BY <1>7, CustomPolicyPlays
<1>8. CASE Finish
  BY <1>8, FinishPlays
<1>9. CASE UNCHANGED vars
  <2>1. UNCHANGED <<job, choice, orders, executed, b, pc>>
    BY <1>9 DEF vars
  <2>2. Inv'
    BY <2>1 DEF Inv
  <2>3. played' = played
    BY <2>1 DEF played, Held, g
  <2> QED  BY <2>2, <2>3
<1> QED  BY <1>1, <1>2, <1>3, <1>4, <1>5, <1>6, <1>7, <1>8, <1>9 DEF Next, Stopped

\* The orders that are left and what is staged are as the next order needs,
\* whatever the model and the policy's choice.
THEOREM OrdersFit == Spec => []Inv
<1>1. Init => Inv
  BY InitPlays
<1>2. Inv /\ [Next]_vars => Inv'
  BY NextPlays
<1> QED  BY <1>1, <1>2, PTL DEF Spec

\* What is staged follows the rules of the game, for every model, policy and
\* choice: nothing is computed from or differentiated with a value that is
\* not held, nothing is computed twice without having been forgotten, and
\* gradients are taken once, after those of all necessary readers.
THEOREM GradientsPlayTheGame == Spec => PlaysTheGame
<1>1. Init => Inv /\ Game!GameInit
  BY InitPlays
<1>2. Inv /\ [Next]_vars => Inv' /\ [Game!GameNext]_(Game!gameVars)
  BY NextPlays DEF Game!gameVars, played, Held
<1> QED  BY <1>1, <1>2, PTL DEF Spec, PlaysTheGame, Game!GameSpec

(***************************************************************************)
(* What is read is there, for every model, every policy and every choice.  *)
(*                                                                         *)
(* While nodes are added for a gradient, they are not yet in a graph, and  *)
(* neither are the outputs the gradient adds to a node of `home`.          *)
(***************************************************************************)

\* The graph the gradients are in.
Late(j) == IF j.twoPhase THEN "backward" ELSE "forward"

\* What the nodes of a graph compute.
MadeBy(q, p) == UNION {Elements(q[k].node.outs) : k \in {i \in DOMAIN q : q[i].part = p}}

\* The values that stand for others in the backward graph.
StandIns(s) == {s.retained[w] : w \in {u \in DOMAIN s.retained : s.retained[u] # u}}
Copied(s, w) == IF w \in DOMAIN s.retained THEN s.retained[w] ELSE w

GivenTo(j, s, p) ==
    IF p = "forward" THEN j.graph.inputs ELSE Elements(s.outGrads) \cup StandIns(s)

\* What is given to a graph, or computed in it, now or once it is placed.
Available(j, home, s, p) ==
    GivenTo(j, s, p) \cup MadeBy(s.schedule, p)
        \cup (IF p = Late(j) THEN ComputedBy(s.added) ELSE {})
        \cup (IF p = home THEN Elements(s.contexts) ELSE {})

LostIn(s, p) == {f.value : f \in {x \in s.forgotten : x.part = p}}
Lost(s) == {f.value : f \in s.forgotten}

\* What an added node may read, and what may become a gradient.
Readable(j, home, s) == Available(j, home, s, Late(j)) \ LostIn(s, Late(j))
Gradable(j, home, s) ==
    Available(j, home, s, Late(j))
        \ (Values(j.graph) \cup Elements(s.staged) \cup Elements(s.retained) \cup Lost(s))

\* What a gradient may be taken with: if `keep`, what it retains.
Usable(j, home, keep, s) ==
    IF keep
    THEN {v \in DOMAIN s.retained \cup (Available(j, home, s, "forward") \ LostIn(s, "forward")) :
             v \notin Lost(s) /\ Copied(s, v) \notin Lost(s)}
    ELSE Readable(j, home, s)

\* All that has a name.
Names(j, s) ==
    Values(j.graph) \cup DOMAIN s.staged \cup Elements(s.staged)
        \cup DOMAIN s.retained \cup Elements(s.retained)
        \cup Elements(s.grads) \cup Elements(s.outGrads)
        \cup MadeBy(s.schedule, "forward") \cup MadeBy(s.schedule, "backward")
        \cup ComputedBy(s.added) \cup Elements(s.contexts) \cup Lost(s)
Named(j, s) == s.fresh > 0 /\ Names(j, s) \subseteq 1..(s.fresh - 1)

\* Each node that is placed reads what is there and has not been forgotten.
Fed(j, s) ==
    \A i \in DOMAIN s.schedule : \A v \in Elements(s.schedule[i].node.ins) :
        LET p == s.schedule[i].part
        IN  /\ \/ v \in GivenTo(j, s, p)
               \/ \E k \in DOMAIN s.schedule :
                     k < i /\ s.schedule[k].part = p /\ v \in Elements(s.schedule[k].node.outs)
            /\ \A f \in s.forgotten : f.value = v /\ f.part = p => i <= f.at

\* Each of these nodes computes one value, which is named after those it reads.
Numbered(nodes, known) ==
    /\ \A i \in DOMAIN nodes :
          /\ Len(nodes[i].outs) = 1
          /\ \A v \in Elements(nodes[i].ins) : v \in known /\ v < nodes[i].outs[1]
    /\ \A i, k \in DOMAIN nodes : nodes[i].outs[1] = nodes[k].outs[1] => i = k
AddedWell(j, home, s) == Numbered(s.added, Readable(j, home, s))

Graded(j, home, s) == Elements(s.grads) \subseteq Gradable(j, home, s)

\* What is retained is in the forward graph, and what was computed again is
\* in the graph of the gradients.
RetainedWell(j, home, s) ==
    \A w \in DOMAIN s.retained :
        /\ s.retained[w] \notin Values(j.graph)
        /\ s.retained[w] = w => w \in Available(j, home, s, Late(j))
        /\ s.retained[w] # w =>
              j.twoPhase /\ w \in Available(j, home, s, "forward") \ LostIn(s, "forward")

\* What is staged is there, and no value stands for two.
StagedWell(j, home, s) ==
    \A v \in DOMAIN s.staged :
        LET w == s.staged[v]
        IN  /\ w \in DOMAIN s.retained \/ (w = v /\ w \in Available(j, home, s, "forward"))
            /\ w = v \/ w \notin Values(j.graph)
            /\ w \notin Lost(s) /\ Copied(s, w) \notin Lost(s)
            /\ j.twoPhase /\ s.turned /\ j.policy # "none" =>
                  w \in s.stagedInForward \cup DOMAIN s.retained
            /\ \A u \in DOMAIN s.staged : u # v =>
                  {w, Copied(s, w)} \cap {s.staged[u], Copied(s, s.staged[u])} = {}

\* A value of the model is computed by its node and was there if it was forgotten.
OriginsWell(j, s) ==
    /\ \A p \in Parts : MadeBy(s.schedule, p) \cap Values(j.graph) \subseteq
           UNION {Elements(j.graph.nodes[n].outs) : n \in DOMAIN s.first}
    /\ Lost(s) \cap Values(j.graph) \subseteq j.graph.inputs \cup MadeBy(s.schedule, "forward")
    /\ ComputedBy(s.added) \cap Values(j.graph) = {}

\* A node is computed in the forward graph, and again where the gradients are.
PlacesWell(j, s) ==
    \A n \in DOMAIN s.first :
        LET node == s.schedule[s.first[n]].node
        IN  /\ s.schedule[s.first[n]].part = "forward"
            /\ node.outs # <<>> /\ node.outs[1] \in Values(j.graph)
            /\ s.last[n] # s.first[n] =>
                  /\ s.schedule[s.last[n]].part = Late(j)
                  /\ j.twoPhase =>
                        \A v \in (Elements(node.ins) \cup Elements(node.outs)) \cap DOMAIN s.staged :
                            s.staged[v] \in DOMAIN s.retained

Phases(j, s) ==
    /\ ~j.twoPhase => s.stagedInForward = {}
    /\ ~s.turned => s.outGrads = <<>>
    /\ j.twoPhase /\ ~s.turned => DOMAIN s.retained = {} /\ s.first = s.last
    /\ j.policy = "none" =>
          /\ s.first = s.last /\ s.forgotten = {}
          /\ Values(j.graph) \subseteq DOMAIN s.staged
          /\ \A v \in DOMAIN s.staged : s.staged[v] = v

Track(j, home, s) ==
    /\ Named(j, s)
    /\ Elements(s.contexts) \cap (Values(j.graph) \cup DOMAIN s.staged) = {}
    /\ Fed(j, s)
    /\ AddedWell(j, home, s)
    /\ Graded(j, home, s)
    /\ RetainedWell(j, home, s)
    /\ StagedWell(j, home, s)
    /\ OriginsWell(j, s)
    /\ PlacesWell(j, s)
    /\ Phases(j, s)

\* A step that leaves the computed nodes where they are, and what of them is
\* retained, keeps their places.
LEMMA PlacesKept ==
    ASSUME NEW j, NEW s, NEW t, PlacesWell(j, s), t.first = s.first, t.last = s.last,
           \A n \in DOMAIN s.first : /\ t.schedule[s.first[n]] = s.schedule[s.first[n]]
                                    /\ t.schedule[s.last[n]] = s.schedule[s.last[n]],
           DOMAIN t.staged \subseteq DOMAIN s.staged,
           \A v \in DOMAIN t.staged :
               s.staged[v] \in DOMAIN s.retained => t.staged[v] \in DOMAIN t.retained
    PROVE  PlacesWell(j, t)
<1> SUFFICES ASSUME NEW n \in DOMAIN t.first
             PROVE  LET node == t.schedule[t.first[n]].node
                    IN  /\ t.schedule[t.first[n]].part = "forward"
                        /\ node.outs # <<>> /\ node.outs[1] \in Values(j.graph)
                        /\ t.last[n] # t.first[n] =>
                              /\ t.schedule[t.last[n]].part = Late(j)
                              /\ j.twoPhase =>
                                    \A v \in (Elements(node.ins) \cup Elements(node.outs))
                                              \cap DOMAIN t.staged :
                                        t.staged[v] \in DOMAIN t.retained
  BY Zenon DEF PlacesWell
<1> DEFINE first == t.schedule[t.first[n]]
           last == t.schedule[t.last[n]]
           read == Elements(first.node.ins) \cup Elements(first.node.outs)
<1>1. /\ n \in DOMAIN s.first /\ t.first[n] = s.first[n] /\ t.last[n] = s.last[n]
      /\ s.schedule[s.first[n]] = first /\ s.schedule[s.last[n]] = last
  OBVIOUS
<1> HIDE DEF first, last
<1>2. /\ first.part = "forward"
      /\ first.node.outs # <<>> /\ first.node.outs[1] \in Values(j.graph)
      /\ t.last[n] # t.first[n] =>
            /\ last.part = Late(j)
            /\ j.twoPhase => \A v \in read \cap DOMAIN s.staged : s.staged[v] \in DOMAIN s.retained
  BY <1>1 DEF PlacesWell
<1> HIDE DEF read
<1>3. ASSUME t.last[n] # t.first[n], j.twoPhase, NEW v \in read \cap DOMAIN t.staged
      PROVE  t.staged[v] \in DOMAIN t.retained
  BY <1>2, <1>3
<1> QED  BY <1>2, <1>3, Zenon DEF first, last, read

\* t is s with more nodes added.
Adds(j, home, s, t) ==
    /\ Builds(j.graph, s, t)
    /\ Track(j, home, t)
    /\ Readable(j, home, s) \subseteq Readable(j, home, t)
    /\ Gradable(j, home, s) \subseteq Gradable(j, home, t)
    /\ \A keep \in BOOLEAN : Usable(j, home, keep, s) \subseteq Usable(j, home, keep, t)

LEMMA AddsMore ==
    ASSUME NEW j, NEW home, NEW s, NEW t, NEW u, Adds(j, home, s, t), Adds(j, home, t, u)
    PROVE  Adds(j, home, s, u)
<1>1. Builds(j.graph, s, u)
  BY BuildsMore DEF Adds
<1>2. \A keep \in BOOLEAN : Usable(j, home, keep, s) \subseteq Usable(j, home, keep, u)
  BY DEF Adds
<1> QED  BY <1>1, <1>2 DEF Adds

\* Only nodes are added, of which some compute new gradients.
LEMMA AddingTracks ==
    ASSUME NEW j, NEW home, NEW s, Builder(j.graph, s), Track(j, home, s),
           NEW t, Builds(j.graph, s, t),
           t.retained = s.retained, t.contexts = s.contexts, s.fresh <= t.fresh,
           ComputedBy(s.added) \subseteq ComputedBy(t.added),
           ComputedBy(t.added) \subseteq ComputedBy(s.added) \cup (s.fresh..(t.fresh - 1)),
           AddedWell(j, home, t),
           Elements(t.grads) \subseteq
               Gradable(j, home, s) \cup (ComputedBy(t.added) \cap (s.fresh..(t.fresh - 1)))
    PROVE  Adds(j, home, s, t)
<1>1. /\ t.schedule = s.schedule /\ t.first = s.first /\ t.last = s.last /\ t.staged = s.staged
      /\ t.turned = s.turned /\ t.stagedInForward = s.stagedInForward
      /\ t.outGrads = s.outGrads /\ t.forgotten = s.forgotten
  BY DEF Builds, OtherFields
<1>2. s.fresh \in Nat /\ t.fresh \in Nat /\ s.fresh > 0
  BY DEF Builds, Builder, Track, Named
<1>3. Lost(t) = Lost(s) /\ \A p : LostIn(t, p) = LostIn(s, p)
  BY <1>1 DEF Lost, LostIn
<1>4. StandIns(t) = StandIns(s) /\ \A w : Copied(t, w) = Copied(s, w)
  BY DEF StandIns, Copied
<1>5. \A p : GivenTo(j, t, p) = GivenTo(j, s, p)
  BY <1>1, <1>4 DEF GivenTo
<1>6. \A p : Available(j, home, s, p) \subseteq Available(j, home, t, p)
  BY <1>1, <1>5 DEF Available
<1>7. ComputedBy(t.added) \subseteq Available(j, home, t, Late(j))
  BY DEF Available
<1>8. Names(j, s) \subseteq 1..(s.fresh - 1)
  BY DEF Track, Named
<1>9. Readable(j, home, s) \subseteq Readable(j, home, t)
  BY <1>3, <1>6 DEF Readable
<1>10. Gradable(j, home, s) \subseteq Gradable(j, home, t)
  BY <1>1, <1>3, <1>6 DEF Gradable
<1>11. \A keep \in BOOLEAN : Usable(j, home, keep, s) \subseteq Usable(j, home, keep, t)
  BY <1>3, <1>4, <1>6, <1>9 DEF Usable
<1>12. Graded(j, home, t)
  <2> SUFFICES ASSUME NEW x \in ComputedBy(t.added), x \in s.fresh..(t.fresh - 1)
               PROVE  x \in Gradable(j, home, t)
    BY <1>10 DEF Graded
  <2>1. x \notin Names(j, s)
    BY <1>2, <1>8
  <2>2. x \notin Values(j.graph) \cup Elements(s.staged) \cup Elements(s.retained) \cup Lost(s)
    BY <2>1 DEF Names
  <2> QED  BY <1>1, <1>3, <1>7, <2>2 DEF Gradable
<1>13. Named(j, t)
  <2>1. Gradable(j, home, s) \subseteq 1..(t.fresh - 1)
    <3>1. Gradable(j, home, s) \subseteq Names(j, s) \cup StandIns(s) \cup j.graph.inputs
      BY DEF Gradable, Available, Names, GivenTo, Late
    <3>2. StandIns(s) \subseteq Names(j, s) /\ j.graph.inputs \subseteq Names(j, s)
      BY DEF StandIns, Names, Elements, Values
    <3> QED  BY <1>2, <1>8, <3>1, <3>2
  <2>2. Elements(t.grads) \subseteq 1..(t.fresh - 1)
    BY <1>2, <1>8, <2>1
  <2>3. ComputedBy(t.added) \subseteq 1..(t.fresh - 1)
    BY <1>2, <1>8 DEF Names
  <2>4. Names(j, t) \subseteq Names(j, s) \cup Elements(t.grads) \cup ComputedBy(t.added)
    BY <1>1, <1>3 DEF Names
  <2> QED  BY <1>2, <1>8, <2>2, <2>3, <2>4 DEF Named
<1>14. Fed(j, t)
  BY <1>1, <1>5 DEF Track, Fed
<1>15. RetainedWell(j, home, t)
  BY <1>3, <1>6 DEF Track, RetainedWell
<1>16. StagedWell(j, home, t)
  BY <1>1, <1>3, <1>4, <1>6 DEF Track, StagedWell
<1>17. OriginsWell(j, t)
  <2>1. ComputedBy(t.added) \cap Values(j.graph) = {}
    BY <1>2, <1>8 DEF Names, Track, OriginsWell
  <2> QED  BY <1>1, <1>3, <2>1 DEF Track, OriginsWell
<1>18. PlacesWell(j, t) /\ Phases(j, t)
  <2>1. PlacesWell(j, t)
    <3>1. PlacesWell(j, s)
      BY DEF Track
    <3> QED  BY <1>1, <3>1, PlacesKept
  <2>2. Phases(j, t)
    BY <1>1 DEF Track, Phases
  <2> QED  BY <2>1, <2>2
<1>19. Elements(t.contexts) \cap (Values(j.graph) \cup DOMAIN t.staged) = {}
  BY <1>1 DEF Track
<1> QED  BY <1>9, <1>10, <1>11, <1>12, <1>13, <1>14, <1>15, <1>16, <1>17, <1>18, <1>19 DEF Adds, Track


\* What there is to read only grows.
LEMMA ReadableGrows ==
    ASSUME NEW j, NEW home, NEW s, Builder(j.graph, s), Named(j, s),
           NEW t, Builds(j.graph, s, t), t.retained = s.retained, t.contexts = s.contexts,
           ComputedBy(s.added) \subseteq ComputedBy(t.added)
    PROVE  /\ Readable(j, home, s) \subseteq Readable(j, home, t)
           /\ \A x \in ComputedBy(t.added) : x >= s.fresh => x \in Readable(j, home, t)
           /\ \A x \in Readable(j, home, s) : x \in Nat /\ x < s.fresh
           /\ Gradable(j, home, s) \subseteq Readable(j, home, s)
<1>1. t.schedule = s.schedule /\ t.outGrads = s.outGrads /\ t.forgotten = s.forgotten
  BY DEF Builds, OtherFields
<1>2. Lost(t) = Lost(s) /\ \A p : LostIn(t, p) = LostIn(s, p) /\ LostIn(s, p) \subseteq Lost(s)
  BY <1>1 DEF Lost, LostIn
<1>3. \A p : Available(j, home, s, p) \subseteq Available(j, home, t, p)
  BY <1>1 DEF Available, GivenTo, StandIns
<1>4. s.fresh \in Nat /\ Names(j, s) \subseteq 1..(s.fresh - 1)
  BY DEF Builder, Named
<1>5. ASSUME NEW x \in ComputedBy(t.added), x >= s.fresh PROVE x \in Readable(j, home, t)
  <2>1. x \notin Lost(s)
    BY <1>4, <1>5 DEF Names
  <2>2. x \in Available(j, home, t, Late(j))
    BY DEF Available
  <2> QED  BY <1>2, <2>1, <2>2 DEF Readable
<1>6. ASSUME NEW x \in Readable(j, home, s) PROVE x \in Names(j, s)
  <2>1. Available(j, home, s, Late(j)) \subseteq Names(j, s) \cup StandIns(s) \cup j.graph.inputs
    BY DEF Available, Names, GivenTo, Late
  <2>2. StandIns(s) \subseteq Names(j, s) /\ j.graph.inputs \subseteq Names(j, s)
    BY DEF StandIns, Names, Elements, Values
  <2> QED  BY <2>1, <2>2 DEF Readable
<1> QED  BY <1>2, <1>3, <1>4, <1>5, <1>6 DEF Readable, Gradable

LEMMA ComputedByMore ==
    ASSUME NEW nodes \in Seq(Nodes), NEW node \in Nodes, NEW x, node.outs = <<x>>
    PROVE  /\ Append(nodes, node) \in Seq(Nodes)
           /\ ComputedBy(Append(nodes, node)) = ComputedBy(nodes) \cup {x}
<1> DEFINE more == Append(nodes, node)
<1>1. /\ more \in Seq(Nodes) /\ DOMAIN more = DOMAIN nodes \cup {Len(nodes) + 1}
      /\ \A i \in DOMAIN nodes : more[i] = nodes[i]
      /\ more[Len(nodes) + 1] = node
  OBVIOUS
<1>2. Elements(node.outs) = {x}
  BY DEF Elements
<1> HIDE DEF more
<1> QED  BY <1>1, <1>2 DEF ComputedBy, more

LEMMA NumberedMore ==
    ASSUME NEW nodes \in Seq(Nodes), NEW known, Numbered(nodes, known),
           NEW node \in Nodes, NEW x, node.outs = <<x>>, x \notin ComputedBy(nodes),
           \A v \in Elements(node.ins) : v \in known /\ v < x
    PROVE  Numbered(Append(nodes, node), known)
<1> DEFINE more == Append(nodes, node)
           n    == Len(nodes) + 1
<1>1. /\ DOMAIN more = DOMAIN nodes \cup {n} /\ n \notin DOMAIN nodes
      /\ \A i \in DOMAIN nodes : more[i] = nodes[i] /\ nodes[i].outs \in Seq(Nat)
      /\ more[n] = node
  <2>1. \A i \in DOMAIN nodes : nodes[i].outs \in Seq(Nat)
    BY DomainOfNodes
  <2> QED  BY <2>1
<1>2. Len(node.outs) = 1 /\ node.outs[1] = x
  OBVIOUS
<1> HIDE DEF more, n
<1>3. ASSUME NEW i \in DOMAIN nodes PROVE nodes[i].outs[1] # x
  <2>1. Len(nodes[i].outs) = 1
    BY DEF Numbered
  <2>2. 1 \in DOMAIN nodes[i].outs
    BY <1>1, <2>1
  <2> QED  BY <2>2 DEF ComputedBy, Elements
<1> QED  BY <1>1, <1>2, <1>3 DEF Numbered, more

LEMMA NumberedFurther ==
    ASSUME NEW nodes, NEW known, Numbered(nodes, known), NEW more, known \subseteq more
    PROVE  Numbered(nodes, more)
BY DEF Numbered

\* The fields of a state to which a node was added.
LEMMA OpFields ==
    ASSUME NEW h, NEW s, Builder(h, s), NEW op, NEW ins
    PROVE  LET t == Op(s, op, ins)
           IN  /\ t.added = Append(s.added, Node(op, ins, <<s.fresh>>))
               /\ t.fresh = s.fresh + 1
               /\ t.grads = s.grads /\ t.retained = s.retained /\ t.contexts = s.contexts
BY DEF Op, Builder, BuilderFields, OtherFields

LEMMA NodeType ==
    ASSUME NEW op \in Operators \cup AddedOperators, NEW ins \in Seq(Nat), NEW x \in Nat
    PROVE  /\ Node(op, ins, <<x>>) \in Nodes
           /\ Node(op, ins, <<x>>).outs = <<x>> /\ Node(op, ins, <<x>>).ins = ins
<1>1. <<x>> \in Seq(Nat)
  OBVIOUS
<1> QED  BY <1>1 DEF Node, Nodes

LEMMA OpAdds ==
    ASSUME NEW j, IsModel(j.graph), NEW home, NEW s, Builder(j.graph, s), Track(j, home, s),
           NEW op \in Operators \cup AddedOperators, NEW ins \in Seq(Nat),
           Elements(ins) \subseteq Readable(j, home, s)
    PROVE  /\ Adds(j, home, s, Op(s, op, ins))
           /\ s.fresh \in Gradable(j, home, Op(s, op, ins))
           /\ s.fresh \in Readable(j, home, Op(s, op, ins))
<1> DEFINE t == Op(s, op, ins)
           node == Node(op, ins, <<s.fresh>>)
<1>1. s.fresh \in Nat /\ s.added \in Seq(Nodes) /\ Names(j, s) \subseteq 1..(s.fresh - 1) /\ Named(j, s)
  BY DEF Builder, Track, Named
<1>2. node \in Nodes /\ node.outs = <<s.fresh>> /\ node.ins = ins
  BY <1>1, NodeType
<1>3. Builds(j.graph, s, t)
  BY OpBuilds
<1>4. /\ t.added = Append(s.added, node) /\ t.fresh = s.fresh + 1
      /\ t.grads = s.grads /\ t.retained = s.retained /\ t.contexts = s.contexts
  BY OpFields
<1> HIDE DEF t, node
<1>5. ComputedBy(t.added) = ComputedBy(s.added) \cup {s.fresh}
  BY <1>1, <1>2, <1>4, ComputedByMore
<1>6. /\ Readable(j, home, s) \subseteq Readable(j, home, t) /\ s.fresh \in Readable(j, home, t)
      /\ \A x \in Readable(j, home, s) : x \in Nat /\ x < s.fresh
  <2>1. /\ Readable(j, home, s) \subseteq Readable(j, home, t)
        /\ \A x \in ComputedBy(t.added) : x >= s.fresh => x \in Readable(j, home, t)
        /\ \A x \in Readable(j, home, s) : x \in Nat /\ x < s.fresh
    BY <1>1, <1>3, <1>4, <1>5, ReadableGrows
  <2>2. s.fresh \in ComputedBy(t.added) /\ s.fresh >= s.fresh
    BY <1>1, <1>5
  <2> QED  BY <2>1, <2>2
<1>7. s.fresh \notin Names(j, s)
  BY <1>1
<1>8. AddedWell(j, home, t)
  <2>1. Numbered(s.added, Readable(j, home, t))
    BY <1>6, NumberedFurther DEF Track, AddedWell
  <2>2. s.fresh \notin ComputedBy(s.added)
    BY <1>7 DEF Names
  <2> QED  BY <1>1, <1>2, <1>4, <1>6, <2>1, <2>2, NumberedMore DEF AddedWell
<1>9. Elements(t.grads) \subseteq Gradable(j, home, s)
  BY <1>4 DEF Track, Graded
<1>10. Adds(j, home, s, t)
  <2>1. s.fresh <= t.fresh /\ s.fresh \in s.fresh..(t.fresh - 1)
    BY <1>1, <1>4
  <2> QED  BY <1>3, <1>4, <1>5, <1>8, <1>9, <2>1, AddingTracks
<1>11. s.fresh \in Gradable(j, home, t)
  <2>1. t.staged = s.staged /\ t.forgotten = s.forgotten
    BY <1>3 DEF Builds, OtherFields
  <2>2. s.fresh \notin Values(j.graph) \cup Elements(t.staged) \cup Elements(t.retained) \cup Lost(t)
    BY <1>4, <1>7, <2>1 DEF Names, Lost
  <2> QED  BY <1>6, <2>2 DEF Gradable, Readable
<1> QED  BY <1>6, <1>10, <1>11 DEF t


LEMMA ElementsOfPair ==
    ASSUME NEW x \in Nat, NEW y \in Nat
    PROVE  <<x, y>> \in Seq(Nat) /\ Elements(<<x, y>>) = {x, y}
<1>1. <<x, y>> \in Seq(Nat) /\ Len(<<x, y>>) = 2 /\ <<x, y>>[1] = x /\ <<x, y>>[2] = y
  OBVIOUS
<1>2. DOMAIN <<x, y>> = 1..2
  BY <1>1
<1>3. 1..2 = {1, 2}
  OBVIOUS
<1> HIDE <1>1
<1> QED  BY <1>1, <1>2, <1>3 DEF Elements

LEMMA ElementsOfOne ==
    ASSUME NEW x \in Nat
    PROVE  <<x>> \in Seq(Nat) /\ Elements(<<x>>) = {x}
BY DEF Elements

\* The values of a map with another entry.
LEMMA ElementsWith ==
    ASSUME NEW f, NEW x, NEW y
    PROVE  Elements(With(f, x, y)) \subseteq Elements(f) \cup {y}
BY DEF Elements, With, Over

\* The fields of a state with other gradients.
LEMMA GradsFields ==
    ASSUME NEW h, NEW s, Builder(h, s), NEW grads
    PROVE  LET t == [s EXCEPT !.grads = grads]
           IN  /\ t.grads = grads
               /\ t.added = s.added /\ t.fresh = s.fresh /\ t.retained = s.retained
               /\ t.contexts = s.contexts
BY DEF Builder, BuilderFields, OtherFields

LEMMA SetGradFields ==
    ASSUME NEW h, IsModel(h), NEW s, Builder(h, s), NEW x, NEW gx \in Nat
    PROVE  LET t == SetGrad(s, x, gx)
               node == Node("AccumulateGrad", <<s.grads[x], gx>>, <<s.fresh>>)
           IN  /\ t.retained = s.retained /\ t.contexts = s.contexts
               /\ HasGrad(s, x) =>
                     /\ t.added = Append(s.added, node) /\ t.fresh = s.fresh + 1
                     /\ t.grads = With(s.grads, x, s.fresh)
               /\ ~HasGrad(s, x) =>
                     /\ t.added = s.added /\ t.fresh = s.fresh
                     /\ t.grads = With(s.grads, x, gx)
<1>1. CASE HasGrad(s, x)
  <2> DEFINE ins == <<s.grads[x], gx>>
             op  == "AccumulateGrad"
             c   == Op(s, op, ins)
             grads == WithGrad(c.grads, x, s.fresh)
  <2>1. ins \in Seq(Nat)
    <3>1. s.grads[x] \in Nat
      BY <1>1 DEF HasGrad, Builder, IsMap
    <3> QED  BY <3>1
  <2>2. SetGrad(s, x, gx) = [c EXCEPT !.grads = grads]
    BY <1>1 DEF SetGrad, Grad
  <2>3. op \in Operators \cup AddedOperators
    BY DEF Operators, AddedOperators
  <2> HIDE DEF ins, op
  <2>4. /\ c.added = Append(s.added, Node(op, ins, <<s.fresh>>)) /\ c.fresh = s.fresh + 1
        /\ c.grads = s.grads /\ c.retained = s.retained /\ c.contexts = s.contexts
    BY OpFields
  <2>5. Builder(h, c)
    BY <2>1, <2>3, OpBuilds DEF Builds
  <2> HIDE DEF c, grads
  <2> DEFINE t == [c EXCEPT !.grads = grads]
  <2>6. /\ t.grads = grads /\ t.added = c.added /\ t.fresh = c.fresh
        /\ t.retained = c.retained /\ t.contexts = c.contexts
    BY <2>5, GradsFields
  <2> HIDE DEF t
  <2>7. grads = With(s.grads, x, s.fresh)
    BY <2>4 DEF grads, WithGrad
  <2> QED  BY <1>1, <2>2, <2>4, <2>6, <2>7 DEF t, op, ins
<1>2. CASE ~HasGrad(s, x)
  <2> DEFINE grads == WithGrad(s.grads, x, gx)
  <2>1. SetGrad(s, x, gx) = [s EXCEPT !.grads = grads]
    BY <1>2 DEF SetGrad
  <2> HIDE DEF grads
  <2>2. LET t == [s EXCEPT !.grads = grads]
        IN  /\ t.grads = grads /\ t.added = s.added /\ t.fresh = s.fresh
            /\ t.retained = s.retained /\ t.contexts = s.contexts
    BY GradsFields
  <2> QED  BY <1>2, <2>1, <2>2 DEF grads, WithGrad
<1> QED  BY <1>1, <1>2

LEMMA SetGradAdds ==
    ASSUME NEW j, IsModel(j.graph), NEW home, NEW s, Builder(j.graph, s), Track(j, home, s),
           NEW x, NEW gx \in Gradable(j, home, s)
    PROVE  Adds(j, home, s, SetGrad(s, x, gx))
<1> DEFINE t == SetGrad(s, x, gx)
           r == Readable(j, home, s)
           ins == <<s.grads[x], gx>>
           node == Node("AccumulateGrad", ins, <<s.fresh>>)
<1>1. s.fresh \in Nat /\ s.added \in Seq(Nodes) /\ Names(j, s) \subseteq 1..(s.fresh - 1) /\ Named(j, s)
      /\ Elements(s.grads) \subseteq Gradable(j, home, s) /\ Numbered(s.added, r)
  BY DEF Builder, Track, Named, Graded, AddedWell
<1>2. gx \in r /\ gx \in Nat /\ gx < s.fresh /\ Elements(s.grads) \subseteq r
      /\ \A y \in r : y \in Nat /\ y < s.fresh
  <2>1. Builds(j.graph, s, s)
    BY DEF Builds
  <2>2. Gradable(j, home, s) \subseteq r /\ \A y \in r : y \in Nat /\ y < s.fresh
    BY <1>1, <2>1, ReadableGrows
  <2> HIDE DEF r
  <2> QED  BY <1>1, <2>2
<1>3. Builds(j.graph, s, t)
  BY <1>2, SetGradBuilds
<1>4. /\ t.retained = s.retained /\ t.contexts = s.contexts
      /\ HasGrad(s, x) =>
            /\ t.added = Append(s.added, node) /\ t.fresh = s.fresh + 1
            /\ t.grads = With(s.grads, x, s.fresh)
      /\ ~HasGrad(s, x) =>
            /\ t.added = s.added /\ t.fresh = s.fresh
            /\ t.grads = With(s.grads, x, gx)
  BY <1>2, SetGradFields
<1> HIDE DEF t
<1>5. CASE ~HasGrad(s, x)
  <2>1. Elements(t.grads) \subseteq Gradable(j, home, s)
    BY <1>1, <1>4, <1>5, ElementsWith
  <2>2. r \subseteq Readable(j, home, t)
    BY <1>1, <1>3, <1>4, <1>5, ReadableGrows
  <2>3. AddedWell(j, home, t)
    BY <1>1, <1>4, <1>5, <2>2, NumberedFurther DEF AddedWell
  <2>4. s.fresh <= t.fresh
    BY <1>1, <1>4, <1>5
  <2> QED  BY <1>3, <1>4, <1>5, <2>1, <2>3, <2>4, AddingTracks DEF t
<1>6. CASE HasGrad(s, x)
  <2>1. s.grads[x] \in Elements(s.grads)
    BY <1>6 DEF HasGrad, Elements
  <2>2. ins \in Seq(Nat) /\ Elements(ins) = {s.grads[x], gx}
    BY <1>2, <2>1, ElementsOfPair
  <2>3. node \in Nodes /\ node.outs = <<s.fresh>> /\ node.ins = ins
    <3> DEFINE op == "AccumulateGrad"
    <3>1. op \in Operators \cup AddedOperators
      BY DEF AddedOperators
    <3> HIDE DEF op, ins
    <3>2. Node(op, ins, <<s.fresh>>) \in Nodes /\ Node(op, ins, <<s.fresh>>).outs = <<s.fresh>>
          /\ Node(op, ins, <<s.fresh>>).ins = ins
      BY <1>1, <2>2, <3>1, NodeType
    <3> QED  BY <3>2 DEF op
  <2> HIDE DEF node, ins
  <2>4. ComputedBy(t.added) = ComputedBy(s.added) \cup {s.fresh}
    <3>1. ComputedBy(Append(s.added, node)) = ComputedBy(s.added) \cup {s.fresh}
      BY <1>1, <2>3, ComputedByMore
    <3> QED  BY <1>4, <1>6, <3>1
  <2>5. r \subseteq Readable(j, home, t)
    BY <1>1, <1>3, <1>4, <2>4, ReadableGrows
  <2>6. AddedWell(j, home, t)
    <3>1. Numbered(s.added, Readable(j, home, t))
      BY <1>1, <2>5, NumberedFurther
    <3>2. s.fresh \notin ComputedBy(s.added)
      BY <1>1 DEF Names
    <3>3. \A v \in Elements(node.ins) : v \in Readable(j, home, t) /\ v < s.fresh
      BY <1>2, <2>1, <2>2, <2>3, <2>5
    <3> QED  BY <1>1, <1>4, <1>6, <2>3, <3>1, <3>2, <3>3, NumberedMore DEF AddedWell
  <2>7. s.fresh <= t.fresh /\ s.fresh \in s.fresh..(t.fresh - 1)
    BY <1>1, <1>4, <1>6
  <2>8. Elements(t.grads) \subseteq Gradable(j, home, s) \cup {s.fresh}
    BY <1>1, <1>4, <1>6, ElementsWith
  <2> QED  BY <1>3, <1>4, <2>4, <2>6, <2>7, <2>8, AddingTracks DEF t
<1> QED  BY <1>5, <1>6 DEF t


\* The gradient is named, added to what x has, and computed.
GradOpMakes(s, op, x, ins, t) ==
    LET node  == Node(op, ins, <<s.fresh>>)
        total == Node("AccumulateGrad", <<s.grads[x], s.fresh>>, <<s.fresh + 1>>)
    IN  /\ t.retained = s.retained /\ t.contexts = s.contexts
        /\ HasGrad(s, x) =>
              /\ t.added = Append(Append(s.added, total), node) /\ t.fresh = s.fresh + 2
              /\ t.grads = With(s.grads, x, s.fresh + 1)
        /\ ~HasGrad(s, x) =>
              /\ t.added = Append(s.added, node) /\ t.fresh = s.fresh + 1
              /\ t.grads = With(s.grads, x, s.fresh)

LEMMA GradOpFields ==
    ASSUME NEW j, IsModel(j.graph), NEW s, Builder(j.graph, s), NEW op, NEW x, NEW ins
    PROVE  GradOpMakes(s, op, x, ins, GradOp(s, op, x, ins))
<1> DEFINE r == [s EXCEPT !.fresh = @ + 1]
           c == SetGrad(r, x, s.fresh)
           node == Node(op, ins, <<s.fresh>>)
           t == GradOp(s, op, x, ins)
           h == j.graph
<1>0. IsModel(h) /\ Builder(h, s)
  OBVIOUS
<1> HIDE DEF h
<1>1. s.fresh \in Nat
  BY <1>0 DEF Builder
<1>2. Builder(h, r)
  BY <1>0, NamingBuilds DEF Builds
<1>3. /\ r.fresh = s.fresh + 1 /\ r.grads = s.grads /\ r.added = s.added
      /\ r.retained = s.retained /\ r.contexts = s.contexts
  BY <1>0 DEF Builder, BuilderFields, OtherFields
<1>4. t = [c EXCEPT !.added = Append(@, node)]
  BY DEF GradOp
<1> HIDE DEF r, node, t
<1>5. HasGrad(r, x) <=> HasGrad(s, x)
  BY <1>3 DEF HasGrad
<1>6. Builder(h, c)
  BY <1>0, <1>1, <1>2, SetGradBuilds DEF Builds
<1>7. LET total == Node("AccumulateGrad", <<r.grads[x], s.fresh>>, <<r.fresh>>)
      IN  /\ c.retained = r.retained /\ c.contexts = r.contexts
          /\ HasGrad(r, x) =>
                /\ c.added = Append(r.added, total) /\ c.fresh = r.fresh + 1
                /\ c.grads = With(r.grads, x, r.fresh)
          /\ ~HasGrad(r, x) =>
                /\ c.added = r.added /\ c.fresh = r.fresh
                /\ c.grads = With(r.grads, x, s.fresh)
  BY <1>0, <1>1, <1>2, SetGradFields
<1> HIDE DEF c
<1>8. /\ t.added = Append(c.added, node) /\ t.fresh = c.fresh /\ t.grads = c.grads
      /\ t.retained = c.retained /\ t.contexts = c.contexts
  BY <1>4, <1>6 DEF Builder, BuilderFields, OtherFields
<1>9. (s.fresh + 1) + 1 = s.fresh + 2
  BY <1>1
<1> QED  BY <1>3, <1>5, <1>7, <1>8, <1>9 DEF GradOpMakes, t, node

LEMMA GradOpAdds ==
    ASSUME NEW j, IsModel(j.graph), NEW home, NEW s, Builder(j.graph, s), Track(j, home, s),
           NEW op \in Operators \cup AddedOperators, NEW x, NEW ins \in Seq(Nat),
           Elements(ins) \subseteq Readable(j, home, s)
    PROVE  Adds(j, home, s, GradOp(s, op, x, ins))
<1> DEFINE t == GradOp(s, op, x, ins)
           r == Readable(j, home, s)
           node  == Node(op, ins, <<s.fresh>>)
           both  == <<s.grads[x], s.fresh>>
           total == Node("AccumulateGrad", both, <<s.fresh + 1>>)
<1>1. s.fresh \in Nat /\ s.added \in Seq(Nodes) /\ Names(j, s) \subseteq 1..(s.fresh - 1) /\ Named(j, s)
      /\ Elements(s.grads) \subseteq Gradable(j, home, s) /\ Numbered(s.added, r)
  BY DEF Builder, Track, Named, Graded, AddedWell
<1>2. Elements(s.grads) \subseteq r /\ \A y \in r : y \in Nat /\ y < s.fresh
  <2>1. Builds(j.graph, s, s)
    BY DEF Builds
  <2>2. Gradable(j, home, s) \subseteq r /\ \A y \in r : y \in Nat /\ y < s.fresh
    BY <1>1, <2>1, ReadableGrows
  <2> HIDE DEF r
  <2> QED  BY <1>1, <2>2
<1>3. Builds(j.graph, s, t)
  BY GradOpBuilds
<1>4. /\ t.retained = s.retained /\ t.contexts = s.contexts
      /\ HasGrad(s, x) =>
            /\ t.added = Append(Append(s.added, total), node) /\ t.fresh = s.fresh + 2
            /\ t.grads = With(s.grads, x, s.fresh + 1)
      /\ ~HasGrad(s, x) =>
            /\ t.added = Append(s.added, node) /\ t.fresh = s.fresh + 1
            /\ t.grads = With(s.grads, x, s.fresh)
  <2>1. GradOpMakes(s, op, x, ins, t)
    BY GradOpFields
  <2> HIDE DEF t
  <2> QED  BY <2>1 DEF GradOpMakes
<1>5. node \in Nodes /\ node.outs = <<s.fresh>> /\ node.ins = ins
  BY <1>1, NodeType
<1>6. s.fresh \notin ComputedBy(s.added) /\ s.fresh + 1 \notin ComputedBy(s.added)
  BY <1>1 DEF Names
<1> HIDE DEF t, node
<1>7. CASE ~HasGrad(s, x)
  <2>1. ComputedBy(Append(s.added, node)) = ComputedBy(s.added) \cup {s.fresh}
    BY <1>1, <1>5, ComputedByMore
  <2>2. t.added = Append(s.added, node) /\ t.fresh = s.fresh + 1 /\ t.grads = With(s.grads, x, s.fresh)
    BY <1>4, <1>7
  <2>3. r \subseteq Readable(j, home, t)
    BY <1>1, <1>3, <1>4, <2>1, <2>2, ReadableGrows
  <2>4. AddedWell(j, home, t)
    <3>1. Numbered(s.added, Readable(j, home, t))
      BY <1>1, <2>3, NumberedFurther
    <3>2. \A v \in Elements(node.ins) : v \in Readable(j, home, t) /\ v < s.fresh
      BY <1>2, <1>5, <2>3
    <3> QED  BY <1>1, <1>5, <1>6, <2>2, <3>1, <3>2, NumberedMore DEF AddedWell
  <2>5. s.fresh <= t.fresh /\ s.fresh \in s.fresh..(t.fresh - 1)
    BY <1>1, <2>2
  <2>6. Elements(t.grads) \subseteq Gradable(j, home, s) \cup {s.fresh}
    BY <1>1, <2>2, ElementsWith
  <2> QED  BY <1>3, <1>4, <2>1, <2>2, <2>4, <2>5, <2>6, AddingTracks DEF t
<1>8. CASE HasGrad(s, x)
  <2> DEFINE more == Append(s.added, total)
  <2>1. s.grads[x] \in Elements(s.grads)
    BY <1>8 DEF HasGrad, Elements
  <2>2. both \in Seq(Nat) /\ Elements(both) = {s.grads[x], s.fresh}
    BY <1>1, <1>2, <2>1, ElementsOfPair
  <2>3. total \in Nodes /\ total.outs = <<s.fresh + 1>> /\ total.ins = both
    <3> DEFINE sum == "AccumulateGrad"
    <3>1. sum \in Operators \cup AddedOperators
      BY DEF AddedOperators
    <3> HIDE DEF sum, both
    <3>2. /\ Node(sum, both, <<s.fresh + 1>>) \in Nodes
          /\ Node(sum, both, <<s.fresh + 1>>).outs = <<s.fresh + 1>>
          /\ Node(sum, both, <<s.fresh + 1>>).ins = both
      <4>1. s.fresh + 1 \in Nat
        BY <1>1
      <4> QED  BY <2>2, <3>1, <4>1, NodeType
    <3> QED  BY <3>2 DEF sum
  <2> HIDE DEF total, both
  <2>4. more \in Seq(Nodes) /\ ComputedBy(more) = ComputedBy(s.added) \cup {s.fresh + 1}
    BY <1>1, <2>3, ComputedByMore
  <2>5. t.added = Append(more, node) /\ t.fresh = s.fresh + 2 /\ t.grads = With(s.grads, x, s.fresh + 1)
    BY <1>4, <1>8
  <2> HIDE DEF more
  <2>6. ComputedBy(t.added) = ComputedBy(s.added) \cup {s.fresh, s.fresh + 1}
    <3>1. ComputedBy(Append(more, node)) = ComputedBy(more) \cup {s.fresh}
      BY <1>5, <2>4, ComputedByMore
    <3> QED  BY <2>4, <2>5, <3>1
  <2>7. r \subseteq Readable(j, home, t) /\ s.fresh \in Readable(j, home, t)
    <3>1. /\ r \subseteq Readable(j, home, t)
          /\ \A y \in ComputedBy(t.added) : y >= s.fresh => y \in Readable(j, home, t)
      BY <1>1, <1>3, <1>4, <2>6, ReadableGrows
    <3>2. s.fresh \in ComputedBy(t.added) /\ s.fresh >= s.fresh
      BY <1>1, <2>6
    <3> QED  BY <3>1, <3>2
  <2>8. AddedWell(j, home, t)
    <3> DEFINE known == Readable(j, home, t)
    <3>1. Numbered(s.added, known)
      BY <1>1, <2>7, NumberedFurther
    <3>2. \A v \in Elements(total.ins) : v \in known /\ v < s.fresh + 1
      <4>1. s.grads[x] \in known /\ s.grads[x] < s.fresh + 1
        BY <1>1, <1>2, <2>1, <2>7
      <4>2. s.fresh \in known /\ s.fresh < s.fresh + 1
        BY <1>1, <2>7
      <4> QED  BY <2>2, <2>3, <4>1, <4>2
    <3>3. \A v \in Elements(node.ins) : v \in known /\ v < s.fresh
      BY <1>2, <1>5, <2>7
    <3> HIDE DEF known
    <3>4. Numbered(more, known)
      BY <1>1, <1>6, <2>3, <3>1, <3>2, NumberedMore DEF more
    <3>5. s.fresh \notin ComputedBy(more)
      BY <1>1, <1>6, <2>4
    <3>6. Numbered(Append(more, node), known)
      BY <1>5, <2>4, <3>3, <3>4, <3>5, NumberedMore
    <3> QED  BY <2>5, <3>6 DEF AddedWell, known
  <2>9. s.fresh <= t.fresh /\ {s.fresh, s.fresh + 1} \subseteq s.fresh..(t.fresh - 1)
    BY <1>1, <2>5
  <2>10. Elements(t.grads) \subseteq Gradable(j, home, s) \cup {s.fresh, s.fresh + 1}
    BY <1>1, <2>5, ElementsWith
  <2> HIDE DEF r
  <2> QED  BY <1>3, <1>4, <2>6, <2>8, <2>9, <2>10, AddingTracks DEF t
<1> QED  BY <1>7, <1>8 DEF t


\* What is retained gets a name in the backward graph.
LEMMA RetainFields ==
    ASSUME NEW h, NEW s, Builder(h, s), NEW v
    PROVE  LET t == [s EXCEPT !.retained = With(@, v, s.fresh), !.fresh = @ + 1]
           IN  /\ t.retained = With(s.retained, v, s.fresh) /\ t.fresh = s.fresh + 1
               /\ t.grads = s.grads /\ t.added = s.added /\ t.contexts = s.contexts
BY DEF Builder, BuilderFields, OtherFields

LEMMA RetainAdds ==
    ASSUME NEW j, IsModel(j.graph), NEW home, NEW s, Builder(j.graph, s), Track(j, home, s),
           NEW keep \in BOOLEAN, keep => j.twoPhase /\ s.turned,
           NEW v \in Usable(j, home, keep, s)
    PROVE  LET t == Retain(s, keep, v)
           IN  /\ Adds(j, home, s, t)
               /\ Kept(t, keep, v) \in Readable(j, home, t)
<1> DEFINE t == Retain(s, keep, v)
           f == s.fresh
<1>1. f \in Nat /\ Names(j, s) \subseteq 1..(f - 1) /\ Named(j, s) /\ f > 0
  BY DEF Builder, Track, Named
<1>2. CASE ~keep
  <2>1. t = s
    BY <1>2 DEF Retain
  <2>2. Builds(j.graph, s, s)
    BY DEF Builds
  <2> HIDE DEF t
  <2> QED  BY <1>2, <2>1, <2>2 DEF Adds, Kept, Usable, t
<1>3. CASE keep /\ v \in DOMAIN s.retained
  <2>1. t = s /\ Kept(s, keep, v) = s.retained[v]
    BY <1>3 DEF Retain, Kept
  <2>2. Builds(j.graph, s, s)
    BY DEF Builds
  <2>3. s.retained[v] \notin Lost(s)
    BY <1>3 DEF Usable, Copied
  <2>4. s.retained[v] \in Available(j, home, s, Late(j))
    <3>1. CASE s.retained[v] = v
      BY <1>3, <3>1 DEF Track, RetainedWell
    <3>2. CASE s.retained[v] # v
      BY <1>3, <3>2 DEF Available, GivenTo, StandIns, Late
    <3> QED  BY <3>1, <3>2
  <2> HIDE DEF t
  <2> QED  BY <2>1, <2>2, <2>3, <2>4 DEF Adds, Readable, Lost, LostIn, t
<1>4. CASE keep /\ v \notin DOMAIN s.retained
  <2>1. t = [s EXCEPT !.retained = With(@, v, s.fresh), !.fresh = @ + 1]
    BY <1>4 DEF Retain
  <2>2. /\ t.retained = With(s.retained, v, f) /\ t.fresh = f + 1
        /\ t.grads = s.grads /\ t.added = s.added /\ t.contexts = s.contexts
    BY <2>1, RetainFields
  <2>3. v \in Available(j, home, s, "forward") \ LostIn(s, "forward") /\ v \notin Lost(s)
        /\ j.twoPhase /\ Late(j) = "backward"
    BY <1>4 DEF Usable, Late
  <2>4. v \in Names(j, s) /\ v # f
    <3>1. Available(j, home, s, "forward") \subseteq Names(j, s)
      <4>1. j.graph.inputs \subseteq Names(j, s)
        BY DEF Names, Values
      <4> QED  BY <4>1 DEF Available, Names, GivenTo
    <3> QED  BY <1>1, <2>3, <3>1
  <2>5. Builds(j.graph, s, t)
    <3>1. v \in Nat
      BY <1>1, <2>4
    <3> QED  BY <3>1, RetainBuilds
  <2> HIDE DEF t
  <2>6. /\ t.schedule = s.schedule /\ t.first = s.first /\ t.last = s.last /\ t.staged = s.staged
        /\ t.turned = s.turned /\ t.stagedInForward = s.stagedInForward
        /\ t.outGrads = s.outGrads /\ t.forgotten = s.forgotten
    BY <2>5 DEF Builds, OtherFields
  <2>7. Lost(t) = Lost(s) /\ \A p : LostIn(t, p) = LostIn(s, p)
    BY <2>6 DEF Lost, LostIn
  <2>8. /\ DOMAIN t.retained = DOMAIN s.retained \cup {v} /\ t.retained[v] = f
        /\ \A w \in DOMAIN s.retained : w # v /\ t.retained[w] = s.retained[w]
        /\ Elements(t.retained) = Elements(s.retained) \cup {f}
    <3>1. DOMAIN t.retained = DOMAIN s.retained \cup {v} /\ t.retained[v] = f
          /\ \A w \in DOMAIN s.retained : w # v /\ t.retained[w] = s.retained[w]
      BY <1>4, <2>2 DEF With, Over
    <3> QED  BY <3>1 DEF Elements
  <2>9. StandIns(t) = StandIns(s) \cup {f}
    BY <2>4, <2>8 DEF StandIns
  <2>10. Copied(t, v) = f /\ \A w : w # v => Copied(t, w) = Copied(s, w)
    BY <2>8 DEF Copied
  <2>11. \A p : Available(j, home, s, p) \subseteq Available(j, home, t, p)
    BY <2>2, <2>6, <2>9 DEF Available, GivenTo
  <2>12. f \in Available(j, home, t, Late(j)) /\ f \notin Names(j, s)
    BY <1>1, <2>3, <2>9 DEF Available, GivenTo
  <2>13. Readable(j, home, s) \subseteq Readable(j, home, t) /\ f \in Readable(j, home, t)
    <3>1. f \notin LostIn(s, Late(j))
      BY <2>12 DEF LostIn, Lost, Names
    <3> QED  BY <2>7, <2>11, <2>12, <3>1 DEF Readable
  <2>14. Gradable(j, home, s) \subseteq Gradable(j, home, t)
    <3>1. f \notin Gradable(j, home, s)
      <4>1. Builds(j.graph, s, s)
        BY DEF Builds
      <4>2. \A x \in Gradable(j, home, s) : x \in Nat /\ x < f
        BY <1>1, <4>1, ReadableGrows
      <4> QED  BY <1>1, <4>2
    <3> QED  BY <2>6, <2>7, <2>8, <2>11, <3>1 DEF Gradable
  <2>15. ASSUME NEW k \in BOOLEAN PROVE Usable(j, home, k, s) \subseteq Usable(j, home, k, t)
    <3>1. Copied(t, v) \notin Lost(t)
      BY <2>7, <2>10, <2>12 DEF Names
    <3> QED  BY <2>7, <2>8, <2>10, <2>11, <2>13, <3>1 DEF Usable
  <2>16. Named(j, t)
    <3>1. Names(j, t) \subseteq Names(j, s) \cup {f}
      BY <2>2, <2>4, <2>6, <2>7, <2>8 DEF Names
    <3> QED  BY <1>1, <2>2, <3>1 DEF Named
  <2>17. Fed(j, t)
    <3>1. \A p : GivenTo(j, s, p) \subseteq GivenTo(j, t, p)
      BY <2>6, <2>9 DEF GivenTo
    <3> QED  BY <2>6, <3>1 DEF Track, Fed
  <2>18. AddedWell(j, home, t)
    <3> HIDE DEF t
    <3>1. Numbered(s.added, Readable(j, home, s))
      BY DEF Track, AddedWell
    <3> QED  BY <2>2, <2>13, <3>1, NumberedFurther DEF AddedWell
  <2>19. Graded(j, home, t)
    BY <2>2, <2>14 DEF Track, Graded
  <2>20. RetainedWell(j, home, t)
    <3> SUFFICES ASSUME NEW w \in DOMAIN t.retained
                 PROVE  /\ t.retained[w] \notin Values(j.graph)
                        /\ t.retained[w] = w => w \in Available(j, home, t, Late(j))
                        /\ t.retained[w] # w => j.twoPhase
                              /\ w \in Available(j, home, t, "forward") \ LostIn(t, "forward")
      BY DEF RetainedWell
    <3>1. CASE w = v
      <4>1. f \notin Values(j.graph)
        BY <2>12 DEF Names
      <4> QED  BY <2>3, <2>4, <2>7, <2>8, <2>11, <3>1, <4>1
    <3>2. CASE w # v
      BY <2>7, <2>8, <2>11, <3>2 DEF Track, RetainedWell
    <3> QED  BY <3>1, <3>2
  <2>21. StagedWell(j, home, t)
    <3>1. StagedWell(j, home, s) /\ f \notin Elements(s.staged) /\ f \notin Elements(s.retained)
          /\ f \notin Lost(s)
      BY <2>12 DEF Track, Names
    <3>2. \A u \in DOMAIN s.staged : s.staged[u] # f /\ Copied(s, s.staged[u]) # f
      BY <3>1 DEF Elements, Copied
    <3> SUFFICES ASSUME NEW u \in DOMAIN s.staged
                 PROVE  LET w == s.staged[u]
                        IN  /\ w \in DOMAIN t.retained \/ (w = u /\ w \in Available(j, home, t, "forward"))
                            /\ w = u \/ w \notin Values(j.graph)
                            /\ w \notin Lost(t) /\ Copied(t, w) \notin Lost(t)
                            /\ j.twoPhase /\ t.turned /\ j.policy # "none" =>
                                  w \in t.stagedInForward \cup DOMAIN t.retained
                            /\ \A x \in DOMAIN s.staged : x # u =>
                                  {w, Copied(t, w)} \cap {s.staged[x], Copied(t, s.staged[x])} = {}
      BY <2>6 DEF StagedWell
    <3> DEFINE w == s.staged[u]
    <3>3. w \in DOMAIN t.retained \/ (w = u /\ w \in Available(j, home, t, "forward"))
      BY <2>8, <2>11, <3>1 DEF StagedWell
    <3>4. w \notin Lost(t) /\ Copied(t, w) \notin Lost(t)
      BY <2>7, <2>10, <3>1 DEF StagedWell
    <3>5. ASSUME NEW x \in DOMAIN s.staged, x # u
          PROVE  {w, Copied(t, w)} \cap {s.staged[x], Copied(t, s.staged[x])} = {}
      <4> DEFINE y == s.staged[x]
      <4>1. {w, Copied(s, w)} \cap {y, Copied(s, y)} = {}
        BY <3>1, <3>5 DEF StagedWell
      <4>2. Copied(t, w) \in {Copied(s, w), f} /\ Copied(t, y) \in {Copied(s, y), f}
            /\ (Copied(t, w) = f => w = v \/ Copied(s, w) = f)
            /\ (Copied(t, y) = f => y = v \/ Copied(s, y) = f)
        BY <2>10
      <4> QED  BY <3>2, <4>1, <4>2
    <3> QED  BY <2>6, <2>8, <3>1, <3>3, <3>4, <3>5 DEF StagedWell
  <2>22. OriginsWell(j, t)
    BY <2>2, <2>6, <2>7 DEF Track, OriginsWell
  <2>23. PlacesWell(j, t)
    <3>1. PlacesWell(j, s)
      BY DEF Track
    <3> QED  BY <2>6, <2>8, <3>1, PlacesKept
  <2>24. Phases(j, t)
    <3>1. Phases(j, s)
      BY DEF Track
    <3>2. s.turned
      BY <1>4
    <3> QED  BY <2>6, <3>1, <3>2 DEF Phases
  <2>25. Elements(t.contexts) \cap (Values(j.graph) \cup DOMAIN t.staged) = {}
    BY <2>2, <2>6 DEF Track
  <2>26. Kept(t, keep, v) = f
    BY <1>4, <2>8 DEF Kept
  <2> QED  BY <2>5, <2>13, <2>14, <2>15, <2>16, <2>17, <2>18, <2>19, <2>20, <2>21, <2>22, <2>23,
              <2>24, <2>25, <2>26 DEF Adds, Track, t
<1> QED  BY <1>2, <1>3, <1>4 DEF t


LEMMA AddsState ==
    ASSUME NEW j, NEW home, NEW s, NEW t, Adds(j, home, s, t)
    PROVE  /\ Builder(j.graph, t) /\ Track(j, home, t)
           /\ t.turned = s.turned /\ t.schedule = s.schedule /\ t.first = s.first
           /\ t.last = s.last /\ t.staged = s.staged
BY DEF Adds, Builds, OtherFields

\* What may be retained or read later may be read now.
LEMMA CopyGradsAdds ==
    ASSUME NEW j, NEW home, NEW s, Builder(j.graph, s), Track(j, home, s),
           NEW from, NEW to \in Seq(Nat)
    PROVE  LET t == CopyGrads(s, from, to)
           IN  /\ Adds(j, home, s, t) /\ t.added = s.added /\ t.contexts = s.contexts
               /\ t.retained = s.retained
<1>1. PICK m : /\ IsMap(m) /\ Elements(m) \subseteq Elements(s.grads)
               /\ CopyGrads(s, from, to) = [s EXCEPT !.grads = m]
  <2> DEFINE h == j.graph
  <2>1. Builder(h, s)
    OBVIOUS
  <2> HIDE DEF h
  <2> QED  BY <2>1, CopiedGrads
<1> DEFINE t == [s EXCEPT !.grads = m]
<1>2. /\ t.grads = m /\ t.added = s.added /\ t.fresh = s.fresh /\ t.retained = s.retained
      /\ t.contexts = s.contexts
  BY GradsFields
<1>3. Builds(j.graph, s, t)
  BY <1>1, GradsBuild
<1> HIDE DEF t
<1>4. s.fresh \in Nat /\ Named(j, s) /\ Numbered(s.added, Readable(j, home, s))
      /\ Elements(s.grads) \subseteq Gradable(j, home, s)
  BY DEF Builder, Track, AddedWell, Graded
<1>5. AddedWell(j, home, t)
  <2>1. Readable(j, home, s) \subseteq Readable(j, home, t)
    BY <1>2, <1>3, <1>4, ReadableGrows
  <2> QED  BY <1>2, <1>4, <2>1, NumberedFurther DEF AddedWell
<1>6. Elements(t.grads) \subseteq Gradable(j, home, s) /\ s.fresh <= t.fresh
  BY <1>1, <1>2, <1>4
<1>7. Adds(j, home, s, t)
  BY <1>2, <1>3, <1>5, <1>6, AddingTracks
<1> QED  BY <1>1, <1>2, <1>7 DEF t

\* The node gets an output more.
LEMMA ContextAdds ==
    ASSUME NEW j, IsModel(j.graph), NEW home, NEW s, Builder(j.graph, s), Track(j, home, s),
           s.contexts = <<>>, NEW keep \in BOOLEAN,
           home = IF keep THEN "forward" ELSE Late(j)
    PROVE  LET t == [s EXCEPT !.contexts = <<s.fresh>>, !.fresh = @ + 1]
           IN  Adds(j, home, s, t) /\ s.fresh \in Usable(j, home, keep, t)
<1> DEFINE t == [s EXCEPT !.contexts = <<s.fresh>>, !.fresh = @ + 1]
           f == s.fresh
<1>1. f \in Nat /\ f > 0 /\ Names(j, s) \subseteq 1..(f - 1) /\ f \notin Names(j, s)
  BY DEF Builder, Track, Named
<1>2. /\ DOMAIN t = DOMAIN s /\ t.contexts = <<f>> /\ t.fresh = f + 1
      /\ \A x \in (BuilderFields \cup OtherFields) \ {"contexts", "fresh"} : t[x] = s[x]
  BY DEF Builder, BuilderFields, OtherFields
<1> HIDE DEF t
<1>3. t.retained = s.retained /\ t.added = s.added /\ t.grads = s.grads
  BY <1>2 DEF BuilderFields
<1>4. Builds(j.graph, s, t)
  <2>1. \A x \in OtherFields : t[x] = s[x]
    BY <1>2 DEF OtherFields
  <2>2. t.contexts \in Seq(Nat \ Values(j.graph))
    BY <1>1, <1>2 DEF Names
  <2>3. t.fresh \in Nat /\ \A v \in Values(j.graph) : v < t.fresh
    <3>1. Values(j.graph) \subseteq Nat
      BY ModelValues
    <3> QED  BY <1>2, <3>1 DEF Builder
  <2>4. Builder(j.graph, t)
    BY <1>2, <1>3, <2>2, <2>3 DEF Builder
  <2> QED  BY <2>1, <2>4 DEF Builds
<1>5. /\ t.schedule = s.schedule /\ t.first = s.first /\ t.last = s.last /\ t.staged = s.staged
      /\ t.turned = s.turned /\ t.stagedInForward = s.stagedInForward
      /\ t.outGrads = s.outGrads /\ t.forgotten = s.forgotten
  BY <1>4 DEF Builds, OtherFields
<1>6. Elements(s.contexts) = {} /\ Elements(t.contexts) = {f}
  BY <1>1, <1>2, ElementsOfOne DEF Elements
<1>7. Lost(t) = Lost(s) /\ \A p : LostIn(t, p) = LostIn(s, p) /\ LostIn(s, p) \subseteq Lost(s)
  BY <1>5 DEF Lost, LostIn
<1>8. StandIns(t) = StandIns(s) /\ \A w : Copied(t, w) = Copied(s, w)
  BY <1>3 DEF StandIns, Copied
<1>9. \A p : GivenTo(j, t, p) = GivenTo(j, s, p)
  BY <1>5, <1>8 DEF GivenTo
<1>10. \A p : Available(j, home, s, p) \subseteq Available(j, home, t, p)
  BY <1>3, <1>5, <1>6, <1>9 DEF Available
<1>11. f \in Available(j, home, t, home)
  BY <1>6 DEF Available
<1>12. Readable(j, home, s) \subseteq Readable(j, home, t)
       /\ Gradable(j, home, s) \subseteq Gradable(j, home, t)
  BY <1>3, <1>5, <1>7, <1>10 DEF Readable, Gradable
<1>13. ASSUME NEW k \in BOOLEAN PROVE Usable(j, home, k, s) \subseteq Usable(j, home, k, t)
  BY <1>3, <1>7, <1>8, <1>10, <1>12 DEF Usable
<1>14. f \in Usable(j, home, keep, t)
  <2>1. f \notin Lost(t) /\ \A p : f \notin LostIn(t, p)
    BY <1>1, <1>7 DEF Names
  <2>2. f \notin DOMAIN t.retained
    BY <1>1, <1>3 DEF Names
  <2> QED  BY <1>11, <2>1, <2>2 DEF Usable, Readable, Copied
<1>15. Named(j, t)
  <2>1. Names(j, t) \subseteq Names(j, s) \cup {f}
    BY <1>3, <1>5, <1>6, <1>7 DEF Names
  <2> QED  BY <1>1, <1>2, <2>1 DEF Named
<1>16. Elements(t.contexts) \cap (Values(j.graph) \cup DOMAIN t.staged) = {}
  BY <1>1, <1>5, <1>6 DEF Names
<1>17. Fed(j, t)
  <2>1. Fed(j, s)
    BY DEF Track
  <2> QED  BY <1>5, <1>9, <2>1, SMTT(60) DEF Fed
<1>18. AddedWell(j, home, t)
  <2>1. Numbered(s.added, Readable(j, home, s))
    BY DEF Track, AddedWell
  <2> QED  BY <1>3, <1>12, <2>1, NumberedFurther DEF AddedWell
<1>19. Graded(j, home, t)
  BY <1>3, <1>12 DEF Track, Graded
<1>20. RetainedWell(j, home, t)
  BY <1>3, <1>7, <1>10 DEF Track, RetainedWell
<1>21. StagedWell(j, home, t)
  BY <1>3, <1>5, <1>7, <1>8, <1>10 DEF Track, StagedWell
<1>22. OriginsWell(j, t)
  BY <1>3, <1>5, <1>7 DEF Track, OriginsWell
<1>23. PlacesWell(j, t)
  <2>1. PlacesWell(j, s)
    BY DEF Track
  <2> QED  BY <1>3, <1>5, <2>1, PlacesKept
<1>24. Phases(j, t)
  BY <1>3, <1>5 DEF Track, Phases
<1> QED  BY <1>4, <1>12, <1>13, <1>14, <1>15, <1>16, <1>17, <1>18, <1>19, <1>20, <1>21, <1>22,
            <1>23, <1>24 DEF Adds, Track, t


LEMMA AddAdds ==
    ASSUME NEW j, IsModel(j.graph), NEW home, NEW s, Builder(j.graph, s), Track(j, home, s),
           NEW x, NEW gy \in Gradable(j, home, s)
    PROVE  Adds(j, home, s, AddGradFn(s, x, gy))
<1> DEFINE c == SetGrad(s, x[1], gy)
<1>1. Adds(j, home, s, c)
  BY SetGradAdds
<1>2. AddGradFn(s, x, gy) = SetGrad(c, x[2], gy)
  BY DEF AddGradFn
<1> HIDE DEF c
<1>3. Builder(j.graph, c) /\ Track(j, home, c)
  BY <1>1, AddsState
<1>4. gy \in Gradable(j, home, c)
  BY <1>1 DEF Adds
<1>5. Adds(j, home, c, SetGrad(c, x[2], gy))
  BY <1>3, <1>4, SetGradAdds
<1> QED  BY <1>1, <1>2, <1>5, AddsMore

\* The states in which gradients can be added, retaining if `keep`.
Adding(j, home, keep, s) ==
    Builder(j.graph, s) /\ Track(j, home, s) /\ (keep => j.twoPhase /\ s.turned)

LEMMA AddingMore ==
    ASSUME NEW j, NEW home, NEW keep \in BOOLEAN, NEW s, Adding(j, home, keep, s), NEW t, Adds(j, home, s, t)
    PROVE  Adding(j, home, keep, t)
BY AddsState DEF Adding

\* What can be read or retained has a name.
LEMMA NamesOfReadable ==
    ASSUME NEW j, NEW home, NEW s, Builder(j.graph, s), Track(j, home, s)
    PROVE  /\ \A x \in Readable(j, home, s) : x \in Nat /\ x < s.fresh
           /\ Gradable(j, home, s) \subseteq Readable(j, home, s)
           /\ Elements(s.grads) \subseteq Gradable(j, home, s)
<1>1. Builds(j.graph, s, s) /\ Named(j, s) /\ Graded(j, home, s)
  BY DEF Builds, Track
<1>2. /\ \A x \in Readable(j, home, s) : x \in Nat /\ x < s.fresh
      /\ Gradable(j, home, s) \subseteq Readable(j, home, s)
  BY <1>1, ReadableGrows
<1> QED  BY <1>1, <1>2 DEF Graded

LEMMA MulAdds ==
    ASSUME NEW j, IsModel(j.graph), NEW home, NEW keep \in BOOLEAN, NEW s, Adding(j, home, keep, s),
           NEW x, x[1] \in Usable(j, home, keep, s), x[2] \in Usable(j, home, keep, s),
           NEW gy \in Gradable(j, home, s)
    PROVE  Adds(j, home, s, MulGradFn(s, keep, x, gy))
<1> DEFINE ForInput(c, i) ==
               LET c1 == Retain(c, keep, x[3 - i])
                   c2 == Op(c1, "Mul", <<gy, Kept(c1, keep, x[3 - i])>>)
                   c3 == Retain(c2, keep, x[i])
                   c4 == Op(c3, "Shape", <<Kept(c3, keep, x[i])>>)
               IN  GradOp(c4, "ReduceSumTo", x[i], <<c1.fresh, c3.fresh>>)
<1>1. ASSUME NEW c, Adding(j, home, keep, c), Adds(j, home, s, c), NEW i \in {1, 2}
      PROVE  Adds(j, home, c, ForInput(c, i))
  <2> DEFINE y == x[3 - i]
             z == x[i]
             c1 == Retain(c, keep, y)
             ins2 == <<gy, Kept(c1, keep, y)>>
             c2 == Op(c1, "Mul", ins2)
             c3 == Retain(c2, keep, z)
             ins4 == <<Kept(c3, keep, z)>>
             c4 == Op(c3, "Shape", ins4)
             ins5 == <<c1.fresh, c3.fresh>>
  <2>1. y \in Usable(j, home, keep, s) /\ z \in Usable(j, home, keep, s)
    OBVIOUS
  <2>2. ForInput(c, i) = GradOp(c4, "ReduceSumTo", z, ins5)
    OBVIOUS
  <2> HIDE DEF ForInput, y, z
  <2>3. y \in Usable(j, home, keep, c) /\ z \in Usable(j, home, keep, c) /\ gy \in Gradable(j, home, c)
    BY <1>1, <2>1 DEF Adds
  <2>4. Adds(j, home, c, c1) /\ Kept(c1, keep, y) \in Readable(j, home, c1)
    BY <1>1, <2>3, RetainAdds DEF Adding
  <2> HIDE DEF c1
  <2>5. Adding(j, home, keep, c1) /\ z \in Usable(j, home, keep, c1) /\ gy \in Gradable(j, home, c1)
    <3>1. Adding(j, home, keep, c1)
      BY <1>1, <2>4, AddingMore
    <3> QED  BY <2>3, <2>4, <3>1 DEF Adds
  <2>6. ins2 \in Seq(Nat) /\ Elements(ins2) \subseteq Readable(j, home, c1)
    <3> DEFINE k == Kept(c1, keep, y)
    <3>1. k \in Readable(j, home, c1) /\ gy \in Readable(j, home, c1) /\ k \in Nat /\ gy \in Nat
      BY <2>4, <2>5, NamesOfReadable DEF Adding
    <3> HIDE DEF k
    <3>2. <<gy, k>> \in Seq(Nat) /\ Elements(<<gy, k>>) = {gy, k}
      BY <3>1, ElementsOfPair
    <3> QED  BY <3>1, <3>2 DEF k
  <2> HIDE DEF ins2
  <2>7. Adds(j, home, c1, c2) /\ c1.fresh \in Readable(j, home, c2)
    <3> DEFINE op == "Mul"
    <3>1. op \in Operators \cup AddedOperators
      BY DEF Operators
    <3> HIDE DEF op
    <3>2. Adds(j, home, c1, Op(c1, op, ins2)) /\ c1.fresh \in Readable(j, home, Op(c1, op, ins2))
      BY <2>5, <2>6, <3>1, OpAdds DEF Adding
    <3> QED  BY <3>2 DEF op
  <2> HIDE DEF c2
  <2>8. Adding(j, home, keep, c2) /\ z \in Usable(j, home, keep, c2)
    <3>1. Adding(j, home, keep, c2)
      BY <2>5, <2>7, AddingMore
    <3> QED  BY <2>5, <2>7, <3>1 DEF Adds
  <2>9. Adds(j, home, c2, c3) /\ Kept(c3, keep, z) \in Readable(j, home, c3)
    BY <2>8, RetainAdds DEF Adding
  <2> HIDE DEF c3
  <2>10. Adding(j, home, keep, c3) /\ c1.fresh \in Readable(j, home, c3)
    <3>1. Adding(j, home, keep, c3)
      BY <2>8, <2>9, AddingMore
    <3> QED  BY <2>7, <2>9, <3>1 DEF Adds
  <2>11. ins4 \in Seq(Nat) /\ Elements(ins4) \subseteq Readable(j, home, c3)
    <3> DEFINE k == Kept(c3, keep, z)
    <3>1. k \in Readable(j, home, c3) /\ k \in Nat
      BY <2>9, <2>10, NamesOfReadable DEF Adding
    <3> HIDE DEF k
    <3>2. <<k>> \in Seq(Nat) /\ Elements(<<k>>) = {k}
      BY <3>1, ElementsOfOne
    <3> QED  BY <3>1, <3>2 DEF k
  <2> HIDE DEF ins4
  <2>12. Adds(j, home, c3, c4) /\ c3.fresh \in Readable(j, home, c4)
    <3> DEFINE op == "Shape"
    <3>1. op \in Operators \cup AddedOperators
      BY DEF AddedOperators
    <3> HIDE DEF op
    <3>2. Adds(j, home, c3, Op(c3, op, ins4)) /\ c3.fresh \in Readable(j, home, Op(c3, op, ins4))
      BY <2>10, <2>11, <3>1, OpAdds DEF Adding
    <3> QED  BY <3>2 DEF op
  <2> HIDE DEF c4
  <2>13. Adding(j, home, keep, c4) /\ c1.fresh \in Readable(j, home, c4)
    <3>1. Adding(j, home, keep, c4)
      BY <2>10, <2>12, AddingMore
    <3> QED  BY <2>10, <2>12, <3>1 DEF Adds
  <2>14. ins5 \in Seq(Nat) /\ Elements(ins5) \subseteq Readable(j, home, c4)
    <3>1. c1.fresh \in Nat /\ c3.fresh \in Nat
      BY <2>5, <2>10 DEF Adding, Builder
    <3>2. ins5 \in Seq(Nat) /\ Elements(ins5) = {c1.fresh, c3.fresh}
      BY <3>1, ElementsOfPair
    <3> HIDE DEF ins5
    <3> QED  BY <2>12, <2>13, <3>2
  <2> HIDE DEF ins5
  <2>15. Adds(j, home, c4, GradOp(c4, "ReduceSumTo", z, ins5))
    <3> DEFINE op == "ReduceSumTo"
    <3>1. op \in Operators \cup AddedOperators
      BY DEF AddedOperators
    <3> HIDE DEF op
    <3>2. Adds(j, home, c4, GradOp(c4, op, z, ins5))
      BY <2>13, <2>14, <3>1, GradOpAdds DEF Adding
    <3> QED  BY <3>2 DEF op
  <2>16. Adds(j, home, c, c3)
    BY <2>4, <2>7, <2>9, AddsMore
  <2>17. Adds(j, home, c, c4)
    BY <2>12, <2>16, AddsMore
  <2> QED  BY <2>2, <2>15, <2>17, AddsMore
<1>2. MulGradFn(s, keep, x, gy) = ForInput(ForInput(s, 1), 2)
  BY DEF MulGradFn
<1> HIDE DEF ForInput
<1>3. Adds(j, home, s, s)
  BY DEF Adds, Builds, Adding
<1>4. Adds(j, home, s, ForInput(s, 1))
  BY <1>1, <1>3
<1>5. Adding(j, home, keep, ForInput(s, 1))
  BY <1>4, AddingMore
<1>6. Adds(j, home, ForInput(s, 1), ForInput(ForInput(s, 1), 2))
  BY <1>1, <1>4, <1>5
<1> QED  BY <1>2, <1>4, <1>6, AddsMore

LEMMA ExpAdds ==
    ASSUME NEW j, IsModel(j.graph), NEW home, NEW keep \in BOOLEAN, NEW s, Adding(j, home, keep, s),
           NEW x, NEW y, y[1] \in Usable(j, home, keep, s)
    PROVE  Adds(j, home, s, ExpGradFn(s, keep, x, y))
<1> DEFINE y1  == y[1]
           c   == Retain(s, keep, y1)
           k   == Kept(c, keep, y1)
           gy  == Grad(c, y1)
           ins == <<k, gy>>
           x1  == x[1]
<1>1. ExpGradFn(s, keep, x, y) = IF HasGrad(c, y1) THEN GradOp(c, "Mul", x1, ins) ELSE c
  BY DEF ExpGradFn
<1> HIDE DEF y1, x1
<1>2. Adds(j, home, s, c) /\ k \in Readable(j, home, c)
  BY RetainAdds DEF Adding, y1
<1> HIDE DEF c, k
<1>3. Adding(j, home, keep, c)
  BY <1>2, AddingMore
<1>4. CASE HasGrad(c, y1)
  <2>1. gy \in Elements(c.grads)
    BY <1>4 DEF HasGrad, Grad, Elements
  <2> HIDE DEF gy
  <2>2. gy \in Readable(j, home, c) /\ gy \in Nat /\ k \in Nat
    BY <1>2, <1>3, <2>1, NamesOfReadable DEF Adding
  <2>3. ins \in Seq(Nat) /\ Elements(ins) = {k, gy}
    BY <2>2, ElementsOfPair
  <2> HIDE DEF ins
  <2>4. Adds(j, home, c, GradOp(c, "Mul", x1, ins))
    <3> DEFINE op == "Mul"
    <3>1. op \in Operators \cup AddedOperators
      BY DEF Operators
    <3> HIDE DEF op
    <3>2. Adds(j, home, c, GradOp(c, op, x1, ins))
      BY <1>2, <1>3, <2>2, <2>3, <3>1, GradOpAdds DEF Adding
    <3> QED  BY <3>2 DEF op
  <2> QED  BY <1>1, <1>2, <1>4, <2>4, AddsMore
<1>5. CASE ~HasGrad(c, y1)
  BY <1>1, <1>2, <1>5
<1> QED  BY <1>4, <1>5

LEMMA AveragePoolAdds ==
    ASSUME NEW j, IsModel(j.graph), NEW home, NEW keep \in BOOLEAN, NEW s, Adding(j, home, keep, s),
           s.contexts = <<>>, home = IF keep THEN "forward" ELSE Late(j), NEW x, NEW y
    PROVE  Adds(j, home, s, AveragePoolGradFn(s, keep, x, y))
<1> DEFINE c1  == [s EXCEPT !.contexts = <<s.fresh>>, !.fresh = @ + 1]
           f   == s.fresh
           c   == Retain(c1, keep, f)
           k   == Kept(c, keep, f)
           y1  == y[1]
           gy  == Grad(c, y1)
           ins == <<gy, k>>
           x1  == x[1]
<1>1. AveragePoolGradFn(s, keep, x, y) = IF HasGrad(c, y1) THEN GradOp(c, "AveragePoolGrad", x1, ins) ELSE c
  BY DEF AveragePoolGradFn
<1>2. Adds(j, home, s, c1) /\ f \in Usable(j, home, keep, c1)
  BY ContextAdds DEF Adding
<1> HIDE DEF c1, f, y1, x1
<1>3. Adding(j, home, keep, c1)
  BY <1>2, AddingMore
<1>4. Adds(j, home, c1, c) /\ k \in Readable(j, home, c)
  BY <1>2, <1>3, RetainAdds DEF Adding
<1> HIDE DEF c, k
<1>5. Adding(j, home, keep, c) /\ Adds(j, home, s, c)
  BY <1>2, <1>3, <1>4, AddingMore, AddsMore
<1>6. CASE HasGrad(c, y1)
  <2>1. gy \in Elements(c.grads)
    BY <1>6 DEF HasGrad, Grad, Elements
  <2> HIDE DEF gy
  <2>2. gy \in Readable(j, home, c) /\ gy \in Nat /\ k \in Nat
    BY <1>4, <1>5, <2>1, NamesOfReadable DEF Adding
  <2>3. ins \in Seq(Nat) /\ Elements(ins) = {gy, k}
    BY <2>2, ElementsOfPair
  <2> HIDE DEF ins
  <2>4. Adds(j, home, c, GradOp(c, "AveragePoolGrad", x1, ins))
    <3> DEFINE op == "AveragePoolGrad"
    <3>1. op \in Operators \cup AddedOperators
      BY DEF AddedOperators
    <3> HIDE DEF op
    <3>2. Adds(j, home, c, GradOp(c, op, x1, ins))
      BY <1>4, <1>5, <2>2, <2>3, <3>1, GradOpAdds DEF Adding
    <3> QED  BY <3>2 DEF op
  <2> QED  BY <1>1, <1>5, <1>6, <2>4, AddsMore
<1>7. CASE ~HasGrad(c, y1)
  BY <1>1, <1>5, <1>7
<1> QED  BY <1>6, <1>7

\* Every gradient reads what is there.
LEMMA GradientAdds ==
    ASSUME NEW j, IsModel(j.graph), NEW home, NEW keep \in BOOLEAN, NEW s, Adding(j, home, keep, s),
           s.contexts = <<>>, home = IF keep THEN "forward" ELSE Late(j),
           NEW op, NEW x, NEW y, Fits(op, x, y),
           Elements(x) \subseteq Usable(j, home, keep, s), y[1] \in Usable(j, home, keep, s)
    PROVE  Adds(j, home, s, AddGradientForNode(s, keep, op, x, y))
<1>1. /\ op \in Operators /\ x \in Seq(Nat) /\ y \in Seq(Nat)
      /\ 1 \in DOMAIN y
      /\ op \in {"Add", "Mul"} => 1 \in DOMAIN x /\ 2 \in DOMAIN x
  BY DEF Fits
<1>2. Adds(j, home, s, s)
  BY DEF Adds, Builds, Adding
<1>3. CASE op = "Exp"
  <2>1. AddGradientForNode(s, keep, "Exp", x, y) = ExpGradFn(s, keep, x, y)
    BY DEF AddGradientForNode
  <2> QED  BY <1>3, <2>1, ExpAdds
<1>4. CASE op = "AveragePool"
  <2>1. AddGradientForNode(s, keep, "AveragePool", x, y) = AveragePoolGradFn(s, keep, x, y)
    BY DEF AddGradientForNode
  <2> QED  BY <1>4, <2>1, AveragePoolAdds
<1>5. CASE op = "Floor"
  <2>1. AddGradientForNode(s, keep, op, x, y) = s
    BY <1>5 DEF AddGradientForNode
  <2> QED  BY <1>2, <2>1
<1>6. CASE op \in {"Add", "Mul", "Split"} /\ \E k \in DOMAIN y : ~HasGrad(s, y[k])
  <2>1. AddGradientForNode(s, keep, op, x, y) = s
    BY <1>6 DEF AddGradientForNode
  <2> QED  BY <1>2, <2>1
<1>7. CASE op \in {"Add", "Mul", "Split"} /\ \A k \in DOMAIN y : HasGrad(s, y[k])
  <2>1. \A k \in DOMAIN y : Grad(s, y[k]) \in Elements(s.grads)
    BY <1>7 DEF HasGrad, Grad, Elements
  <2>2. \A k \in DOMAIN y : /\ Grad(s, y[k]) \in Gradable(j, home, s)
                            /\ Grad(s, y[k]) \in Readable(j, home, s) /\ Grad(s, y[k]) \in Nat
    BY <2>1, NamesOfReadable DEF Adding
  <2>3. CASE op = "Add"
    <3>1. AddGradientForNode(s, keep, op, x, y) = AddGradFn(s, x, Grad(s, y[1]))
      BY <1>7, <2>3 DEF AddGradientForNode
    <3> QED  BY <1>1, <2>2, <3>1, AddAdds DEF Adding
  <2>4. CASE op = "Mul"
    <3>1. AddGradientForNode(s, keep, op, x, y) = MulGradFn(s, keep, x, Grad(s, y[1]))
      BY <1>7, <2>4 DEF AddGradientForNode
    <3>2. x[1] \in Usable(j, home, keep, s) /\ x[2] \in Usable(j, home, keep, s)
      BY <1>1, <2>4 DEF Elements
    <3> QED  BY <1>1, <2>2, <3>1, <3>2, MulAdds
  <2>5. CASE op = "Split"
    <3> DEFINE ins == [k \in DOMAIN y |-> Grad(s, y[k])]
    <3>1. AddGradientForNode(s, keep, op, x, y) = GradOp(s, "Concat", x[1], ins)
      BY <1>7, <2>5 DEF AddGradientForNode
    <3>2. ins \in Seq(Nat) /\ Elements(ins) \subseteq Readable(j, home, s)
      <4>1. DOMAIN y = 1..Len(y) /\ Len(y) \in Nat
        BY <1>1
      <4> QED  BY <2>2, <4>1 DEF Elements
    <3> HIDE DEF ins
    <3> DEFINE fn == "Concat"
               z  == x[1]
    <3>3. fn \in Operators \cup AddedOperators
      BY DEF AddedOperators
    <3>4. AddGradientForNode(s, keep, op, x, y) = GradOp(s, fn, z, ins)
      BY <3>1
    <3>5. Adds(j, home, s, GradOp(s, fn, z, ins))
      <4> HIDE DEF fn, z
      <4> QED  BY <3>2, <3>3, GradOpAdds DEF Adding
    <3> QED  BY <3>4, <3>5
  <2> QED  BY <1>7, <2>3, <2>4, <2>5
<1> QED  BY <1>1, <1>3, <1>4, <1>5, <1>6, <1>7 DEF Operators


\* t is s with the outputs that were added in place.
ContextsPlaced(s, place, t) ==
    /\ t.contexts = <<>>
    /\ \A f \in (BuilderFields \cup OtherFields) \ {"schedule", "contexts"} : t[f] = s[f]
    /\ DOMAIN t.schedule = DOMAIN s.schedule
    /\ \A i \in DOMAIN s.schedule :
          /\ t.schedule[i].part = s.schedule[i].part
          /\ t.schedule[i].node.ins = s.schedule[i].node.ins
          /\ i # place => t.schedule[i].node.outs = s.schedule[i].node.outs
    /\ t.schedule[place].node.outs = s.schedule[place].node.outs \o s.contexts

LEMMA ContextFields ==
    ASSUME NEW j, NEW s, Sound(j.graph, s), NEW place \in DOMAIN s.schedule
    PROVE  ContextsPlaced(s, place, WithContexts(s, place))
<1> DEFINE t == WithContexts(s, place)
           a == s.schedule
           outs == a[place].node.outs \o s.contexts
           c == [a[place].node EXCEPT !.outs = outs]
           e == [a[place] EXCEPT !.node = c]
<1>1. /\ t.schedule = [a EXCEPT ![place] = e] /\ t.contexts = <<>>
      /\ \A f \in (BuilderFields \cup OtherFields) \ {"schedule", "contexts"} : t[f] = s[f]
  <2>1. t = [s EXCEPT !.schedule = [a EXCEPT ![place] = e], !.contexts = <<>>]
    BY DEF WithContexts
  <2> HIDE DEF t, e
  <2> QED  BY <2>1 DEF Sound, Builder, BuilderFields, OtherFields
<1> HIDE DEF t
<1>2. a \in Seq(Entries) /\ a[place] \in Entries /\ a[place].node \in Nodes
  <2>1. a \in Seq(Entries)
    BY DEF Sound
  <2>2. a[place] \in Entries
    BY <2>1
  <2> QED  BY <2>1, <2>2 DEF Entries
<1> HIDE DEF outs
<1>3. e.part = a[place].part /\ e.node.ins = a[place].node.ins /\ e.node.outs = outs
  <2>1. c.ins = a[place].node.ins /\ c.outs = outs
    BY <1>2 DEF Nodes
  <2> HIDE DEF c
  <2> QED  BY <1>2, <2>1 DEF Entries
<1> HIDE DEF e
<1>4. DOMAIN t.schedule = DOMAIN a /\ t.schedule[place] = e
      /\ \A i \in DOMAIN a : i # place => t.schedule[i] = a[i]
  BY <1>1, <1>2
<1> QED  BY <1>1, <1>3, <1>4 DEF t, outs, ContextsPlaced

LEMMA ContextsTrack ==
    ASSUME NEW j, NEW s, Sound(j.graph, s), NEW place \in DOMAIN s.schedule, NEW home \in Parts,
           s.schedule[place].part = home, Track(j, home, s), NEW next
    PROVE  Track(j, next, WithContexts(s, place)) /\ WithContexts(s, place).contexts = <<>>
<1> DEFINE t == WithContexts(s, place)
           a == s.schedule
           d == t.schedule
<1>1. /\ t.contexts = <<>>
      /\ \A f \in (BuilderFields \cup OtherFields) \ {"schedule", "contexts"} : t[f] = s[f]
      /\ DOMAIN d = DOMAIN a
      /\ \A i \in DOMAIN a : d[i].part = a[i].part /\ d[i].node.ins = a[i].node.ins
                             /\ (i # place => d[i].node.outs = a[i].node.outs)
      /\ d[place].node.outs = a[place].node.outs \o s.contexts
  <2>1. ContextsPlaced(s, place, WithContexts(s, place))
    BY ContextFields
  <2> QED  BY <2>1 DEF ContextsPlaced
<1> HIDE DEF t
<1>2. /\ t.retained = s.retained /\ t.added = s.added /\ t.grads = s.grads /\ t.fresh = s.fresh
      /\ t.first = s.first /\ t.last = s.last /\ t.staged = s.staged
      /\ t.turned = s.turned /\ t.stagedInForward = s.stagedInForward
      /\ t.outGrads = s.outGrads /\ t.forgotten = s.forgotten
  BY <1>1 DEF BuilderFields, OtherFields
<1> DEFINE outs == a[place].node.outs
           more == s.contexts
<1>3. outs \in Seq(Nat) /\ more \in Seq(Nat) /\ Elements(more) \cap Values(j.graph) = {}
  <2>1. a[place] \in Entries /\ more \in Seq(Nat \ Values(j.graph))
    BY DEF Sound, Builder
  <2> QED  BY <2>1 DEF Entries, Nodes, Elements
<1>4. Elements(d[place].node.outs) = Elements(outs) \cup Elements(more)
  <2> HIDE DEF outs, more
  <2>1. Elements(outs \o more) = Elements(outs) \cup Elements(more)
    BY <1>3, ElementsOfConcatenation
  <2> QED  BY <1>1, <2>1 DEF outs, more
<1>5. \A i \in DOMAIN a : Elements(a[i].node.outs) \subseteq Elements(d[i].node.outs)
  BY <1>1, <1>4
<1>6. Elements(t.contexts) = {}
  <2>1. t.contexts = <<>>
    BY <1>1
  <2> HIDE DEF t
  <2> QED  BY <2>1 DEF Elements
<1> HIDE DEF outs, d, more
<1>7. \A p : MadeBy(d, p) = MadeBy(a, p) \cup (IF p = home THEN Elements(s.contexts) ELSE {})
  <2>1. \A p : MadeBy(a, p) \subseteq MadeBy(d, p)
    <3> SUFFICES ASSUME NEW p, NEW v \in MadeBy(a, p) PROVE v \in MadeBy(d, p)
      OBVIOUS
    <3>1. PICK i \in DOMAIN a : a[i].part = p /\ v \in Elements(a[i].node.outs)
      BY DEF MadeBy
    <3>2. i \in DOMAIN d /\ d[i].part = p
      BY <1>1, <3>1
    <3>3. v \in Elements(d[i].node.outs)
      BY <1>5, <3>1
    <3> QED  BY <3>2, <3>3 DEF MadeBy
  <2>2. Elements(s.contexts) \subseteq MadeBy(d, home)
    BY <1>1, <1>4 DEF MadeBy, more
  <2>3. ASSUME NEW p, NEW v \in MadeBy(d, p)
        PROVE  v \in MadeBy(a, p) \cup (IF p = home THEN Elements(s.contexts) ELSE {})
    <3>1. PICK i \in DOMAIN a : d[i].part = p /\ v \in Elements(d[i].node.outs)
      BY <1>1, <2>3 DEF MadeBy
    <3>2. a[i].part = p
      BY <1>1, <3>1
    <3>3. CASE i = place
      BY <1>4, <3>1, <3>2, <3>3 DEF MadeBy, outs, more
    <3>4. CASE i # place
      BY <1>1, <3>1, <3>2, <3>4 DEF MadeBy
    <3> QED  BY <3>3, <3>4
  <2> HIDE DEF a
  <2> QED  BY <2>1, <2>2, <2>3
<1>8. /\ Lost(t) = Lost(s) /\ StandIns(t) = StandIns(s)
      /\ \A p : LostIn(t, p) = LostIn(s, p) /\ GivenTo(j, t, p) = GivenTo(j, s, p)
      /\ \A w : Copied(t, w) = Copied(s, w)
  BY <1>2 DEF Lost, LostIn, StandIns, GivenTo, Copied
<1>9. \A p : Available(j, next, t, p) = Available(j, home, s, p)
  BY <1>2, <1>6, <1>7, <1>8 DEF Available, d
<1>10. Readable(j, next, t) = Readable(j, home, s) /\ Gradable(j, next, t) = Gradable(j, home, s)
  BY <1>2, <1>8, <1>9 DEF Readable, Gradable
<1>11. Named(j, t)
  <2>1. Names(j, t) \subseteq Names(j, s)
    BY <1>2, <1>6, <1>7, <1>8 DEF Names, d
  <2> QED  BY <1>2, <2>1 DEF Track, Named
<1>12. Fed(j, t)
  <2>1. ASSUME NEW i \in DOMAIN a, NEW v \in Elements(a[i].node.ins)
        PROVE  /\ \/ v \in GivenTo(j, t, a[i].part)
                  \/ \E k \in DOMAIN d : k < i /\ d[k].part = a[i].part /\ v \in Elements(d[k].node.outs)
               /\ \A f \in s.forgotten : f.value = v /\ f.part = a[i].part => i <= f.at
    <3>1. LET p == a[i].part
          IN  /\ \/ v \in GivenTo(j, s, p)
                 \/ \E k \in DOMAIN a : k < i /\ a[k].part = p /\ v \in Elements(a[k].node.outs)
              /\ \A f \in s.forgotten : f.value = v /\ f.part = p => i <= f.at
      BY DEF Track, Fed
    <3> HIDE DEF a
    <3> QED  BY <1>1, <1>5, <1>8, <3>1
  <2>2. d = t.schedule /\ t.forgotten = s.forgotten
    BY <1>2 DEF d
  <2> HIDE DEF a
  <2>3. ASSUME NEW i \in DOMAIN d, NEW v \in Elements(d[i].node.ins)
        PROVE  /\ \/ v \in GivenTo(j, t, d[i].part)
                  \/ \E k \in DOMAIN d : k < i /\ d[k].part = d[i].part /\ v \in Elements(d[k].node.outs)
               /\ \A f \in t.forgotten : f.value = v /\ f.part = d[i].part => i <= f.at
    <3>1. i \in DOMAIN a /\ v \in Elements(a[i].node.ins) /\ d[i].part = a[i].part
      BY <1>1
    <3> QED  BY <2>1, <2>2, <3>1
  <2> QED  BY <2>2, <2>3 DEF Fed
<1>13. AddedWell(j, next, t) /\ Graded(j, next, t)
  BY <1>2, <1>10 DEF Track, AddedWell, Graded
<1>14. RetainedWell(j, next, t)
  BY <1>2, <1>8, <1>9 DEF Track, RetainedWell
<1>15. StagedWell(j, next, t)
  BY <1>2, <1>8, <1>9 DEF Track, StagedWell
<1>16. OriginsWell(j, t)
  <2>1. OriginsWell(j, s)
    BY DEF Track
  <2>2. \A p : MadeBy(t.schedule, p) \cap Values(j.graph) = MadeBy(s.schedule, p) \cap Values(j.graph)
    BY <1>3, <1>7 DEF d, more
  <2>3. MadeBy(s.schedule, "forward") \subseteq MadeBy(t.schedule, "forward")
    BY <1>7 DEF d
  <2> QED  BY <1>2, <1>8, <2>1, <2>2, <2>3 DEF OriginsWell
<1>17. PlacesWell(j, t)
  <2> SUFFICES ASSUME NEW n \in DOMAIN s.first
               PROVE  LET node == d[s.first[n]].node
                      IN  /\ d[s.first[n]].part = "forward"
                          /\ node.outs # <<>> /\ node.outs[1] \in Values(j.graph)
                          /\ s.last[n] # s.first[n] =>
                                /\ d[s.last[n]].part = Late(j)
                                /\ j.twoPhase =>
                                      \A v \in (Elements(node.ins) \cup Elements(node.outs)) \cap DOMAIN s.staged :
                                          s.staged[v] \in DOMAIN s.retained
    BY <1>2 DEF PlacesWell, d
  <2> DEFINE f == s.first[n]
             node == a[f].node
  <2>1. f \in DOMAIN a /\ s.last[n] \in DOMAIN a
    BY DEF Sound, Placed
  <2>2. /\ a[f].part = "forward" /\ node.outs # <<>> /\ node.outs[1] \in Values(j.graph)
        /\ s.last[n] # f => /\ a[s.last[n]].part = Late(j)
                            /\ j.twoPhase =>
                                  \A v \in (Elements(node.ins) \cup Elements(node.outs)) \cap DOMAIN s.staged :
                                      s.staged[v] \in DOMAIN s.retained
    BY DEF Track, PlacesWell
  <2>3. /\ d[f].node.ins = node.ins /\ d[f].node.outs # <<>> /\ d[f].node.outs[1] \in Values(j.graph)
        /\ (Elements(node.ins) \cup Elements(d[f].node.outs)) \cap DOMAIN s.staged
               = (Elements(node.ins) \cup Elements(node.outs)) \cap DOMAIN s.staged
    <3>1. CASE f = place
      <4>1. d[f].node.outs = outs \o more /\ outs # <<>> /\ outs[1] \in Values(j.graph)
        BY <1>1, <2>2, <3>1 DEF outs, more
      <4>2. outs \o more # <<>> /\ (outs \o more)[1] = outs[1]
        BY <1>3, <4>1
      <4>3. Elements(more) \cap DOMAIN s.staged = {}
        BY DEF Track, more
      <4>4. Elements(d[f].node.outs) = Elements(node.outs) \cup Elements(more)
        BY <1>4, <3>1 DEF outs
      <4> QED  BY <1>1, <2>1, <4>1, <4>2, <4>3, <4>4
    <3>2. CASE f # place
      BY <1>1, <2>1, <2>2, <3>2
    <3> QED  BY <3>1, <3>2
  <2> HIDE DEF a
  <2> QED  BY <1>1, <2>1, <2>2, <2>3
<1>18. Phases(j, t)
  BY <1>2 DEF Track, Phases
<1> QED  BY <1>1, <1>6, <1>11, <1>12, <1>13, <1>14, <1>15, <1>16, <1>17, <1>18 DEF Track, t
=============================================================================
