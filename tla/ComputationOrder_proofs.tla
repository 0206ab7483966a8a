----------------------- MODULE ComputationOrder_proofs -----------------------
(***************************************************************************)
(* What the operators on graphs do, for every graph (selections, flattened *)
(* sequences, searches and the topological sort), and what the policies'   *)
(* orders have in common, for every graph and every choice: the gradients  *)
(* of a node are taken once and after those of all necessary nodes that    *)
(* read what it computes, unless the orders compute a node twice while its *)
(* values are held, where they are not followed to the end.                *)
(*                                                                         *)
(* First come induction and recursion over the natural numbers, in a form  *)
(* that can be cited for any set of numbers and any function.  They rest   *)
(* on one fact of the library, that < is well founded.                     *)
(***************************************************************************)
EXTENDS ComputationOrder, FiniteSetTheorems, TLAPS
WellFounded == INSTANCE WellFoundedInduction
LOCAL INSTANCE SequencesExt

Less == {p \in Nat \X Nat : p[1] < p[2]}

LEMMA LessIsWellFounded == WellFounded!IsWellFoundedOn(Less, Nat)
BY WellFounded!NatLessThanWellFounded DEF Less, WellFounded!OpToRel

LEMMA LeastNumber ==
    ASSUME NEW T, T \subseteq Nat, T # {}
    PROVE  \E x \in T : \A y \in T : x <= y
<1>1. PICK x \in T : \A y \in T : <<y, x>> \notin Less
  BY LessIsWellFounded, WellFounded!WFMin
<1>2. ASSUME NEW y \in T PROVE x <= y
  <2>1. <<y, x>> \in Nat \X Nat /\ <<y, x>>[1] = y /\ <<y, x>>[2] = x
    OBVIOUS
  <2>2. ~(y < x)
    BY <1>1, <2>1 DEF Less
  <2> QED  BY <2>2
<1> QED  BY <1>2

\* A set of numbers that has 0 and, with a number, the next one has all.
LEMMA Induction ==
    ASSUME NEW S, 0 \in S, \A n \in Nat : n \in S => n + 1 \in S
    PROVE  \A n \in Nat : n \in S
<1> DEFINE T == {n \in Nat : n \notin S}
<1> SUFFICES ASSUME T # {} PROVE FALSE
  OBVIOUS
<1>1. PICK x \in T : \A y \in T : x <= y
  BY LeastNumber
<1>2. x # 0 /\ x - 1 \in Nat /\ x - 1 \notin T
  BY <1>1
<1>3. x - 1 \in S
  BY <1>2
<1> QED  BY <1>2, <1>3

\* The functions on 0..n that start with x and go on with F.
Beginnings(X, x, F, n) ==
    {f \in [0..n -> X] : f[0] = x /\ \A k \in 0..(n - 1) : f[k + 1] = F[<<f[k], k>>]}

LEMMA BeginningsExist ==
    ASSUME NEW X, NEW x \in X, NEW F, F \in [X \X Nat -> X]
    PROVE  \A n \in Nat : Beginnings(X, x, F, n) # {}
<1> DEFINE S == {n \in Nat : Beginnings(X, x, F, n) # {}}
<1>1. 0 \in S
  <2>1. [k \in 0..0 |-> x] \in Beginnings(X, x, F, 0)
    BY DEF Beginnings
  <2> QED  BY <2>1
<1>2. ASSUME NEW n \in Nat, n \in S PROVE n + 1 \in S
  <2>1. PICK f : f \in Beginnings(X, x, F, n)
    BY <1>2
  <2> DEFINE h == [k \in 0..(n + 1) |-> IF k = n + 1 THEN F[<<f[n], n>>] ELSE f[k]]
  <2>2. f \in [0..n -> X] /\ f[0] = x /\ \A k \in 0..(n - 1) : f[k + 1] = F[<<f[k], k>>]
    BY <2>1 DEF Beginnings
  <2>3. F[<<f[n], n>>] \in X
    <3>1. <<f[n], n>> \in X \X Nat
      BY <2>2
    <3> QED  BY <3>1
  <2>4. h \in [0..(n + 1) -> X] /\ h[0] = x
    BY <2>2, <2>3
  <2>5. ASSUME NEW k \in 0..n PROVE h[k + 1] = F[<<h[k], k>>]
    <3>1. h[k] = f[k]
      OBVIOUS
    <3>2. h[k + 1] = IF k = n THEN F[<<f[n], n>>] ELSE f[k + 1]
      OBVIOUS
    <3>3. k # n => f[k + 1] = F[<<f[k], k>>]
      BY <2>2
    <3> HIDE DEF h
    <3> QED  BY <3>1, <3>2, <3>3
  <2> HIDE DEF h
  <2>6. h \in Beginnings(X, x, F, n + 1)
    BY <2>4, <2>5 DEF Beginnings
  <2> QED  BY <2>6
<1>3. \A n \in Nat : n \in S
  <2> HIDE DEF S
  <2> QED  BY <1>1, <1>2, Induction
<1> QED  BY <1>3

\* Two of them agree as far as both go.
LEMMA BeginningsAgree ==
    ASSUME NEW X, NEW x \in X, NEW F, NEW n \in Nat,
           NEW f \in Beginnings(X, x, F, n), NEW h \in Beginnings(X, x, F, n + 1)
    PROVE  \A k \in 0..n : f[k] = h[k]
<1> DEFINE A == {k \in Nat : k <= n => f[k] = h[k]}
<1>1. /\ f[0] = x /\ \A k \in 0..(n - 1) : f[k + 1] = F[<<f[k], k>>]
      /\ h[0] = x /\ \A k \in 0..n : h[k + 1] = F[<<h[k], k>>]
  BY DEF Beginnings
<1>2. 0 \in A
  BY <1>1
<1>3. ASSUME NEW k \in Nat, k \in A PROVE k + 1 \in A
  <2> SUFFICES ASSUME k + 1 <= n PROVE f[k + 1] = h[k + 1]
    OBVIOUS
  <2>1. f[k] = h[k]
    BY <1>3
  <2>2. f[k + 1] = F[<<f[k], k>>] /\ h[k + 1] = F[<<h[k], k>>]
    BY <1>1
  <2> QED  BY <2>1, <2>2
<1>4. \A k \in Nat : k \in A
  <2> HIDE DEF A
  <2> QED  BY <1>2, <1>3, Induction
<1> QED  BY <1>4

\* The functions on all numbers that start with x and go on with F.
Sequels(X, x, F) ==
    {f \in [Nat -> X] : f[0] = x /\ \A n \in Nat : f[n + 1] = F[<<f[n], n>>]}

\* A function can be defined by its first value and a step.
LEMMA Recursion ==
    ASSUME NEW X, NEW x \in X, NEW F, F \in [X \X Nat -> X]
    PROVE  Sequels(X, x, F) # {}
<1> DEFINE upto(n) == CHOOSE f : f \in Beginnings(X, x, F, n)
           whole == [n \in Nat |-> upto(n)[n]]
<1>1. ASSUME NEW n \in Nat PROVE upto(n) \in Beginnings(X, x, F, n)
  BY BeginningsExist
<1> HIDE DEF upto
<1>2. ASSUME NEW n \in Nat PROVE upto(n)[n] = upto(n + 1)[n]
  BY <1>1, BeginningsAgree
<1>3. ASSUME NEW n \in Nat PROVE whole[n + 1] = F[<<whole[n], n>>]
  <2>1. upto(n + 1)[n + 1] = F[<<upto(n + 1)[n], n>>]
    BY <1>1 DEF Beginnings
  <2> QED  BY <1>2, <2>1, SMTT(60)
<1>4. whole[0] = x /\ \A n \in Nat : whole[n] \in X
  BY <1>1 DEF Beginnings
<1> HIDE DEF whole
<1>5. whole \in [Nat -> X]
  BY <1>4 DEF whole
<1>6. whole \in Sequels(X, x, F)
  BY <1>3, <1>4, <1>5 DEF Sequels
<1> QED  BY <1>6

\* The same for the forms in which the models write it.
Recursions(X, x, n, F) ==
    {f \in [0..n -> X] : f[0] = x /\ \A k \in 1..n : f[k] = F[<<f[k - 1], k>>]}

LEMMA RecursionUpTo ==
    ASSUME NEW X, NEW x \in X, NEW n \in Nat, NEW F, F \in [X \X (1..n) -> X]
    PROVE  Recursions(X, x, n, F) # {}
<1> DEFINE G == [q \in X \X Nat |-> IF q[2] + 1 \in 1..n THEN F[<<q[1], q[2] + 1>>] ELSE q[1]]
<1>1. G \in [X \X Nat -> X]
  <2>1. ASSUME NEW q \in X \X Nat, q[2] + 1 \in 1..n PROVE F[<<q[1], q[2] + 1>>] \in X
    <3>1. <<q[1], q[2] + 1>> \in X \X (1..n)
      BY <2>1
    <3> QED  BY <3>1
  <2> QED  BY <2>1
<1>2. ASSUME NEW y \in X, NEW k \in 1..n PROVE G[<<y, k - 1>>] = F[<<y, k>>]
  <2>1. <<y, k - 1>> \in X \X Nat
    OBVIOUS
  <2>2. <<y, k - 1>>[2] + 1 = k /\ <<y, k - 1>>[1] = y
    OBVIOUS
  <2> QED  BY <2>1, <2>2
<1> HIDE DEF G
<1>3. PICK f : f \in Sequels(X, x, G)
  <2>1. Sequels(X, x, G) # {}
    BY <1>1, Recursion, Zenon
  <2> QED  BY <2>1
<1>4. f \in [Nat -> X] /\ f[0] = x /\ \A k \in Nat : f[k + 1] = G[<<f[k], k>>]
  BY <1>3 DEF Sequels
<1> DEFINE h == [k \in 0..n |-> f[k]]
<1>5. h \in [0..n -> X] /\ h[0] = x
  BY <1>4
<1>6. ASSUME NEW k \in 1..n PROVE h[k] = F[<<h[k - 1], k>>]
  <2>1. f[k] = G[<<f[k - 1], k - 1>>]
    <3>1. k - 1 \in Nat /\ (k - 1) + 1 = k
      OBVIOUS
    <3> QED  BY <1>4, <3>1
  <2>2. f[k - 1] \in X
    BY <1>4
  <2>3. h[k] = f[k] /\ h[k - 1] = f[k - 1]
    OBVIOUS
  <2> HIDE DEF h
  <2> QED  BY <1>2, <2>1, <2>2, <2>3
<1> HIDE DEF h
<1>7. h \in Recursions(X, x, n, F)
  BY <1>5, <1>6 DEF Recursions
<1> QED  BY <1>7

Iterations(X, x, F) ==
    {f \in [Nat -> X] : f[0] = x /\ \A k \in Nat : f[k + 1] = F[f[k]]}

LEMMA Iteration ==
    ASSUME NEW X, NEW x \in X, NEW F, F \in [X -> X]
    PROVE  Iterations(X, x, F) # {}
<1> DEFINE G == [q \in X \X Nat |-> F[q[1]]]
<1>1. G \in [X \X Nat -> X]
  OBVIOUS
<1>2. ASSUME NEW y \in X, NEW k \in Nat PROVE G[<<y, k>>] = F[y]
  OBVIOUS
<1> HIDE DEF G
<1>3. PICK f : f \in Sequels(X, x, G)
  <2>1. Sequels(X, x, G) # {}
    BY <1>1, Recursion, Zenon
  <2> QED  BY <2>1
<1>4. f \in [Nat -> X] /\ f[0] = x /\ \A k \in Nat : f[k + 1] = G[<<f[k], k>>]
  BY <1>3 DEF Sequels
<1>5. f \in Iterations(X, x, F)
  BY <1>2, <1>4 DEF Iterations
<1> QED  BY <1>5
-----------------------------------------------------------------------------
(* The elements of a selection and where they come from.                   *)

\* a holds the elements of s[1..n] that are in S; p tells their places.
Selects(p, a, s, S, n) ==
    /\ p \in [1..Len(a) -> 1..n]
    /\ \A i \in 1..Len(a) : s[p[i]] \in S /\ a[i] = s[p[i]]
    /\ \A i, j \in 1..Len(a) : i < j => p[i] < p[j]
    /\ \A k \in 1..n : s[k] \in S => \E i \in 1..Len(a) : p[i] = k

\* One more element: it is taken if it is in S.
LEMMA SelectsMore ==
    ASSUME NEW X, NEW s \in Seq(X), NEW S, NEW n \in Nat, n + 1 \in 1..Len(s),
           NEW a \in Seq(X), NEW p, Selects(p, a, s, S, n)
    PROVE  \E q : Selects(q, IF s[n + 1] \in S THEN Append(a, s[n + 1]) ELSE a, s, S, n + 1)
<1>1. CASE s[n + 1] \notin S
  <2>1. Selects(p, a, s, S, n + 1)
    BY <1>1 DEF Selects
  <2> QED  BY <1>1, <2>1
<1>2. CASE s[n + 1] \in S
  <2> DEFINE c == Append(a, s[n + 1])
             q == [i \in 1..Len(c) |-> IF i = Len(c) THEN n + 1 ELSE p[i]]
  <2>1. c \in Seq(X) /\ Len(c) = Len(a) + 1 /\ c[Len(c)] = s[n + 1]
        /\ \A i \in 1..Len(a) : c[i] = a[i]
    OBVIOUS
  <2>2. /\ p \in [1..Len(a) -> 1..n]
        /\ \A i \in 1..Len(a) : s[p[i]] \in S /\ a[i] = s[p[i]]
        /\ \A i, j \in 1..Len(a) : i < j => p[i] < p[j]
        /\ \A k \in 1..n : s[k] \in S => \E i \in 1..Len(a) : p[i] = k
    BY DEF Selects
  <2> HIDE DEF c
  <2>3. /\ DOMAIN q = 1..Len(c) /\ q[Len(c)] = n + 1
        /\ \A i \in 1..Len(a) : q[i] = p[i] /\ p[i] \in 1..n
    BY <2>1, <2>2
  <2>4. q \in [1..Len(c) -> 1..(n + 1)]
    BY <2>1, <2>2
  <2> HIDE DEF q
  <2>5. \A i \in 1..Len(c) : s[q[i]] \in S /\ c[i] = s[q[i]]
    <3> SUFFICES ASSUME NEW i \in 1..Len(c) PROVE s[q[i]] \in S /\ c[i] = s[q[i]]
      OBVIOUS
    <3>1. CASE i = Len(c)
      BY <3>1, <1>2, <2>1, <2>3
    <3>2. CASE i \in 1..Len(a)
      BY <3>2, <2>1, <2>2, <2>3
    <3> QED  BY <2>1, <3>1, <3>2
  <2>6. \A i, j \in 1..Len(c) : i < j => q[i] < q[j]
    <3> SUFFICES ASSUME NEW i \in 1..Len(c), NEW j \in 1..Len(c), i < j PROVE q[i] < q[j]
      OBVIOUS
    <3>1. i \in 1..Len(a) /\ q[i] = p[i] /\ p[i] \in 1..n
      BY <2>1, <2>3
    <3>2. CASE j = Len(c)
      BY <3>1, <3>2, <2>3
    <3>3. CASE j \in 1..Len(a)
      BY <3>1, <3>3, <2>2, <2>3
    <3>4. j = Len(c) \/ j \in 1..Len(a)
      BY <2>1, SMTT(60)
    <3> QED  BY <3>2, <3>3, <3>4
  <2>7. \A k \in 1..(n + 1) : s[k] \in S => \E i \in 1..Len(c) : q[i] = k
    <3> SUFFICES ASSUME NEW k \in 1..(n + 1), s[k] \in S PROVE \E i \in 1..Len(c) : q[i] = k
      OBVIOUS
    <3>1. CASE k = n + 1
      BY <3>1, <2>1, <2>3
    <3>2. CASE k \in 1..n
      <4>1. PICK i \in 1..Len(a) : p[i] = k
        BY <3>2, <2>2
      <4>2. i \in 1..Len(c) /\ q[i] = k
        BY <4>1, <2>1, <2>3
      <4> QED  BY <4>2
    <3> QED  BY <3>1, <3>2
  <2>8. Selects(q, c, s, S, n + 1)
    BY <2>4, <2>5, <2>6, <2>7 DEF Selects
  <2> QED  BY <1>2, <2>8 DEF c
<1> QED  BY <1>1, <1>2

LEMMA AmongSelects ==
    ASSUME NEW X, NEW s \in Seq(X), NEW S
    PROVE  Among(s, S) \in Seq(X) /\ \E p : Selects(p, Among(s, S), s, S, Len(s))
<1> DEFINE F == [q \in Seq(X) \X (1..Len(s)) |->
                    IF s[q[2]] \in S THEN Append(q[1], s[q[2]]) ELSE q[1]]
           Body(f) == [k \in 0..Len(s) |->
                          IF k = 0 THEN <<>>
                          ELSE IF s[k] \in S THEN Append(f[k - 1], s[k]) ELSE f[k - 1]]
           kept == CHOOSE f : f = Body(f)
<1>1. Len(s) \in Nat /\ <<>> \in Seq(X) /\ \A k \in 1..Len(s) : s[k] \in X
  OBVIOUS
<1>2. F \in [Seq(X) \X (1..Len(s)) -> Seq(X)]
  <2>1. ASSUME NEW q \in Seq(X) \X (1..Len(s)) PROVE Append(q[1], s[q[2]]) \in Seq(X) /\ q[1] \in Seq(X)
    OBVIOUS
  <2> QED  BY <2>1
<1>3. \A a \in Seq(X), k \in 1..Len(s) :
          F[<<a, k>>] = IF s[k] \in S THEN Append(a, s[k]) ELSE a
  OBVIOUS
<1> HIDE DEF F
<1>4. Recursions(Seq(X), <<>>, Len(s), F) # {}
  BY <1>1, <1>2, RecursionUpTo, Zenon
<1>5. \E f : f = Body(f)
  <2>1. PICK f : f \in Recursions(Seq(X), <<>>, Len(s), F)
    BY <1>4
  <2>2. /\ f \in [0..Len(s) -> Seq(X)] /\ f[0] = <<>>
        /\ \A k \in 1..Len(s) : f[k] = F[<<f[k - 1], k>>]
    BY <2>1 DEF Recursions
  <2>3. ASSUME NEW k \in 1..Len(s)
        PROVE  f[k] = IF s[k] \in S THEN Append(f[k - 1], s[k]) ELSE f[k - 1]
    <3>1. k - 1 \in 0..Len(s)
      BY <1>1
    <3> QED  BY <1>3, <2>2, <3>1
  <2>4. \A k \in 0..Len(s) : f[k] = Body(f)[k]
    <3> SUFFICES ASSUME NEW k \in 0..Len(s) PROVE f[k] = Body(f)[k]
      OBVIOUS
    <3>1. CASE k = 0
      BY <3>1, <2>2
    <3>2. CASE k \in 1..Len(s)
      BY <3>2, <2>3
    <3> QED  BY <3>1, <3>2, <1>1
  <2>5. f = [k \in 0..Len(s) |-> f[k]] /\ Body(f) = [k \in 0..Len(s) |-> Body(f)[k]]
    BY <2>2
  <2> HIDE DEF Body
  <2>6. f = Body(f)
    BY <2>4, <2>5
  <2> QED  BY <2>6
<1>6. kept = Body(kept)
  BY <1>5
<1>7. Among(s, S) = kept[Len(s)]
  BY DEF Among
<1> HIDE DEF kept
<1>8. kept[0] = <<>>
  BY <1>6, <1>1
<1>9. \A k \in Nat : k + 1 \in 1..Len(s) =>
          kept[k + 1] = IF s[k + 1] \in S THEN Append(kept[k], s[k + 1]) ELSE kept[k]
  <2> SUFFICES ASSUME NEW k \in Nat, k + 1 \in 1..Len(s)
               PROVE  kept[k + 1] = IF s[k + 1] \in S THEN Append(kept[k], s[k + 1]) ELSE kept[k]
    OBVIOUS
  <2>1. k + 1 \in 0..Len(s) /\ k + 1 # 0 /\ (k + 1) - 1 = k
    OBVIOUS
  <2> QED  BY <1>6, <2>1
<1> HIDE DEF Body
<1> DEFINE T == {k \in Nat : k <= Len(s) =>
                    kept[k] \in Seq(X) /\ \E p : Selects(p, kept[k], s, S, k)}
<1>10. 0 \in T
  <2>1. Selects(<<>>, <<>>, s, S, 0)
    BY DEF Selects
  <2>2. kept[0] \in Seq(X) /\ \E p : Selects(p, kept[0], s, S, 0)
    BY <1>1, <1>8, <2>1
  <2> QED  BY <2>2
<1>11. ASSUME NEW k \in Nat, k \in T PROVE k + 1 \in T
  <2> SUFFICES ASSUME k + 1 \in 1..Len(s)
               PROVE  kept[k + 1] \in Seq(X) /\ \E p : Selects(p, kept[k + 1], s, S, k + 1)
    OBVIOUS
  <2>1. kept[k] \in Seq(X) /\ \E p : Selects(p, kept[k], s, S, k)
    BY <1>11
  <2>2. kept[k + 1] \in Seq(X)
    <3>1. Append(kept[k], s[k + 1]) \in Seq(X)
      BY <1>1, <2>1
    <3> QED  BY <1>9, <2>1, <3>1
  <2> QED  BY <1>9, <2>1, <2>2, SelectsMore
<1>12. \A k \in Nat : k \in T
  <2> HIDE DEF T
  <2> QED  BY <1>10, <1>11, Induction
<1> QED  BY <1>1, <1>7, <1>12
-----------------------------------------------------------------------------
(* The elements of a flattened sequence and where they come from.          *)

\* a holds ss[1], ..., ss[n]; its i-th element is the o[i]-th of ss[b[i]].
Flattens(b, o, a, ss, n) ==
    /\ b \in [1..Len(a) -> 1..n] /\ o \in [1..Len(a) -> Nat]
    /\ \A i \in 1..Len(a) : o[i] \in 1..Len(ss[b[i]]) /\ a[i] = ss[b[i]][o[i]]
    /\ \A i, j \in 1..Len(a) : i < j => b[i] < b[j] \/ (b[i] = b[j] /\ o[i] < o[j])
    /\ \A k \in 1..n : \A m \in 1..Len(ss[k]) :
          \E i \in 1..Len(a) : b[i] = k /\ o[i] = m

LEMMA FlattensMore ==
    ASSUME NEW X, NEW ss \in Seq(Seq(X)), NEW n \in Nat, n + 1 \in 1..Len(ss),
           NEW a \in Seq(X), NEW b, NEW o, Flattens(b, o, a, ss, n)
    PROVE  \E d, q : Flattens(d, q, a \o ss[n + 1], ss, n + 1)
<1> DEFINE t == ss[n + 1]
           c == a \o t
           d == [i \in 1..Len(c) |-> IF i <= Len(a) THEN b[i] ELSE n + 1]
           q == [i \in 1..Len(c) |-> IF i <= Len(a) THEN o[i] ELSE i - Len(a)]
<1>1. t \in Seq(X)
  OBVIOUS
<1> HIDE DEF t
<1>2. /\ c \in Seq(X) /\ Len(c) = Len(a) + Len(t) /\ Len(a) \in Nat /\ Len(t) \in Nat
      /\ \A i \in 1..Len(a) : c[i] = a[i]
      /\ \A i \in 1..Len(c) : i > Len(a) => c[i] = t[i - Len(a)] /\ i - Len(a) \in 1..Len(t)
  BY <1>1
<1>3. /\ b \in [1..Len(a) -> 1..n] /\ o \in [1..Len(a) -> Nat]
      /\ \A i \in 1..Len(a) : o[i] \in 1..Len(ss[b[i]]) /\ a[i] = ss[b[i]][o[i]]
      /\ \A i, j \in 1..Len(a) : i < j => b[i] < b[j] \/ (b[i] = b[j] /\ o[i] < o[j])
      /\ \A k \in 1..n : \A m \in 1..Len(ss[k]) :
            \E i \in 1..Len(a) : b[i] = k /\ o[i] = m
  BY DEF Flattens
<1> HIDE DEF c
<1>4. /\ \A i \in 1..Len(a) : d[i] = b[i] /\ q[i] = o[i] /\ b[i] \in 1..n /\ o[i] \in Nat
      /\ \A i \in 1..Len(c) : i > Len(a) => d[i] = n + 1 /\ q[i] = i - Len(a)
      /\ \A i \in 1..Len(c) : i > Len(a) \/ i \in 1..Len(a)
  <2>1. \A i \in 1..Len(a) : i \in 1..Len(c) /\ i <= Len(a)
    BY <1>2
  <2>2. \A i \in 1..Len(a) : b[i] \in 1..n /\ o[i] \in Nat
    BY <1>3
  <2>3. \A i \in 1..Len(c) : i > Len(a) => ~(i <= Len(a))
    BY <1>2
  <2>4. \A i \in 1..Len(c) : i > Len(a) \/ i \in 1..Len(a)
    BY <1>2
  <2> QED  BY <2>1, <2>2, <2>3, <2>4
<1>5. d \in [1..Len(c) -> 1..(n + 1)] /\ q \in [1..Len(c) -> Nat]
  <2>1. \A i \in 1..Len(c) : d[i] \in 1..(n + 1) /\ q[i] \in Nat
    <3> SUFFICES ASSUME NEW i \in 1..Len(c) PROVE d[i] \in 1..(n + 1) /\ q[i] \in Nat
      OBVIOUS
    <3> HIDE DEF d, q
    <3>1. CASE i > Len(a)
      BY <3>1, <1>2, <1>4, SMTT(60)
    <3>2. CASE i \in 1..Len(a)
      <4>1. d[i] = b[i] /\ q[i] = o[i] /\ b[i] \in 1..n /\ o[i] \in Nat
        BY <3>2, <1>4
      <4> QED  BY <4>1
    <3> QED  BY <3>1, <3>2, <1>4
  <2>2. d = [i \in 1..Len(c) |-> d[i]] /\ q = [i \in 1..Len(c) |-> q[i]]
    OBVIOUS
  <2> HIDE DEF d, q
  <2> QED  BY <2>1, <2>2
<1> HIDE DEF d, q
<1>6. \A i \in 1..Len(c) : q[i] \in 1..Len(ss[d[i]]) /\ c[i] = ss[d[i]][q[i]]
  <2> SUFFICES ASSUME NEW i \in 1..Len(c)
               PROVE  q[i] \in 1..Len(ss[d[i]]) /\ c[i] = ss[d[i]][q[i]]
    OBVIOUS
  <2>1. CASE i > Len(a)
    BY <2>1, <1>2, <1>4 DEF t
  <2>2. CASE i \in 1..Len(a)
    BY <2>2, <1>2, <1>3, <1>4
  <2> QED  BY <2>1, <2>2, <1>4
<1>7. \A i, j \in 1..Len(c) : i < j => d[i] < d[j] \/ (d[i] = d[j] /\ q[i] < q[j])
  <2> SUFFICES ASSUME NEW i \in 1..Len(c), NEW j \in 1..Len(c), i < j
               PROVE  d[i] < d[j] \/ (d[i] = d[j] /\ q[i] < q[j])
    OBVIOUS
  <2>1. CASE i > Len(a)
    <3>1. j > Len(a)
      BY <2>1, <1>2
    <3>2. d[i] = n + 1 /\ q[i] = i - Len(a) /\ d[j] = n + 1 /\ q[j] = j - Len(a)
      BY <2>1, <3>1, <1>4
    <3> QED  BY <3>2, <1>2
  <2>2. CASE i \in 1..Len(a) /\ j > Len(a)
    <3>1. d[i] = b[i] /\ b[i] \in 1..n /\ d[j] = n + 1
      BY <2>2, <1>4
    <3> QED  BY <3>1
  <2>3. CASE i \in 1..Len(a) /\ j \in 1..Len(a)
    BY <2>3, <1>3, <1>4, SMTT(60)
  <2> QED  BY <2>1, <2>2, <2>3, <1>4
<1>8. \A k \in 1..(n + 1) : \A m \in 1..Len(ss[k]) :
          \E i \in 1..Len(c) : d[i] = k /\ q[i] = m
  <2> SUFFICES ASSUME NEW k \in 1..(n + 1), NEW m \in 1..Len(ss[k])
               PROVE  \E i \in 1..Len(c) : d[i] = k /\ q[i] = m
    OBVIOUS
  <2>1. CASE k = n + 1
    <3>1. m \in 1..Len(t)
      BY <2>1 DEF t
    <3>2. Len(a) + m \in 1..Len(c) /\ Len(a) + m > Len(a) /\ (Len(a) + m) - Len(a) = m
      BY <3>1, <1>2
    <3> QED  BY <2>1, <3>2, <1>4
  <2>2. CASE k \in 1..n
    <3>1. PICK i \in 1..Len(a) : b[i] = k /\ o[i] = m
      BY <2>2, <1>3
    <3>2. i \in 1..Len(c)
      BY <1>2
    <3> QED  BY <3>1, <3>2, <1>4
  <2>3. k = n + 1 \/ k \in 1..n
    OBVIOUS
  <2> QED  BY <2>1, <2>2, <2>3
<1>9. Flattens(d, q, c, ss, n + 1)
  BY <1>5, <1>6, <1>7, <1>8 DEF Flattens
<1> QED  BY <1>9 DEF c, t

LEMMA FlattenSeqFlattens ==
    ASSUME NEW X, NEW ss \in Seq(Seq(X))
    PROVE  FlattenSeq(ss) \in Seq(X) /\ \E b, o : Flattens(b, o, FlattenSeq(ss), ss, Len(ss))
<1>1. Len(ss) \in Nat /\ <<>> \in Seq(X) /\ \A k \in 1..Len(ss) : ss[k] \in Seq(X)
  OBVIOUS
<1>2. CASE Len(ss) = 0
  <2>1. FlattenSeq(ss) = <<>> /\ ss = <<>>
    BY <1>2 DEF FlattenSeq
  <2>2. Flattens(<<>>, <<>>, <<>>, <<>>, 0)
    BY DEF Flattens
  <2> QED  BY <1>1, <2>1, <2>2
<1>3. CASE Len(ss) # 0
  <2> DEFINE F == [q \in Seq(X) \X (1..Len(ss)) |-> q[1] \o ss[q[2]]]
             Body(f) == [k \in 1..Len(ss) |->
                            IF k = 1 THEN ss[k] ELSE f[k - 1] \o ss[k]]
             flatten == CHOOSE f : f = Body(f)
  <2>1. F \in [Seq(X) \X (1..Len(ss)) -> Seq(X)]
    <3>1. ASSUME NEW q \in Seq(X) \X (1..Len(ss)) PROVE q[1] \o ss[q[2]] \in Seq(X)
      OBVIOUS
    <3> QED  BY <3>1
  <2>2. \A a \in Seq(X), k \in 1..Len(ss) : F[<<a, k>>] = a \o ss[k]
    OBVIOUS
  <2> HIDE DEF F
  <2>3. Recursions(Seq(X), <<>>, Len(ss), F) # {}
    BY <1>1, <2>1, RecursionUpTo, Zenon
  <2>4. PICK f : f \in Recursions(Seq(X), <<>>, Len(ss), F)
    BY <2>3
  <2>5. /\ f \in [0..Len(ss) -> Seq(X)] /\ f[0] = <<>>
        /\ \A k \in 1..Len(ss) : f[k] = F[<<f[k - 1], k>>]
    BY <2>4 DEF Recursions
  <2>6. \A k \in 1..Len(ss) : f[k] = f[k - 1] \o ss[k] /\ f[k - 1] \in Seq(X) /\ f[k] \in Seq(X)
    <3> SUFFICES ASSUME NEW k \in 1..Len(ss)
                 PROVE  f[k] = f[k - 1] \o ss[k] /\ f[k - 1] \in Seq(X) /\ f[k] \in Seq(X)
      OBVIOUS
    <3>1. k - 1 \in 0..Len(ss) /\ k \in 0..Len(ss)
      BY <1>1
    <3>2. f[k - 1] \in Seq(X) /\ f[k] \in Seq(X)
      BY <2>5, <3>1
    <3> QED  BY <2>2, <2>5, <3>2
  <2> DEFINE h == [k \in 1..Len(ss) |-> f[k]]
  <2>7. h = Body(h)
    <3>1. \A k \in 1..Len(ss) : h[k] = Body(h)[k]
      <4> SUFFICES ASSUME NEW k \in 1..Len(ss) PROVE h[k] = Body(h)[k]
        OBVIOUS
      <4>1. CASE k = 1
        <5>1. f[1] = <<>> \o ss[1] /\ ss[1] \in Seq(X)
          <6>1. 1 \in 1..Len(ss) /\ 1 - 1 = 0
            BY <4>1
          <6> QED  BY <2>5, <2>6, <1>1, <6>1
        <5> QED  BY <4>1, <5>1
      <4>2. CASE k # 1
        <5>1. k - 1 \in 1..Len(ss)
          BY <1>1, <4>2
        <5>2. h[k] = f[k] /\ h[k - 1] = f[k - 1]
          BY <5>1
        <5>3. Body(h)[k] = h[k - 1] \o ss[k]
          BY <4>2
        <5> HIDE DEF h, Body
        <5> QED  BY <2>6, <5>2, <5>3
      <4> QED  BY <4>1, <4>2
    <3>2. h = [k \in 1..Len(ss) |-> h[k]] /\ Body(h) = [k \in 1..Len(ss) |-> Body(h)[k]]
      OBVIOUS
    <3> HIDE DEF h, Body
    <3> QED  BY <3>1, <3>2
  <2>8. flatten = Body(flatten)
    <3> HIDE DEF Body, h
    <3> QED  BY <2>7
  <2>9. FlattenSeq(ss) = flatten[Len(ss)]
    BY <1>3 DEF FlattenSeq
  <2> HIDE DEF flatten
  <2>10. flatten[1] = ss[1]
    BY <2>8, <1>1, <1>3
  <2>11. \A k \in Nat : k # 0 /\ k + 1 \in 1..Len(ss) => flatten[k + 1] = flatten[k] \o ss[k + 1]
    <3> SUFFICES ASSUME NEW k \in Nat, k # 0, k + 1 \in 1..Len(ss)
                 PROVE  flatten[k + 1] = flatten[k] \o ss[k + 1]
      OBVIOUS
    <3>1. k + 1 # 1 /\ (k + 1) - 1 = k
      OBVIOUS
    <3> QED  BY <2>8, <3>1
  <2> HIDE DEF Body
  <2> DEFINE T == {k \in Nat : k + 1 <= Len(ss) =>
                      flatten[k + 1] \in Seq(X) /\ \E b, o : Flattens(b, o, flatten[k + 1], ss, k + 1)}
  <2>12. 0 \in T
    <3>1. Flattens(<<>>, <<>>, <<>>, ss, 0)
      BY DEF Flattens
    <3>2. 0 + 1 \in 1..Len(ss) /\ 0 + 1 = 1 /\ 0 \in Nat
      BY <1>1, <1>3
    <3>3. ss[1] \in Seq(X) /\ <<>> \o ss[1] = ss[1]
      BY <1>1, <3>2
    <3>4. \E b, o : Flattens(b, o, ss[1], ss, 1)
      <4>1. \E b, o : Flattens(b, o, <<>> \o ss[0 + 1], ss, 0 + 1)
        BY <3>1, <3>2, <1>1, FlattensMore
      <4> QED  BY <4>1, <3>2, <3>3
    <3> QED  BY <2>10, <3>2, <3>3, <3>4
  <2>13. ASSUME NEW k \in Nat, k \in T PROVE k + 1 \in T
    <3> SUFFICES ASSUME (k + 1) + 1 <= Len(ss)
                 PROVE  /\ flatten[(k + 1) + 1] \in Seq(X)
                        /\ \E b, o : Flattens(b, o, flatten[(k + 1) + 1], ss, (k + 1) + 1)
      OBVIOUS
    <3>1. k + 1 \in Nat /\ k + 1 # 0 /\ (k + 1) + 1 \in 1..Len(ss) /\ k + 1 <= Len(ss)
      BY <1>1
    <3>2. flatten[k + 1] \in Seq(X) /\ \E b, o : Flattens(b, o, flatten[k + 1], ss, k + 1)
      BY <2>13, <3>1
    <3>3. flatten[(k + 1) + 1] = flatten[k + 1] \o ss[(k + 1) + 1] /\ ss[(k + 1) + 1] \in Seq(X)
      BY <2>11, <3>1, <1>1
    <3>4. flatten[(k + 1) + 1] \in Seq(X)
      BY <3>2, <3>3
    <3>5. \E b, o : Flattens(b, o, flatten[k + 1] \o ss[(k + 1) + 1], ss, (k + 1) + 1)
      BY <3>1, <3>2, FlattensMore
    <3> QED  BY <3>3, <3>4, <3>5
  <2>14. \A k \in Nat : k \in T
    <3> HIDE DEF T
    <3> QED  BY <2>12, <2>13, Induction
  <2>15. Len(ss) - 1 \in Nat /\ (Len(ss) - 1) + 1 = Len(ss)
    BY <1>1, <1>3
  <2>16. /\ flatten[Len(ss)] \in Seq(X)
         /\ \E b, o : Flattens(b, o, flatten[Len(ss)], ss, Len(ss))
    <3>1. Len(ss) - 1 \in T /\ (Len(ss) - 1) + 1 <= Len(ss)
      <4> HIDE DEF T
      <4> QED  BY <1>1, <2>14, <2>15
    <3>2. /\ flatten[(Len(ss) - 1) + 1] \in Seq(X)
          /\ \E b, o : Flattens(b, o, flatten[(Len(ss) - 1) + 1], ss, (Len(ss) - 1) + 1)
      BY <3>1
    <3> QED  BY <2>15, <3>2
  <2> QED  BY <2>9, <2>16
<1> QED  BY <1>2, <1>3
-----------------------------------------------------------------------------
(* A search along pairs that go down in some rank of at most n.            *)

Step(R, S) == S \cup {r[2] : r \in {q \in R : q[1] \in S}}

\* S has some elements of V and, with an element, those it leads to.
ClosedUnder(R, V, start, S) ==
    /\ start \subseteq S /\ S \subseteq V
    /\ \A q \in R : q[1] \in S => q[2] \in S

\* A search that takes n steps has found everything.
LEMMA ReachedIsClosed ==
    ASSUME NEW V, NEW R, R \subseteq V \X V, NEW start, start \subseteq V,
           NEW n \in Nat, NEW rank \in [V -> 1..n],
           \A q \in R : rank[q[2]] < rank[q[1]]
    PROVE  ClosedUnder(R, V, start, Reached(start, R, n))
<1> DEFINE F == [S \in SUBSET V |-> Step(R, S)]
           Body(f) == [k \in Nat |->
                          IF k = 0 THEN start
                          ELSE f[k - 1] \cup {r[2] : r \in {q \in R : q[1] \in f[k - 1]}}]
           reached == CHOOSE f : f = Body(f)
<1>1. \A S \in SUBSET V : Step(R, S) \in SUBSET V
  <2> SUFFICES ASSUME NEW S \in SUBSET V, NEW q \in R PROVE q[2] \in V
    BY DEF Step
  <2> QED  OBVIOUS
<1>2. F \in [SUBSET V -> SUBSET V]
  BY <1>1
<1>3. \A S \in SUBSET V : F[S] = Step(R, S)
  OBVIOUS
<1> HIDE DEF F
<1>4. Iterations(SUBSET V, start, F) # {}
  <2>1. start \in SUBSET V
    OBVIOUS
  <2> QED  BY <1>2, <2>1, Iteration, Zenon
<1>5. PICK f : f \in Iterations(SUBSET V, start, F)
  BY <1>4
<1>6. f \in [Nat -> SUBSET V] /\ f[0] = start /\ \A k \in Nat : f[k + 1] = F[f[k]]
  BY <1>5 DEF Iterations
<1>7. f = Body(f)
  <2>1. \A k \in Nat : f[k] = Body(f)[k]
    <3> SUFFICES ASSUME NEW k \in Nat PROVE f[k] = Body(f)[k]
      OBVIOUS
    <3>1. CASE k = 0
      BY <3>1, <1>6
    <3>2. CASE k # 0
      <4>1. k - 1 \in Nat /\ (k - 1) + 1 = k
        BY <3>2
      <4>2. f[k] = F[f[k - 1]] /\ f[k - 1] \in SUBSET V
        BY <1>6, <4>1
      <4>3. f[k] = Step(R, f[k - 1])
        BY <4>2, <1>3
      <4>4. Body(f)[k] = Step(R, f[k - 1])
        BY <3>2 DEF Step
      <4> QED  BY <4>3, <4>4
    <3> QED  BY <3>1, <3>2
  <2>2. f = [k \in Nat |-> f[k]] /\ Body(f) = [k \in Nat |-> Body(f)[k]]
    BY <1>6
  <2> HIDE DEF Body
  <2> QED  BY <2>1, <2>2
<1>8. reached = Body(reached)
  <2> HIDE DEF Body
  <2> QED  BY <1>7
<1>9. Reached(start, R, n) = reached[n]
  BY DEF Reached
<1> HIDE DEF reached
<1>10. reached[0] = start /\ \A k \in Nat : reached[k + 1] = Step(R, reached[k])
  <2>1. reached[0] = start
    BY <1>8
  <2>2. ASSUME NEW k \in Nat PROVE reached[k + 1] = Step(R, reached[k])
    <3>1. k + 1 \in Nat /\ k + 1 # 0 /\ (k + 1) - 1 = k
      OBVIOUS
    <3> QED  BY <1>8, <3>1 DEF Step
  <2> QED  BY <2>1, <2>2
<1> HIDE DEF Body
\* What was found last is low.
<1> DEFINE Low(k, x) == (\A q \in R : q[1] = x => q[2] \in reached[k]) \/ rank[x] <= n - k
           T == {k \in Nat : /\ start \subseteq reached[k] /\ reached[k] \subseteq V
                             /\ \A x \in reached[k] : Low(k, x)}
<1>11. 0 \in T
  <2>1. \A x \in start : rank[x] <= n - 0
    OBVIOUS
  <2> QED  BY <1>10, <2>1
<1>12. ASSUME NEW k \in Nat, k \in T PROVE k + 1 \in T
  <2>1. /\ start \subseteq reached[k] /\ reached[k] \subseteq V
        /\ \A x \in reached[k] : Low(k, x)
    BY <1>12
  <2>2. reached[k + 1] = Step(R, reached[k])
    BY <1>10
  <2>3. reached[k] \subseteq reached[k + 1]
    BY <2>2 DEF Step
  <2>4. \A q \in R : q[1] \in reached[k] => q[2] \in reached[k + 1]
    BY <2>2 DEF Step
  <2>5. reached[k + 1] \subseteq V
    BY <1>1, <2>1, <2>2
  <2>6. ASSUME NEW x \in reached[k + 1] PROVE Low(k + 1, x)
    <3>1. CASE x \in reached[k]
      BY <3>1, <2>4
    <3>2. CASE x \notin reached[k]
      <4>1. PICK q \in R : q[1] \in reached[k] /\ q[2] = x
        BY <3>2, <2>2 DEF Step
      <4>2. rank[q[1]] <= n - k
        BY <4>1, <2>1, <3>2
      <4>3. rank[q[1]] \in 1..n /\ rank[x] \in 1..n /\ rank[x] < rank[q[1]]
        BY <4>1, <2>1, <2>5
      <4>4. rank[x] <= n - (k + 1)
        BY <4>2, <4>3
      <4> QED  BY <4>4
    <3> QED  BY <3>1, <3>2
  <2> QED  BY <2>1, <2>3, <2>5, <2>6
<1>13. n \in T
  <2> HIDE DEF T
  <2>1. \A k \in Nat : k \in T
    BY <1>11, <1>12, Induction
  <2> QED  BY <2>1
<1>14. \A x \in reached[n] : ~(rank[x] <= n - n)
  BY <1>13
<1>15. \A q \in R : q[1] \in reached[n] => q[2] \in reached[n]
  BY <1>13, <1>14
<1> QED  BY <1>9, <1>13, <1>15 DEF ClosedUnder
-----------------------------------------------------------------------------
(* The topological sort of any list of nodes is a list of them.            *)

SortStates(nodes) ==
    [counts : [DOMAIN nodes -> Int], queue : Seq(Nat), sorted : Seq(DOMAIN nodes)]

LEMMA DomainOfNodes ==
    ASSUME NEW nodes \in Seq(Nodes)
    PROVE  /\ Len(nodes) \in Nat /\ DOMAIN nodes = 1..Len(nodes) /\ IsFiniteSet(DOMAIN nodes)
           /\ [i \in DOMAIN nodes |-> i] \in Seq(DOMAIN nodes)
           /\ Len([i \in DOMAIN nodes |-> i]) = Len(nodes)
           /\ \A i \in DOMAIN nodes :
                 /\ nodes[i].ins \in Seq(Nat) /\ nodes[i].outs \in Seq(Nat)
                 /\ nodes[i] \in Nodes
<1>1. Len(nodes) \in Nat /\ DOMAIN nodes = 1..Len(nodes)
  OBVIOUS
<1>2. \A i \in DOMAIN nodes : nodes[i] \in Nodes
  BY <1>1
<1>3. IsFiniteSet(1..Len(nodes))
  BY <1>1, FS_Interval
<1> QED  BY <1>1, <1>2, <1>3 DEF Nodes

\* The outputs of some nodes.
LEMMA OutsOfSome ==
    ASSUME NEW nodes \in Seq(Nodes), NEW q \in Seq(DOMAIN nodes)
    PROVE  LET outs == [k \in DOMAIN q |-> nodes[q[k]].outs]
           IN  /\ outs \in Seq(Seq(Nat)) /\ Len(outs) = Len(q)
               /\ \A k \in 1..Len(q) : outs[k] = nodes[q[k]].outs
               /\ FlattenSeq(outs) \in Seq(Nat)
<1> DEFINE outs == [k \in DOMAIN q |-> nodes[q[k]].outs]
<1>1. Len(q) \in Nat /\ DOMAIN q = 1..Len(q) /\ \A k \in 1..Len(q) : q[k] \in DOMAIN nodes
  OBVIOUS
<1>2. outs \in Seq(Seq(Nat)) /\ Len(outs) = Len(q) /\ \A k \in 1..Len(q) : outs[k] = nodes[q[k]].outs
  <2>1. outs = [k \in 1..Len(q) |-> nodes[q[k]].outs]
    BY <1>1
  <2>2. \A k \in 1..Len(q) : nodes[q[k]].outs \in Seq(Nat)
    BY <1>1, DomainOfNodes
  <2> HIDE DEF outs
  <2> QED  BY <1>1, <2>1, <2>2
<1> HIDE DEF outs
<1>3. FlattenSeq(outs) \in Seq(Nat)
  BY <1>2, FlattenSeqFlattens
<1> QED  BY <1>2, <1>3 DEF outs

LEMMA TimesReadType ==
    ASSUME NEW nodes \in Seq(Nodes), NEW i \in DOMAIN nodes, NEW v
    PROVE  TimesRead(nodes, i, v) \in Nat
<1>1. IsFiniteSet(1..Len(nodes[i].ins)) /\ DOMAIN nodes[i].ins = 1..Len(nodes[i].ins)
  BY DomainOfNodes, FS_Interval
<1>2. {j \in DOMAIN nodes[i].ins : nodes[i].ins[j] = v} \in SUBSET (1..Len(nodes[i].ins))
  BY <1>1
<1>3. IsFiniteSet({j \in DOMAIN nodes[i].ins : nodes[i].ins[j] = v})
  BY <1>1, <1>2, FS_Subset
<1> QED  BY <1>3, FS_CardinalityType DEF TimesRead

LEMMA StartedType ==
    ASSUME NEW nodes \in Seq(Nodes), NEW inputs \in Seq(Nat)
    PROVE  Started(nodes, inputs) \in SortStates(nodes)
<1> DEFINE sources == Among([i \in DOMAIN nodes |-> i], {i \in DOMAIN nodes : nodes[i].ins = <<>>})
<1>1. sources \in Seq(DOMAIN nodes)
  BY DomainOfNodes, AmongSelects
<1> HIDE DEF sources
<1>2. inputs \o FlattenSeq([k \in DOMAIN sources |-> nodes[sources[k]].outs]) \in Seq(Nat)
  <2>1. FlattenSeq([k \in DOMAIN sources |-> nodes[sources[k]].outs]) \in Seq(Nat)
    BY <1>1, OutsOfSome
  <2> QED  BY <2>1
<1>3. [i \in DOMAIN nodes |-> Len(nodes[i].ins)] \in [DOMAIN nodes -> Int]
  BY DomainOfNodes
<1> QED  BY <1>1, <1>2, <1>3 DEF Started, SortStates, sources

LEMMA TakeType ==
    ASSUME NEW nodes \in Seq(Nodes), NEW s \in SortStates(nodes), s.queue # <<>>
    PROVE  Take(nodes, s) \in SortStates(nodes)
<1> DEFINE v    == Head(s.queue)
           next == Among([i \in DOMAIN nodes |-> i], Completed(nodes, s.counts, v))
<1>1. next \in Seq(DOMAIN nodes)
  BY DomainOfNodes, AmongSelects
<1> HIDE DEF next
<1>2. s.queue \in Seq(Nat) /\ s.sorted \in Seq(DOMAIN nodes) /\ s.counts \in [DOMAIN nodes -> Int]
  BY DEF SortStates
<1>3. Tail(s.queue) \o FlattenSeq([k \in DOMAIN next |-> nodes[next[k]].outs]) \in Seq(Nat)
  <2>1. FlattenSeq([k \in DOMAIN next |-> nodes[next[k]].outs]) \in Seq(Nat)
    BY <1>1, OutsOfSome
  <2>2. Tail(s.queue) \in Seq(Nat)
    BY <1>2
  <2> QED  BY <2>1, <2>2
<1>4. [i \in DOMAIN nodes |-> s.counts[i] - TimesRead(nodes, i, v)] \in [DOMAIN nodes -> Int]
  BY <1>2, TimesReadType
<1>5. s.sorted \o next \in Seq(DOMAIN nodes)
  BY <1>1, <1>2
<1> QED  BY <1>3, <1>4, <1>5 DEF Take, SortStates, next, v

\* The states the sort goes through.
SortRuns(nodes, inputs) ==
    {f \in [Nat -> SortStates(nodes)] :
        /\ f[0] = Started(nodes, inputs)
        /\ \A k \in Nat : f[k + 1] = IF f[k].queue = <<>> THEN f[k] ELSE Take(nodes, f[k])}

\* The number of values there are.
AllValues(nodes, inputs) ==
    Len(inputs) + Len(FlattenSeq([i \in DOMAIN nodes |-> nodes[i].outs]))

LEMMA SortIsRun ==
    ASSUME NEW nodes \in Seq(Nodes), NEW inputs \in Seq(Nat)
    PROVE  LET n == AllValues(nodes, inputs)
           IN  /\ n \in Nat
               /\ \E f \in SortRuns(nodes, inputs) : SortTopologically(nodes, inputs) = f[n].sorted
<1> DEFINE X == SortStates(nodes)
           all == AllValues(nodes, inputs)
           Next(s) == IF s.queue = <<>> THEN s ELSE Take(nodes, s)
           F == [s \in X |-> Next(s)]
           Body(f) == [k \in Nat |-> IF k = 0 THEN Started(nodes, inputs) ELSE Next(f[k - 1])]
           state == CHOOSE f : f = Body(f)
<1>1. all \in Nat
  <2>1. [i \in DOMAIN nodes |-> nodes[i].outs] \in Seq(Seq(Nat))
    <3>1. [i \in DOMAIN nodes |-> nodes[i].outs] = [i \in 1..Len(nodes) |-> nodes[i].outs]
      BY DomainOfNodes
    <3>2. \A i \in 1..Len(nodes) : nodes[i].outs \in Seq(Nat)
      BY DomainOfNodes
    <3> QED  BY <3>1, <3>2
  <2>2. FlattenSeq([i \in DOMAIN nodes |-> nodes[i].outs]) \in Seq(Nat)
    BY <2>1, FlattenSeqFlattens
  <2> QED  BY <2>2 DEF AllValues
<1> HIDE DEF all
<1>2. Started(nodes, inputs) \in X
  BY StartedType
<1>3. \A s \in X : Next(s) \in X
  BY TakeType
<1> HIDE DEF X, Next
<1>4. F \in [X -> X] /\ \A s \in X : F[s] = Next(s)
  BY <1>3
<1> HIDE DEF F
<1>5. Iterations(X, Started(nodes, inputs), F) # {}
  BY <1>2, <1>4, Iteration, Zenon
<1>6. PICK f : f \in Iterations(X, Started(nodes, inputs), F)
  BY <1>5
<1>7. f \in [Nat -> X] /\ f[0] = Started(nodes, inputs) /\ \A k \in Nat : f[k + 1] = F[f[k]]
  BY <1>6 DEF Iterations
<1>8. f = Body(f)
  <2>1. \A k \in Nat : f[k] = Body(f)[k]
    <3> SUFFICES ASSUME NEW k \in Nat PROVE f[k] = Body(f)[k]
      OBVIOUS
    <3>1. CASE k = 0
      BY <3>1, <1>7
    <3>2. CASE k # 0
      <4>1. k - 1 \in Nat /\ (k - 1) + 1 = k
        BY <3>2
      <4>2. f[k] = F[f[k - 1]] /\ f[k - 1] \in X
        BY <1>7, <4>1
      <4> QED  BY <3>2, <4>2, <1>4
    <3> QED  BY <3>1, <3>2
  <2>2. f = [k \in Nat |-> f[k]] /\ Body(f) = [k \in Nat |-> Body(f)[k]]
    BY <1>7
  <2> HIDE DEF Body
  <2> QED  BY <2>1, <2>2
<1>9. state = Body(state)
  <2> HIDE DEF Body
  <2> QED  BY <1>8
<1>10. SortTopologically(nodes, inputs) = state[all].sorted
  BY DEF SortTopologically, Next, all, AllValues
<1> HIDE DEF state
<1>11. state[0] = Started(nodes, inputs) /\ \A k \in Nat : state[k + 1] = Next(state[k])
  <2>1. state[0] = Started(nodes, inputs)
    BY <1>9
  <2>2. ASSUME NEW k \in Nat PROVE state[k + 1] = Next(state[k])
    <3>1. k + 1 \in Nat /\ k + 1 # 0 /\ (k + 1) - 1 = k
      OBVIOUS
    <3> QED  BY <1>9, <3>1
  <2> QED  BY <2>1, <2>2
<1> DEFINE T == {k \in Nat : state[k] \in X}
<1>12. \A k \in Nat : k \in T
  <2>1. 0 \in T
    BY <1>2, <1>11
  <2>2. \A k \in Nat : k \in T => k + 1 \in T
    <3> SUFFICES ASSUME NEW k \in Nat, state[k] \in X PROVE state[k + 1] \in X
      OBVIOUS
    <3> QED  BY <1>3, <1>11
  <2> HIDE DEF T
  <2> QED  BY <2>1, <2>2, Induction
<1>13. state \in [Nat -> X]
  <2>1. state = [k \in Nat |-> state[k]]
    BY <1>9
  <2> QED  BY <2>1, <1>12
<1>14. state \in SortRuns(nodes, inputs)
  BY <1>11, <1>13 DEF SortRuns, X, Next
<1> QED  BY <1>1, <1>10, <1>14 DEF all
-----------------------------------------------------------------------------
(* Sequences without repetition.                                           *)

Distinct(s) == \A i, j \in DOMAIN s : s[i] = s[j] => i = j

LEMMA Concatenation ==
    ASSUME NEW X, NEW a \in Seq(X), NEW c \in Seq(X)
    PROVE  /\ a \o c \in Seq(X) /\ Len(a \o c) = Len(a) + Len(c)
           /\ \A i \in 1..Len(a) : i \in 1..Len(a \o c) /\ (a \o c)[i] = a[i]
           /\ \A i \in 1..Len(c) : Len(a) + i \in 1..Len(a \o c) /\ (a \o c)[Len(a) + i] = c[i]
           /\ \A i \in 1..Len(a \o c) : i \in 1..Len(a) \/ (i > Len(a) /\ i - Len(a) \in 1..Len(c)
                                                               /\ (a \o c)[i] = c[i - Len(a)])
           /\ Elements(a \o c) = Elements(a) \cup Elements(c)
<1>1. /\ a \o c \in Seq(X) /\ Len(a \o c) = Len(a) + Len(c)
      /\ Len(a) \in Nat /\ Len(c) \in Nat
      /\ DOMAIN a = 1..Len(a) /\ DOMAIN c = 1..Len(c) /\ DOMAIN (a \o c) = 1..Len(a \o c)
  OBVIOUS
<1>2. \A i \in 1..Len(a) : i \in 1..Len(a \o c) /\ (a \o c)[i] = a[i]
  BY <1>1
<1>3. \A i \in 1..Len(c) : Len(a) + i \in 1..Len(a \o c) /\ (a \o c)[Len(a) + i] = c[i]
  BY <1>1
<1>4. \A i \in 1..Len(a \o c) : i \in 1..Len(a) \/ (i > Len(a) /\ i - Len(a) \in 1..Len(c)
                                                       /\ (a \o c)[i] = c[i - Len(a)])
  BY <1>1
<1>5. Elements(a \o c) = Elements(a) \cup Elements(c)
  <2>1. ASSUME NEW x \in Elements(a \o c) PROVE x \in Elements(a) \cup Elements(c)
    <3>1. PICK i \in 1..Len(a \o c) : x = (a \o c)[i]
      BY <1>1 DEF Elements
    <3> QED  BY <1>1, <1>2, <1>4, <3>1 DEF Elements
  <2>2. ASSUME NEW x \in Elements(a) PROVE x \in Elements(a \o c)
    BY <1>1, <1>2 DEF Elements
  <2>3. ASSUME NEW x \in Elements(c) PROVE x \in Elements(a \o c)
    <3>1. PICK i \in 1..Len(c) : x = c[i]
      BY <1>1 DEF Elements
    <3> QED  BY <1>1, <1>3, <3>1 DEF Elements
  <2> QED  BY <2>1, <2>2, <2>3
<1> QED  BY <1>1, <1>2, <1>3, <1>4, <1>5

LEMMA ElementsOfConcatenation ==
    ASSUME NEW X, NEW a \in Seq(X), NEW c \in Seq(X)
    PROVE  Elements(a \o c) = Elements(a) \cup Elements(c)
BY Concatenation

LEMMA DistinctConcatenation ==
    ASSUME NEW X, NEW a \in Seq(X), NEW c \in Seq(X), Distinct(a), Distinct(c),
           Elements(a) \cap Elements(c) = {}
    PROVE  Distinct(a \o c)
<1> SUFFICES ASSUME NEW i \in 1..Len(a \o c), NEW j \in 1..Len(a \o c),
                    (a \o c)[i] = (a \o c)[j]
             PROVE  i = j
  BY Concatenation DEF Distinct
<1>1. /\ DOMAIN a = 1..Len(a) /\ DOMAIN c = 1..Len(c)
      /\ \A k \in 1..Len(a) : (a \o c)[k] = a[k] /\ a[k] \in Elements(a)
      /\ \A k \in 1..Len(a \o c) : k \in 1..Len(a) \/ (k > Len(a) /\ k - Len(a) \in 1..Len(c)
                            /\ (a \o c)[k] = c[k - Len(a)] /\ c[k - Len(a)] \in Elements(c))
  <2>1. /\ DOMAIN a = 1..Len(a) /\ DOMAIN c = 1..Len(c)
        /\ \A k \in 1..Len(a) : a[k] \in Elements(a)
        /\ \A k \in 1..Len(c) : c[k] \in Elements(c)
    BY DEF Elements
  <2> HIDE DEF Elements
  <2>2. \A k \in 1..Len(a) : (a \o c)[k] = a[k]
    BY Concatenation
  <2>3. \A k \in 1..Len(a \o c) : k \in 1..Len(a) \/ (k > Len(a) /\ k - Len(a) \in 1..Len(c)
                                                     /\ (a \o c)[k] = c[k - Len(a)])
    BY Concatenation, SMTT(60)
  <2> QED  BY <2>1, <2>2, <2>3
<1>2. CASE i \in 1..Len(a) /\ j \in 1..Len(a)
  BY <1>1, <1>2 DEF Distinct
<1>3. CASE i \notin 1..Len(a) /\ j \notin 1..Len(a)
  <2>1. i - Len(a) = j - Len(a)
    BY <1>1, <1>3 DEF Distinct
  <2> QED  BY <2>1
<1>4. CASE i \in 1..Len(a) /\ j \notin 1..Len(a)
  BY <1>1, <1>4
<1>5. CASE i \notin 1..Len(a) /\ j \in 1..Len(a)
  BY <1>1, <1>5
<1> QED  BY <1>2, <1>3, <1>4, <1>5

LEMMA TailOfDistinct ==
    ASSUME NEW X, NEW a \in Seq(X), a # <<>>
    PROVE  /\ Tail(a) \in Seq(X) /\ Head(a) \in Elements(a)
           /\ Elements(a) = {Head(a)} \cup Elements(Tail(a))
           /\ Distinct(a) => Distinct(Tail(a)) /\ Head(a) \notin Elements(Tail(a))
<1>1. /\ Tail(a) \in Seq(X) /\ Len(a) \in Nat /\ Len(a) # 0 /\ Len(Tail(a)) = Len(a) - 1
      /\ DOMAIN a = 1..Len(a) /\ DOMAIN Tail(a) = 1..(Len(a) - 1)
      /\ Head(a) = a[1] /\ 1 \in 1..Len(a)
      /\ \A i \in 1..(Len(a) - 1) : Tail(a)[i] = a[i + 1] /\ i + 1 \in 1..Len(a)
  OBVIOUS
<1>2. Elements(a) = {Head(a)} \cup Elements(Tail(a))
  <2>1. ASSUME NEW i \in 1..Len(a), i # 1 PROVE a[i] \in Elements(Tail(a))
    <3>1. i - 1 \in 1..(Len(a) - 1) /\ (i - 1) + 1 = i
      BY <1>1, <2>1
    <3>2. Tail(a)[i - 1] = a[i]
      BY <1>1, <3>1
    <3> QED  BY <1>1, <3>1, <3>2 DEF Elements
  <2> QED  BY <1>1, <2>1 DEF Elements
<1>3. ASSUME Distinct(a) PROVE Distinct(Tail(a)) /\ Head(a) \notin Elements(Tail(a))
  <2>1. \A i, j \in 1..Len(a) : a[i] = a[j] => i = j
    BY <1>1, <1>3 DEF Distinct
  <2>2. Distinct(Tail(a))
    <3> SUFFICES ASSUME NEW i \in 1..(Len(a) - 1), NEW j \in 1..(Len(a) - 1), Tail(a)[i] = Tail(a)[j]
                 PROVE  i = j
      BY <1>1 DEF Distinct
    <3>1. i + 1 = j + 1
      BY <1>1, <2>1
    <3> QED  BY <3>1
  <2>3. ASSUME NEW i \in 1..(Len(a) - 1) PROVE Tail(a)[i] # Head(a)
    BY <1>1, <2>1
  <2> QED  BY <1>1, <2>2, <2>3 DEF Elements
<1> QED  BY <1>1, <1>2, <1>3 DEF Elements

LEMMA AmongElements ==
    ASSUME NEW X, NEW s \in Seq(X), NEW S
    PROVE  /\ Among(s, S) \in Seq(X)
           /\ Elements(Among(s, S)) = Elements(s) \cap S
           /\ Distinct(s) => Distinct(Among(s, S))
<1> DEFINE a == Among(s, S)
<1>1. a \in Seq(X) /\ DOMAIN a = 1..Len(a) /\ DOMAIN s = 1..Len(s) /\ Len(a) \in Nat /\ Len(s) \in Nat
  BY AmongSelects
<1>2. PICK p : Selects(p, a, s, S, Len(s))
  BY AmongSelects
<1> HIDE DEF a
<1>3. /\ p \in [1..Len(a) -> 1..Len(s)]
      /\ \A i \in 1..Len(a) : s[p[i]] \in S /\ a[i] = s[p[i]]
      /\ \A i, j \in 1..Len(a) : i < j => p[i] < p[j]
      /\ \A k \in 1..Len(s) : s[k] \in S => \E i \in 1..Len(a) : p[i] = k
  BY <1>2 DEF Selects
<1>4. Elements(a) = Elements(s) \cap S
  <2>1. ASSUME NEW x \in Elements(a) PROVE x \in Elements(s) \cap S
    BY <1>1, <1>3 DEF Elements
  <2>2. ASSUME NEW x \in Elements(s) \cap S PROVE x \in Elements(a)
    BY <1>1, <1>3 DEF Elements
  <2> QED  BY <2>1, <2>2
<1>5. ASSUME Distinct(s) PROVE Distinct(a)
  <2> SUFFICES ASSUME NEW i \in 1..Len(a), NEW j \in 1..Len(a), a[i] = a[j] PROVE i = j
    BY <1>1 DEF Distinct
  <2>1. p[i] = p[j] /\ p[i] \in 1..Len(s)
    BY <1>1, <1>3, <1>5 DEF Distinct
  <2>2. ~(p[i] < p[j]) /\ ~(p[j] < p[i])
    BY <2>1
  <2> QED  BY <1>1, <1>3, <2>2
<1> QED  BY <1>1, <1>4, <1>5 DEF a

LEMMA FlattenElements ==
    ASSUME NEW X, NEW ss \in Seq(Seq(X))
    PROVE  /\ FlattenSeq(ss) \in Seq(X)
           /\ Elements(FlattenSeq(ss)) = UNION {Elements(ss[k]) : k \in 1..Len(ss)}
           /\ (\A k, m \in 1..Len(ss) : \A i \in DOMAIN ss[k], j \in DOMAIN ss[m] :
                  ss[k][i] = ss[m][j] => k = m /\ i = j)
              => Distinct(FlattenSeq(ss))
<1> DEFINE a == FlattenSeq(ss)
<1>1. /\ a \in Seq(X) /\ DOMAIN a = 1..Len(a) /\ Len(a) \in Nat
      /\ \A k \in 1..Len(ss) : DOMAIN ss[k] = 1..Len(ss[k])
  BY FlattenSeqFlattens
<1>2. PICK b, o : Flattens(b, o, a, ss, Len(ss))
  BY FlattenSeqFlattens
<1> HIDE DEF a
<1>3. /\ b \in [1..Len(a) -> 1..Len(ss)] /\ o \in [1..Len(a) -> Nat]
      /\ \A i \in 1..Len(a) : o[i] \in 1..Len(ss[b[i]]) /\ a[i] = ss[b[i]][o[i]]
      /\ \A i, j \in 1..Len(a) : i < j => b[i] < b[j] \/ (b[i] = b[j] /\ o[i] < o[j])
      /\ \A k \in 1..Len(ss) : \A m \in 1..Len(ss[k]) :
            \E i \in 1..Len(a) : b[i] = k /\ o[i] = m
  BY <1>2 DEF Flattens
<1>4. Elements(a) = UNION {Elements(ss[k]) : k \in 1..Len(ss)}
  <2>1. ASSUME NEW i \in 1..Len(a) PROVE a[i] \in Elements(ss[b[i]]) /\ b[i] \in 1..Len(ss)
    BY <1>1, <1>3 DEF Elements
  <2>2. ASSUME NEW k \in 1..Len(ss), NEW m \in 1..Len(ss[k]) PROVE ss[k][m] \in Elements(a)
    <3>1. PICK i \in 1..Len(a) : b[i] = k /\ o[i] = m
      BY <1>3
    <3>2. a[i] = ss[k][m]
      BY <1>3, <3>1
    <3> QED  BY <1>1, <3>2 DEF Elements
  <2>3. Elements(a) \subseteq UNION {Elements(ss[k]) : k \in 1..Len(ss)}
    <3> SUFFICES ASSUME NEW i \in 1..Len(a) PROVE a[i] \in UNION {Elements(ss[k]) : k \in 1..Len(ss)}
      BY <1>1 DEF Elements
    <3> QED  BY <2>1
  <2>4. UNION {Elements(ss[k]) : k \in 1..Len(ss)} \subseteq Elements(a)
    <3> SUFFICES ASSUME NEW k \in 1..Len(ss), NEW x \in Elements(ss[k]) PROVE x \in Elements(a)
      OBVIOUS
    <3> QED  BY <1>1, <2>2 DEF Elements
  <2> QED  BY <2>3, <2>4
<1>5. ASSUME \A k, m \in 1..Len(ss) : \A i \in DOMAIN ss[k], j \in DOMAIN ss[m] :
                 ss[k][i] = ss[m][j] => k = m /\ i = j
      PROVE  Distinct(a)
  <2> SUFFICES ASSUME NEW i \in 1..Len(a), NEW j \in 1..Len(a), a[i] = a[j] PROVE i = j
    BY <1>1 DEF Distinct
  <2>1. b[i] \in 1..Len(ss) /\ b[j] \in 1..Len(ss) /\ o[i] \in DOMAIN ss[b[i]] /\ o[j] \in DOMAIN ss[b[j]]
        /\ ss[b[i]][o[i]] = ss[b[j]][o[j]]
    <3>1. b[i] \in 1..Len(ss) /\ b[j] \in 1..Len(ss)
      BY <1>3
    <3>2. o[i] \in 1..Len(ss[b[i]]) /\ o[j] \in 1..Len(ss[b[j]])
          /\ a[i] = ss[b[i]][o[i]] /\ a[j] = ss[b[j]][o[j]]
      BY <1>3
    <3> QED  BY <1>1, <3>1, <3>2
  <2>2. b[i] = b[j] /\ o[i] = o[j] /\ b[i] \in Nat /\ o[i] \in Nat
    <3>1. \A x \in DOMAIN ss[b[i]], y \in DOMAIN ss[b[j]] :
              ss[b[i]][x] = ss[b[j]][y] => b[i] = b[j] /\ x = y
      BY <1>5, <2>1
    <3>2. b[i] \in 1..Len(ss) /\ o[i] \in Nat
      BY <1>3
    <3>3. b[i] = b[j] /\ o[i] = o[j]
      BY <2>1, <3>1
    <3> QED  BY <3>2, <3>3
  <2>3. ~(i < j) /\ ~(j < i)
    <3>1. ~(b[i] < b[j]) /\ ~(b[j] < b[i]) /\ ~(o[i] < o[j]) /\ ~(o[j] < o[i])
      BY <2>2
    <3> QED  BY <1>3, <3>1
  <2> QED  BY <2>3
<1> QED  BY <1>1, <1>4, <1>5 DEF a
-----------------------------------------------------------------------------
(* If no value has two origins, a node is sorted once, after the nodes that *)
(* compute what it reads.                                                  *)

OneOrigin(nodes, inputs) ==
    /\ \A i, j \in DOMAIN nodes : \A x \in DOMAIN nodes[i].outs, y \in DOMAIN nodes[j].outs :
          nodes[i].outs[x] = nodes[j].outs[y] => i = j /\ x = y
    /\ Distinct(inputs)
    /\ Elements(inputs) \cap ComputedBy(nodes) = {}

\* The values known once these nodes have been sorted.
Known(nodes, inputs, sorted) ==
    Elements(inputs) \cup UNION {Elements(nodes[sorted[k]].outs) : k \in DOMAIN sorted}

\* The places at which node i reads a value that has not been counted.
Uncounted(nodes, inputs, s, i) ==
    {j \in DOMAIN nodes[i].ins :
        nodes[i].ins[j] \notin Known(nodes, inputs, s.sorted) \ Elements(s.queue)}

\* Each node reads what is given or what an earlier node computes.
InTopologicalOrder(nodes, given, sorted) ==
    /\ sorted \in Seq(DOMAIN nodes)
    /\ Distinct(sorted)
    /\ \A k \in DOMAIN sorted : \A v \in Elements(nodes[sorted[k]].ins) :
          v \in given \/ \E j \in DOMAIN sorted : j < k /\ v \in Elements(nodes[sorted[j]].outs)

\* The values that have been counted at their users.
Counted(nodes, inputs, s) == Known(nodes, inputs, s.sorted) \ Elements(s.queue)

SortInv(nodes, inputs, s) ==
    /\ s \in SortStates(nodes)
    /\ Distinct(s.queue)
    /\ Elements(s.queue) \subseteq Known(nodes, inputs, s.sorted)
    /\ \A i \in DOMAIN nodes : s.counts[i] = Cardinality(Uncounted(nodes, inputs, s, i))
    /\ \A i \in DOMAIN nodes : i \in Elements(s.sorted) <=> s.counts[i] = 0
    /\ InTopologicalOrder(nodes, Elements(inputs), s.sorted)

\* The outputs of nodes that are listed once.
LEMMA OutsOfDistinct ==
    ASSUME NEW nodes \in Seq(Nodes), NEW inputs, OneOrigin(nodes, inputs),
           NEW q \in Seq(DOMAIN nodes), Distinct(q)
    PROVE  LET outs == FlattenSeq([k \in DOMAIN q |-> nodes[q[k]].outs])
           IN  /\ outs \in Seq(Nat) /\ Distinct(outs)
               /\ Elements(outs) = UNION {Elements(nodes[q[k]].outs) : k \in DOMAIN q}
<1> DEFINE ss == [k \in DOMAIN q |-> nodes[q[k]].outs]
<1>1. /\ ss \in Seq(Seq(Nat)) /\ Len(ss) = Len(q) /\ DOMAIN q = 1..Len(q)
      /\ \A k \in 1..Len(q) : ss[k] = nodes[q[k]].outs /\ q[k] \in DOMAIN nodes
  BY OutsOfSome
<1> HIDE DEF ss
<1>2. \A k, m \in 1..Len(ss) : \A i \in DOMAIN ss[k], j \in DOMAIN ss[m] :
          ss[k][i] = ss[m][j] => k = m /\ i = j
  <2> SUFFICES ASSUME NEW k \in 1..Len(ss), NEW m \in 1..Len(ss),
                      NEW i \in DOMAIN ss[k], NEW j \in DOMAIN ss[m], ss[k][i] = ss[m][j]
               PROVE  k = m /\ i = j
    OBVIOUS
  <2>1. q[k] \in DOMAIN nodes /\ q[m] \in DOMAIN nodes
    BY <1>1
  <2>2. q[k] = q[m] /\ i = j
    <3>1. \A x \in DOMAIN nodes[q[k]].outs, y \in DOMAIN nodes[q[m]].outs :
              nodes[q[k]].outs[x] = nodes[q[m]].outs[y] => q[k] = q[m] /\ x = y
      BY <2>1 DEF OneOrigin
    <3>2. ss[k] = nodes[q[k]].outs /\ ss[m] = nodes[q[m]].outs
      BY <1>1
    <3> QED  BY <3>1, <3>2
  <2> QED  BY <1>1, <2>2 DEF Distinct
<1>3. Elements(FlattenSeq(ss)) = UNION {Elements(ss[k]) : k \in 1..Len(ss)}
  BY <1>1, FlattenElements
<1>4. UNION {Elements(ss[k]) : k \in 1..Len(ss)}
          = UNION {Elements(nodes[q[k]].outs) : k \in DOMAIN q}
  <2>1. \A k \in 1..Len(q) : Elements(ss[k]) = Elements(nodes[q[k]].outs)
    BY <1>1
  <2> QED  BY <1>1, <2>1
<1>5. FlattenSeq(ss) \in Seq(Nat) /\ Distinct(FlattenSeq(ss))
  BY <1>1, <1>2, FlattenElements
<1> QED  BY <1>3, <1>4, <1>5 DEF ss

LEMMA Identities ==
    ASSUME NEW nodes \in Seq(Nodes), NEW S \in SUBSET DOMAIN nodes
    PROVE  LET next == Among([i \in DOMAIN nodes |-> i], S)
           IN  next \in Seq(DOMAIN nodes) /\ Distinct(next) /\ Elements(next) = S
<1> DEFINE ids == [i \in DOMAIN nodes |-> i]
<1>1. ids \in Seq(DOMAIN nodes)
  BY DomainOfNodes
<1>2. Elements(ids) = DOMAIN nodes
  BY DEF Elements
<1>3. Distinct(ids)
  BY DEF Distinct
<1> HIDE DEF ids
<1>4. Elements(ids) \cap S = S
  BY <1>2
<1> QED  BY <1>1, <1>3, <1>4, AmongElements DEF ids

LEMMA OutsOfElements ==
    ASSUME NEW nodes, NEW q
    PROVE  UNION {Elements(nodes[q[k]].outs) : k \in DOMAIN q}
               = UNION {Elements(nodes[i].outs) : i \in Elements(q)}
<1>1. \A k \in DOMAIN q : q[k] \in Elements(q)
  BY DEF Elements
<1>2. \A i \in Elements(q) : \E k \in DOMAIN q : i = q[k]
  BY DEF Elements
<1> QED  BY <1>1, <1>2

LEMMA PlacesAreFinite ==
    ASSUME NEW nodes \in Seq(Nodes), NEW i \in DOMAIN nodes, NEW P \in SUBSET DOMAIN nodes[i].ins
    PROVE  IsFiniteSet(P) /\ Cardinality(P) \in Nat /\ (Cardinality(P) = 0 <=> P = {})
<1>1. IsFiniteSet(1..Len(nodes[i].ins)) /\ DOMAIN nodes[i].ins = 1..Len(nodes[i].ins)
  BY DomainOfNodes, FS_Interval
<1>2. IsFiniteSet(P)
  BY <1>1, FS_Subset
<1> QED  BY <1>2, FS_CardinalityType, FS_EmptySet

LEMMA StartedInv ==
    ASSUME NEW nodes \in Seq(Nodes), NEW inputs \in Seq(Nat), OneOrigin(nodes, inputs)
    PROVE  /\ SortInv(nodes, inputs, Started(nodes, inputs))
           /\ Counted(nodes, inputs, Started(nodes, inputs)) = {}
<1> DEFINE s       == Started(nodes, inputs)
           bare    == {i \in DOMAIN nodes : nodes[i].ins = <<>>}
           sources == Among([i \in DOMAIN nodes |-> i], bare)
           outs    == FlattenSeq([k \in DOMAIN sources |-> nodes[sources[k]].outs])
           reach   == UNION {Elements(nodes[sources[k]].outs) : k \in DOMAIN sources}
<1>1. s \in SortStates(nodes)
  BY StartedType
<1>2. /\ s.counts = [i \in DOMAIN nodes |-> Len(nodes[i].ins)]
      /\ s.queue = inputs \o outs /\ s.sorted = sources
  BY DEF Started
<1>3. sources \in Seq(DOMAIN nodes) /\ Distinct(sources) /\ Elements(sources) = bare
  BY Identities
<1> HIDE DEF sources, bare
<1>4. outs \in Seq(Nat) /\ Distinct(outs) /\ Elements(outs) = reach
  BY <1>3, OutsOfDistinct
<1> HIDE DEF outs, s
<1>5. Elements(inputs) \cap reach = {}
  <2>1. reach \subseteq ComputedBy(nodes)
    <3> SUFFICES ASSUME NEW k \in DOMAIN sources PROVE Elements(nodes[sources[k]].outs) \subseteq ComputedBy(nodes)
      OBVIOUS
    <3>1. sources[k] \in DOMAIN nodes
      BY <1>3
    <3> QED  BY <3>1 DEF ComputedBy
  <2> QED  BY <2>1 DEF OneOrigin
<1>6. Distinct(s.queue) /\ Elements(s.queue) = Elements(inputs) \cup reach
  BY <1>2, <1>4, <1>5, DistinctConcatenation, Concatenation DEF OneOrigin
<1>7. Known(nodes, inputs, s.sorted) = Elements(inputs) \cup reach
  BY <1>2 DEF Known
<1>8. \A i \in DOMAIN nodes : s.counts[i] = Cardinality(Uncounted(nodes, inputs, s, i))
  <2> SUFFICES ASSUME NEW i \in DOMAIN nodes
               PROVE  s.counts[i] = Cardinality(Uncounted(nodes, inputs, s, i))
    OBVIOUS
  <2>1. Uncounted(nodes, inputs, s, i) = DOMAIN nodes[i].ins
    BY <1>6, <1>7 DEF Uncounted
  <2>2. Cardinality(DOMAIN nodes[i].ins) = Len(nodes[i].ins)
    <3>1. DOMAIN nodes[i].ins = 1..Len(nodes[i].ins) /\ Len(nodes[i].ins) \in Nat
      BY DomainOfNodes
    <3>2. Cardinality(1..Len(nodes[i].ins)) = Len(nodes[i].ins)
      BY <3>1, FS_Interval
    <3> QED  BY <3>1, <3>2
  <2> QED  BY <1>2, <2>1, <2>2
<1>9. \A i \in DOMAIN nodes : i \in Elements(s.sorted) <=> s.counts[i] = 0
  <2> SUFFICES ASSUME NEW i \in DOMAIN nodes
               PROVE  i \in Elements(s.sorted) <=> s.counts[i] = 0
    OBVIOUS
  <2>1. i \in Elements(s.sorted) <=> nodes[i].ins = <<>>
    BY <1>2, <1>3 DEF bare
  <2>2. s.counts[i] = Len(nodes[i].ins)
    BY <1>2
  <2>3. Len(nodes[i].ins) = 0 <=> nodes[i].ins = <<>>
    BY DomainOfNodes
  <2> QED  BY <2>1, <2>2, <2>3
<1>10. InTopologicalOrder(nodes, Elements(inputs), s.sorted)
  <2>1. \A k \in DOMAIN sources : Elements(nodes[sources[k]].ins) = {}
    BY <1>3 DEF bare, Elements
  <2> QED  BY <1>2, <1>3, <2>1 DEF InTopologicalOrder
<1>11. Counted(nodes, inputs, s) = {}
  BY <1>6, <1>7 DEF Counted
<1> QED  BY <1>1, <1>6, <1>7, <1>8, <1>9, <1>10, <1>11 DEF SortInv, s

LEMMA TakeInv ==
    ASSUME NEW nodes \in Seq(Nodes), NEW inputs \in Seq(Nat), OneOrigin(nodes, inputs),
           NEW s, SortInv(nodes, inputs, s), s.queue # <<>>
    PROVE  /\ SortInv(nodes, inputs, Take(nodes, s))
           /\ Head(s.queue) \notin Counted(nodes, inputs, s)
           /\ Counted(nodes, inputs, Take(nodes, s)) = Counted(nodes, inputs, s) \cup {Head(s.queue)}
<1> DEFINE v     == Head(s.queue)
           t     == Take(nodes, s)
           done  == Completed(nodes, s.counts, v)
           next  == Among([i \in DOMAIN nodes |-> i], done)
           outs  == FlattenSeq([k \in DOMAIN next |-> nodes[next[k]].outs])
           new   == UNION {Elements(nodes[next[k]].outs) : k \in DOMAIN next}
           K(x)  == Known(nodes, inputs, x.sorted)
           U(x, i) == Uncounted(nodes, inputs, x, i)
<1>1. /\ s \in SortStates(nodes) /\ t \in SortStates(nodes)
      /\ s.queue \in Seq(Nat) /\ s.sorted \in Seq(DOMAIN nodes) /\ s.counts \in [DOMAIN nodes -> Int]
  BY TakeType DEF SortInv, SortStates
<1>2. /\ t.counts = [i \in DOMAIN nodes |-> s.counts[i] - TimesRead(nodes, i, v)]
      /\ t.queue = Tail(s.queue) \o outs /\ t.sorted = s.sorted \o next
  BY DEF Take
<1>3. next \in Seq(DOMAIN nodes) /\ Distinct(next) /\ Elements(next) = done
  <2>1. done \in SUBSET DOMAIN nodes
    BY DEF Completed
  <2> QED  BY <2>1, Identities
<1> HIDE DEF next, t
<1>4. outs \in Seq(Nat) /\ Distinct(outs) /\ Elements(outs) = new
  BY <1>3, OutsOfDistinct
<1> HIDE DEF outs
<1>5. /\ Distinct(s.queue) /\ Elements(s.queue) \subseteq K(s)
      /\ \A i \in DOMAIN nodes : s.counts[i] = Cardinality(U(s, i))
      /\ \A i \in DOMAIN nodes : i \in Elements(s.sorted) <=> s.counts[i] = 0
      /\ Distinct(s.sorted)
  BY DEF SortInv, InTopologicalOrder
<1>6. /\ Tail(s.queue) \in Seq(Nat) /\ Distinct(Tail(s.queue)) /\ v \in Elements(s.queue)
      /\ Elements(s.queue) = {v} \cup Elements(Tail(s.queue)) /\ v \notin Elements(Tail(s.queue))
  BY <1>1, <1>5, TailOfDistinct
<1>7. done \cap Elements(s.sorted) = {}
  BY <1>5 DEF Completed
<1>8. /\ t.sorted \in Seq(DOMAIN nodes) /\ Elements(t.sorted) = Elements(s.sorted) \cup done
      /\ Distinct(t.sorted)
  BY <1>1, <1>2, <1>3, <1>5, <1>7, Concatenation, DistinctConcatenation
<1>9. K(t) = K(s) \cup new
  <2> DEFINE O(S) == UNION {Elements(nodes[i].outs) : i \in S}
  <2>1. K(t) = Elements(inputs) \cup O(Elements(t.sorted))
    BY OutsOfElements DEF Known
  <2>2. K(s) = Elements(inputs) \cup O(Elements(s.sorted))
    BY OutsOfElements DEF Known
  <2>3. new = O(done)
    BY <1>3, OutsOfElements
  <2>4. O(Elements(s.sorted) \cup done) = O(Elements(s.sorted)) \cup O(done)
    OBVIOUS
  <2> HIDE DEF O, K, new
  <2> QED  BY <1>8, <2>1, <2>2, <2>3, <2>4
<1>10. new \cap K(s) = {}
  <2> SUFFICES ASSUME NEW x \in new, x \in K(s) PROVE FALSE
    OBVIOUS
  <2>1. PICK i \in done : x \in Elements(nodes[i].outs)
    <3>1. x \in UNION {Elements(nodes[i].outs) : i \in done}
      BY <1>3, OutsOfElements
    <3> QED  BY <3>1
  <2>2. i \in DOMAIN nodes /\ i \notin Elements(s.sorted)
    BY <1>7 DEF Completed
  <2>3. x \in ComputedBy(nodes)
    BY <2>1, <2>2 DEF ComputedBy
  <2>4. x \notin Elements(inputs)
    BY <2>3 DEF OneOrigin
  <2>5. PICK k \in DOMAIN s.sorted : x \in Elements(nodes[s.sorted[k]].outs)
    BY <2>4 DEF Known
  <2>6. s.sorted[k] \in Elements(s.sorted) /\ s.sorted[k] \in DOMAIN nodes
    <3> DEFINE q == s.sorted
    <3>1. q \in Seq(DOMAIN nodes) /\ k \in DOMAIN q
      BY <1>1
    <3> HIDE DEF q
    <3>2. q[k] \in Elements(q) /\ q[k] \in DOMAIN nodes
      BY <3>1 DEF Elements
    <3> QED  BY <3>2 DEF q
  <2>7. i = s.sorted[k]
    <3>1. PICK a \in DOMAIN nodes[i].outs, c \in DOMAIN nodes[s.sorted[k]].outs :
              nodes[i].outs[a] = nodes[s.sorted[k]].outs[c]
      BY <2>1, <2>5 DEF Elements
    <3>2. \A y \in DOMAIN nodes[i].outs, z \in DOMAIN nodes[s.sorted[k]].outs :
              nodes[i].outs[y] = nodes[s.sorted[k]].outs[z] => i = s.sorted[k] /\ y = z
      BY <2>2, <2>6 DEF OneOrigin
    <3> QED  BY <3>1, <3>2
  <2> QED  BY <2>2, <2>6, <2>7
<1>11. Distinct(t.queue) /\ Elements(t.queue) = Elements(Tail(s.queue)) \cup new
  <2>1. Elements(Tail(s.queue)) \cap Elements(outs) = {}
    BY <1>4, <1>5, <1>6, <1>10
  <2>2. Distinct(Tail(s.queue) \o outs)
    BY <1>4, <1>6, <2>1, DistinctConcatenation
  <2>3. Elements(Tail(s.queue) \o outs) = Elements(Tail(s.queue)) \cup Elements(outs)
    <3> DEFINE rest == Tail(s.queue)
    <3>1. rest \in Seq(Nat)
      BY <1>6
    <3> HIDE DEF rest, new, v, done
    <3>2. Elements(rest \o outs) = Elements(rest) \cup Elements(outs)
      BY <1>4, <3>1, ElementsOfConcatenation
    <3> QED  BY <3>2 DEF rest
  <2> HIDE DEF new
  <2> QED  BY <1>2, <1>4, <2>2, <2>3
<1>12. Elements(t.queue) \subseteq K(t)
  BY <1>5, <1>6, <1>9, <1>11
\* What has been counted is more by v.
<1>13. K(t) \ Elements(t.queue) = (K(s) \ Elements(s.queue)) \cup {v}
  BY <1>5, <1>6, <1>9, <1>10, <1>11
<1>14. ASSUME NEW i \in DOMAIN nodes
       PROVE  /\ t.counts[i] = s.counts[i] - TimesRead(nodes, i, v)
              /\ t.counts[i] = Cardinality(U(t, i)) /\ t.counts[i] \in Nat /\ s.counts[i] \in Nat
              /\ TimesRead(nodes, i, v) \in Nat
  <2> DEFINE P == {j \in DOMAIN nodes[i].ins : nodes[i].ins[j] = v}
  <2>1. U(t, i) = U(s, i) \ P
    BY <1>13 DEF Uncounted
  <2>2. U(s, i) \cap P = P
    BY <1>6 DEF Uncounted
  <2>3. IsFiniteSet(U(s, i)) /\ Cardinality(U(s, i)) \in Nat
    <3>1. U(s, i) \in SUBSET DOMAIN nodes[i].ins
      BY DEF Uncounted
    <3> QED  BY <3>1, PlacesAreFinite
  <2>4. Cardinality(U(t, i)) \in Nat
    <3>1. U(t, i) \in SUBSET DOMAIN nodes[i].ins
      BY DEF Uncounted
    <3> QED  BY <3>1, PlacesAreFinite
  <2>5. Cardinality(U(t, i)) = Cardinality(U(s, i)) - Cardinality(P)
    BY <2>1, <2>2, <2>3, FS_Difference
  <2>6. t.counts[i] = s.counts[i] - TimesRead(nodes, i, v) /\ Cardinality(P) = TimesRead(nodes, i, v)
    BY <1>2 DEF TimesRead
  <2>7. TimesRead(nodes, i, v) \in Nat
    BY TimesReadType
  <2>8. s.counts[i] = Cardinality(U(s, i))
    BY <1>5
  <2> QED  BY <2>3, <2>4, <2>5, <2>6, <2>7, <2>8
<1>15. \A i \in DOMAIN nodes : i \in Elements(t.sorted) <=> t.counts[i] = 0
  <2> SUFFICES ASSUME NEW i \in DOMAIN nodes
               PROVE  i \in Elements(t.sorted) <=> t.counts[i] = 0
    OBVIOUS
  <2>1. i \in Elements(t.sorted) <=> s.counts[i] = 0 \/ i \in done
    BY <1>5, <1>8
  <2>2. i \in done <=> s.counts[i] > 0 /\ s.counts[i] <= TimesRead(nodes, i, v)
    BY DEF Completed
  <2> QED  BY <1>14, <2>1, <2>2
<1>16. InTopologicalOrder(nodes, Elements(inputs), t.sorted)
  <2> SUFFICES ASSUME NEW k \in DOMAIN t.sorted, NEW x \in Elements(nodes[t.sorted[k]].ins),
                      x \notin Elements(inputs)
               PROVE  \E j \in DOMAIN t.sorted : j < k /\ x \in Elements(nodes[t.sorted[j]].outs)
    BY <1>8 DEF InTopologicalOrder
  <2>1. /\ DOMAIN t.sorted = 1..Len(t.sorted) /\ DOMAIN s.sorted = 1..Len(s.sorted)
        /\ \A j \in 1..Len(s.sorted) : j \in 1..Len(t.sorted) /\ t.sorted[j] = s.sorted[j]
        /\ Len(s.sorted) \in Nat
    <3>1. DOMAIN t.sorted = 1..Len(t.sorted) /\ DOMAIN s.sorted = 1..Len(s.sorted) /\ Len(s.sorted) \in Nat
      BY <1>1, <1>8
    <3>2. \A j \in 1..Len(s.sorted) : j \in 1..Len(t.sorted) /\ t.sorted[j] = s.sorted[j]
      BY <1>1, <1>2, <1>3, Concatenation
    <3> QED  BY <3>1, <3>2
  <2>2. CASE k \in DOMAIN s.sorted
    <3>1. t.sorted[k] = s.sorted[k]
      BY <2>1, <2>2
    <3>2. PICK j \in DOMAIN s.sorted : j < k /\ x \in Elements(nodes[s.sorted[j]].outs)
      BY <2>2, <3>1 DEF SortInv, InTopologicalOrder
    <3> QED  BY <2>1, <3>2
  <2>3. CASE k \notin DOMAIN s.sorted
    <3>1. t.sorted[k] \in DOMAIN nodes /\ t.sorted[k] \in Elements(t.sorted)
      BY <1>8 DEF Elements
    <3>2. Cardinality(U(t, t.sorted[k])) = 0 
      BY <1>14, <1>15, <3>1
    <3>3. U(t, t.sorted[k]) = {}
      <4>1. U(t, t.sorted[k]) \in SUBSET DOMAIN nodes[t.sorted[k]].ins
        BY DEF Uncounted
      <4> QED  BY <3>1, <3>2, <4>1, PlacesAreFinite
    <3>4. x \in K(t) \ Elements(t.queue)
      BY <3>3 DEF Uncounted, Elements
    <3>5. x \in K(s)
      BY <1>5, <1>6, <1>13, <3>4
    <3>6. PICK j \in DOMAIN s.sorted : x \in Elements(nodes[s.sorted[j]].outs)
      BY <3>5 DEF Known
    <3>7. j < k
      BY <2>1, <2>3, <3>6
    <3> QED  BY <2>1, <3>6, <3>7
  <2> QED  BY <2>2, <2>3
<1>17. v \notin Counted(nodes, inputs, s) /\ Counted(nodes, inputs, t) = Counted(nodes, inputs, s) \cup {v}
  BY <1>6, <1>13 DEF Counted
<1> QED  BY <1>1, <1>11, <1>12, <1>14, <1>15, <1>16, <1>17 DEF SortInv, t

\* Any list of nodes is sorted into one of them.
LEMMA SortType ==
    ASSUME NEW nodes \in Seq(Nodes), NEW inputs \in Seq(Nat)
    PROVE  SortTopologically(nodes, inputs) \in Seq(DOMAIN nodes)
<1> DEFINE n == AllValues(nodes, inputs)
<1>1. PICK f \in SortRuns(nodes, inputs) : SortTopologically(nodes, inputs) = f[n].sorted
  BY SortIsRun
<1>2. f[n] \in SortStates(nodes)
  BY SortIsRun DEF SortRuns
<1> QED  BY <1>1, <1>2 DEF SortStates

LEMMA SortOrder ==
    ASSUME NEW nodes \in Seq(Nodes), NEW inputs \in Seq(Nat), OneOrigin(nodes, inputs)
    PROVE  InTopologicalOrder(nodes, Elements(inputs), SortTopologically(nodes, inputs))
<1> DEFINE n == AllValues(nodes, inputs)
<1>1. n \in Nat
  BY SortIsRun
<1>6. PICK f \in SortRuns(nodes, inputs) : SortTopologically(nodes, inputs) = f[n].sorted
  BY SortIsRun
<1> HIDE DEF n
<1>2. f[0] = Started(nodes, inputs)
      /\ \A k \in Nat : f[k + 1] = IF f[k].queue = <<>> THEN f[k] ELSE Take(nodes, f[k])
  BY DEF SortRuns
<1> DEFINE T == {k \in Nat : SortInv(nodes, inputs, f[k])}
<1>3. 0 \in T
  BY <1>2, StartedInv
<1>4. ASSUME NEW k \in Nat, k \in T PROVE k + 1 \in T
  <2>1. SortInv(nodes, inputs, f[k])
    BY <1>4
  <2>2. f[k + 1] = IF f[k].queue = <<>> THEN f[k] ELSE Take(nodes, f[k])
    BY <1>2
  <2>3. f[k].queue # <<>> => SortInv(nodes, inputs, Take(nodes, f[k]))
    BY <2>1, TakeInv
  <2>4. SortInv(nodes, inputs, f[k + 1])
    BY <2>1, <2>2, <2>3
  <2> QED  BY <2>4
<1>5. n \in T
  <2> HIDE DEF T
  <2>1. \A k \in Nat : k \in T
    BY <1>3, <1>4, Induction
  <2> QED  BY <1>1, <2>1
<1> QED  BY <1>5, <1>6 DEF SortInv
-----------------------------------------------------------------------------
(* The nodes of a model have a rank: their place in the sorted sequence.   *)

LEMMA Maxima ==
    ASSUME NEW m \in Nat, NEW S \in SUBSET (0..m)
    PROVE  Max(S \cup {0}) \in Nat /\ \A x \in S : x <= Max(S \cup {0})
<1> DEFINE B == {n \in Nat : \A x \in S \cup {0} : x <= n}
<1>1. PICK n \in B : \A k \in B : n <= k
  <2>1. m \in B
    OBVIOUS
  <2>2. B \subseteq Nat /\ B # {}
    BY <2>1
  <2> HIDE DEF B
  <2> QED  BY <2>2, LeastNumber
<1>2. n \in S \cup {0}
  <2> SUFFICES ASSUME n \notin S \cup {0} PROVE FALSE
    OBVIOUS
  <2>1. n \in Nat /\ n # 0 /\ n - 1 \in Nat
    BY <1>1
  <2>2. \A x \in S \cup {0} : x <= n - 1
    BY <1>1, <2>1
  <2>3. n - 1 \in B
    BY <2>1, <2>2
  <2> QED  BY <1>1, <2>1, <2>3
<1>3. Max(S \cup {0}) \in S \cup {0} /\ \A x \in S \cup {0} : Max(S \cup {0}) >= x
  <2>1. \A x \in S \cup {0} : n >= x
    BY <1>1
  <2>2. \E y \in S \cup {0} : \A x \in S \cup {0} : y >= x
    BY <1>2, <2>1
  <2> QED  BY <2>2 DEF Max
<1> DEFINE M == Max(S \cup {0})
<1>4. M \in S \cup {0} /\ \A x \in S \cup {0} : M >= x
  BY <1>3
<1> HIDE DEF M, B
<1>5. M \in Nat /\ \A x \in S : x <= M
  BY <1>4
<1> QED  BY <1>5 DEF M

\* The numbers of a finite set are a sequence.
LEMMA InOrderType ==
    ASSUME NEW m \in Nat, NEW S \in SUBSET (0..m)
    PROVE  InOrder(S) \in Seq(Nat)
<1> DEFINE M   == Max(S \cup {0})
           ids == [i \in 1..M |-> i]
<1>1. M \in Nat
  BY Maxima
<1> HIDE DEF M
<1>2. ids \in Seq(Nat)
  BY <1>1
<1> HIDE DEF ids
<1>3. Among(ids, S) \in Seq(Nat)
  BY <1>2, AmongElements
<1> QED  BY <1>3 DEF InOrder, ids, M

LEMMA InOrderLists ==
    ASSUME NEW m \in Nat, NEW S \in SUBSET (1..m)
    PROVE  /\ InOrder(S) \in Seq(Nat) /\ Elements(InOrder(S)) = S
           /\ \A i, j \in DOMAIN InOrder(S) : i < j => InOrder(S)[i] < InOrder(S)[j]
<1> DEFINE M == Max(S \cup {0})
           ids == [i \in 1..M |-> i]
<1>4. M \in Nat /\ S \subseteq 1..M
  <2>1. S \in SUBSET (0..m)
    OBVIOUS
  <2>2. M \in Nat /\ \A x \in S : x <= M
    BY <2>1, Maxima
  <2> HIDE DEF M
  <2> QED  BY <2>2
<1> HIDE DEF M
<1>5. ids \in Seq(Nat) /\ Len(ids) = M /\ Elements(ids) = 1..M /\ \A i \in 1..M : ids[i] = i
  BY <1>4 DEF Elements
<1> HIDE DEF ids
<1>6. InOrder(S) = Among(ids, S)
  BY DEF InOrder, ids, M
<1>7. InOrder(S) \in Seq(Nat) /\ Elements(InOrder(S)) = S
  <2>1. Elements(ids) \cap S = S
    BY <1>4, <1>5
  <2>2. Among(ids, S) \in Seq(Nat) /\ Elements(Among(ids, S)) = Elements(ids) \cap S
    BY <1>5, AmongElements
  <2> QED  BY <1>6, <2>1, <2>2
<1>8. PICK p : Selects(p, Among(ids, S), ids, S, Len(ids))
  BY <1>5, AmongSelects
<1>9. ASSUME NEW i \in DOMAIN InOrder(S), NEW j \in DOMAIN InOrder(S), i < j
      PROVE  InOrder(S)[i] < InOrder(S)[j]
  <2>1. i \in 1..Len(Among(ids, S)) /\ j \in 1..Len(Among(ids, S))
    BY <1>6, <1>7
  <2>2. p[i] < p[j] /\ p[i] \in 1..M /\ p[j] \in 1..M
        /\ Among(ids, S)[i] = ids[p[i]] /\ Among(ids, S)[j] = ids[p[j]]
    BY <1>5, <1>8, <1>9, <2>1 DEF Selects
  <2> QED  BY <1>5, <1>6, <2>2
<1> QED  BY <1>7, <1>9

LEMMA Interval ==
    ASSUME NEW n \in Nat
    PROVE  IsFiniteSet(1..n) /\ Cardinality(1..n) = n
BY FS_Interval

\* The elements of a sequence are finitely many.
LEMMA RangeIsFinite ==
    ASSUME NEW X, NEW s \in Seq(X)
    PROVE  IsFiniteSet(Elements(s))
<1> DEFINE First(k) == {s[i] : i \in {j \in 1..k : j <= Len(s)}}
           T == {k \in Nat : IsFiniteSet(First(k))}
<1>1. 0 \in T
  <2>1. First(0) = {}
    OBVIOUS
  <2> QED  BY <2>1, FS_EmptySet
<1>2. ASSUME NEW k \in Nat, k \in T PROVE k + 1 \in T
  <2>1. IsFiniteSet(First(k))
    BY <1>2
  <2>2. First(k + 1) = First(k) \cup {s[k + 1]} \/ First(k + 1) = First(k)
    OBVIOUS
  <2> HIDE DEF First
  <2>3. IsFiniteSet(First(k) \cup {s[k + 1]})
    BY <2>1, FS_AddElement
  <2>4. IsFiniteSet(First(k + 1))
    BY <2>1, <2>2, <2>3, Zenon
  <2> QED  BY <2>4
<1>3. \A k \in Nat : k \in T
  <2> HIDE DEF T
  <2> QED  BY <1>1, <1>2, Induction
<1>4. Elements(s) = First(Len(s))
  BY DEF Elements
<1>5. Len(s) \in T
  <2> HIDE DEF T
  <2> QED  BY <1>3
<1> QED  BY <1>4, <1>5

\* Without repetition they are no more than there are to choose from.
LEMMA DistinctIsShort ==
    ASSUME NEW n \in Nat, NEW s \in Seq(1..n), Distinct(s)
    PROVE  Len(s) <= n
<1> DEFINE m == Len(s)
           f == [k \in 1..m |-> s[k]]
<1>1. m \in Nat /\ DOMAIN s = 1..m
  OBVIOUS
<1>2. f \in [1..m -> 1..n] /\ DOMAIN f = 1..m
  BY <1>1
<1>3. \A a, c \in 1..m : f[a] = f[c] => a = c
  BY <1>1 DEF Distinct
<1> HIDE DEF m, f
<1> DEFINE M == 1..m
           N == 1..n
<1>4. IsFiniteSet(N) /\ IsFiniteSet(M) /\ Cardinality(N) = n /\ Cardinality(M) = m
  BY <1>1, Interval
<1>5. f \in [M -> N] /\ \A a, c \in M : f[a] = f[c] => a = c
  BY <1>2, <1>3
<1> HIDE DEF M, N
<1>6. ~(Cardinality(N) < Cardinality(M))
  BY <1>4, <1>5, FS_PigeonHole
<1> QED  BY <1>1, <1>4, <1>6 DEF m

\* Its values are numbered from 1.
LEMMA ModelValues ==
    ASSUME NEW g, IsModel(g)
    PROVE  LET n == Cardinality(Values(g))
           IN  /\ g.nodes \in Seq(Nodes) /\ n \in Nat
               /\ Values(g) = 1..n
               /\ g.inputs \in SUBSET (1..n) /\ ComputedBy(g.nodes) \in SUBSET (1..n)
<1> DEFINE Outs == [i \in DOMAIN g.nodes |-> Elements(g.nodes[i].outs)]
           V    == Values(g)
<1>1. g.nodes \in Seq(Nodes) /\ IsFiniteSet(g.inputs) /\ V = 1..Cardinality(V)
  BY DEF IsModel
<1>2. IsFiniteSet(Elements(Outs))
  <2>1. Outs \in Seq({Outs[i] : i \in DOMAIN g.nodes})
    <3>1. DOMAIN g.nodes = 1..Len(g.nodes) /\ Len(g.nodes) \in Nat
      BY <1>1
    <3> QED  BY <3>1
  <2> HIDE DEF Outs
  <2> QED  BY <2>1, RangeIsFinite
<1>3. ASSUME NEW i \in DOMAIN g.nodes PROVE IsFiniteSet(Elements(g.nodes[i].outs))
  <2>1. g.nodes[i].outs \in Seq(Nat)
    BY <1>1, DomainOfNodes
  <2> QED  BY <2>1, RangeIsFinite
<1>4. IsFiniteSet(ComputedBy(g.nodes))
  <2>1. ComputedBy(g.nodes) = UNION Elements(Outs)
    <3>1. Elements(Outs) = {Elements(g.nodes[i].outs) : i \in DOMAIN g.nodes}
      <4>1. DOMAIN Outs = DOMAIN g.nodes /\ \A i \in DOMAIN g.nodes : Outs[i] = Elements(g.nodes[i].outs)
        OBVIOUS
      <4> HIDE DEF Outs
      <4>2. Elements(Outs) = {Outs[i] : i \in DOMAIN g.nodes}
        BY <4>1 DEF Elements
      <4> QED  BY <4>1, <4>2
    <3> QED  BY <3>1 DEF ComputedBy
  <2>2. \A T \in Elements(Outs) : IsFiniteSet(T)
    BY <1>3 DEF Elements
  <2> HIDE DEF Outs
  <2> QED  BY <1>2, <2>1, <2>2, FS_UNION
<1>5. IsFiniteSet(V)
  BY <1>1, <1>4, FS_Union DEF Values
<1>6. g.inputs \subseteq V /\ ComputedBy(g.nodes) \subseteq V
  BY DEF Values
<1> HIDE DEF V
<1>7. Cardinality(V) \in Nat
  BY <1>5, FS_CardinalityType
<1> QED  BY <1>1, <1>6, <1>7 DEF V

Rank(g) == [i \in DOMAIN g.nodes |-> Place(GetTopologicallySortedNodes(g), i)]

\* Its nodes are sorted, all of them, each behind those it reads from.
THEOREM ModelOrder ==
    ASSUME NEW g, IsModel(g)
    PROVE  LET sorted == GetTopologicallySortedNodes(g)
           IN  /\ sorted \in Seq(DOMAIN g.nodes) /\ Distinct(sorted)
               /\ Elements(sorted) = DOMAIN g.nodes /\ Len(sorted) <= Len(g.nodes)
               /\ \A k \in DOMAIN sorted : Rank(g)[sorted[k]] = k
               /\ \A i \in DOMAIN g.nodes : Rank(g)[i] \in DOMAIN sorted /\ sorted[Rank(g)[i]] = i
               /\ \A i, j \in DOMAIN g.nodes : Feeds(g, i, j) => Rank(g)[i] < Rank(g)[j]
               /\ \A i \in DOMAIN g.nodes :
                     Elements(g.nodes[i].ins) \subseteq Values(g)
<1> DEFINE sorted == GetTopologicallySortedNodes(g)
           inputs == InOrder(g.inputs)
<1>1. g.nodes \in Seq(Nodes) /\ inputs \in Seq(Nat) /\ Elements(inputs) = g.inputs /\ Distinct(inputs)
  <2>1. PICK n \in Nat : g.inputs \in SUBSET (1..n)
    BY ModelValues
  <2>2. /\ inputs \in Seq(Nat) /\ Elements(inputs) = g.inputs
        /\ \A i, j \in DOMAIN inputs : i < j => inputs[i] < inputs[j]
    BY <2>1, InOrderLists
  <2>3. DOMAIN inputs = 1..Len(inputs) /\ \A i \in DOMAIN inputs : inputs[i] \in Nat
    BY <2>2
  <2> HIDE DEF inputs
  <2>4. Distinct(inputs)
    <3> SUFFICES ASSUME NEW i \in DOMAIN inputs, NEW j \in DOMAIN inputs, inputs[i] = inputs[j], i # j
                 PROVE  FALSE
      BY DEF Distinct
    <3>1. i < j \/ j < i
      BY <2>3
    <3> QED  BY <2>2, <2>3, <3>1
  <2> QED  BY <2>2, <2>4, ModelValues
<1> HIDE DEF inputs
<1>2. OneOrigin(g.nodes, inputs)
  BY <1>1 DEF IsModel, OneOrigin
<1>3. InTopologicalOrder(g.nodes, g.inputs, sorted)
  BY <1>1, <1>2, SortOrder DEF GetTopologicallySortedNodes, inputs
<1>4. sorted \in Seq(DOMAIN g.nodes) /\ Distinct(sorted) /\ Elements(sorted) = DOMAIN g.nodes
  BY <1>3 DEF InTopologicalOrder, IsModel
<1> DEFINE rank == Rank(g)
<1>5. \A i \in DOMAIN g.nodes : rank[i] \in DOMAIN sorted /\ sorted[rank[i]] = i
  <2> SUFFICES ASSUME NEW i \in DOMAIN g.nodes PROVE rank[i] \in DOMAIN sorted /\ sorted[rank[i]] = i
    OBVIOUS
  <2>1. \E k \in DOMAIN sorted : sorted[k] = i
    BY <1>4 DEF Elements
  <2> QED  BY <2>1 DEF Rank, Place
<1> HIDE DEF sorted, rank
<1>6. ASSUME NEW k \in DOMAIN sorted PROVE rank[sorted[k]] = k
  <2>1. sorted[k] \in DOMAIN g.nodes
    BY <1>4
  <2> QED  BY <1>4, <1>5, <2>1 DEF Distinct
<1>7. Len(sorted) <= Len(g.nodes)
  <2>1. /\ DOMAIN sorted = 1..Len(sorted) /\ Len(sorted) \in Nat
        /\ DOMAIN g.nodes = 1..Len(g.nodes) /\ Len(g.nodes) \in Nat
    BY <1>1, <1>4
  <2>2. sorted \in Seq(1..Len(g.nodes))
    BY <1>4, <2>1
  <2> QED  BY <1>4, <2>1, <2>2, DistinctIsShort
<1>8. ASSUME NEW i \in DOMAIN g.nodes, NEW j \in DOMAIN g.nodes, Feeds(g, i, j)
      PROVE  rank[i] < rank[j]
  <2>1. PICK v : v \in Elements(g.nodes[i].outs) /\ v \in Elements(g.nodes[j].ins)
    BY <1>8 DEF Feeds
  <2>2. v \notin g.inputs
    BY <2>1 DEF IsModel, ComputedBy
  <2>3. PICK k \in DOMAIN sorted : k < rank[j] /\ v \in Elements(g.nodes[sorted[k]].outs)
    BY <1>3, <1>5, <2>1, <2>2 DEF InTopologicalOrder
  <2>4. sorted[k] = i
    <3>1. sorted[k] \in DOMAIN g.nodes
      BY <1>4
    <3>2. PICK x \in DOMAIN g.nodes[i].outs, y \in DOMAIN g.nodes[sorted[k]].outs :
              g.nodes[i].outs[x] = g.nodes[sorted[k]].outs[y]
      BY <2>1, <2>3 DEF Elements
    <3>3. \A a \in DOMAIN g.nodes[i].outs, c \in DOMAIN g.nodes[sorted[k]].outs :
              g.nodes[i].outs[a] = g.nodes[sorted[k]].outs[c] => i = sorted[k] /\ a = c
      BY <3>1 DEF IsModel
    <3> QED  BY <3>2, <3>3
  <2> QED  BY <1>6, <2>3, <2>4
<1>9. ASSUME NEW i \in DOMAIN g.nodes
      PROVE  Elements(g.nodes[i].ins) \subseteq Values(g)
  <2> SUFFICES ASSUME NEW v \in Elements(g.nodes[i].ins), v \notin g.inputs PROVE v \in ComputedBy(g.nodes)
    BY DEF Values
  <2>1. PICK k \in DOMAIN sorted : v \in Elements(g.nodes[sorted[k]].outs)
    BY <1>3, <1>5, SMTT(60) DEF InTopologicalOrder
  <2>2. sorted[k] \in DOMAIN g.nodes
    BY <1>4
  <2> QED  BY <2>1, <2>2 DEF ComputedBy
<1> QED  BY <1>4, <1>5, <1>6, <1>7, <1>8, <1>9 DEF sorted, rank
-----------------------------------------------------------------------------
(* The nodes added for gradients are sequences of numbers, as their sort.  *)

\* What is in a sequence of numbers is bounded.
LEMMA SequencesAreBounded ==
    ASSUME NEW s \in Seq(Nat)
    PROVE  \E m \in Nat : Elements(s) \subseteq 0..m
<1> DEFINE First(k) == {s[i] : i \in {j \in 1..k : j <= Len(s)}}
           T == {k \in Nat : \E m \in Nat : First(k) \subseteq 0..m}
<1>1. 0 \in T
  <2>1. First(0) \subseteq 0..0
    OBVIOUS
  <2> QED  BY <2>1
<1>2. ASSUME NEW k \in Nat, k \in T PROVE k + 1 \in T
  <2>1. PICK m \in Nat : First(k) \subseteq 0..m
    BY <1>2
  <2>2. CASE k + 1 <= Len(s)
    <3>1. s[k + 1] \in Nat
      BY <2>2
    <3>2. First(k + 1) \subseteq First(k) \cup {s[k + 1]}
      BY <2>2
    <3> HIDE DEF First
    <3>3. PICK n \in Nat : m <= n /\ s[k + 1] <= n
      <4>1. m <= s[k + 1] \/ s[k + 1] <= m
        BY <3>1
      <4> QED  BY <3>1, <4>1
    <3>4. First(k + 1) \subseteq 0..n
      BY <2>1, <3>1, <3>2, <3>3
    <3> QED  BY <3>4
  <2>3. CASE ~(k + 1 <= Len(s))
    <3>1. First(k + 1) \subseteq First(k)
      BY <2>3
    <3> HIDE DEF First
    <3> QED  BY <2>1, <3>1
  <2> QED  BY <2>2, <2>3
<1> HIDE DEF T
<1>3. Len(s) \in T
  BY <1>1, <1>2, Induction, SMTT(60)
<1>4. Elements(s) \subseteq First(Len(s))
  BY DEF Elements
<1> HIDE DEF First
<1> QED  BY <1>3, <1>4 DEF T

LEMMA ClassifiedInputsType ==
    ASSUME NEW nodes \in Seq(Nodes)
    PROVE  ClassifiedInputs(nodes) \in Seq(Nat)
<1> DEFINE ss == [i \in DOMAIN nodes |-> nodes[i].ins]
           S  == ReadBy(nodes) \ ComputedBy(nodes)
<1>1. /\ DOMAIN nodes = 1..Len(nodes) /\ Len(nodes) \in Nat
      /\ \A i \in DOMAIN nodes : nodes[i].ins \in Seq(Nat)
  BY DomainOfNodes
<1>2. ss \in Seq(Seq(Nat)) /\ Len(ss) = Len(nodes) /\ \A i \in 1..Len(ss) : ss[i] = nodes[i].ins
  BY <1>1
<1> HIDE DEF ss
<1>3. FlattenSeq(ss) \in Seq(Nat)
      /\ Elements(FlattenSeq(ss)) = UNION {Elements(ss[i]) : i \in 1..Len(ss)}
  BY <1>2, FlattenElements
<1>4. S \subseteq Elements(FlattenSeq(ss))
  <2>1. ASSUME NEW x \in ReadBy(nodes) PROVE x \in UNION {Elements(ss[i]) : i \in 1..Len(ss)}
    <3>1. PICK i \in DOMAIN nodes : x \in Elements(nodes[i].ins)
      BY DEF ReadBy
    <3> QED  BY <1>1, <1>2, <3>1
  <2> QED  BY <1>3, <2>1
<1>5. PICK m \in Nat : Elements(FlattenSeq(ss)) \subseteq 0..m
  BY <1>3, SequencesAreBounded
<1>6. S \in SUBSET (0..m)
  BY <1>4, <1>5
<1> HIDE DEF S
<1>7. InOrder(S) \in Seq(Nat)
  BY <1>6, InOrderType
<1> QED  BY <1>7 DEF ClassifiedInputs, S

\* The nodes that are added, in the order of their schedule.
LEMMA SortAddedType ==
    ASSUME NEW nodes \in Seq(Nodes)
    PROVE  SortTopologically(nodes, ClassifiedInputs(nodes)) \in Seq(DOMAIN nodes)
BY ClassifiedInputsType, SortType

\* A sequence is at least as long as it has elements.
LEMMA ElementsAreFew ==
    ASSUME NEW X, NEW s \in Seq(X)
    PROVE  IsFiniteSet(Elements(s)) /\ Cardinality(Elements(s)) <= Len(s)
<1> DEFINE First(k) == {s[i] : i \in {j \in 1..k : j <= Len(s)}}
           Few(k)   == IsFiniteSet(First(k)) /\ Cardinality(First(k)) \in Nat
                       /\ Cardinality(First(k)) <= k
           T        == {k \in Nat : Few(k)}
<1>1. 0 \in T
  <2>1. First(0) = {}
    OBVIOUS
  <2>2. IsFiniteSet({}) /\ Cardinality({}) = 0
    BY FS_EmptySet
  <2>3. Cardinality(First(0)) = 0 /\ IsFiniteSet(First(0))
    BY <2>1, <2>2, Zenon
  <2> HIDE DEF First
  <2> QED  BY <2>3
<1>2. ASSUME NEW k \in Nat, k \in T PROVE k + 1 \in T
  <2>1. Few(k)
    BY <1>2
  <2>2. First(k + 1) = First(k) \cup {s[k + 1]} \/ First(k + 1) = First(k)
    OBVIOUS
  <2> HIDE DEF First
  <2>3. CASE First(k + 1) = First(k)
    <3>1. Few(k + 1)
      BY <2>1, <2>3
    <3> QED  BY <3>1
  <2>4. CASE First(k + 1) = First(k) \cup {s[k + 1]}
    <3> DEFINE F == First(k)
               e == s[k + 1]
    <3>1. IsFiniteSet(F) /\ Cardinality(F) \in Nat /\ Cardinality(F) <= k
      BY <2>1
    <3> HIDE DEF F, e
    <3>2. IsFiniteSet(F \cup {e}) /\ (e \in F => Cardinality(F \cup {e}) = Cardinality(F))
          /\ (e \notin F => Cardinality(F \cup {e}) = Cardinality(F) + 1)
      BY <3>1, FS_AddElement
    <3>3. IsFiniteSet(F \cup {e}) /\ Cardinality(F \cup {e}) \in Nat /\ Cardinality(F \cup {e}) <= k + 1
      BY <3>1, <3>2
    <3>4. Few(k + 1)
      BY <2>4, <3>3 DEF F, e
    <3> QED  BY <3>4
  <2> QED  BY <2>2, <2>3, <2>4
<1>3. \A k \in Nat : k \in T
  <2> HIDE DEF T
  <2> QED  BY <1>1, <1>2, Induction
<1>4. Elements(s) = First(Len(s)) /\ Len(s) \in Nat
  BY DEF Elements
<1>5. Len(s) \in T
  <2> HIDE DEF T
  <2> QED  BY <1>3, <1>4
<1> QED  BY <1>4, <1>5

\* The sort goes on until all values have been counted, ...
LEMMA SortEnds ==
    ASSUME NEW nodes \in Seq(Nodes), NEW inputs \in Seq(Nat), OneOrigin(nodes, inputs)
    PROVE  \E s : /\ SortTopologically(nodes, inputs) = s.sorted
                  /\ SortInv(nodes, inputs, s) /\ s.queue = <<>>
<1> DEFINE n == AllValues(nodes, inputs)
           outs == FlattenSeq([i \in DOMAIN nodes |-> nodes[i].outs])
           C(s) == Counted(nodes, inputs, s)
<1>1. n \in Nat
  BY SortIsRun
<1>2. PICK f \in SortRuns(nodes, inputs) : SortTopologically(nodes, inputs) = f[n].sorted
  BY SortIsRun
<1>3. f[0] = Started(nodes, inputs)
      /\ \A k \in Nat : f[k + 1] = IF f[k].queue = <<>> THEN f[k] ELSE Take(nodes, f[k])
  BY DEF SortRuns
<1>4. n = Len(inputs) + Len(outs) /\ Len(inputs) \in Nat /\ Len(outs) \in Nat
      /\ Elements(outs) = ComputedBy(nodes) /\ outs \in Seq(Nat)
  <2> DEFINE ss == [i \in DOMAIN nodes |-> nodes[i].outs]
  <2>0. /\ DOMAIN nodes = 1..Len(nodes) /\ Len(nodes) \in Nat
        /\ \A i \in DOMAIN nodes : nodes[i].outs \in Seq(Nat)
    BY DomainOfNodes
  <2>1. ss \in Seq(Seq(Nat)) /\ Len(ss) = Len(nodes) /\ \A i \in 1..Len(ss) : ss[i] = nodes[i].outs
    BY <2>0
  <2> HIDE DEF ss
  <2>2. FlattenSeq(ss) \in Seq(Nat)
        /\ Elements(FlattenSeq(ss)) = UNION {Elements(ss[i]) : i \in 1..Len(ss)}
    BY <2>1, FlattenElements
  <2>3. UNION {Elements(ss[i]) : i \in 1..Len(ss)} = ComputedBy(nodes)
    <3>1. \A i \in 1..Len(ss) : Elements(ss[i]) = Elements(nodes[i].outs)
      BY <2>1
    <3> QED  BY <2>0, <2>1, <3>1 DEF ComputedBy
  <2>4. n = Len(inputs) + Len(FlattenSeq(ss)) /\ outs = FlattenSeq(ss)
    BY DEF AllValues, ss
  <2>5. Len(inputs) \in Nat
    OBVIOUS
  <2> HIDE DEF n, outs
  <2>6. outs \in Seq(Nat) /\ Elements(outs) = ComputedBy(nodes) /\ Len(outs) \in Nat
    <3>1. outs \in Seq(Nat) /\ Elements(outs) = ComputedBy(nodes)
      BY <2>2, <2>3, <2>4
    <3> QED  BY <3>1
  <2>7. n = Len(inputs) + Len(outs)
    BY <2>4
  <2> QED  BY <2>5, <2>6, <2>7
<1> HIDE DEF n, outs
<1> DEFINE all == Elements(inputs) \cup ComputedBy(nodes)
<1>5. IsFiniteSet(all) /\ Cardinality(all) \in Nat /\ Cardinality(all) <= n
  <2>1. inputs \o outs \in Seq(Nat) /\ Len(inputs \o outs) = n /\ Elements(inputs \o outs) = all
    BY <1>4, Concatenation
  <2>2. IsFiniteSet(Elements(inputs \o outs)) /\ Cardinality(Elements(inputs \o outs)) <= Len(inputs \o outs)
    BY <2>1, ElementsAreFew
  <2> QED  BY <2>1, <2>2, FS_CardinalityType
<1>6. ASSUME NEW s, SortInv(nodes, inputs, s) PROVE Known(nodes, inputs, s.sorted) \subseteq all
  <2> SUFFICES ASSUME NEW k \in DOMAIN s.sorted PROVE Elements(nodes[s.sorted[k]].outs) \subseteq ComputedBy(nodes)
    BY DEF Known
  <2>1. s.sorted[k] \in DOMAIN nodes
    BY <1>6 DEF SortInv, SortStates
  <2> QED  BY <2>1 DEF ComputedBy
<1> HIDE DEF all
<1> DEFINE T == {k \in Nat : /\ SortInv(nodes, inputs, f[k])
                            /\ (f[k].queue = <<>> \/ (IsFiniteSet(C(f[k])) /\ Cardinality(C(f[k])) = k))}
<1>7. 0 \in T
  BY <1>3, StartedInv, FS_EmptySet
<1>8. ASSUME NEW k \in Nat, k \in T PROVE k + 1 \in T
  <2>1. SortInv(nodes, inputs, f[k])
    BY <1>8
  <2>2. CASE f[k].queue = <<>>
    BY <1>3, <2>1, <2>2
  <2>3. CASE f[k].queue # <<>>
    <3>1. f[k + 1] = Take(nodes, f[k]) /\ IsFiniteSet(C(f[k])) /\ Cardinality(C(f[k])) = k
      BY <1>3, <1>8, <2>3
    <3>2. /\ SortInv(nodes, inputs, f[k + 1]) /\ Head(f[k].queue) \notin C(f[k])
          /\ C(f[k + 1]) = C(f[k]) \cup {Head(f[k].queue)}
      BY <2>1, <2>3, <3>1, TakeInv
    <3> HIDE DEF C
    <3> DEFINE F == C(f[k])
               e == Head(f[k].queue)
    <3>3. IsFiniteSet(F) /\ Cardinality(F) = k /\ e \notin F /\ C(f[k + 1]) = F \cup {e}
      BY <3>1, <3>2
    <3> HIDE DEF F, e
    <3>4. IsFiniteSet(F \cup {e}) /\ Cardinality(F \cup {e}) = k + 1
      BY <3>3, FS_AddElement
    <3>5. IsFiniteSet(C(f[k + 1])) /\ Cardinality(C(f[k + 1])) = k + 1
      BY <3>3, <3>4
    <3> DEFINE m == k + 1
    <3>6. m \in Nat /\ SortInv(nodes, inputs, f[m]) /\ IsFiniteSet(C(f[m])) /\ Cardinality(C(f[m])) = m
      BY <3>2, <3>5
    <3> HIDE DEF m
    <3>7. m \in T
      BY <3>6
    <3> QED  BY <3>7 DEF m
  <2> QED  BY <2>2, <2>3
<1>9. n \in T
  <2> HIDE DEF T
  <2>1. \A k \in Nat : k \in T
    BY <1>7, <1>8, Induction
  <2> QED  BY <1>1, <2>1
<1> DEFINE s == f[n]
<1>10. SortInv(nodes, inputs, s) /\ (s.queue = <<>> \/ (IsFiniteSet(C(s)) /\ Cardinality(C(s)) = n))
  BY <1>9
<1> HIDE DEF s
<1>11. ASSUME s.queue # <<>> PROVE FALSE
  <2> DEFINE v == Head(s.queue)
  <2>1. s.queue \in Seq(Nat) /\ Elements(s.queue) \subseteq Known(nodes, inputs, s.sorted)
    BY <1>10 DEF SortInv, SortStates
  <2>2. v \in Elements(s.queue)
    BY <1>11, <2>1, TailOfDistinct
  <2> HIDE DEF v
  <2>3. v \notin C(s) /\ C(s) \cup {v} \subseteq all
    BY <1>6, <1>10, <2>1, <2>2 DEF Counted
  <2> HIDE DEF C
  <2>4. Cardinality(C(s) \cup {v}) = n + 1
    BY <1>10, <1>11, <2>3, FS_AddElement
  <2>5. Cardinality(C(s) \cup {v}) <= Cardinality(all)
    BY <1>5, <2>3, FS_Subset
  <2> QED  BY <1>1, <1>5, <2>4, <2>5
<1> QED  BY <1>2, <1>10, <1>11 DEF s

\* ... and so sorts all nodes, if what they read is there and they can be
\* ranked such that each reads from nodes of a lower rank.
LEMMA SortIsComplete ==
    ASSUME NEW nodes \in Seq(Nodes), NEW inputs \in Seq(Nat), OneOrigin(nodes, inputs),
           ReadBy(nodes) \subseteq Elements(inputs) \cup ComputedBy(nodes),
           NEW rank \in [DOMAIN nodes -> Nat],
           \A i, j \in DOMAIN nodes :
               Elements(nodes[i].outs) \cap Elements(nodes[j].ins) # {} => rank[i] < rank[j]
    PROVE  Elements(SortTopologically(nodes, inputs)) = DOMAIN nodes
<1>1. PICK s : /\ SortTopologically(nodes, inputs) = s.sorted
               /\ SortInv(nodes, inputs, s) /\ s.queue = <<>>
  BY SortEnds
<1>2. /\ s.sorted \in Seq(DOMAIN nodes)
      /\ \A i \in DOMAIN nodes : s.counts[i] = Cardinality(Uncounted(nodes, inputs, s, i))
      /\ \A i \in DOMAIN nodes : i \in Elements(s.sorted) <=> s.counts[i] = 0
  BY <1>1 DEF SortInv, SortStates
<1> DEFINE missing == {i \in DOMAIN nodes : i \notin Elements(s.sorted)}
<1>3. ASSUME missing # {} PROVE FALSE
  <2> DEFINE ranks == {rank[i] : i \in missing}
  <2>1. ranks \subseteq Nat /\ ranks # {}
    BY <1>3
  <2>2. PICK r \in ranks : \A q \in ranks : r <= q
    <3> HIDE DEF ranks
    <3> QED  BY <2>1, LeastNumber
  <2>3. PICK i \in missing : r = rank[i]
    OBVIOUS
  <2>4. ASSUME NEW v \in Elements(nodes[i].ins) PROVE v \in Known(nodes, inputs, s.sorted)
    <3>1. CASE v \in Elements(inputs)
      BY <3>1 DEF Known
    <3>2. CASE v \notin Elements(inputs)
      <4>1. v \in ComputedBy(nodes)
        BY <2>4, <3>2 DEF ReadBy
      <4>2. PICK j \in DOMAIN nodes : v \in Elements(nodes[j].outs)
        BY <4>1 DEF ComputedBy
      <4>3. rank[j] < rank[i] /\ rank[j] \in Nat /\ rank[i] \in Nat
        BY <2>4, <4>2
      <4>4. j \in Elements(s.sorted)
        <5>1. ASSUME j \in missing PROVE FALSE
          <6>1. rank[j] \in ranks
            BY <5>1
          <6>2. r <= rank[j]
            <7> HIDE DEF ranks
            <7> QED  BY <2>2, <6>1
          <6> QED  BY <2>3, <4>3, <6>2
        <5> QED  BY <5>1
      <4>5. PICK k \in DOMAIN s.sorted : s.sorted[k] = j
        BY <4>4 DEF Elements
      <4> QED  BY <4>2, <4>5 DEF Known
    <3> QED  BY <3>1, <3>2
  <2>5. Uncounted(nodes, inputs, s, i) = {}
    <3>1. Elements(s.queue) = {}
      BY <1>1 DEF Elements
    <3>2. \A j \in DOMAIN nodes[i].ins : nodes[i].ins[j] \in Known(nodes, inputs, s.sorted)
      BY <2>4 DEF Elements
    <3> QED  BY <3>1, <3>2 DEF Uncounted
  <2>6. s.counts[i] = 0
    BY <1>2, <2>5, FS_EmptySet
  <2> QED  BY <1>2, <2>6
<1>4. Elements(s.sorted) \subseteq DOMAIN nodes
  BY <1>2 DEF Elements
<1> QED  BY <1>1, <1>3, <1>4
-----------------------------------------------------------------------------
(* The policies' orders.                                                   *)

Orders(g) ==
    {o \in [kind : {"ComputeForward", "ComputeBackward", "ForgetForward"},
            node : Nat, value : Nat] :
        o.kind # "ForgetForward" => o.node \in DOMAIN g.nodes}

IsForward(o, n)  == o.kind = "ComputeForward" /\ o.node = n
IsBackward(o, n) == o.kind = "ComputeBackward" /\ o.node = n
IsForget(o, v)   == o.kind = "ForgetForward" /\ o.value = v

\* Before place p, a node is computed twice and one of its values is not
\* forgotten in between.
ComputedTwice(g, os, p) ==
    \E i, k \in DOMAIN os : \E n \in DOMAIN g.nodes : \E v \in Elements(g.nodes[n].outs) :
        /\ i < k /\ k < p
        /\ IsForward(os[i], n) /\ IsForward(os[k], n)
        /\ \A f \in DOMAIN os : i < f /\ f < k => ~IsForget(os[f], v)

\* The gradients at place p are taken by the rules.
InTurn(g, os, p) ==
    /\ \A i \in DOMAIN os : i < p => ~IsBackward(os[i], os[p].node)
    /\ \A m \in NecessaryNodes(g) : Feeds(g, os[p].node, m) =>
          \E i \in DOMAIN os : i < p /\ IsBackward(os[i], m)

Proper(g, os) ==
    /\ os \in Seq(Orders(g))
    /\ \A p \in DOMAIN os : os[p].kind = "ComputeBackward" =>
          ComputedTwice(g, os, p) \/ InTurn(g, os, p)
-----------------------------------------------------------------------------
(* Orders whose gradients come one by one against the flow of the values.  *)

Backwards(os) == {os[p].node : p \in {i \in DOMAIN os : os[i].kind = "ComputeBackward"}}

\* m's gradients may be taken after n's.
MayFollow(g, n, m) == n # m /\ ~Feeds(g, n, m)

AgainstTheFlow(g, os) ==
    /\ os \in Seq(Orders(g))
    /\ \A p, q \in DOMAIN os :
          p < q /\ os[p].kind = "ComputeBackward" /\ os[q].kind = "ComputeBackward" =>
              MayFollow(g, os[p].node, os[q].node)

LEMMA ProperAgainstTheFlow ==
    ASSUME NEW g, IsModel(g), NEW os, AgainstTheFlow(g, os),
           \A n \in Backwards(os), m \in NecessaryNodes(g) : Feeds(g, n, m) => m \in Backwards(os)
    PROVE  Proper(g, os)
<1> SUFFICES ASSUME NEW p \in DOMAIN os, os[p].kind = "ComputeBackward" PROVE InTurn(g, os, p)
  BY DEF Proper, AgainstTheFlow
<1>1. DOMAIN os = 1..Len(os) /\ \A i \in DOMAIN os : os[i] \in Orders(g)
  BY DEF AgainstTheFlow
<1>2. ASSUME NEW i \in DOMAIN os, i < p PROVE ~IsBackward(os[i], os[p].node)
  BY <1>2 DEF AgainstTheFlow, MayFollow, IsBackward
<1>3. ASSUME NEW m \in NecessaryNodes(g), Feeds(g, os[p].node, m)
      PROVE  \E i \in DOMAIN os : i < p /\ IsBackward(os[i], m)
  <2>1. os[p].node \in Backwards(os)
    BY DEF Backwards
  <2>2. m \in Backwards(os)
    BY <1>3, <2>1
  <2>3. PICK q \in DOMAIN os : os[q].kind = "ComputeBackward" /\ os[q].node = m
    BY <2>2 DEF Backwards
  <2>4. ~(p < q)
    BY <1>3, <2>3 DEF AgainstTheFlow, MayFollow
  <2>5. q # p
    <3> SUFFICES ASSUME q = p PROVE FALSE
      OBVIOUS
    <3>1. m \in DOMAIN g.nodes /\ Feeds(g, m, m)
      BY <1>1, <1>3, <2>3 DEF Orders
    <3>2. Rank(g)[m] < Rank(g)[m]
      BY <3>1, ModelOrder
    <3>3. /\ DOMAIN GetTopologicallySortedNodes(g) = 1..Len(GetTopologicallySortedNodes(g))
          /\ Rank(g)[m] \in DOMAIN GetTopologicallySortedNodes(g)
      <4>1. GetTopologicallySortedNodes(g) \in Seq(DOMAIN g.nodes)
        BY ModelOrder
      <4>2. Rank(g)[m] \in DOMAIN GetTopologicallySortedNodes(g)
        BY <3>1, ModelOrder
      <4> QED  BY <4>1, <4>2
    <3> QED  BY <3>2, <3>3
  <2>6. q < p
    BY <1>1, <2>4, <2>5
  <2> QED  BY <2>3, <2>6 DEF IsBackward
<1> QED  BY <1>2, <1>3 DEF InTurn

\* The gradients of b may be taken after those of a.
AllMayFollow(g, a, b) == \A n \in Backwards(a), m \in Backwards(b) : MayFollow(g, n, m)

LEMMA FlowOfConcatenation ==
    ASSUME NEW g, NEW a, NEW b, AgainstTheFlow(g, a), AgainstTheFlow(g, b),
           AllMayFollow(g, a, b)
    PROVE  AgainstTheFlow(g, a \o b) /\ Backwards(a \o b) = Backwards(a) \cup Backwards(b)
<1> DEFINE c == a \o b
<1>1. a \in Seq(Orders(g)) /\ b \in Seq(Orders(g))
  BY DEF AgainstTheFlow
<1>2. /\ c \in Seq(Orders(g)) /\ DOMAIN c = 1..Len(c)
      /\ DOMAIN a = 1..Len(a) /\ DOMAIN b = 1..Len(b) /\ Len(a) \in Nat /\ Len(b) \in Nat
      /\ \A i \in DOMAIN a : i \in DOMAIN c /\ c[i] = a[i]
      /\ \A i \in DOMAIN b : Len(a) + i \in DOMAIN c /\ c[Len(a) + i] = b[i]
      /\ \A i \in DOMAIN c : i \in DOMAIN a \/ (i > Len(a) /\ i - Len(a) \in DOMAIN b
                                                   /\ c[i] = b[i - Len(a)])
  <2>1. /\ c \in Seq(Orders(g))
        /\ \A i \in 1..Len(a) : i \in 1..Len(c) /\ c[i] = a[i]
        /\ \A i \in 1..Len(b) : Len(a) + i \in 1..Len(c) /\ c[Len(a) + i] = b[i]
        /\ \A i \in 1..Len(c) : i \in 1..Len(a) \/ (i > Len(a) /\ i - Len(a) \in 1..Len(b)
                                                       /\ c[i] = b[i - Len(a)])
    BY <1>1, Concatenation
  <2>2. DOMAIN a = 1..Len(a) /\ DOMAIN b = 1..Len(b) /\ Len(a) \in Nat /\ Len(b) \in Nat
    BY <1>1
  <2> HIDE DEF c
  <2> QED  BY <2>1, <2>2
<1> HIDE DEF c
<1>3. Backwards(c) = Backwards(a) \cup Backwards(b)
  <2>1. ASSUME NEW n \in Backwards(c) PROVE n \in Backwards(a) \cup Backwards(b)
    <3>1. PICK i \in DOMAIN c : c[i].kind = "ComputeBackward" /\ c[i].node = n
      BY DEF Backwards
    <3> QED  BY <1>2, <3>1 DEF Backwards
  <2>2. ASSUME NEW n \in Backwards(a) PROVE n \in Backwards(c)
    BY <1>2 DEF Backwards
  <2>3. ASSUME NEW n \in Backwards(b) PROVE n \in Backwards(c)
    <3>1. PICK i \in DOMAIN b : b[i].kind = "ComputeBackward" /\ b[i].node = n
      BY DEF Backwards
    <3>2. Len(a) + i \in DOMAIN c /\ c[Len(a) + i] = b[i]
      BY <1>2, <3>1
    <3> QED  BY <3>1, <3>2 DEF Backwards
  <2> QED  BY <2>1, <2>2, <2>3
<1>4. ASSUME NEW p \in DOMAIN c, NEW q \in DOMAIN c, p < q,
             c[p].kind = "ComputeBackward", c[q].kind = "ComputeBackward"
      PROVE  MayFollow(g, c[p].node, c[q].node)
  <2>1. CASE p \in DOMAIN a /\ q \in DOMAIN a
    BY <1>2, <1>4, <2>1 DEF AgainstTheFlow
  <2>2. CASE p \in DOMAIN a /\ q \notin DOMAIN a
    <3>1. c[p].node \in Backwards(a)
      BY <1>2, <1>4, <2>2 DEF Backwards
    <3>2. c[q].node \in Backwards(b)
      BY <1>2, <1>4, <2>2 DEF Backwards
    <3> QED  BY <3>1, <3>2 DEF AllMayFollow
  <2>3. CASE p \notin DOMAIN a
    <3>1. /\ p - Len(a) \in DOMAIN b /\ c[p] = b[p - Len(a)]
          /\ q - Len(a) \in DOMAIN b /\ c[q] = b[q - Len(a)]
          /\ p - Len(a) < q - Len(a)
      BY <1>2, <1>4, <2>3
    <3> QED  BY <1>4, <3>1 DEF AgainstTheFlow
  <2> QED  BY <2>1, <2>2, <2>3
<1>5. AgainstTheFlow(g, c)
  BY <1>2, <1>4 DEF AgainstTheFlow
<1> QED  BY <1>3, <1>5 DEF c

\* And so on for a sequence of sequences of orders.
LEMMA FlowOfFlattened ==
    ASSUME NEW g, NEW ss \in Seq(Seq(Orders(g))),
           \A i \in 1..Len(ss) : AgainstTheFlow(g, ss[i]),
           \A i, k \in 1..Len(ss) : i < k =>
               \A n \in Backwards(ss[i]), m \in Backwards(ss[k]) : MayFollow(g, n, m)
    PROVE  /\ AgainstTheFlow(g, FlattenSeq(ss))
           /\ Backwards(FlattenSeq(ss)) = UNION {Backwards(ss[i]) : i \in 1..Len(ss)}
<1> DEFINE c == FlattenSeq(ss)
<1>1. c \in Seq(Orders(g)) /\ DOMAIN c = 1..Len(c) /\ \A i \in 1..Len(ss) : DOMAIN ss[i] = 1..Len(ss[i])
  BY FlattenSeqFlattens
<1>2. PICK b, o : Flattens(b, o, c, ss, Len(ss))
  BY FlattenSeqFlattens
<1> HIDE DEF c
<1>3. /\ b \in [1..Len(c) -> 1..Len(ss)] /\ o \in [1..Len(c) -> Nat]
      /\ \A i \in 1..Len(c) : o[i] \in 1..Len(ss[b[i]]) /\ c[i] = ss[b[i]][o[i]]
      /\ \A i, j \in 1..Len(c) : i < j => b[i] < b[j] \/ (b[i] = b[j] /\ o[i] < o[j])
      /\ \A k \in 1..Len(ss) : \A m \in 1..Len(ss[k]) :
            \E i \in 1..Len(c) : b[i] = k /\ o[i] = m
  BY <1>2 DEF Flattens
<1>4. ASSUME NEW p \in DOMAIN c, c[p].kind = "ComputeBackward"
      PROVE  b[p] \in 1..Len(ss) /\ o[p] \in DOMAIN ss[b[p]] /\ c[p] = ss[b[p]][o[p]]
             /\ c[p].node \in Backwards(ss[b[p]])
  <2>1. b[p] \in 1..Len(ss) /\ o[p] \in DOMAIN ss[b[p]] /\ c[p] = ss[b[p]][o[p]]
    BY <1>1, <1>3
  <2> QED  BY <1>4, <2>1 DEF Backwards
<1>5. Backwards(c) = UNION {Backwards(ss[i]) : i \in 1..Len(ss)}
  <2>1. ASSUME NEW n \in Backwards(c) PROVE n \in UNION {Backwards(ss[i]) : i \in 1..Len(ss)}
    <3>1. PICK p \in DOMAIN c : c[p].kind = "ComputeBackward" /\ c[p].node = n
      BY DEF Backwards
    <3> QED  BY <1>4, <3>1
  <2>2. ASSUME NEW k \in 1..Len(ss), NEW n \in Backwards(ss[k]) PROVE n \in Backwards(c)
    <3>1. PICK m \in DOMAIN ss[k] : ss[k][m].kind = "ComputeBackward" /\ ss[k][m].node = n
      BY DEF Backwards
    <3>2. PICK p \in 1..Len(c) : b[p] = k /\ o[p] = m
      <4>1. \A x \in 1..Len(ss[k]) : \E i \in 1..Len(c) : b[i] = k /\ o[i] = x
        BY <1>3
      <4>2. m \in 1..Len(ss[k])
        BY <1>1
      <4> QED  BY <4>1, <4>2
    <3>3. c[p] = ss[k][m] /\ p \in DOMAIN c
      BY <1>1, <1>3, <3>2
    <3> QED  BY <3>1, <3>3 DEF Backwards
  <2> QED  BY <2>1, <2>2
<1>6. ASSUME NEW p \in DOMAIN c, NEW q \in DOMAIN c, p < q,
             c[p].kind = "ComputeBackward", c[q].kind = "ComputeBackward"
      PROVE  MayFollow(g, c[p].node, c[q].node)
  <2>1. CASE b[p] < b[q]
    BY <1>4, <1>6, <2>1
  <2>2. CASE b[p] = b[q] /\ o[p] < o[q]
    <3>1. AgainstTheFlow(g, ss[b[p]])
      BY <1>4, <1>6
    <3> QED  BY <1>4, <1>6, <2>2, <3>1, SMTT(60) DEF AgainstTheFlow
  <2> QED  BY <1>1, <1>3, <1>6, <2>1, <2>2
<1>7. AgainstTheFlow(g, c)
  BY <1>1, <1>6 DEF AgainstTheFlow
<1> QED  BY <1>5, <1>7 DEF c

\* Orders that take no gradients.
LEMMA FlowOfNone ==
    ASSUME NEW g, NEW os \in Seq(Orders(g)), \A i \in DOMAIN os : os[i].kind # "ComputeBackward"
    PROVE  AgainstTheFlow(g, os) /\ Backwards(os) = {}
BY DEF AgainstTheFlow, Backwards

LEMMA ForwardOrders ==
    ASSUME NEW g, IsModel(g), NEW s \in Seq(DOMAIN g.nodes)
    PROVE  LET os == Each(s, ComputeForward)
           IN  /\ os \in Seq(Orders(g)) /\ Len(os) = Len(s)
               /\ \A i \in 1..Len(s) : IsForward(os[i], s[i])
               /\ AgainstTheFlow(g, os) /\ Backwards(os) = {}
<1> DEFINE os == Each(s, ComputeForward)
<1>1. g.nodes \in Seq(Nodes) /\ DOMAIN g.nodes \subseteq Nat
  <2>1. g.nodes \in Seq(Nodes)
    BY ModelValues
  <2> QED  BY <2>1
<1>2. \A i \in 1..Len(s) : s[i] \in DOMAIN g.nodes
  OBVIOUS
<1>3. os = [i \in 1..Len(s) |-> ComputeForward(s[i])] /\ Len(s) \in Nat
  BY DEF Each
<1>4. \A n \in DOMAIN g.nodes : ComputeForward(n) \in Orders(g) /\ IsForward(ComputeForward(n), n)
  BY <1>1 DEF Orders, ComputeForward, IsForward
<1> HIDE DEF os
<1>5. os \in Seq(Orders(g)) /\ Len(os) = Len(s) /\ DOMAIN os = 1..Len(s)
      /\ \A i \in 1..Len(s) : IsForward(os[i], s[i])
  BY <1>2, <1>3, <1>4
<1>6. \A i \in DOMAIN os : os[i].kind # "ComputeBackward"
  BY <1>5 DEF IsForward
<1>7. AgainstTheFlow(g, os) /\ Backwards(os) = {}
  BY <1>5, <1>6, FlowOfNone
<1> QED  BY <1>5, <1>7 DEF os

LEMMA ForgetOrders ==
    ASSUME NEW g, IsModel(g), NEW s \in Seq(Nat)
    PROVE  LET os == Each(s, ForgetForward)
           IN  /\ os \in Seq(Orders(g)) /\ Len(os) = Len(s)
               /\ \A i \in 1..Len(s) : IsForget(os[i], s[i])
               /\ AgainstTheFlow(g, os) /\ Backwards(os) = {}
<1> DEFINE os == Each(s, ForgetForward)
<1>1. \A i \in 1..Len(s) : s[i] \in Nat
  OBVIOUS
<1>2. os = [i \in 1..Len(s) |-> ForgetForward(s[i])] /\ Len(s) \in Nat
  BY DEF Each
<1>3. \A v \in Nat : ForgetForward(v) \in Orders(g) /\ IsForget(ForgetForward(v), v)
  BY DEF Orders, ForgetForward, IsForget
<1> HIDE DEF os
<1>4. os \in Seq(Orders(g)) /\ Len(os) = Len(s) /\ DOMAIN os = 1..Len(s)
      /\ \A i \in 1..Len(s) : IsForget(os[i], s[i])
  BY <1>1, <1>2, <1>3
<1>5. \A i \in DOMAIN os : os[i].kind # "ComputeBackward"
  BY <1>4 DEF IsForget
<1>6. AgainstTheFlow(g, os) /\ Backwards(os) = {}
  BY <1>4, <1>5, FlowOfNone
<1> QED  BY <1>4, <1>6 DEF os

LEMMA BackwardOrders ==
    ASSUME NEW g, IsModel(g), NEW s \in Seq(DOMAIN g.nodes),
           \A i, k \in DOMAIN s : i < k => MayFollow(g, s[i], s[k])
    PROVE  LET os == Each(s, ComputeBackward)
           IN  /\ os \in Seq(Orders(g)) /\ Len(os) = Len(s)
               /\ \A i \in 1..Len(s) : IsBackward(os[i], s[i])
               /\ AgainstTheFlow(g, os) /\ Backwards(os) = Elements(s)
<1> DEFINE os == Each(s, ComputeBackward)
<1>1. g.nodes \in Seq(Nodes) /\ DOMAIN g.nodes \subseteq Nat
  <2>1. g.nodes \in Seq(Nodes)
    BY ModelValues
  <2> QED  BY <2>1
<1>2. (\A i \in 1..Len(s) : s[i] \in DOMAIN g.nodes) /\ DOMAIN s = 1..Len(s)
  OBVIOUS
<1>3. os = [i \in 1..Len(s) |-> ComputeBackward(s[i])] /\ Len(s) \in Nat
  BY DEF Each
<1>4. \A n \in DOMAIN g.nodes : ComputeBackward(n) \in Orders(g) /\ IsBackward(ComputeBackward(n), n)
  BY <1>1 DEF Orders, ComputeBackward, IsBackward
<1> HIDE DEF os
<1>5. os \in Seq(Orders(g)) /\ Len(os) = Len(s) /\ DOMAIN os = 1..Len(s)
      /\ \A i \in 1..Len(s) : IsBackward(os[i], s[i])
  BY <1>2, <1>3, <1>4
<1>6. AgainstTheFlow(g, os) /\ Backwards(os) = Elements(s)
  BY <1>2, <1>5 DEF AgainstTheFlow, Backwards, Elements, IsBackward
<1> QED  BY <1>5, <1>6 DEF os
-----------------------------------------------------------------------------
(* Nodes taken against the order in which they are sorted.                 *)

Sorted(g) == GetTopologicallySortedNodes(g)

Ascends(g, s) ==
    /\ s \in Seq(DOMAIN g.nodes)
    /\ \A i, k \in DOMAIN s : i < k => Rank(g)[s[i]] < Rank(g)[s[k]]

Descends(g, s) ==
    /\ s \in Seq(DOMAIN g.nodes)
    /\ \A i, k \in DOMAIN s : i < k => Rank(g)[s[k]] < Rank(g)[s[i]]

\* Ranks are numbers.
LEMMA Ranks ==
    ASSUME NEW g, IsModel(g)
    PROVE  /\ Rank(g) \in [DOMAIN g.nodes -> 1..Len(g.nodes)] /\ Len(g.nodes) \in Nat
           /\ Sorted(g) \in Seq(DOMAIN g.nodes) /\ DOMAIN Sorted(g) = 1..Len(Sorted(g))
           /\ Len(Sorted(g)) \in Nat
<1>1. g.nodes \in Seq(Nodes) /\ Len(g.nodes) \in Nat
  <2>1. g.nodes \in Seq(Nodes)
    BY ModelValues
  <2> QED  BY <2>1
<1>2. Sorted(g) \in Seq(DOMAIN g.nodes) /\ Len(Sorted(g)) <= Len(g.nodes)
  BY ModelOrder DEF Sorted
<1>3. DOMAIN Sorted(g) = 1..Len(Sorted(g)) /\ Len(Sorted(g)) \in Nat
  BY <1>2
<1>4. \A i \in DOMAIN g.nodes : Rank(g)[i] \in 1..Len(g.nodes)
  <2> SUFFICES ASSUME NEW i \in DOMAIN g.nodes PROVE Rank(g)[i] \in 1..Len(g.nodes)
    OBVIOUS
  <2>1. Rank(g)[i] \in DOMAIN Sorted(g)
    BY ModelOrder DEF Sorted
  <2> QED  BY <1>1, <1>2, <1>3, <2>1
<1>5. Rank(g) = [i \in DOMAIN g.nodes |-> Rank(g)[i]]
  BY DEF Rank
<1>6. Rank(g) \in [DOMAIN g.nodes -> 1..Len(g.nodes)]
  BY <1>4, <1>5
<1> QED  BY <1>1, <1>2, <1>3, <1>6

LEMMA SortedAscends ==
    ASSUME NEW g, IsModel(g)
    PROVE  Ascends(g, Sorted(g)) /\ Elements(Sorted(g)) = DOMAIN g.nodes
<1>1. Sorted(g) \in Seq(DOMAIN g.nodes) /\ Elements(Sorted(g)) = DOMAIN g.nodes
      /\ \A k \in DOMAIN Sorted(g) : Rank(g)[Sorted(g)[k]] = k
  BY ModelOrder DEF Sorted
<1> QED  BY <1>1 DEF Ascends

LEMMA BackwardsDescend ==
    ASSUME NEW g, IsModel(g), NEW s, Descends(g, s)
    PROVE  LET os == Each(s, ComputeBackward)
           IN  /\ os \in Seq(Orders(g)) /\ Len(os) = Len(s)
               /\ AgainstTheFlow(g, os) /\ Backwards(os) = Elements(s)
<1>1. s \in Seq(DOMAIN g.nodes) /\ \A i \in DOMAIN s : s[i] \in DOMAIN g.nodes
  BY DEF Descends
<1>2. ASSUME NEW i \in DOMAIN s, NEW k \in DOMAIN s, i < k PROVE MayFollow(g, s[i], s[k])
  <2>1. Rank(g)[s[k]] < Rank(g)[s[i]]
    BY <1>2 DEF Descends
  <2>2. s[i] \in DOMAIN g.nodes /\ s[k] \in DOMAIN g.nodes
    BY <1>1
  <2>3. Rank(g)[s[k]] \in Nat /\ Rank(g)[s[i]] \in Nat
    BY <2>2, Ranks
  <2>4. Feeds(g, s[i], s[k]) => Rank(g)[s[i]] < Rank(g)[s[k]]
    BY <2>2, ModelOrder
  <2> QED  BY <2>1, <2>3, <2>4 DEF MayFollow
<1> QED  BY <1>1, <1>2, BackwardOrders

LEMMA Reversed ==
    ASSUME NEW X, NEW s \in Seq(X)
    PROVE  /\ Reverse(s) \in Seq(X) /\ Len(Reverse(s)) = Len(s) /\ Elements(Reverse(s)) = Elements(s)
           /\ \A i \in 1..Len(s) : Reverse(s)[i] = s[Len(s) - i + 1] /\ Len(s) - i + 1 \in 1..Len(s)
<1>1. Len(s) \in Nat /\ DOMAIN s = 1..Len(s)
  OBVIOUS
<1>2. Reverse(s) = [i \in 1..Len(s) |-> s[(Len(s) - i) + 1]]
  BY DEF Reverse
<1>3. \A i \in 1..Len(s) : Len(s) - i + 1 \in 1..Len(s) /\ Len(s) - (Len(s) - i + 1) + 1 = i
  BY <1>1
<1>4. Reverse(s) \in Seq(X) /\ Len(Reverse(s)) = Len(s) /\ DOMAIN Reverse(s) = 1..Len(s)
      /\ \A i \in 1..Len(s) : Reverse(s)[i] = s[Len(s) - i + 1]
  BY <1>1, <1>2, <1>3
<1>5. Elements(Reverse(s)) = Elements(s)
  <2>1. ASSUME NEW x \in Elements(s) PROVE x \in Elements(Reverse(s))
    <3>1. PICK i \in 1..Len(s) : x = s[i]
      BY <1>1 DEF Elements
    <3>2. Len(s) - i + 1 \in 1..Len(s) /\ Reverse(s)[Len(s) - i + 1] = s[i]
      BY <1>3, <1>4
    <3> QED  BY <1>4, <3>1, <3>2 DEF Elements
  <2>2. ASSUME NEW x \in Elements(Reverse(s)) PROVE x \in Elements(s)
    <3>1. PICK i \in 1..Len(s) : x = Reverse(s)[i]
      BY <1>4 DEF Elements
    <3> QED  BY <1>1, <1>3, <1>4, <3>1 DEF Elements
  <2> QED  BY <2>1, <2>2
<1> QED  BY <1>3, <1>4, <1>5

LEMMA ReverseDescends ==
    ASSUME NEW g, IsModel(g), NEW s, Ascends(g, s)
    PROVE  Descends(g, Reverse(s)) /\ Elements(Reverse(s)) = Elements(s)
<1>1. s \in Seq(DOMAIN g.nodes) /\ DOMAIN s = 1..Len(s) /\ Len(s) \in Nat
  BY DEF Ascends
<1>2. /\ Reverse(s) \in Seq(DOMAIN g.nodes) /\ DOMAIN Reverse(s) = 1..Len(s)
      /\ Elements(Reverse(s)) = Elements(s)
      /\ \A i \in 1..Len(s) : Reverse(s)[i] = s[Len(s) - i + 1] /\ Len(s) - i + 1 \in 1..Len(s)
  <2>1. /\ Reverse(s) \in Seq(DOMAIN g.nodes) /\ Len(Reverse(s)) = Len(s)
        /\ Elements(Reverse(s)) = Elements(s)
        /\ \A i \in 1..Len(s) : Reverse(s)[i] = s[Len(s) - i + 1] /\ Len(s) - i + 1 \in 1..Len(s)
    BY <1>1, Reversed
  <2>2. DOMAIN Reverse(s) = 1..Len(Reverse(s))
    BY <2>1
  <2> QED  BY <2>1, <2>2
<1>3. ASSUME NEW i \in DOMAIN Reverse(s), NEW k \in DOMAIN Reverse(s), i < k
      PROVE  Rank(g)[Reverse(s)[k]] < Rank(g)[Reverse(s)[i]]
  <2>1. Len(s) - k + 1 \in DOMAIN s /\ Len(s) - i + 1 \in DOMAIN s /\ Len(s) - k + 1 < Len(s) - i + 1
    BY <1>1, <1>2, <1>3
  <2> QED  BY <1>2, <2>1 DEF Ascends
<1> QED  BY <1>2, <1>3 DEF Descends

\* A selection goes up or down like what it is taken from.
LEMMA SelectionFollows ==
    ASSUME NEW g, NEW s, NEW S
    PROVE  /\ Ascends(g, s) => Ascends(g, Among(s, S)) /\ Elements(Among(s, S)) = Elements(s) \cap S
           /\ Descends(g, s) => Descends(g, Among(s, S)) /\ Elements(Among(s, S)) = Elements(s) \cap S
<1> DEFINE a == Among(s, S)
<1>1. ASSUME s \in Seq(DOMAIN g.nodes)
      PROVE  /\ a \in Seq(DOMAIN g.nodes) /\ Elements(a) = Elements(s) \cap S
             /\ \E p : p \in [DOMAIN a -> DOMAIN s] /\ (\A i \in DOMAIN a : a[i] = s[p[i]])
                       /\ \A i, k \in DOMAIN a : i < k => p[i] < p[k]
  <2>1. a \in Seq(DOMAIN g.nodes) /\ Elements(a) = Elements(s) \cap S
    BY <1>1, AmongElements
  <2>2. PICK p : Selects(p, a, s, S, Len(s))
    BY <1>1, AmongSelects
  <2>3. DOMAIN a = 1..Len(a) /\ DOMAIN s = 1..Len(s)
    BY <1>1, <2>1
  <2> QED  BY <2>1, <2>2, <2>3 DEF Selects
<1> HIDE DEF a
<1>2. ASSUME Ascends(g, s) PROVE Ascends(g, a) /\ Elements(a) = Elements(s) \cap S
  BY <1>1, <1>2 DEF Ascends
<1>3. ASSUME Descends(g, s) PROVE Descends(g, a) /\ Elements(a) = Elements(s) \cap S
  BY <1>1, <1>3 DEF Descends
<1> QED  BY <1>2, <1>3 DEF a
-----------------------------------------------------------------------------
(* Without a policy: the nodes that are needed and lie behind parameters.  *)

LEMMA Searches ==
    ASSUME NEW g, IsModel(g), NEW xs
    PROVE  /\ NecessaryNodes(g) \subseteq DOMAIN g.nodes /\ NodesAfter(g, xs) \subseteq DOMAIN g.nodes
           /\ \A i, j \in DOMAIN g.nodes :
                 Feeds(g, i, j) /\ i \in NodesAfter(g, xs) => j \in NodesAfter(g, xs)
<1> DEFINE V  == DOMAIN g.nodes
           n  == Len(g.nodes)
           up == Rank(g)
           down == [i \in V |-> n + 1 - Rank(g)[i]]
           R  == {p \in NodePairs(g) : Feeds(g, p[1], p[2])}
           B  == {p \in NodePairs(g) : Feeds(g, p[2], p[1])}
           from == {i \in DOMAIN g.nodes : Elements(g.nodes[i].outs) \cap Elements(g.outputs) # {}}
           to   == UNION {Readers(g.nodes, x) : x \in xs}
<1>1. up \in [V -> 1..n] /\ n \in Nat
  BY Ranks
<1>2. down \in [V -> 1..n]
  <2>1. \A i \in V : n + 1 - up[i] \in 1..n
    <3> HIDE DEF n, up
    <3> QED  BY <1>1
  <2> QED  BY <2>1
<1>3. R \subseteq V \X V /\ B \subseteq V \X V /\ from \subseteq V /\ to \subseteq V
  BY DEF NodePairs, Readers
<1>4. \A q \in B : up[q[2]] < up[q[1]]
  BY ModelOrder DEF NodePairs
<1>5. \A q \in R : down[q[2]] < down[q[1]]
  <2> SUFFICES ASSUME NEW q \in R PROVE down[q[2]] < down[q[1]]
    OBVIOUS
  <2>1. q[1] \in V /\ q[2] \in V /\ Feeds(g, q[1], q[2])
    BY DEF NodePairs
  <2>2. up[q[1]] < up[q[2]] /\ up[q[1]] \in 1..n /\ up[q[2]] \in 1..n
    BY <1>1, <2>1, ModelOrder
  <2> QED  BY <1>1, <2>1, <2>2
<1>6. NecessaryNodes(g) = Reached(from, B, n) /\ NodesAfter(g, xs) = Reached(to, R, n)
  BY DEF NecessaryNodes, NodesAfter
<1>7. \A i, j \in V : Feeds(g, i, j) => <<i, j>> \in R
  BY DEF NodePairs
<1> HIDE DEF V, n, up, down, R, B, from, to
<1>8. Reached(from, B, n) \subseteq V
  <2>1. B \subseteq V \X V
    BY <1>3
  <2>2. from \subseteq V
    BY <1>3
  <2>3. up \in [V -> 1..n]
    BY <1>1
  <2>4. n \in Nat
    BY <1>1
  <2>5. ClosedUnder(B, V, from, Reached(from, B, n))
    BY ONLY <2>1, <2>2, <2>3, <2>4, <1>4, ReachedIsClosed
  <2> QED  BY <2>5 DEF ClosedUnder
<1>9. /\ Reached(to, R, n) \subseteq V
      /\ \A q \in R : q[1] \in Reached(to, R, n) => q[2] \in Reached(to, R, n)
  <2>1. R \subseteq V \X V
    BY <1>3
  <2>2. to \subseteq V
    BY <1>3
  <2>3. n \in Nat
    BY <1>1
  <2>4. ClosedUnder(R, V, to, Reached(to, R, n))
    BY ONLY <2>1, <2>2, <2>3, <1>2, <1>5, ReachedIsClosed
  <2> QED  BY <2>4 DEF ClosedUnder
<1>10. ASSUME NEW i \in V, NEW j \in V, Feeds(g, i, j), i \in Reached(to, R, n)
       PROVE  j \in Reached(to, R, n)
  <2>1. <<i, j>> \in R /\ <<i, j>>[1] = i /\ <<i, j>>[2] = j
    BY <1>7, <1>10
  <2> QED  BY <1>9, <1>10, <2>1
<1> QED  BY <1>6, <1>8, <1>9, <1>10 DEF V

LEMMA GradientOrders ==
    ASSUME NEW g, IsModel(g), NEW xs
    PROVE  LET os == Each(Among(Reverse(Sorted(g)), NecessaryNodes(g) \cap NodesAfter(g, xs)),
                          ComputeBackward)
           IN  Proper(g, os) /\ \A i \in DOMAIN os : os[i].kind = "ComputeBackward"
<1> DEFINE S  == NecessaryNodes(g) \cap NodesAfter(g, xs)
           s  == Among(Reverse(Sorted(g)), S)
           os == Each(s, ComputeBackward)
<1>1. S \subseteq DOMAIN g.nodes
  BY Searches
<1>2. ASSUME NEW n \in S, NEW m \in NecessaryNodes(g), Feeds(g, n, m) PROVE m \in S
  BY <1>2, Searches
<1> HIDE DEF S
<1>3. Descends(g, s) /\ Elements(s) = S
  <2>1. Descends(g, Reverse(Sorted(g))) /\ Elements(Reverse(Sorted(g))) = DOMAIN g.nodes
    BY SortedAscends, ReverseDescends
  <2>2. Descends(g, s) /\ Elements(s) = Elements(Reverse(Sorted(g))) \cap S
    BY <2>1, SelectionFollows
  <2> HIDE DEF s
  <2> QED  BY <1>1, <2>1, <2>2
<1> HIDE DEF s
<1>4. AgainstTheFlow(g, os) /\ Backwards(os) = S
  BY <1>3, BackwardsDescend
<1>5. \A i \in DOMAIN os : os[i].kind = "ComputeBackward"
  BY DEF Each, ComputeBackward
<1> HIDE DEF os
<1>6. Proper(g, os)
  BY <1>2, <1>4, ProperAgainstTheFlow
<1> QED  BY <1>5, <1>6 DEF os, s, S
-----------------------------------------------------------------------------
(* The policies that take the gradients of all nodes, in reverse.          *)

Quiet(g, os) == os \in Seq(Orders(g)) /\ \A i \in DOMAIN os : os[i].kind # "ComputeBackward"

LEMMA QuietFlow ==
    ASSUME NEW g, NEW os, Quiet(g, os)
    PROVE  AgainstTheFlow(g, os) /\ Backwards(os) = {}
BY FlowOfNone DEF Quiet

LEMMA QuietConcatenation ==
    ASSUME NEW g, NEW a, NEW b, Quiet(g, a), Quiet(g, b)
    PROVE  Quiet(g, a \o b)
<1>1. a \in Seq(Orders(g)) /\ b \in Seq(Orders(g)) /\ DOMAIN a = 1..Len(a) /\ DOMAIN b = 1..Len(b)
  BY DEF Quiet
<1>2. /\ a \o b \in Seq(Orders(g)) /\ DOMAIN (a \o b) = 1..Len(a \o b)
      /\ \A i \in 1..Len(a) : (a \o b)[i] = a[i]
      /\ \A i \in 1..Len(a \o b) : i \in 1..Len(a) \/ (i > Len(a) /\ i - Len(a) \in 1..Len(b)
                                                          /\ (a \o b)[i] = b[i - Len(a)])
  <2>1. a \o b \in Seq(Orders(g))
    BY <1>1
  <2> QED  BY <1>1, <2>1, Concatenation
<1> QED  BY <1>1, <1>2 DEF Quiet

LEMMA QuietFlattened ==
    ASSUME NEW g, NEW ss, DOMAIN ss = 1..Len(ss), Len(ss) \in Nat,
           \A i \in DOMAIN ss : Quiet(g, ss[i]), ss = [i \in DOMAIN ss |-> ss[i]]
    PROVE  Quiet(g, FlattenSeq(ss))
<1>1. ss \in Seq(Seq(Orders(g)))
  <2>1. \A i \in DOMAIN ss : ss[i] \in Seq(Orders(g))
    BY DEF Quiet
  <2> QED  BY <2>1
<1>2. FlattenSeq(ss) \in Seq(Orders(g)) /\ DOMAIN FlattenSeq(ss) = 1..Len(FlattenSeq(ss))
  BY <1>1, FlattenSeqFlattens
<1>3. PICK b, o : Flattens(b, o, FlattenSeq(ss), ss, Len(ss))
  BY <1>1, FlattenSeqFlattens
<1>4. \A i \in DOMAIN FlattenSeq(ss) :
          b[i] \in 1..Len(ss) /\ o[i] \in 1..Len(ss[b[i]]) /\ FlattenSeq(ss)[i] = ss[b[i]][o[i]]
  BY <1>2, <1>3 DEF Flattens
<1>5. \A i \in 1..Len(ss) : DOMAIN ss[i] = 1..Len(ss[i])
  BY DEF Quiet
<1> QED  BY <1>2, <1>4, <1>5 DEF Quiet

LEMMA QuietForwards ==
    ASSUME NEW g, IsModel(g), NEW s \in Seq(DOMAIN g.nodes)
    PROVE  Quiet(g, Each(s, ComputeForward))
<1> DEFINE os == Each(s, ComputeForward)
<1>1. os \in Seq(Orders(g))
  BY ForwardOrders
<1>2. \A i \in DOMAIN os : os[i].kind # "ComputeBackward"
  BY DEF Each, ComputeForward
<1> HIDE DEF os
<1> QED  BY <1>1, <1>2 DEF Quiet, os

LEMMA QuietForgets ==
    ASSUME NEW g, IsModel(g), NEW s \in Seq(Nat)
    PROVE  Quiet(g, Each(s, ForgetForward))
<1> DEFINE os == Each(s, ForgetForward)
<1>1. os \in Seq(Orders(g))
  BY ForgetOrders
<1>2. \A i \in DOMAIN os : os[i].kind # "ComputeBackward"
  BY DEF Each, ForgetForward
<1> HIDE DEF os
<1> QED  BY <1>1, <1>2 DEF Quiet, os

\* Quiet orders may come first.
LEMMA QuietBefore ==
    ASSUME NEW g, NEW a, Quiet(g, a), NEW b, AgainstTheFlow(g, b)
    PROVE  AgainstTheFlow(g, a \o b) /\ Backwards(a \o b) = Backwards(b)
<1>1. AgainstTheFlow(g, a) /\ Backwards(a) = {}
  BY QuietFlow
<1>2. AllMayFollow(g, a, b)
  BY <1>1 DEF AllMayFollow
<1>3. AgainstTheFlow(g, a \o b) /\ Backwards(a \o b) = Backwards(a) \cup Backwards(b)
  BY <1>1, <1>2, FlowOfConcatenation
<1> QED  BY <1>1, <1>3

LEMMA ProperWhenComplete ==
    ASSUME NEW g, IsModel(g), NEW os, AgainstTheFlow(g, os), Backwards(os) = DOMAIN g.nodes
    PROVE  Proper(g, os)
<1>1. NecessaryNodes(g) \subseteq DOMAIN g.nodes
  BY Searches
<1> QED  BY <1>1, ProperAgainstTheFlow

\* All gradients, in reverse.
LEMMA AllBackwards ==
    ASSUME NEW g, IsModel(g)
    PROVE  LET os == Each(Reverse(Sorted(g)), ComputeBackward)
           IN  AgainstTheFlow(g, os) /\ Backwards(os) = DOMAIN g.nodes
<1>1. Descends(g, Reverse(Sorted(g))) /\ Elements(Reverse(Sorted(g))) = DOMAIN g.nodes
  BY SortedAscends, ReverseDescends
<1> QED  BY <1>1, BackwardsDescend

LEMMA OutputsType ==
    ASSUME NEW g, IsModel(g), NEW ns \in Seq(DOMAIN g.nodes)
    PROVE  OutputsOf(g, ns) \in Seq(Nat)
<1>1. g.nodes \in Seq(Nodes)
  BY ModelValues
<1> QED  BY <1>1, OutsOfSome DEF OutputsOf

LEMMA DummyIsProper ==
    ASSUME NEW g, IsModel(g)
    PROVE  Proper(g, DummyPolicy(g))
<1> DEFINE a == Each(Sorted(g), ComputeForward)
           b == Each(OutputsOf(g, Sorted(g)), ForgetForward)
           c == Each(Reverse(Sorted(g)), ComputeBackward)
<1>1. Sorted(g) \in Seq(DOMAIN g.nodes)
  BY Ranks
<1>2. Quiet(g, a) /\ Quiet(g, b)
  BY <1>1, QuietForwards, QuietForgets, OutputsType
<1>3. AgainstTheFlow(g, c) /\ Backwards(c) = DOMAIN g.nodes
  BY AllBackwards
<1>4. DummyPolicy(g) = a \o b \o a \o c
  BY Zenon DEF DummyPolicy, Sorted
<1> HIDE DEF a, b, c
<1>5. Quiet(g, a \o b \o a)
  BY <1>2, QuietConcatenation
<1>6. AgainstTheFlow(g, a \o b \o a \o c) /\ Backwards(a \o b \o a \o c) = DOMAIN g.nodes
  BY <1>3, <1>5, QuietBefore
<1> QED  BY <1>4, <1>6, ProperWhenComplete

LEMMA QuietOne ==
    ASSUME NEW g, IsModel(g), NEW n \in DOMAIN g.nodes
    PROVE  Quiet(g, <<ComputeForward(n)>>)
<1>1. n \in Nat
  <2>1. g.nodes \in Seq(Nodes)
    BY ModelValues
  <2> QED  BY <2>1
<1>2. ComputeForward(n) \in Orders(g) /\ ComputeForward(n).kind # "ComputeBackward"
  BY <1>1 DEF Orders, ComputeForward
<1> HIDE DEF ComputeForward
<1>3. <<ComputeForward(n)>> \in Seq(Orders(g)) /\ DOMAIN <<ComputeForward(n)>> = 1..1
      /\ <<ComputeForward(n)>>[1] = ComputeForward(n)
  BY <1>2
<1> QED  BY <1>2, <1>3 DEF Quiet

LEMMA Dummy2IsProper ==
    ASSUME NEW g, IsModel(g)
    PROVE  Proper(g, DummyPolicy2(g))
<1> DEFINE nodes == Sorted(g)
           Forward(i) ==
               <<ComputeForward(nodes[i])>>
               \o Each(Among(g.nodes[nodes[i]].ins, ReadBy(g.nodes) \ g.inputs), ForgetForward)
           fs == [i \in DOMAIN nodes |-> Forward(i)]
           a  == Each(nodes, ComputeForward)
           b  == Each(g.nodes[Last(nodes)].outs, ForgetForward)
           c  == Each(Reverse(nodes), ComputeBackward)
<1>1. /\ g.nodes \in Seq(Nodes) /\ nodes \in Seq(DOMAIN g.nodes) /\ nodes # <<>>
      /\ DOMAIN nodes = 1..Len(nodes) /\ Len(nodes) \in Nat
      /\ \A i \in DOMAIN nodes : nodes[i] \in DOMAIN g.nodes
  <2>1. g.nodes \in Seq(Nodes) /\ nodes \in Seq(DOMAIN g.nodes) /\ g.nodes # <<>>
    BY Ranks, ModelValues DEF IsModel
  <2>2. Elements(nodes) = DOMAIN g.nodes
    BY SortedAscends
  <2> HIDE DEF nodes
  <2>3. nodes # <<>>
    BY <2>1, <2>2 DEF Elements
  <2> QED  BY <2>1, <2>3
<1>2. DummyPolicy2(g) = FlattenSeq(fs) \o b \o a \o c
  BY Zenon DEF DummyPolicy2, Sorted
<1>3. AgainstTheFlow(g, c) /\ Backwards(c) = DOMAIN g.nodes
  BY AllBackwards
<1> HIDE DEF nodes, c
<1>4. Quiet(g, a)
  BY <1>1, QuietForwards
<1> HIDE DEF a
<1>5. Quiet(g, b)
  <2>1. Last(nodes) \in DOMAIN g.nodes
    BY <1>1 DEF Last
  <2>2. g.nodes[Last(nodes)].outs \in Seq(Nat)
    BY <1>1, <2>1, DomainOfNodes
  <2> QED  BY <2>2, QuietForgets
<1> HIDE DEF b
<1>6. ASSUME NEW i \in DOMAIN nodes PROVE Quiet(g, Forward(i))
  <2>1. nodes[i] \in DOMAIN g.nodes /\ g.nodes[nodes[i]].ins \in Seq(Nat)
    BY <1>1, DomainOfNodes
  <2>2. Quiet(g, <<ComputeForward(nodes[i])>>)
    BY <2>1, QuietOne
  <2>3. Among(g.nodes[nodes[i]].ins, ReadBy(g.nodes) \ g.inputs) \in Seq(Nat)
    BY <2>1, AmongElements
  <2>4. Quiet(g, Each(Among(g.nodes[nodes[i]].ins, ReadBy(g.nodes) \ g.inputs), ForgetForward))
    BY <2>3, QuietForgets
  <2> QED  BY <2>2, <2>4, QuietConcatenation
<1>7. DOMAIN fs = 1..Len(fs) /\ Len(fs) \in Nat /\ fs = [i \in DOMAIN fs |-> fs[i]]
      /\ \A i \in DOMAIN fs : Quiet(g, fs[i])
  <2>1. DOMAIN fs = 1..Len(nodes) /\ \A i \in DOMAIN fs : fs[i] = Forward(i)
    BY <1>1
  <2>2. \A i \in DOMAIN fs : Quiet(g, fs[i])
    BY <1>1, <1>6, <2>1
  <2>3. fs = [i \in DOMAIN fs |-> fs[i]]
    BY Zenon
  <2> HIDE DEF fs
  <2>4. Len(fs) = Len(nodes)
    BY <1>1, <2>1, <2>3
  <2> QED  BY <1>1, <2>1, <2>2, <2>3, <2>4
<1> HIDE DEF fs
<1>8. Quiet(g, FlattenSeq(fs))
  BY <1>7, QuietFlattened
<1>9. Quiet(g, FlattenSeq(fs) \o b \o a)
  BY <1>4, <1>5, <1>8, QuietConcatenation
<1>10. AgainstTheFlow(g, FlattenSeq(fs) \o b \o a \o c)
       /\ Backwards(FlattenSeq(fs) \o b \o a \o c) = DOMAIN g.nodes
  BY <1>3, <1>9, QuietBefore
<1> QED  BY <1>2, <1>10, ProperWhenComplete
-----------------------------------------------------------------------------
(* Chen's policy goes back block by block.                                 *)

LEMMA Greatest ==
    ASSUME NEW m \in Nat, NEW S \in SUBSET (1..m), S # {}
    PROVE  \E x \in S : \A y \in S : y <= x
<1> DEFINE B == {n \in Nat : \A x \in S : x <= n}
<1>1. m \in B
  OBVIOUS
<1>2. B \subseteq Nat /\ B # {}
  BY <1>1
<1>3. PICK n \in B : \A k \in B : n <= k
  <2> HIDE DEF B
  <2> QED  BY <1>2, LeastNumber
<1>4. n \in Nat /\ \A x \in S : x <= n /\ x \in Nat /\ x # 0
  BY <1>3
<1>5. n \in S
  <2> SUFFICES ASSUME n \notin S PROVE FALSE
    OBVIOUS
  <2>1. \A x \in S : x <= n - 1
    BY <1>4
  <2>2. n - 1 \in Nat
    <3>1. PICK x \in S : TRUE
      OBVIOUS
    <3>2. x \in Nat /\ x # 0 /\ x <= n
      BY <1>4
    <3> QED  BY <1>4, <3>2
  <2>3. n - 1 \in B
    BY <2>1, <2>2
  <2> QED  BY <1>3, <1>4, <2>3
<1> QED  BY <1>4, <1>5

\* Where the block of place i begins.
Start(ends, i) ==
    1 + (IF \E e \in ends : e < i
         THEN CHOOSE e \in ends : e < i /\ \A f \in ends : f < i => f <= e
         ELSE 0)

LEMMA Starts ==
    ASSUME NEW m \in Nat, NEW ends \in SUBSET (1..m), NEW i \in 1..(m + 1)
    PROVE  /\ Start(ends, i) \in 1..i
           /\ \A e \in ends : e < i => e < Start(ends, i)
           /\ Start(ends, i) = 1 \/ Start(ends, i) - 1 \in ends
<1>1. CASE \E e \in ends : e < i
  <2> DEFINE before == {e \in ends : e < i}
             last == CHOOSE e \in ends : e < i /\ \A f \in ends : f < i => f <= e
  <2>1. before # {} /\ before \in SUBSET (1..m)
    BY <1>1
  <2>2. \E e \in before : \A f \in before : f <= e
    <3> HIDE DEF before
    <3> QED  BY <2>1, Greatest
  <2>3. \E e \in ends : e < i /\ \A f \in ends : f < i => f <= e
    BY <2>2
  <2>4. last \in ends /\ last < i /\ \A f \in ends : f < i => f <= last
    BY <2>3
  <2>5. Start(ends, i) = 1 + last
    BY <1>1 DEF Start
  <2> HIDE DEF last
  <2> QED  BY <2>4, <2>5
<1>2. CASE ~\E e \in ends : e < i
  <2>1. Start(ends, i) = 1
    BY <1>2 DEF Start
  <2> QED  BY <1>2, <2>1
<1> QED  BY <1>1, <1>2

LEMMA Subsequences ==
    ASSUME NEW X, NEW s \in Seq(X), NEW from \in 1..(Len(s) + 1), NEW to \in 0..Len(s)
    PROVE  /\ SubSeq(s, from, to) \in Seq(X) /\ DOMAIN SubSeq(s, from, to) = 1..(to - from + 1)
           /\ \A i \in 1..(to - from + 1) :
                 SubSeq(s, from, to)[i] = s[from + i - 1] /\ from + i - 1 \in 1..Len(s)
<1>1. Len(s) \in Nat
  OBVIOUS
<1>2. CASE to < from
  <2>1. SubSeq(s, from, to) = <<>> /\ 1..(to - from + 1) = {}
    BY <1>1, <1>2
  <2> QED  BY <2>1
<1>3. CASE from <= to
  <2> DEFINE n == to - from + 1
  <2>1. SubSeq(s, from, to) \in Seq(X) /\ Len(SubSeq(s, from, to)) = n
    BY <1>1, <1>3
  <2>2. \A i \in 1..n : from + i - 1 \in 1..Len(s)
    BY <1>1, <1>3
  <2>3. \A i \in 1..n : SubSeq(s, from, to)[i] = s[from + i - 1]
    BY <1>1, <1>3
  <2> QED  BY <2>1, <2>2, <2>3
<1> QED  BY <1>1, <1>2, <1>3

\* A block of the sorted nodes.
LEMMA Slices ==
    ASSUME NEW g, IsModel(g), NEW from \in 1..(Len(Sorted(g)) + 1), NEW to \in 0..Len(Sorted(g))
    PROVE  LET s == SubSeq(Sorted(g), from, to)
           IN  Ascends(g, s) /\ s \in Seq(DOMAIN g.nodes)
               /\ Elements(s) = {Sorted(g)[k] : k \in from..to}
<1> DEFINE sorted == Sorted(g)
           s == SubSeq(sorted, from, to)
           n == to - from + 1
<1>1. /\ sorted \in Seq(DOMAIN g.nodes) /\ DOMAIN sorted = 1..Len(sorted) /\ Len(sorted) \in Nat
      /\ \A i, k \in DOMAIN sorted : i < k => Rank(g)[sorted[i]] < Rank(g)[sorted[k]]
  BY Ranks, SortedAscends DEF Ascends
<1> HIDE DEF sorted
<1>2. /\ from \in 1..(Len(sorted) + 1) /\ to \in 0..Len(sorted)
      /\ DOMAIN s = 1..n
      /\ \A i \in 1..n : s[i] = sorted[from + i - 1] /\ from + i - 1 \in DOMAIN sorted
  <2>1. from \in 1..(Len(sorted) + 1) /\ to \in 0..Len(sorted)
    BY DEF sorted
  <2> QED  BY <1>1, <2>1, Subsequences
<1>3. s \in Seq(DOMAIN g.nodes)
  BY <1>1, <1>2, Subsequences
<1> HIDE DEF s
<1>4. Elements(s) = {sorted[k] : k \in from..to}
  <2>0. from \in Int /\ to \in Int
    BY <1>1, <1>2
  <2>1. ASSUME NEW k \in from..to PROVE sorted[k] \in Elements(s)
    <3>1. k - from + 1 \in 1..n /\ from + (k - from + 1) - 1 = k
      BY <2>0
    <3> QED  BY <1>2, <3>1 DEF Elements
  <2>2. ASSUME NEW i \in 1..n PROVE s[i] \in {sorted[k] : k \in from..to}
    <3>1. from + i - 1 \in from..to
      BY <2>0
    <3> QED  BY <1>2, <3>1
  <2> QED  BY <1>2, <2>1, <2>2 DEF Elements
<1>5. Ascends(g, s)
  <2> SUFFICES ASSUME NEW i \in DOMAIN s, NEW k \in DOMAIN s, i < k
               PROVE  Rank(g)[s[i]] < Rank(g)[s[k]]
    BY <1>3 DEF Ascends
  <2>1. from + i - 1 \in DOMAIN sorted /\ from + k - 1 \in DOMAIN sorted
        /\ from + i - 1 < from + k - 1
    BY <1>1, <1>2, SMTT(60)
  <2> QED  BY <1>1, <1>2, <2>1
<1> QED  BY <1>3, <1>4, <1>5 DEF s, sorted

\* The nodes of one block again, and their gradients.
BlockBack(g, lost, from, to) ==
    Each(Among(SubSeq(Sorted(g), from, to), lost), ComputeForward)
    \o Each(Reverse(SubSeq(Sorted(g), from, to)), ComputeBackward)

LEMMA BlocksBack ==
    ASSUME NEW g, IsModel(g), NEW lost,
           NEW from \in 1..(Len(Sorted(g)) + 1), NEW to \in 0..Len(Sorted(g))
    PROVE  /\ AgainstTheFlow(g, BlockBack(g, lost, from, to))
           /\ Backwards(BlockBack(g, lost, from, to)) = {Sorted(g)[k] : k \in from..to}
<1> DEFINE s == SubSeq(Sorted(g), from, to)
           a == Each(Among(s, lost), ComputeForward)
           b == Each(Reverse(s), ComputeBackward)
<1>1. Ascends(g, s) /\ s \in Seq(DOMAIN g.nodes) /\ Elements(s) = {Sorted(g)[k] : k \in from..to}
  BY Slices
<1>2. BlockBack(g, lost, from, to) = a \o b
  BY DEF BlockBack
<1> HIDE DEF s
<1>3. Quiet(g, a)
  <2>1. Among(s, lost) \in Seq(DOMAIN g.nodes)
    BY <1>1, AmongElements
  <2> QED  BY <2>1, QuietForwards
<1>4. AgainstTheFlow(g, b) /\ Backwards(b) = Elements(s)
  <2>1. Descends(g, Reverse(s)) /\ Elements(Reverse(s)) = Elements(s)
    BY <1>1, ReverseDescends
  <2> QED  BY <2>1, BackwardsDescend
<1> HIDE DEF a, b
<1>5. AgainstTheFlow(g, a \o b) /\ Backwards(a \o b) = Backwards(b)
  BY <1>3, <1>4, QuietBefore
<1> QED  BY <1>1, <1>2, <1>4, <1>5

\* A later place may not follow an earlier one.
LEMMA PlacesMayFollow ==
    ASSUME NEW g, IsModel(g), NEW x \in DOMAIN Sorted(g), NEW y \in DOMAIN Sorted(g), y < x
    PROVE  MayFollow(g, Sorted(g)[x], Sorted(g)[y])
<1>1. Sorted(g)[x] \in DOMAIN g.nodes /\ Sorted(g)[y] \in DOMAIN g.nodes
  BY Ranks
<1>2. Rank(g)[Sorted(g)[x]] = x /\ Rank(g)[Sorted(g)[y]] = y
  BY ModelOrder DEF Sorted
<1>3. Feeds(g, Sorted(g)[x], Sorted(g)[y]) => x < y
  <2>1. Feeds(g, Sorted(g)[x], Sorted(g)[y])
            => Rank(g)[Sorted(g)[x]] < Rank(g)[Sorted(g)[y]]
    BY <1>1, ModelOrder
  <2> QED  BY <1>2, <2>1
<1>4. x \in Nat /\ y \in Nat
  BY Ranks
<1> QED  BY <1>2, <1>3, <1>4 DEF MayFollow

\* The blocks that end at some places, the last one first, and what is left
\* before them.
LEMMA EndedBlocks ==
    ASSUME NEW g, IsModel(g), NEW lost, NEW ends \in SUBSET DOMAIN Sorted(g)
    PROVE  LET blocks == Reverse(InOrder(ends))
               bs     == [k \in DOMAIN blocks |->
                             BlockBack(g, lost, Start(ends, blocks[k]), blocks[k])]
           IN  /\ AgainstTheFlow(g, FlattenSeq(bs))
               /\ Backwards(FlattenSeq(bs))
                      = {Sorted(g)[k] : k \in 1..(Start(ends, Len(Sorted(g)) + 1) - 1)}
<1> DEFINE m      == Len(Sorted(g))
           up     == InOrder(ends)
           blocks == Reverse(up)
           bs     == [k \in DOMAIN blocks |->
                         BlockBack(g, lost, Start(ends, blocks[k]), blocks[k])]
           Block(e) == {Sorted(g)[k] : k \in Start(ends, e)..e}
<1>1. m \in Nat /\ ends \in SUBSET (1..m) /\ DOMAIN Sorted(g) = 1..m
  BY Ranks
<1>2. /\ up \in Seq(Nat) /\ Elements(up) = ends
      /\ \A i, k \in DOMAIN up : i < k => up[i] < up[k]
  BY <1>1, InOrderLists
<1> HIDE DEF up
<1>3. /\ DOMAIN blocks = 1..Len(up) /\ Len(up) \in Nat /\ DOMAIN up = 1..Len(up)
      /\ Elements(blocks) = ends
      /\ \A i \in 1..Len(up) : blocks[i] = up[Len(up) - i + 1] /\ Len(up) - i + 1 \in 1..Len(up)
  <2>1. /\ blocks \in Seq(Nat) /\ Len(blocks) = Len(up) /\ Elements(blocks) = Elements(up)
        /\ \A i \in 1..Len(up) : blocks[i] = up[Len(up) - i + 1] /\ Len(up) - i + 1 \in 1..Len(up)
    BY <1>2, Reversed
  <2>2. DOMAIN blocks = 1..Len(blocks) /\ DOMAIN up = 1..Len(up) /\ Len(up) \in Nat
    BY <1>2, <2>1
  <2> HIDE DEF blocks
  <2> QED  BY <1>2, <2>1, <2>2
<1>4. ASSUME NEW i \in 1..Len(up), NEW k \in 1..Len(up), i < k PROVE blocks[k] < blocks[i]
  <2>1. Len(up) - k + 1 < Len(up) - i + 1
    BY <1>3, <1>4
  <2> HIDE DEF blocks
  <2> QED  BY <1>2, <1>3, <2>1
<1> HIDE DEF blocks
<1>5. ASSUME NEW e \in ends
      PROVE  /\ e \in 1..m /\ Start(ends, e) \in 1..e
             /\ \A f \in ends : f < e => f < Start(ends, e)
             /\ Start(ends, e) = 1 \/ Start(ends, e) - 1 \in ends
             /\ AgainstTheFlow(g, BlockBack(g, lost, Start(ends, e), e))
             /\ Backwards(BlockBack(g, lost, Start(ends, e), e)) = Block(e)
  <2>1. e \in 1..m /\ e \in 1..(m + 1) /\ e \in 0..m
    BY <1>1
  <2>2. /\ Start(ends, e) \in 1..e
        /\ \A f \in ends : f < e => f < Start(ends, e)
        /\ Start(ends, e) = 1 \/ Start(ends, e) - 1 \in ends
    BY <1>1, <2>1, Starts
  <2>3. Start(ends, e) \in 1..(m + 1)
    BY <1>1, <2>1, <2>2
  <2>4. /\ AgainstTheFlow(g, BlockBack(g, lost, Start(ends, e), e))
        /\ Backwards(BlockBack(g, lost, Start(ends, e), e)) = Block(e)
    BY <2>1, <2>3, BlocksBack
  <2> QED  BY <2>1, <2>2, <2>4
<1>6. \A k \in DOMAIN blocks : blocks[k] \in ends /\ bs[k] = BlockBack(g, lost, Start(ends, blocks[k]), blocks[k])
  BY <1>3 DEF Elements
<1>7. bs \in Seq(Seq(Orders(g))) /\ Len(bs) = Len(up)
      /\ \A k \in 1..Len(up) : AgainstTheFlow(g, bs[k]) /\ Backwards(bs[k]) = Block(blocks[k])
  <2>1. bs = [k \in 1..Len(up) |-> bs[k]]
    BY <1>3
  <2>2. \A k \in 1..Len(up) : AgainstTheFlow(g, bs[k]) /\ Backwards(bs[k]) = Block(blocks[k])
    <3> HIDE DEF bs, Block
    <3> QED  BY <1>3, <1>5, <1>6
  <2> HIDE DEF bs, Block
  <2>3. \A k \in 1..Len(up) : bs[k] \in Seq(Orders(g))
    BY <2>2 DEF AgainstTheFlow
  <2> QED  BY <1>3, <2>1, <2>2, <2>3
<1> HIDE DEF bs
<1>8. ASSUME NEW i \in 1..Len(up), NEW k \in 1..Len(up), i < k,
             NEW a \in Block(blocks[i]), NEW b \in Block(blocks[k])
      PROVE  MayFollow(g, a, b)
  <2>1. blocks[k] < blocks[i] /\ blocks[i] \in ends /\ blocks[k] \in ends
    BY <1>3, <1>4, <1>6, <1>8
  <2>2. PICK x \in Start(ends, blocks[i])..blocks[i] : a = Sorted(g)[x]
    OBVIOUS
  <2>3. PICK y \in Start(ends, blocks[k])..blocks[k] : b = Sorted(g)[y]
    OBVIOUS
  <2>4. y < x /\ x \in DOMAIN Sorted(g) /\ y \in DOMAIN Sorted(g)
    <3>1. blocks[k] < Start(ends, blocks[i])
      BY <1>5, <2>1
    <3>2. blocks[i] \in 1..m /\ blocks[k] \in 1..m /\ Start(ends, blocks[i]) \in 1..blocks[i]
          /\ Start(ends, blocks[k]) \in 1..blocks[k]
      BY <1>5, <2>1
    <3> QED  BY <1>1, <3>1, <3>2, SMTT(60)
  <2> QED  BY <2>2, <2>3, <2>4, PlacesMayFollow
<1>9. /\ AgainstTheFlow(g, FlattenSeq(bs))
      /\ Backwards(FlattenSeq(bs)) = UNION {Backwards(bs[i]) : i \in 1..Len(bs)}
  <2>1. \A i, k \in 1..Len(bs) : i < k =>
            \A a \in Backwards(bs[i]), b \in Backwards(bs[k]) : MayFollow(g, a, b)
    <3> HIDE DEF Block
    <3> QED  BY <1>7, <1>8
  <2>2. \A i \in 1..Len(bs) : AgainstTheFlow(g, bs[i])
    BY <1>7
  <2> QED  BY <1>7, <2>1, <2>2, FlowOfFlattened
<1> DEFINE last == Start(ends, m + 1)
<1>10. last \in 1..(m + 1) /\ (\A e \in ends : e < last) /\ (last = 1 \/ last - 1 \in ends)
  <2>1. m + 1 \in 1..(m + 1)
    BY <1>1
  <2>2. last \in 1..(m + 1) /\ (\A e \in ends : e < m + 1 => e < last) /\ (last = 1 \/ last - 1 \in ends)
    BY <1>1, <2>1, Starts
  <2> HIDE DEF last
  <2> QED  BY <1>1, <2>2
<1> HIDE DEF last
<1>11. UNION {Backwards(bs[i]) : i \in 1..Len(bs)} = UNION {Block(e) : e \in ends}
  <2> HIDE DEF Block
  <2>1. \A i \in 1..Len(bs) : blocks[i] \in ends /\ Backwards(bs[i]) = Block(blocks[i])
    BY <1>3, <1>6, <1>7
  <2>2. \A e \in ends : \E i \in 1..Len(bs) : e = blocks[i]
    BY <1>3, <1>7 DEF Elements
  <2> QED  BY <2>1, <2>2
\* Each place before the last block is in the block of the next end.
<1>12. UNION {Block(e) : e \in ends} = {Sorted(g)[k] : k \in 1..(last - 1)}
  <2>1. ASSUME NEW e \in ends, NEW k \in Start(ends, e)..e PROVE k \in 1..(last - 1)
    BY <1>5, <1>10
  <2>2. ASSUME NEW k \in 1..(last - 1) PROVE \E e \in ends : k \in Start(ends, e)..e
    <3> DEFINE after == {e \in ends : k <= e}
    <3>1. after \subseteq Nat /\ last - 1 \in after
      BY <1>1, <1>10
    <3> HIDE DEF after
    <3>2. PICK e \in after : \A f \in after : e <= f
      BY <3>1, LeastNumber
    <3>3. e \in ends /\ k <= e
      BY <3>2 DEF after
    <3>4. \A f \in ends : k <= f => e <= f
      BY <3>2 DEF after
    <3>5. Start(ends, e) <= k
      <4>1. CASE Start(ends, e) = 1
        BY <4>1
      <4>2. CASE Start(ends, e) - 1 \in ends
        <5>1. Start(ends, e) - 1 < e
          BY <1>5, <3>3
        <5>2. ~(k <= Start(ends, e) - 1)
          BY <3>4, <4>2, <5>1, <1>5, <3>3
        <5> QED  BY <1>5, <3>3, <5>2
      <4> QED  BY <1>5, <3>3, <4>1, <4>2
    <3> QED  BY <1>5, <3>3, <3>5
  <2> QED  BY <2>1, <2>2
<1> QED  BY <1>9, <1>11, <1>12 DEF bs, blocks, up, last, m

\* Orders in two parts that take all gradients.
LEMMA ProperInTwo ==
    ASSUME NEW g, IsModel(g), NEW a, NEW d, AgainstTheFlow(g, a), AgainstTheFlow(g, d),
           Backwards(a) \cup Backwards(d) = DOMAIN g.nodes,
           AllMayFollow(g, a, d)
    PROVE  Proper(g, a \o d)
<1>1. AgainstTheFlow(g, a \o d) /\ Backwards(a \o d) = Backwards(a) \cup Backwards(d)
  BY FlowOfConcatenation
<1> QED  BY <1>1, ProperWhenComplete

LEMMA ChenIsProper ==
    ASSUME NEW g, IsModel(g), NEW splits
    PROVE  Proper(g, ChenPolicy(g, splits))
<1> DEFINE sorted   == Sorted(g)
           remember == MustRemember(g, sorted, splits)
           ends     == {i \in DOMAIN sorted : sorted[i] \in splits}
           Forget(from, to) ==
               Each(Among(OutputsOf(g, SubSeq(sorted, from, to)),
                          ComputedBy(g.nodes) \ remember), ForgetForward)
           Forward(i) ==
               <<ComputeForward(sorted[i])>>
               \o (IF i \in ends THEN Forget(Start(ends, i), i - 1) ELSE <<>>)
           lost   == {n \in DOMAIN g.nodes : ~(Elements(g.nodes[n].outs) \subseteq remember)}
           last   == Start(ends, Len(sorted) + 1)
           blocks == Reverse(InOrder(ends))
           fs == [i \in DOMAIN sorted |-> Forward(i)]
           b  == Forget(last, Len(sorted))
           c  == BlockBack(g, lost, last, Len(sorted))
           bs == [k \in DOMAIN blocks |-> BlockBack(g, lost, Start(ends, blocks[k]), blocks[k])]
<1>1. ChenPolicy(g, splits) = FlattenSeq(fs) \o b \o c \o FlattenSeq(bs)
  BY DEF ChenPolicy, Sorted, BlockBack, Start
<1>2. /\ g.nodes \in Seq(Nodes) /\ sorted \in Seq(DOMAIN g.nodes)
      /\ DOMAIN sorted = 1..Len(sorted) /\ Len(sorted) \in Nat
      /\ \A i \in DOMAIN sorted : sorted[i] \in DOMAIN g.nodes
  <2>1. g.nodes \in Seq(Nodes)
    BY ModelValues
  <2>2. sorted \in Seq(DOMAIN g.nodes) /\ DOMAIN sorted = 1..Len(sorted) /\ Len(sorted) \in Nat
    BY Ranks
  <2> HIDE DEF sorted
  <2> QED  BY <2>1, <2>2
<1>3. ends \in SUBSET DOMAIN sorted /\ ends \in SUBSET (1..Len(sorted))
  BY <1>2
<1>4. /\ AgainstTheFlow(g, FlattenSeq(bs))
      /\ Backwards(FlattenSeq(bs)) = {sorted[k] : k \in 1..(last - 1)}
  <2> HIDE DEF ends, lost
  <2> QED  BY <1>3, EndedBlocks
<1> HIDE DEF ends, lost, remember
<1>5. last \in 1..(Len(sorted) + 1)
  <2>1. Len(sorted) + 1 \in 1..(Len(sorted) + 1)
    BY <1>2
  <2> QED  BY <1>2, <1>3, <2>1, Starts
<1> HIDE DEF last
<1>6. AgainstTheFlow(g, c) /\ Backwards(c) = {sorted[k] : k \in last..Len(sorted)}
  <2>1. Len(sorted) \in 0..Len(sorted)
    BY <1>2
  <2> QED  BY <1>5, <2>1, BlocksBack
<1> HIDE DEF bs, c
<1>7. ASSUME NEW from \in 1..(Len(sorted) + 1), NEW to \in 0..Len(sorted)
      PROVE  Quiet(g, Forget(from, to))
  <2>1. SubSeq(sorted, from, to) \in Seq(DOMAIN g.nodes)
    BY Slices
  <2>2. OutputsOf(g, SubSeq(sorted, from, to)) \in Seq(Nat)
    BY <2>1, OutputsType
  <2>3. Among(OutputsOf(g, SubSeq(sorted, from, to)), ComputedBy(g.nodes) \ remember) \in Seq(Nat)
    BY <2>2, AmongElements
  <2> QED  BY <2>3, QuietForgets
<1>8. Quiet(g, b)
  <2>1. Len(sorted) \in 0..Len(sorted)
    BY <1>2
  <2> HIDE DEF Forget
  <2> QED  BY <1>5, <1>7, <2>1
<1>9. ASSUME NEW i \in DOMAIN sorted PROVE Quiet(g, Forward(i))
  <2>1. Quiet(g, <<ComputeForward(sorted[i])>>)
    BY <1>2, QuietOne
  <2> DEFINE rest == IF i \in ends THEN Forget(Start(ends, i), i - 1) ELSE <<>>
  <2>2. Quiet(g, rest)
    <3>1. CASE i \in ends
      <4>1. i \in 1..(Len(sorted) + 1) /\ i - 1 \in 0..Len(sorted)
        BY <1>2
      <4>2. Start(ends, i) \in 1..i
        BY <1>2, <1>3, <4>1, Starts
      <4>3. Start(ends, i) \in 1..(Len(sorted) + 1)
        BY <1>2, <4>1, <4>2
      <4> HIDE DEF Forget
      <4> QED  BY <1>7, <3>1, <4>1, <4>3
    <3>2. CASE i \notin ends
      <4>1. <<>> \in Seq(Orders(g)) /\ DOMAIN <<>> = {}
        OBVIOUS
      <4> QED  BY <3>2, <4>1 DEF Quiet
    <3> QED  BY <3>1, <3>2
  <2> HIDE DEF rest
  <2>3. Quiet(g, <<ComputeForward(sorted[i])>> \o rest)
    BY <2>1, <2>2, QuietConcatenation
  <2> QED  BY <2>3 DEF rest
<1> HIDE DEF Forward, b
<1>10. Quiet(g, FlattenSeq(fs))
  <2>1. DOMAIN fs = 1..Len(sorted) /\ \A i \in DOMAIN fs : fs[i] = Forward(i)
    BY <1>2
  <2>2. \A i \in DOMAIN fs : Quiet(g, fs[i])
    BY <1>2, <1>9, <2>1
  <2>3. fs = [i \in DOMAIN fs |-> fs[i]]
    BY Zenon
  <2> HIDE DEF fs
  <2>4. Len(fs) = Len(sorted)
    BY <1>2, <2>1, <2>3
  <2>5. DOMAIN fs = 1..Len(fs) /\ Len(fs) \in Nat
    BY <1>2, <2>1, <2>4
  <2> QED  BY <2>2, <2>3, <2>5, QuietFlattened
<1> HIDE DEF fs
<1>11. Quiet(g, FlattenSeq(fs) \o b)
  BY <1>8, <1>10, QuietConcatenation
<1>12. AgainstTheFlow(g, FlattenSeq(fs) \o b \o c) /\ Backwards(FlattenSeq(fs) \o b \o c) = Backwards(c)
  BY <1>6, <1>11, QuietBefore
<1> DEFINE a == FlattenSeq(fs) \o b \o c
           d == FlattenSeq(bs)
<1>13. ASSUME NEW n \in Backwards(c), NEW m \in Backwards(d) PROVE MayFollow(g, n, m)
  <2>1. PICK x \in last..Len(sorted) : n = sorted[x]
    BY <1>6
  <2>2. PICK y \in 1..(last - 1) : m = sorted[y]
    BY <1>4
  <2>3. y < x /\ x \in DOMAIN sorted /\ y \in DOMAIN sorted
    BY <1>2, <1>5
  <2> QED  BY <2>1, <2>2, <2>3, PlacesMayFollow
<1>14. Backwards(c) \cup Backwards(d) = DOMAIN g.nodes
  <2>1. {sorted[k] : k \in last..Len(sorted)} \cup {sorted[k] : k \in 1..(last - 1)}
            = {sorted[k] : k \in 1..Len(sorted)}
    <3>1. \A k \in 1..Len(sorted) : k \in last..Len(sorted) \/ k \in 1..(last - 1)
      BY <1>2, <1>5
    <3>2. \A k \in last..Len(sorted) : k \in 1..Len(sorted)
      BY <1>2, <1>5
    <3>3. \A k \in 1..(last - 1) : k \in 1..Len(sorted)
      BY <1>2, <1>5
    <3> HIDE DEF sorted
    <3> QED  BY <3>1, <3>2, <3>3
  <2>2. {sorted[k] : k \in 1..Len(sorted)} = DOMAIN g.nodes
    BY <1>2, SortedAscends DEF Elements
  <2> QED  BY <1>4, <1>6, <2>1, <2>2
<1>15. AgainstTheFlow(g, d)
  BY <1>4
<1>16. AgainstTheFlow(g, a) /\ Backwards(a) = Backwards(c)
  BY <1>12
<1> HIDE DEF a, d, sorted
<1>17. Proper(g, a \o d)
  <2>1. AllMayFollow(g, a, d)
    BY <1>13, <1>16 DEF AllMayFollow
  <2>2. Backwards(a) \cup Backwards(d) = DOMAIN g.nodes
    BY <1>14, <1>16
  <2> QED  BY <1>15, <1>16, <2>1, <2>2, ProperInTwo
<1> QED  BY <1>1, <1>17 DEF a, d
-----------------------------------------------------------------------------
(* GT's policy goes back level by level.                                   *)

LEMMA Origins ==
    ASSUME NEW g, IsModel(g), NEW v \in Vertices(g)
    PROVE  /\ Producer(g.nodes, v) \in DOMAIN g.nodes
           /\ v \in Elements(g.nodes[Producer(g.nodes, v)].outs)
           /\ \A i \in DOMAIN g.nodes : v \in Elements(g.nodes[i].outs) => i = Producer(g.nodes, v)
<1>1. \E i \in DOMAIN g.nodes : v \in Elements(g.nodes[i].outs)
  BY DEF Vertices, ComputedBy
<1>2. /\ Producer(g.nodes, v) \in DOMAIN g.nodes
      /\ v \in Elements(g.nodes[Producer(g.nodes, v)].outs)
  BY <1>1 DEF Producer
<1>3. \A i, j \in DOMAIN g.nodes : \A x \in DOMAIN g.nodes[i].outs, y \in DOMAIN g.nodes[j].outs :
          g.nodes[i].outs[x] = g.nodes[j].outs[y] => i = j
  BY DEF IsModel
<1>4. \A i, j \in DOMAIN g.nodes :
          v \in Elements(g.nodes[i].outs) /\ v \in Elements(g.nodes[j].outs) => i = j
  BY <1>3 DEF Elements
<1> QED  BY <1>2, <1>4

\* The values in the order of the nodes that compute them.
LEMMA ValuesInOrder ==
    ASSUME NEW g, IsModel(g)
    PROVE  LET values == OutputsOf(g, Sorted(g))
           IN  /\ values \in Seq(Vertices(g)) /\ Elements(values) = Vertices(g) /\ Distinct(values)
               /\ \A i, k \in DOMAIN values : i < k =>
                     Rank(g)[Producer(g.nodes, values[i])] <= Rank(g)[Producer(g.nodes, values[k])]
<1> DEFINE sorted == Sorted(g)
           ss == [k \in DOMAIN sorted |-> g.nodes[sorted[k]].outs]
           values == FlattenSeq(ss)
<1>1. g.nodes \in Seq(Nodes)
  BY ModelValues
<1>2. /\ sorted \in Seq(DOMAIN g.nodes) /\ Len(sorted) \in Nat
      /\ DOMAIN sorted = 1..Len(sorted) /\ \A k \in DOMAIN sorted : sorted[k] \in DOMAIN g.nodes
  BY Ranks
<1>3. /\ Distinct(sorted) /\ Elements(sorted) = DOMAIN g.nodes
      /\ \A k \in DOMAIN sorted : Rank(g)[sorted[k]] = k
  BY ModelOrder DEF Sorted
<1> HIDE DEF sorted
<1>4. /\ ss \in Seq(Seq(Nat)) /\ Len(ss) = Len(sorted)
      /\ \A k \in 1..Len(ss) : ss[k] = g.nodes[sorted[k]].outs /\ DOMAIN ss[k] = 1..Len(ss[k])
  <2>1. /\ ss \in Seq(Seq(Nat)) /\ Len(ss) = Len(sorted)
        /\ \A k \in 1..Len(sorted) : ss[k] = g.nodes[sorted[k]].outs
    BY <1>1, <1>2, OutsOfSome
  <2> HIDE DEF ss
  <2> QED  BY <2>1
<1> HIDE DEF ss
<1>5. /\ values \in Seq(Nat) /\ Elements(values) = UNION {Elements(ss[k]) : k \in 1..Len(ss)}
      /\ DOMAIN values = 1..Len(values)
  BY <1>4, FlattenElements
<1>6. PICK b, o : Flattens(b, o, values, ss, Len(ss))
  BY <1>4, FlattenSeqFlattens
<1> HIDE DEF values
<1>7. Elements(values) = Vertices(g)
  <2>1. ASSUME NEW v \in Elements(values) PROVE v \in Vertices(g)
    <3>1. PICK k \in 1..Len(ss) : v \in Elements(ss[k])
      BY <1>5
    <3> QED  BY <1>2, <1>4, <3>1 DEF Vertices, ComputedBy
  <2>2. ASSUME NEW v \in Vertices(g) PROVE v \in Elements(values)
    <3>1. PICK i \in DOMAIN g.nodes : v \in Elements(g.nodes[i].outs)
      BY DEF Vertices, ComputedBy
    <3>2. PICK k \in 1..Len(sorted) : sorted[k] = i
      BY <1>2, <1>3 DEF Elements
    <3> QED  BY <1>4, <1>5, <3>1, <3>2
  <2> QED  BY <2>1, <2>2
<1>8. \A i \in DOMAIN values :
          /\ b[i] \in 1..Len(sorted) /\ o[i] \in DOMAIN g.nodes[sorted[b[i]]].outs
          /\ values[i] = g.nodes[sorted[b[i]]].outs[o[i]]
          /\ values[i] \in Vertices(g) /\ Producer(g.nodes, values[i]) = sorted[b[i]]
  <2> SUFFICES ASSUME NEW i \in DOMAIN values
               PROVE  /\ b[i] \in 1..Len(sorted) /\ o[i] \in DOMAIN g.nodes[sorted[b[i]]].outs
                      /\ values[i] = g.nodes[sorted[b[i]]].outs[o[i]]
                      /\ values[i] \in Vertices(g) /\ Producer(g.nodes, values[i]) = sorted[b[i]]
    OBVIOUS
  <2>1. b[i] \in 1..Len(ss) /\ o[i] \in 1..Len(ss[b[i]]) /\ values[i] = ss[b[i]][o[i]]
    BY <1>5, <1>6 DEF Flattens
  <2>2. /\ b[i] \in 1..Len(sorted) /\ o[i] \in DOMAIN g.nodes[sorted[b[i]]].outs
        /\ values[i] = g.nodes[sorted[b[i]]].outs[o[i]]
    BY <1>4, <2>1
  <2>3. values[i] \in Vertices(g)
    BY <1>7 DEF Elements
  <2>4. sorted[b[i]] \in DOMAIN g.nodes /\ values[i] \in Elements(g.nodes[sorted[b[i]]].outs)
    BY <1>2, <2>2 DEF Elements
  <2>5. Producer(g.nodes, values[i]) = sorted[b[i]]
    BY <2>3, <2>4, Origins
  <2> QED  BY <2>2, <2>3, <2>5
<1>9. ASSUME NEW i \in DOMAIN values, NEW k \in DOMAIN values, i < k
      PROVE  /\ values[i] # values[k]
             /\ Rank(g)[Producer(g.nodes, values[i])] <= Rank(g)[Producer(g.nodes, values[k])]
  <2>1. b[i] < b[k] \/ (b[i] = b[k] /\ o[i] < o[k])
    BY <1>5, <1>6, <1>9 DEF Flattens
  <2>2. b[i] \in 1..Len(sorted) /\ b[k] \in 1..Len(sorted)
    BY <1>8
  <2>3. b[i] <= b[k]
    BY <1>2, <2>1, <2>2
  <2>4. Rank(g)[sorted[b[i]]] = b[i] /\ Rank(g)[sorted[b[k]]] = b[k]
    BY <1>2, <1>3, <2>2
  <2>5. values[i] # values[k]
    <3> SUFFICES ASSUME values[i] = values[k] PROVE FALSE
      OBVIOUS
    <3>1. \A x, y \in DOMAIN g.nodes : \A u \in DOMAIN g.nodes[x].outs, w \in DOMAIN g.nodes[y].outs :
              g.nodes[x].outs[u] = g.nodes[y].outs[w] => x = y /\ u = w
      BY DEF IsModel
    <3>2. sorted[b[i]] = sorted[b[k]] /\ o[i] = o[k]
      <4>1. sorted[b[i]] \in DOMAIN g.nodes /\ sorted[b[k]] \in DOMAIN g.nodes
        BY <1>2, <2>2
      <4>2. /\ o[i] \in DOMAIN g.nodes[sorted[b[i]]].outs /\ o[k] \in DOMAIN g.nodes[sorted[b[k]]].outs
            /\ g.nodes[sorted[b[i]]].outs[o[i]] = g.nodes[sorted[b[k]]].outs[o[k]]
        BY <1>8
      <4> QED  BY <3>1, <4>1, <4>2
    <3>3. b[i] = b[k]
      BY <2>4, <3>2
    <3>4. o \in [1..Len(values) -> Nat]
      BY <1>6 DEF Flattens
    <3>5. o[i] \in Nat /\ o[k] \in Nat
      BY <1>5, <3>4
    <3> QED  BY <2>1, <2>2, <3>2, <3>3, <3>5
  <2> QED  BY <1>8, <2>3, <2>4, <2>5
<1>10. Distinct(values)
  <2> SUFFICES ASSUME NEW i \in DOMAIN values, NEW k \in DOMAIN values, values[i] = values[k]
               PROVE  i = k
    BY DEF Distinct
  <2>1. ~(i < k) /\ ~(k < i)
    BY <1>9
  <2> QED  BY <1>5, <2>1
<1>11. values \in Seq(Vertices(g))
  BY <1>5, <1>8
<1>12. values = OutputsOf(g, Sorted(g))
  BY DEF values, ss, sorted, OutputsOf
<1> QED  BY <1>7, <1>9, <1>10, <1>11, <1>12

\* What v is computed from.
LEMMA BelowIsClosed ==
    ASSUME NEW g, IsModel(g), NEW v \in Vertices(g)
    PROVE  /\ Below(g, v) \subseteq Vertices(g)
           /\ \A u, w \in Vertices(g) : Edge(g, u, w) /\ w \in Below(g, v) => u \in Below(g, v)
<1> DEFINE V == Vertices(g)
           n == Len(g.nodes)
           R == {p \in V \X V : Edge(g, p[2], p[1])}
           rank == [u \in V |-> Rank(g)[Producer(g.nodes, u)]]
           start == {v}
<1>1. rank \in [V -> 1..n] /\ n \in Nat
  <2>1. \A u \in V : Producer(g.nodes, u) \in DOMAIN g.nodes
    BY Origins
  <2> QED  BY <2>1, Ranks
<1>2. R \subseteq V \X V /\ start \subseteq V
  OBVIOUS
<1>3. ASSUME NEW u \in V, NEW w \in V, Edge(g, u, w) PROVE rank[u] < rank[w]
  <2>1. PICK i \in DOMAIN g.nodes : u \in Elements(g.nodes[i].ins) /\ w \in Elements(g.nodes[i].outs)
    BY <1>3 DEF Edge
  <2>2. i = Producer(g.nodes, w)
    BY <2>1, Origins
  <2>3. Producer(g.nodes, u) \in DOMAIN g.nodes /\ u \in Elements(g.nodes[Producer(g.nodes, u)].outs)
    BY Origins
  <2>4. Feeds(g, Producer(g.nodes, u), i)
    BY <2>1, <2>3 DEF Feeds
  <2>5. Rank(g)[Producer(g.nodes, u)] < Rank(g)[i]
    BY <2>3, <2>4, ModelOrder
  <2> QED  BY <2>2, <2>5
<1>4. \A q \in R : rank[q[2]] < rank[q[1]]
  <2> HIDE DEF rank
  <2> QED  BY <1>3
<1>5. \A u, w \in V : Edge(g, u, w) => <<w, u>> \in R
  OBVIOUS
<1>6. Below(g, v) = Reached(start, R, n)
  BY DEF Below
<1> HIDE DEF V, n, R, rank, start
<1>7. ClosedUnder(R, V, start, Reached(start, R, n))
  <2>1. R \subseteq V \X V
    BY <1>2
  <2>2. start \subseteq V
    BY <1>2
  <2>3. rank \in [V -> 1..n]
    BY <1>1
  <2>4. n \in Nat
    BY <1>1
  <2> QED  BY ONLY <2>1, <2>2, <2>3, <2>4, <1>4, ReachedIsClosed
<1>8. Reached(start, R, n) \subseteq V
      /\ \A q \in R : q[1] \in Reached(start, R, n) => q[2] \in Reached(start, R, n)
  BY <1>7 DEF ClosedUnder
<1>9. ASSUME NEW u \in V, NEW w \in V, Edge(g, u, w), w \in Reached(start, R, n)
      PROVE  u \in Reached(start, R, n)
  <2>1. <<w, u>> \in R /\ <<w, u>>[1] = w /\ <<w, u>>[2] = u
    BY <1>5, <1>9
  <2> QED  BY <1>8, <1>9, <2>1
<1> QED  BY <1>6, <1>8, <1>9 DEF V

\* Every value has a level, and what it is computed from none above.
LEMMA Levels ==
    ASSUME NEW g, IsModel(g), NEW chain \in Chains(g)
    PROVE  /\ Cardinality(chain) - 1 \in Nat
           /\ \A v \in Vertices(g) : Level(chain, v) \in 1..(Cardinality(chain) - 1)
           /\ \A u, v \in Vertices(g) : Edge(g, u, v) => Level(chain, u) <= Level(chain, v)
<1> DEFINE V == Vertices(g)
           L(v) == {ls \in chain : v \notin ls}
<1>1. \A ls \in chain : ls \subseteq V /\ \A u, w \in V : Edge(g, u, w) /\ w \in ls => u \in ls
  <2> SUFFICES ASSUME NEW ls \in chain
               PROVE  ls \subseteq V /\ \A u, w \in V : Edge(g, u, w) /\ w \in ls => u \in ls
    OBVIOUS
  <2>1. ls \in EnumerateLowerSets(g)
    BY DEF Chains
  <2>2. ls = {} \/ ls = V \/ \E v \in V : ls = Below(g, v)
    BY <2>1 DEF EnumerateLowerSets
  <2> QED  BY <2>2, BelowIsClosed
<1>2. {} \in chain /\ V \in chain
  BY DEF Chains
<1>3. IsFiniteSet(chain)
  <2>1. IsFiniteSet(V)
    <3> DEFINE n == Cardinality(Values(g))
    <3>1. n \in Nat /\ V \subseteq 1..n
      BY ModelValues DEF Vertices
    <3> HIDE DEF n
    <3>2. IsFiniteSet(1..n)
      BY <3>1, Interval
    <3> QED  BY <3>1, <3>2, FS_Subset
  <2>2. IsFiniteSet(SUBSET V)
    BY <2>1, FS_SUBSET
  <2>3. chain \subseteq SUBSET V
    BY <1>1
  <2> QED  BY <2>2, <2>3, FS_Subset
<1>4. Cardinality(chain) \in Nat
  BY <1>3, FS_CardinalityType
<1>5. ASSUME NEW v PROVE IsFiniteSet(L(v)) /\ Cardinality(L(v)) \in Nat
  <2>1. L(v) \subseteq chain
    OBVIOUS
  <2> HIDE DEF L
  <2>2. IsFiniteSet(L(v))
    BY <1>3, <2>1, FS_Subset
  <2> QED  BY <2>2, FS_CardinalityType
<1>6. ASSUME NEW v \in V PROVE Cardinality(L(v)) \in 1..(Cardinality(chain) - 1)
  <2>1. L(v) \subseteq chain /\ L(v) # chain
    BY <1>2
  <2>2. {} \in L(v)
    BY <1>2
  <2> HIDE DEF L
  <2>3. Cardinality(L(v)) < Cardinality(chain)
    <3>1. Cardinality(L(v)) <= Cardinality(chain)
          /\ (Cardinality(L(v)) = Cardinality(chain) => L(v) = chain)
      BY <1>3, <2>1, FS_Subset
    <3> QED  BY <1>4, <1>5, <2>1, <3>1
  <2>4. Cardinality(L(v)) # 0
    BY <1>5, <2>2, FS_EmptySet
  <2> QED  BY <1>4, <1>5, <2>3, <2>4
<1>7. Cardinality(chain) - 1 \in Nat
  <2>1. Cardinality(chain) # 0
    BY <1>2, <1>3, FS_EmptySet
  <2> QED  BY <1>4, <2>1
<1>8. ASSUME NEW u \in V, NEW v \in V, Edge(g, u, v) PROVE Cardinality(L(u)) <= Cardinality(L(v))
  <2>1. L(u) \subseteq L(v)
    BY <1>1, <1>8
  <2> HIDE DEF L
  <2> QED  BY <1>5, <2>1, FS_Subset
<1>9. \A v : Level(chain, v) = Cardinality(L(v))
  BY DEF Level
<1> QED  BY <1>6, <1>7, <1>8, <1>9 DEF V

\* The nodes that compute some values.
Producers(g, vs) == [k \in DOMAIN vs |-> Producer(g.nodes, vs[k])]

LEMMA ProducersAre ==
    ASSUME NEW g, IsModel(g), NEW s \in Seq(Vertices(g))
    PROVE  /\ Producers(g, s) \in Seq(DOMAIN g.nodes) /\ DOMAIN Producers(g, s) = 1..Len(s)
           /\ Len(Producers(g, s)) = Len(s)
           /\ \A k \in 1..Len(s) : Producers(g, s)[k] = Producer(g.nodes, s[k]) /\ s[k] \in Vertices(g)
<1>1. DOMAIN s = 1..Len(s) /\ Len(s) \in Nat /\ \A k \in 1..Len(s) : s[k] \in Vertices(g)
  OBVIOUS
<1>2. \A k \in 1..Len(s) : Producer(g.nodes, s[k]) \in DOMAIN g.nodes
  BY <1>1, Origins
<1>3. Producers(g, s) = [k \in 1..Len(s) |-> Producer(g.nodes, s[k])]
  BY <1>1 DEF Producers
<1>4. Producers(g, s) \in Seq(DOMAIN g.nodes) /\ Len(Producers(g, s)) = Len(s)
  BY <1>1, <1>2, <1>3
<1> QED  BY <1>1, <1>3, <1>4

\* No node has two outputs.
OneOutputEach(g) ==
    \A n \in DOMAIN g.nodes : \A v, w \in Elements(g.nodes[n].outs) : v = w

\* The gradients of the nodes that compute the values of S, one for each.
BackFrom(g, S) ==
    Each(Producers(g, Reverse(Among(OutputsOf(g, Sorted(g)), S))), ComputeBackward)

LEMMA BackFromType ==
    ASSUME NEW g, IsModel(g), NEW S
    PROVE  BackFrom(g, S) \in Seq(Orders(g))
<1> DEFINE block == Among(OutputsOf(g, Sorted(g)), S)
           s     == Producers(g, Reverse(block))
<1>1. block \in Seq(Vertices(g))
  BY ValuesInOrder, AmongElements
<1> HIDE DEF block
<1>2. Reverse(block) \in Seq(Vertices(g))
  BY <1>1, Reversed
<1>3. s \in Seq(DOMAIN g.nodes)
  BY <1>2, ProducersAre
<1> HIDE DEF s
<1>4. \A k \in DOMAIN s : s[k] \in DOMAIN g.nodes /\ s[k] \in Nat
  <2>1. g.nodes \in Seq(Nodes)
    BY ModelValues
  <2> QED  BY <1>3, <2>1
<1>5. \A k \in DOMAIN s : ComputeBackward(s[k]) \in Orders(g)
  BY <1>4 DEF ComputeBackward, Orders
<1>6. Each(s, ComputeBackward) = [k \in 1..Len(s) |-> ComputeBackward(s[k])]
  BY <1>3 DEF Each
<1> HIDE DEF ComputeBackward
<1>7. Each(s, ComputeBackward) \in Seq(Orders(g))
  BY <1>3, <1>5, <1>6
<1> QED  BY <1>7 DEF BackFrom, s, block

LEMMA BackFromFlows ==
    ASSUME NEW g, IsModel(g), OneOutputEach(g), NEW S, S \subseteq Vertices(g)
    PROVE  /\ AgainstTheFlow(g, BackFrom(g, S))
           /\ Backwards(BackFrom(g, S)) = {Producer(g.nodes, v) : v \in S}
<1> DEFINE values == OutputsOf(g, Sorted(g))
           block  == Among(values, S)
           back   == Reverse(block)
           s      == Producers(g, back)
<1>1. /\ values \in Seq(Vertices(g)) /\ Elements(values) = Vertices(g) /\ Distinct(values)
      /\ \A i, k \in DOMAIN values : i < k =>
            Rank(g)[Producer(g.nodes, values[i])] <= Rank(g)[Producer(g.nodes, values[k])]
  BY ValuesInOrder
<1> HIDE DEF values
<1>2. /\ block \in Seq(Vertices(g)) /\ Elements(block) = S
      /\ DOMAIN block = 1..Len(block) /\ Len(block) \in Nat
  <2>1. block \in Seq(Vertices(g)) /\ Elements(block) = Elements(values) \cap S
    BY <1>1, AmongElements
  <2> HIDE DEF block
  <2> QED  BY <1>1, <2>1
<1>3. \A i, k \in DOMAIN block : i < k =>
          /\ block[i] # block[k]
          /\ Rank(g)[Producer(g.nodes, block[i])] <= Rank(g)[Producer(g.nodes, block[k])]
  <2>1. PICK p : Selects(p, block, values, S, Len(values))
    BY <1>1, AmongSelects
  <2>2. DOMAIN values = 1..Len(values) /\ Len(values) \in Nat
    BY <1>1
  <2> HIDE DEF block
  <2> SUFFICES ASSUME NEW i \in DOMAIN block, NEW k \in DOMAIN block, i < k
               PROVE  /\ block[i] # block[k]
                      /\ Rank(g)[Producer(g.nodes, block[i])] <= Rank(g)[Producer(g.nodes, block[k])]
    OBVIOUS
  <2>3. p[i] \in DOMAIN values /\ p[k] \in DOMAIN values /\ p[i] < p[k]
        /\ block[i] = values[p[i]] /\ block[k] = values[p[k]]
    BY <1>2, <2>1, <2>2 DEF Selects
  <2>4. p[i] # p[k]
    BY <2>2, <2>3
  <2> QED  BY <1>1, <2>3, <2>4 DEF Distinct
<1> HIDE DEF block
<1>4. /\ back \in Seq(Vertices(g)) /\ Len(back) = Len(block) /\ Elements(back) = S
      /\ \A i \in 1..Len(block) : back[i] = block[Len(block) - i + 1] /\ Len(block) - i + 1 \in 1..Len(block)
  <2>1. /\ back \in Seq(Vertices(g)) /\ Len(back) = Len(block) /\ Elements(back) = Elements(block)
        /\ \A i \in 1..Len(block) : back[i] = block[Len(block) - i + 1] /\ Len(block) - i + 1 \in 1..Len(block)
    BY <1>2, Reversed
  <2> HIDE DEF back
  <2> QED  BY <1>2, <2>1
<1> HIDE DEF back
<1>5. /\ s \in Seq(DOMAIN g.nodes) /\ DOMAIN s = 1..Len(block)
      /\ \A k \in 1..Len(block) : s[k] = Producer(g.nodes, back[k]) /\ back[k] \in Vertices(g)
  BY <1>4, ProducersAre
<1> HIDE DEF s
<1>6. ASSUME NEW i \in DOMAIN s, NEW k \in DOMAIN s, i < k PROVE MayFollow(g, s[i], s[k])
  <2> DEFINE x == back[i]  y == back[k]
  <2>1. /\ s[i] = Producer(g.nodes, x) /\ s[k] = Producer(g.nodes, y)
        /\ x \in Vertices(g) /\ y \in Vertices(g)
    BY <1>5
  <2>2. /\ x # y
        /\ Rank(g)[Producer(g.nodes, y)] <= Rank(g)[Producer(g.nodes, x)]
    <3>1. /\ i \in 1..Len(block) /\ k \in 1..Len(block)
          /\ x = block[Len(block) - i + 1] /\ y = block[Len(block) - k + 1]
      BY <1>4, <1>5
    <3>2. /\ Len(block) - k + 1 \in DOMAIN block /\ Len(block) - i + 1 \in DOMAIN block
          /\ Len(block) - k + 1 < Len(block) - i + 1
      BY <1>2, <1>4, <1>6, <3>1, SMTT(60)
    <3> QED  BY <1>3, <3>1, <3>2
  <2> HIDE DEF x, y
  <2>3. s[i] # s[k]
    BY <2>1, <2>2, Origins DEF OneOutputEach
  <2>4. s[i] \in DOMAIN g.nodes /\ s[k] \in DOMAIN g.nodes
    BY <2>1, Origins
  <2>5. Rank(g)[s[i]] \in Nat /\ Rank(g)[s[k]] \in Nat
    BY <2>4, Ranks
  <2>6. Feeds(g, s[i], s[k]) => Rank(g)[s[i]] < Rank(g)[s[k]]
    BY <2>4, ModelOrder
  <2> QED  BY <2>1, <2>2, <2>3, <2>5, <2>6 DEF MayFollow
<1>7. Elements(s) = {Producer(g.nodes, v) : v \in S}
  <2>1. DOMAIN back = 1..Len(block)
    BY <1>4
  <2> QED  BY <1>4, <1>5, <2>1 DEF Elements
<1>8. /\ AgainstTheFlow(g, Each(s, ComputeBackward))
      /\ Backwards(Each(s, ComputeBackward)) = Elements(s)
  BY <1>5, <1>6, BackwardOrders
<1> QED  BY <1>7, <1>8 DEF BackFrom, s, back, block, values

\* The gradients may be taken of one level after those of the levels above.
LEMMA LevelsMayFollow ==
    ASSUME NEW g, IsModel(g), OneOutputEach(g), NEW chain \in Chains(g),
           NEW x \in Vertices(g), NEW y \in Vertices(g), Level(chain, y) < Level(chain, x)
    PROVE  MayFollow(g, Producer(g.nodes, x), Producer(g.nodes, y))
<1>1. /\ Level(chain, x) \in Nat /\ Level(chain, y) \in Nat
  BY Levels
<1>2. x # y /\ ~Edge(g, x, y)
  <2>1. Edge(g, x, y) => Level(chain, x) <= Level(chain, y)
    BY Levels
  <2> QED  BY <1>1, <2>1
<1>3. /\ Producer(g.nodes, x) \in DOMAIN g.nodes /\ Producer(g.nodes, y) \in DOMAIN g.nodes
      /\ x \in Elements(g.nodes[Producer(g.nodes, x)].outs)
      /\ y \in Elements(g.nodes[Producer(g.nodes, y)].outs)
  BY Origins
<1>4. Producer(g.nodes, x) # Producer(g.nodes, y)
  BY <1>2, <1>3 DEF OneOutputEach
<1>5. ~Feeds(g, Producer(g.nodes, x), Producer(g.nodes, y))
  <2> SUFFICES ASSUME NEW w \in Elements(g.nodes[Producer(g.nodes, x)].outs),
                      w \in Elements(g.nodes[Producer(g.nodes, y)].ins)
               PROVE  FALSE
    BY DEF Feeds
  <2>1. w = x
    BY <1>3 DEF OneOutputEach
  <2> QED  BY <1>2, <1>3, <2>1 DEF Edge
<1> QED  BY <1>4, <1>5 DEF MayFollow

\* The nodes of some values are computed, then some values are forgotten.
ForwardBlock(g, os, block, forgets) ==
    /\ os \in Seq(Orders(g)) /\ Len(block) <= Len(os)
    /\ \A m \in DOMAIN os :
          IF m <= Len(block) THEN IsForward(os[m], Producer(g.nodes, block[m]))
          ELSE \E x \in forgets : IsForget(os[m], x)

LEMMA ForwardBlocks ==
    ASSUME NEW g, IsModel(g), NEW block \in Seq(Vertices(g)), NEW forgets \in SUBSET Vertices(g)
    PROVE  LET os == Each(Producers(g, block), ComputeForward)
                     \o Each(InOrder(forgets), ForgetForward)
           IN  ForwardBlock(g, os, block, forgets) /\ Quiet(g, os)
<1> DEFINE a == Each(Producers(g, block), ComputeForward)
           b == Each(InOrder(forgets), ForgetForward)
           os == a \o b
           n == Cardinality(Values(g))
<1>1. /\ Producers(g, block) \in Seq(DOMAIN g.nodes) /\ Len(Producers(g, block)) = Len(block)
      /\ \A k \in 1..Len(block) : Producers(g, block)[k] = Producer(g.nodes, block[k])
  BY ProducersAre
<1>2. /\ a \in Seq(Orders(g)) /\ Len(a) = Len(block)
      /\ \A k \in 1..Len(block) : IsForward(a[k], Producer(g.nodes, block[k]))
  <2> DEFINE s == Producers(g, block)
  <2>1. s \in Seq(DOMAIN g.nodes)
    BY <1>1
  <2> HIDE DEF s
  <2>2. /\ Each(s, ComputeForward) \in Seq(Orders(g)) /\ Len(Each(s, ComputeForward)) = Len(s)
        /\ \A i \in 1..Len(s) : IsForward(Each(s, ComputeForward)[i], s[i])
    BY <2>1, ForwardOrders
  <2> QED  BY <1>1, <2>2 DEF s
<1>3. n \in Nat /\ forgets \in SUBSET (1..n)
  BY ModelValues DEF Vertices
<1>4. InOrder(forgets) \in Seq(Nat) /\ Elements(InOrder(forgets)) = forgets
  <2> HIDE DEF n
  <2> QED  BY <1>3, InOrderLists
<1>5. /\ b \in Seq(Orders(g)) /\ Len(b) = Len(InOrder(forgets))
      /\ \A k \in 1..Len(InOrder(forgets)) : IsForget(b[k], InOrder(forgets)[k])
  <2> DEFINE s == InOrder(forgets)
  <2>1. s \in Seq(Nat)
    BY <1>4
  <2> HIDE DEF s
  <2>2. /\ Each(s, ForgetForward) \in Seq(Orders(g)) /\ Len(Each(s, ForgetForward)) = Len(s)
        /\ \A i \in 1..Len(s) : IsForget(Each(s, ForgetForward)[i], s[i])
    BY <2>1, ForgetOrders
  <2> QED  BY <2>2 DEF s
<1>6. Quiet(g, os)
  <2>1. Quiet(g, a)
    BY <1>1, QuietForwards
  <2>2. Quiet(g, b)
    BY <1>4, QuietForgets
  <2> HIDE DEF a, b
  <2> QED  BY <2>1, <2>2, QuietConcatenation
<1>7. \A k \in 1..Len(b) : \E x \in forgets : IsForget(b[k], x)
  <2>1. DOMAIN InOrder(forgets) = 1..Len(InOrder(forgets))
    BY <1>4
  <2> HIDE DEF b
  <2> QED  BY <1>4, <1>5, <2>1 DEF Elements
<1> HIDE DEF a, b
<1>8. /\ os \in Seq(Orders(g)) /\ DOMAIN os = 1..Len(os) /\ Len(os) = Len(a) + Len(b)
      /\ Len(a) \in Nat /\ Len(b) \in Nat
      /\ \A i \in 1..Len(a) : os[i] = a[i]
      /\ \A i \in 1..Len(os) : i \in 1..Len(a) \/ (i > Len(a) /\ i - Len(a) \in 1..Len(b)
                                                      /\ os[i] = b[i - Len(a)])
  <2>1. /\ os \in Seq(Orders(g)) /\ Len(os) = Len(a) + Len(b)
        /\ \A i \in 1..Len(a) : os[i] = a[i]
        /\ \A i \in 1..Len(os) : i \in 1..Len(a) \/ (i > Len(a) /\ i - Len(a) \in 1..Len(b)
                                                        /\ os[i] = b[i - Len(a)])
    BY <1>2, <1>5, Concatenation
  <2>2. Len(a) \in Nat /\ Len(b) \in Nat
    BY <1>2, <1>5
  <2> HIDE DEF os
  <2> QED  BY <2>1, <2>2
<1> HIDE DEF os
<1>9. ASSUME NEW m \in DOMAIN os, m <= Len(block)
      PROVE  IsForward(os[m], Producer(g.nodes, block[m]))
  BY <1>2, <1>8, <1>9
<1>10. ASSUME NEW m \in DOMAIN os, ~(m <= Len(block))
       PROVE  \E x \in forgets : IsForget(os[m], x)
  <2>1. m - Len(a) \in 1..Len(b) /\ os[m] = b[m - Len(a)]
    BY <1>2, <1>8, <1>10
  <2> QED  BY <1>7, <2>1
<1>11. Len(block) <= Len(os)
  BY <1>2, <1>8
<1>12. ForwardBlock(g, os, block, forgets)
  BY <1>8, <1>9, <1>10, <1>11 DEF ForwardBlock
<1> QED  BY <1>6, <1>12 DEF os, a, b

LEMMA TwiceAt ==
    ASSUME NEW g, NEW c, DOMAIN c = 1..Len(c), Len(c) \in Nat,
           NEW i \in DOMAIN c, NEW k \in DOMAIN c, i < k,
           NEW n \in DOMAIN g.nodes, NEW v \in Elements(g.nodes[n].outs),
           IsForward(c[i], n), IsForward(c[k], n),
           \A f \in DOMAIN c : f < k => ~IsForget(c[f], v)
    PROVE  ComputedTwice(g, c, Len(c) + 1)
<1>1. k < Len(c) + 1
  OBVIOUS
<1>2. \A f \in DOMAIN c : i < f /\ f < k => ~IsForget(c[f], v)
  OBVIOUS
<1>3. \E u \in Elements(g.nodes[n].outs) :
         /\ i < k /\ k < Len(c) + 1
         /\ IsForward(c[i], n) /\ IsForward(c[k], n)
         /\ \A f \in DOMAIN c : i < f /\ f < k => ~IsForget(c[f], u)
  BY <1>1, <1>2
<1> QED  BY <1>3 DEF ComputedTwice

\* Each level is computed in a block and forgets values of its own.
InBlocks(g, fs, block, forgets, level) ==
    /\ fs \in Seq(Seq(Orders(g)))
    /\ level \in [Vertices(g) -> 1..Len(fs)]
    /\ \A i \in 1..Len(fs) : /\ ForwardBlock(g, fs[i], block[i], forgets[i])
                             /\ block[i] \in Seq(Vertices(g))
                             /\ forgets[i] \subseteq Elements(block[i])
                             /\ Elements(block[i]) = {v \in Vertices(g) : level[v] = i}

\* A node with two outputs is computed once for each.
LEMMA TwiceInBlocks ==
    ASSUME NEW g, IsModel(g), NEW fs, NEW block, NEW forgets, NEW level,
           InBlocks(g, fs, block, forgets, level), ~OneOutputEach(g)
    PROVE  ComputedTwice(g, FlattenSeq(fs), Len(FlattenSeq(fs)) + 1)
<1> DEFINE c   == FlattenSeq(fs)
           len == Len(fs)
<1>0. /\ fs \in Seq(Seq(Orders(g))) /\ len \in Nat
      /\ level \in [Vertices(g) -> 1..len]
      /\ \A i \in 1..len : /\ ForwardBlock(g, fs[i], block[i], forgets[i])
                            /\ block[i] \in Seq(Vertices(g))
                            /\ forgets[i] \subseteq Elements(block[i])
                            /\ Elements(block[i]) = {v \in Vertices(g) : level[v] = i}
  <2>1. fs \in Seq(Seq(Orders(g)))
    BY DEF InBlocks
  <2> QED  BY <2>1 DEF InBlocks
<1>1. c \in Seq(Orders(g)) /\ DOMAIN c = 1..Len(c) /\ Len(c) \in Nat
  BY <1>0, FlattenSeqFlattens
<1>2. PICK b, o : Flattens(b, o, c, fs, len)
  BY <1>0, FlattenSeqFlattens
<1> HIDE DEF c, len
<1>3. PICK n \in DOMAIN g.nodes : \E v, w \in Elements(g.nodes[n].outs) : v # w
  BY DEF OneOutputEach
<1>4. \A x \in Elements(g.nodes[n].outs) : x \in Vertices(g) /\ Producer(g.nodes, x) = n
  <2> SUFFICES ASSUME NEW x \in Elements(g.nodes[n].outs)
               PROVE  x \in Vertices(g) /\ Producer(g.nodes, x) = n
    OBVIOUS
  <2>1. x \in Vertices(g)
    BY DEF Vertices, ComputedBy
  <2> QED  BY <2>1, Origins
\* x has a place where n is computed, and is not forgotten before it.
<1>5. ASSUME NEW x \in Elements(g.nodes[n].outs)
      PROVE  \E p \in DOMAIN c :
                /\ IsForward(c[p], n) /\ block[b[p]][o[p]] = x
                /\ \A f \in DOMAIN c : f < p => ~IsForget(c[f], x)
  <2> DEFINE l == level[x]
  <2>1. x \in Vertices(g) /\ Producer(g.nodes, x) = n /\ l \in 1..len
    BY <1>0, <1>4
  <2>2. /\ ForwardBlock(g, fs[l], block[l], forgets[l]) /\ block[l] \in Seq(Vertices(g))
        /\ Elements(block[l]) = {u \in Vertices(g) : level[u] = l}
    BY <1>0, <2>1
  <2>3. x \in Elements(block[l])
    BY <2>1, <2>2
  <2> HIDE DEF l
  <2>4. DOMAIN block[l] = 1..Len(block[l]) /\ Len(block[l]) \in Nat
    BY <2>2
  <2>5. PICK m \in 1..Len(block[l]) : block[l][m] = x
    BY <2>3, <2>4 DEF Elements
  <2>6. fs[l] \in Seq(Orders(g)) /\ Len(block[l]) <= Len(fs[l])
    BY <2>2 DEF ForwardBlock
  <2>7. m \in DOMAIN fs[l] /\ m \in 1..Len(fs[l]) /\ m <= Len(block[l])
    BY <2>4, <2>6
  <2>8. IsForward(fs[l][m], n)
    BY <2>1, <2>2, <2>5, <2>7 DEF ForwardBlock
  <2>9. PICK p \in 1..Len(c) : b[p] = l /\ o[p] = m
    <3>1. \A k \in 1..len : \A y \in 1..Len(fs[k]) : \E i \in 1..Len(c) : b[i] = k /\ o[i] = y
      BY <1>2 DEF Flattens
    <3>2. \A y \in 1..Len(fs[l]) : \E i \in 1..Len(c) : b[i] = l /\ o[i] = y
      BY <2>1, <3>1
    <3> QED  BY <2>7, <3>2
  <2>10. c[p] = fs[l][m]
    BY <1>2, <2>9 DEF Flattens
  <2>11. ASSUME NEW f \in DOMAIN c, f < p, IsForget(c[f], x) PROVE FALSE
    <3>1. /\ b[f] \in 1..len /\ o[f] \in 1..Len(fs[b[f]]) /\ c[f] = fs[b[f]][o[f]]
          /\ b[f] < l \/ (b[f] = l /\ o[f] < m)
      <4>1. b[f] \in 1..len /\ o[f] \in 1..Len(fs[b[f]]) /\ c[f] = fs[b[f]][o[f]]
        BY <1>1, <1>2 DEF Flattens
      <4>2. b[f] < b[p] \/ (b[f] = b[p] /\ o[f] < o[p])
        BY <1>1, <1>2, <2>9, <2>11 DEF Flattens
      <4> QED  BY <2>9, <4>1, <4>2
    <3> DEFINE k == b[f]
    <3>2. /\ ForwardBlock(g, fs[k], block[k], forgets[k]) /\ forgets[k] \subseteq Elements(block[k])
          /\ Elements(block[k]) = {u \in Vertices(g) : level[u] = k}
      BY <1>0, <3>1
    <3>3. k \in 1..len /\ o[f] \in 1..Len(fs[k]) /\ c[f] = fs[k][o[f]] /\ (k < l \/ (k = l /\ o[f] < m))
      BY <3>1
    <3> HIDE DEF k
    <3>4. o[f] \in DOMAIN fs[k]
      BY <3>2, <3>3 DEF ForwardBlock
    <3>5. ~(o[f] <= Len(block[k]))
      <4> SUFFICES ASSUME o[f] <= Len(block[k]) PROVE FALSE
        OBVIOUS
      <4>1. IsForward(fs[k][o[f]], Producer(g.nodes, block[k][o[f]]))
        BY <3>2, <3>4 DEF ForwardBlock
      <4> QED  BY <2>11, <3>3, <4>1 DEF IsForward, IsForget
    <3>6. \E y \in forgets[k] : IsForget(fs[k][o[f]], y)
      BY <3>2, <3>4, <3>5 DEF ForwardBlock
    <3>7. x \in forgets[k]
      BY <2>11, <3>3, <3>6 DEF IsForget
    <3>8. k = l
      BY <3>2, <3>7 DEF l
    <3> QED  BY <2>4, <3>3, <3>5, <3>8
  <2> QED  BY <1>1, <2>5, <2>8, <2>9, <2>10, <2>11
<1> PICK v \in Elements(g.nodes[n].outs), w \in Elements(g.nodes[n].outs) : v # w
  BY <1>3
<1>6. PICK p \in DOMAIN c :
          /\ IsForward(c[p], n) /\ block[b[p]][o[p]] = v
          /\ \A f \in DOMAIN c : f < p => ~IsForget(c[f], v)
  BY <1>5
<1>7. PICK q \in DOMAIN c :
          /\ IsForward(c[q], n) /\ block[b[q]][o[q]] = w
          /\ \A f \in DOMAIN c : f < q => ~IsForget(c[f], w)
  BY <1>5
<1>8. p # q
  BY <1>3, <1>6, <1>7
<1>9. p < q \/ q < p
  BY <1>1, <1>8
<1>10. ASSUME p < q PROVE ComputedTwice(g, c, Len(c) + 1)
  BY <1>1, <1>6, <1>7, <1>10, TwiceAt
<1>11. ASSUME q < p PROVE ComputedTwice(g, c, Len(c) + 1)
  BY <1>1, <1>6, <1>7, <1>11, TwiceAt
<1> QED  BY <1>9, <1>10, <1>11 DEF c

\* What follows such orders is not reached.
LEMMA ProperAfterTwice ==
    ASSUME NEW g, IsModel(g), NEW a, Quiet(g, a), ComputedTwice(g, a, Len(a) + 1),
           NEW d, d \in Seq(Orders(g))
    PROVE  Proper(g, a \o d)
<1> DEFINE os == a \o d
<1>1. a \in Seq(Orders(g)) /\ DOMAIN a = 1..Len(a) /\ Len(a) \in Nat
  BY DEF Quiet
<1>2. /\ os \in Seq(Orders(g)) /\ DOMAIN os = 1..Len(os)
      /\ \A i \in DOMAIN a : i \in DOMAIN os /\ os[i] = a[i]
      /\ \A i \in DOMAIN os : i \in DOMAIN a \/ i > Len(a)
  <2>1. /\ os \in Seq(Orders(g))
        /\ \A i \in 1..Len(a) : i \in 1..Len(os) /\ os[i] = a[i]
        /\ \A i \in 1..Len(os) : i \in 1..Len(a) \/ i > Len(a)
    BY <1>1, Concatenation
  <2> HIDE DEF os
  <2> QED  BY <1>1, <2>1
<1> HIDE DEF os
<1>3. PICK i \in DOMAIN a, k \in DOMAIN a, n \in DOMAIN g.nodes : \E v \in Elements(g.nodes[n].outs) :
          /\ i < k
          /\ IsForward(a[i], n) /\ IsForward(a[k], n)
          /\ \A f \in DOMAIN a : i < f /\ f < k => ~IsForget(a[f], v)
  BY DEF ComputedTwice
<1> PICK v \in Elements(g.nodes[n].outs) :
          \A f \in DOMAIN a : i < f /\ f < k => ~IsForget(a[f], v)
  BY <1>3
<1>4. ASSUME NEW p \in DOMAIN os, os[p].kind = "ComputeBackward" PROVE ComputedTwice(g, os, p)
  <2>1. p > Len(a)
    BY <1>2, <1>4 DEF Quiet
  <2>2. k < p
    BY <1>1, <1>2, <2>1
  <2>3. \A f \in DOMAIN os : i < f /\ f < k => f \in DOMAIN a /\ ~IsForget(os[f], v)
    <3> SUFFICES ASSUME NEW f \in DOMAIN os, i < f, f < k
                 PROVE  f \in DOMAIN a /\ ~IsForget(os[f], v)
      OBVIOUS
    <3>1. f \in DOMAIN a
      BY <1>1, <1>2
    <3> QED  BY <1>2, <1>3, <3>1
  <2> QED  BY <1>2, <1>3, <2>2, <2>3 DEF ComputedTwice
<1> QED  BY <1>2, <1>4 DEF Proper, os

LEMMA GTIsProper ==
    ASSUME NEW g, IsModel(g), NEW chain \in Chains(g)
    PROVE  Proper(g, GTPolicy(g, chain))
<1> DEFINE len    == Cardinality(chain) - 1
           seq    == [i \in 1..(len + 1) |-> {v \in Vertices(g) : Level(chain, v) < i}]
           values == OutputsOf(g, Sorted(g))
           sinks  == {u \in Vertices(g) : ~\E v \in Vertices(g) : Edge(g, u, v)}
           Block(i) == Among(values, seq[i + 1] \ seq[i])
           Forgets(i) ==
               IF i = len THEN {}
               ELSE ((seq[i + 1] \ Boundary(g, seq[i + 1])) \ seq[i]) \ sinks
           Forward(i) ==
               Each(Producers(g, Block(i)), ComputeForward)
               \o Each(InOrder(Forgets(i)), ForgetForward)
           Again(i)    == Each(Producers(g, Among(Block(i), Forgets(i))), ComputeForward)
           Backward(i) == Again(i) \o BackFrom(g, seq[i + 1] \ seq[i])
           fs == [i \in 1..len |-> Forward(i)]
           bs == [i \in 1..len |-> Backward(len + 1 - i)]
           At(i) == {v \in Vertices(g) : Level(chain, v) = i}
<1>1. GTPolicy(g, chain) = FlattenSeq(fs) \o FlattenSeq(bs)
  BY DEF GTPolicy, Producers, BackFrom, Sorted
<1>2. /\ len \in Nat
      /\ \A v \in Vertices(g) : Level(chain, v) \in 1..len
  BY Levels
<1>3. /\ values \in Seq(Vertices(g)) /\ Elements(values) = Vertices(g)
  BY ValuesInOrder
<1> HIDE DEF len, values, sinks
<1>4. \A i \in 1..len : seq[i + 1] \ seq[i] = At(i)
  <2> SUFFICES ASSUME NEW i \in 1..len PROVE seq[i + 1] \ seq[i] = At(i)
    OBVIOUS
  <2>1. i \in 1..(len + 1) /\ i + 1 \in 1..(len + 1)
    BY <1>2
  <2>2. /\ seq[i] = {v \in Vertices(g) : Level(chain, v) < i}
        /\ seq[i + 1] = {v \in Vertices(g) : Level(chain, v) < i + 1}
    BY <2>1
  <2>3. \A v \in Vertices(g) : Level(chain, v) < i + 1 /\ ~(Level(chain, v) < i) <=> Level(chain, v) = i
    BY <1>2
  <2> HIDE DEF seq
  <2> QED  BY <2>2, <2>3
<1>5. \A i \in 1..len : Forgets(i) \subseteq At(i)
  <2> HIDE DEF seq, At
  <2> QED  BY <1>4
<1> HIDE DEF seq, Forgets
<1>6. \A i \in 1..len : Block(i) \in Seq(Vertices(g)) /\ Elements(Block(i)) = At(i)
  <2> SUFFICES ASSUME NEW i \in 1..len PROVE Block(i) \in Seq(Vertices(g)) /\ Elements(Block(i)) = At(i)
    OBVIOUS
  <2>1. /\ Block(i) \in Seq(Vertices(g))
        /\ Elements(Block(i)) = Elements(values) \cap (seq[i + 1] \ seq[i])
    BY <1>3, AmongElements
  <2>2. At(i) \subseteq Vertices(g)
    OBVIOUS
  <2> HIDE DEF At, Block
  <2> QED  BY <1>3, <1>4, <2>1, <2>2
<1> HIDE DEF Block
<1>7. ASSUME NEW i \in 1..len
      PROVE  ForwardBlock(g, Forward(i), Block(i), Forgets(i)) /\ Quiet(g, Forward(i))
  <2>1. Block(i) \in Seq(Vertices(g)) /\ Forgets(i) \in SUBSET Vertices(g)
    BY <1>5, <1>6
  <2> QED  BY <2>1, ForwardBlocks
<1>8. ASSUME NEW i \in 1..len PROVE Quiet(g, Again(i))
  <2>1. Among(Block(i), Forgets(i)) \in Seq(Vertices(g))
    BY <1>6, AmongElements
  <2>2. Producers(g, Among(Block(i), Forgets(i))) \in Seq(DOMAIN g.nodes)
    BY <2>1, ProducersAre
  <2> QED  BY <2>2, QuietForwards
<1> HIDE DEF Forward, Again
<1>9. /\ DOMAIN fs = 1..Len(fs) /\ Len(fs) = len /\ fs = [i \in DOMAIN fs |-> fs[i]]
      /\ \A i \in 1..len : fs[i] = Forward(i)
  BY <1>2
<1>10. fs \in Seq(Seq(Orders(g)))
  <2>1. \A i \in 1..len : fs[i] \in Seq(Orders(g))
    BY <1>7, <1>9 DEF Quiet
  <2> HIDE DEF fs
  <2> QED  BY <1>2, <1>9, <2>1
<1> HIDE DEF fs
<1>11. Quiet(g, FlattenSeq(fs))
  <2>1. \A i \in DOMAIN fs : Quiet(g, fs[i])
    BY <1>7, <1>9
  <2>2. Len(fs) \in Nat
    BY <1>2, <1>9
  <2> QED  BY <1>9, <2>1, <2>2, QuietFlattened
<1>12. /\ DOMAIN bs = 1..Len(bs) /\ Len(bs) = len /\ bs = [i \in 1..len |-> bs[i]]
       /\ \A i \in 1..len : bs[i] = Backward(len + 1 - i) /\ len + 1 - i \in 1..len
  BY <1>2
<1> HIDE DEF bs
<1>13. CASE OneOutputEach(g)
  <2>1. ASSUME NEW i \in 1..len
        PROVE  /\ AgainstTheFlow(g, Backward(i))
               /\ Backwards(Backward(i)) = {Producer(g.nodes, v) : v \in At(i)}
    <3>1. At(i) \subseteq Vertices(g)
      OBVIOUS
    <3>2. BackFrom(g, seq[i + 1] \ seq[i]) = BackFrom(g, At(i))
      BY <1>4
    <3> HIDE DEF At
    <3>3. /\ AgainstTheFlow(g, BackFrom(g, At(i)))
          /\ Backwards(BackFrom(g, At(i))) = {Producer(g.nodes, v) : v \in At(i)}
      BY <1>13, <3>1, BackFromFlows
    <3>4. Quiet(g, Again(i))
      BY <1>8
    <3> DEFINE x == BackFrom(g, At(i))  y == Again(i)
    <3>5. Backward(i) = y \o x
      BY <3>2
    <3>6. AgainstTheFlow(g, x) /\ Quiet(g, y)
      BY <3>3, <3>4
    <3> HIDE DEF x, y, Backward
    <3>7. AgainstTheFlow(g, y \o x) /\ Backwards(y \o x) = Backwards(x)
      BY <3>6, QuietBefore
    <3> QED  BY <3>3, <3>5, <3>7 DEF x
  <2> HIDE DEF Backward
  <2>2. \A i \in 1..len : /\ AgainstTheFlow(g, bs[i])
                          /\ Backwards(bs[i]) = {Producer(g.nodes, v) : v \in At(len + 1 - i)}
    BY <1>12, <2>1
  <2>3. bs \in Seq(Seq(Orders(g)))
    <3>1. \A i \in 1..len : bs[i] \in Seq(Orders(g))
      BY <2>2 DEF AgainstTheFlow
    <3> QED  BY <1>2, <1>12, <3>1
  <2>4. ASSUME NEW i \in 1..len, NEW k \in 1..len, i < k,
               NEW a \in Backwards(bs[i]), NEW b \in Backwards(bs[k])
        PROVE  MayFollow(g, a, b)
    <3>1. PICK x \in At(len + 1 - i) : a = Producer(g.nodes, x)
      BY <2>2
    <3>2. PICK y \in At(len + 1 - k) : b = Producer(g.nodes, y)
      BY <2>2
    <3>3. /\ x \in Vertices(g) /\ y \in Vertices(g)
          /\ Level(chain, x) = len + 1 - i /\ Level(chain, y) = len + 1 - k
      BY <3>1, <3>2
    <3>4. Level(chain, y) < Level(chain, x)
      BY <1>2, <2>4, <3>3
    <3> QED  BY <1>13, <3>1, <3>2, <3>3, <3>4, LevelsMayFollow
  <2>5. /\ AgainstTheFlow(g, FlattenSeq(bs))
        /\ Backwards(FlattenSeq(bs)) = UNION {Backwards(bs[i]) : i \in 1..Len(bs)}
    <3>1. \A i \in 1..Len(bs) : AgainstTheFlow(g, bs[i])
      BY <1>12, <2>2
    <3>2. \A i, k \in 1..Len(bs) : i < k =>
              \A a \in Backwards(bs[i]), b \in Backwards(bs[k]) : MayFollow(g, a, b)
      BY <1>12, <2>4
    <3> QED  BY <2>3, <3>1, <3>2, FlowOfFlattened
  <2>6. UNION {Backwards(bs[i]) : i \in 1..Len(bs)} = DOMAIN g.nodes
    <3>1. ASSUME NEW n \in DOMAIN g.nodes PROVE \E i \in 1..Len(bs) : n \in Backwards(bs[i])
      <4>1. g.nodes[n].outs # <<>> /\ g.nodes[n].outs \in Seq(Nat)
        BY ModelValues, DomainOfNodes DEF IsModel
      <4>2. PICK v : v \in Elements(g.nodes[n].outs)
        <5>1. 1 \in DOMAIN g.nodes[n].outs
          BY <4>1
        <5> QED  BY <5>1 DEF Elements
      <4>3. v \in Vertices(g)
        BY <4>2 DEF Vertices, ComputedBy
      <4>4. n = Producer(g.nodes, v)
        BY <4>2, <4>3, Origins
      <4> DEFINE i == len + 1 - Level(chain, v)
      <4>5. i \in 1..len /\ len + 1 - i = Level(chain, v)
        BY <1>2, <4>3
      <4>6. v \in At(len + 1 - i)
        BY <4>3, <4>5
      <4> HIDE DEF i, At
      <4> QED  BY <1>12, <2>2, <4>4, <4>5, <4>6
    <3>2. ASSUME NEW i \in 1..Len(bs), NEW n \in Backwards(bs[i]) PROVE n \in DOMAIN g.nodes
      <4>1. PICK v \in At(len + 1 - i) : n = Producer(g.nodes, v)
        BY <1>12, <2>2
      <4> QED  BY <4>1, Origins
    <3> QED  BY <3>1, <3>2
  <2>7. AgainstTheFlow(g, FlattenSeq(fs) \o FlattenSeq(bs))
        /\ Backwards(FlattenSeq(fs) \o FlattenSeq(bs)) = DOMAIN g.nodes
    <3> DEFINE a == FlattenSeq(fs)  b == FlattenSeq(bs)
    <3>1. Quiet(g, a) /\ AgainstTheFlow(g, b) /\ Backwards(b) = DOMAIN g.nodes
      BY <1>11, <2>5, <2>6
    <3> HIDE DEF a, b
    <3>2. AgainstTheFlow(g, a \o b) /\ Backwards(a \o b) = Backwards(b)
      BY <3>1, QuietBefore
    <3> QED  BY <3>1, <3>2 DEF a, b
  <2> QED  BY <1>1, <2>7, ProperWhenComplete
<1>14. CASE ~OneOutputEach(g)
  <2> DEFINE block   == [i \in 1..len |-> Block(i)]
             forgets == [i \in 1..len |-> Forgets(i)]
             level   == [v \in Vertices(g) |-> Level(chain, v)]
  <2>1. level \in [Vertices(g) -> 1..Len(fs)]
    BY <1>2, <1>9
  <2>2. \A i \in 1..len : /\ ForwardBlock(g, fs[i], block[i], forgets[i])
                          /\ block[i] \in Seq(Vertices(g))
                          /\ forgets[i] \subseteq Elements(block[i])
                          /\ Elements(block[i]) = {v \in Vertices(g) : level[v] = i}
    <3> SUFFICES ASSUME NEW i \in 1..len
                 PROVE  /\ ForwardBlock(g, fs[i], block[i], forgets[i])
                        /\ block[i] \in Seq(Vertices(g))
                        /\ forgets[i] \subseteq Elements(block[i])
                        /\ Elements(block[i]) = {v \in Vertices(g) : level[v] = i}
      OBVIOUS
    <3>1. block[i] = Block(i) /\ forgets[i] = Forgets(i)
      OBVIOUS
    <3>2. {v \in Vertices(g) : level[v] = i} = At(i)
      OBVIOUS
    <3> HIDE DEF block, forgets, level, At
    <3> QED  BY <1>5, <1>6, <1>7, <1>9, <3>1, <3>2
  <2> HIDE DEF block, forgets, level
  <2>3. ComputedTwice(g, FlattenSeq(fs), Len(FlattenSeq(fs)) + 1)
    <3>1. InBlocks(g, fs, block, forgets, level)
      BY <1>9, <1>10, <2>1, <2>2 DEF InBlocks
    <3> QED  BY <1>14, <3>1, TwiceInBlocks
  <2>4. FlattenSeq(bs) \in Seq(Orders(g))
    <3>1. \A i \in 1..len : BackFrom(g, seq[i + 1] \ seq[i]) \in Seq(Orders(g))
      <4> SUFFICES ASSUME NEW i \in 1..len PROVE BackFrom(g, seq[i + 1] \ seq[i]) \in Seq(Orders(g))
        OBVIOUS
      <4> QED  BY BackFromType
    <3>2. \A i \in 1..len : Again(i) \in Seq(Orders(g))
      BY <1>8 DEF Quiet
    <3>3. \A i \in 1..len : Backward(i) \in Seq(Orders(g))
      BY <3>1, <3>2
    <3> HIDE DEF Backward
    <3>4. \A i \in 1..len : bs[i] \in Seq(Orders(g))
      BY <1>12, <3>3
    <3>5. bs \in Seq(Seq(Orders(g)))
      BY <1>2, <1>12, <3>4
    <3> QED  BY <3>5, FlattenSeqFlattens
  <2> QED  BY <1>1, <1>11, <2>3, <2>4, ProperAfterTwice
<1> QED  BY <1>13, <1>14

\* Every policy takes each node's gradients once and after those of the nodes
\* that read its outputs, whatever the model, the nodes Chen's policy splits
\* at and the lower sets GT's policy goes through.
THEOREM PoliciesAreProper ==
    ASSUME NEW g, IsModel(g)
    PROVE  /\ Proper(g, DummyPolicy(g)) /\ Proper(g, DummyPolicy2(g))
           /\ \A splits : Proper(g, ChenPolicy(g, splits))
           /\ \A chain \in Chains(g) : Proper(g, GTPolicy(g, chain))
BY DummyIsProper, Dummy2IsProper, ChenIsProper, GTIsProper
=============================================================================
