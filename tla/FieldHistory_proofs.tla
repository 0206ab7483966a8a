------------------------ MODULE FieldHistory_proofs ------------------------
(***************************************************************************)
(* Proofs about FieldHistory for any names and values, any depth of        *)
(* bodies and any number of Objects.                                       *)
(***************************************************************************)
EXTENDS FieldHistory, WellFoundedInduction, TLAPS

\* Functions from some of the names to T.
Partial(T) == UNION {[S -> T] : S \in SUBSET Names}

Ids     == Nat
Records == [obj : Nat, value : Values]

Collection == [attributes : Partial(Ids), inputs : Partial(Records)]

(***************************************************************************)
(* The parts of the inductive invariant, for a field f, a heap h and the   *)
(* outputs r of the bodies left.                                           *)
(***************************************************************************)
Attrs(f, i) == DOMAIN f[i].attributes
Ins(f, i)   == DOMAIN f[i].inputs

Typed(f, h, r) ==
  /\ f \in Seq(Collection)
  /\ Len(f) >= 1
  /\ h \in Seq(Values)
  /\ r \in Seq(SUBSET (Names \X Nat))
  /\ Len(r) = Len(f)
  /\ \A i \in 1..Len(f) : \A x \in Attrs(f, i) : f[i].attributes[x] \in 1..Len(h)
  /\ \A i \in 1..Len(f) : \A x \in Names, o \in Nat : << x, o >> \in r[i] => o \in 1..Len(h)

\* An input of a body is an attribute of the body and of the level around
\* it, and was recorded with the Object that it has there.
InputsMatch(f) ==
  \A i \in 1..Len(f) : \A x \in Ins(f, i) :
    /\ i > 1
    /\ x \in Attrs(f, i)
    /\ x \in Attrs(f, i - 1)
    /\ f[i].inputs[x].obj = f[i - 1].attributes[x]

\* The levels that have a name follow each other, and all of them but the
\* outermost have it as an input.
Contiguous(f) ==
  \A i, j, k \in 1..Len(f) : \A x \in Names :
    i < k /\ k <= j /\ x \in Attrs(f, i) /\ x \in Attrs(f, j)
      => x \in Attrs(f, k) /\ x \in Ins(f, k)

\* An Object is or was given to one name only.
Owns(f, r, x, o) ==
  \E i \in 1..Len(f) :
    \/ x \in Attrs(f, i) /\ f[i].attributes[x] = o
    \/ << x, o >> \in r[i]

OneOwner(f, r) ==
  \A x, y \in Names : \A o \in Nat : Owns(f, r, x, o) /\ Owns(f, r, y, o) => x = y

\* When a body left at a level has an Object that the name also has further
\* out, then the level has the name itself.
ReleasedBelow(f, r) ==
  \A i, j \in 1..Len(f) : \A x \in Names :
    j < i /\ x \in Attrs(f, j) /\ << x, f[j].attributes[x] >> \in r[i] => x \in Attrs(f, i)

Inv(f, h, r) ==
  Typed(f, h, r) /\ InputsMatch(f) /\ Contiguous(f) /\ OneOwner(f, r) /\ ReleasedBelow(f, r)

IInv == Inv(field, heap, released) /\ Len(field) \in 1..MaxDepth \cup {1}

\* What a name is worth at a level: FieldHistory's ValueAt for f and h.
Worth(f, h, i, x) ==
  IF i < Len(f) /\ x \in DOMAIN f[i + 1].inputs THEN f[i + 1].inputs[x].value
  ELSE IF \E j \in 1..i : x \in DOMAIN f[j].attributes THEN ValueOf(f, h, x)
  ELSE Undefined

-----------------------------------------------------------------------------
(* Facts about partial functions, sequences and look-ups.                  *)

LEMMA PartialFacts ==
  ASSUME NEW T, NEW f \in Partial(T)
  PROVE  f \in [DOMAIN f -> T] /\ DOMAIN f \subseteq Names
  BY DEF Partial

\* The partial function g is f with x mapped to v.
Adds(f, g, x, v, T) ==
  /\ g \in Partial(T)
  /\ DOMAIN g = DOMAIN f \cup {x}
  /\ g[x] = v
  /\ \A y \in DOMAIN f : y # x => g[y] = f[y]

LEMMA ExtendedFacts ==
  ASSUME NEW T, NEW f \in Partial(T), NEW x \in Names, NEW v \in T
  PROVE  Adds(f, Extended(f, x, v), x, v, T)
  <1>1. f \in [DOMAIN f -> T] /\ DOMAIN f \subseteq Names
    BY PartialFacts
  <1>2. Extended(f, x, v) \in [DOMAIN f \cup {x} -> T]
    BY <1>1 DEF Extended
  <1>3. DOMAIN f \cup {x} \in SUBSET Names
    BY <1>1
  <1>4. Extended(f, x, v) \in Partial(T)
    BY <1>2, <1>3 DEF Partial
  <1> QED
    BY <1>1, <1>4 DEF Extended, Adds

\* A function on 1..n with values in S is a sequence of length n.
LEMMA FunctionIsSequence ==
  ASSUME NEW S, NEW n \in Nat, NEW f \in [1..n -> S]
  PROVE  f \in Seq(S) /\ Len(f) = n
  OBVIOUS

\* A nonempty set of levels has a highest one.
LEMMA HighestLevel ==
  ASSUME NEW n \in Nat, NEW H, H \subseteq 1..n, H # {}
  PROVE  \E i \in H : \A j \in H : j <= i
  <1> DEFINE T == {m \in Nat : n - m \in H}
  <1>1. T \subseteq Nat /\ T # {}
    <2>1. PICK h \in H : TRUE
      OBVIOUS
    <2>2. n - h \in Nat /\ n - (n - h) = h
      OBVIOUS
    <2>3. n - h \in T
      BY <2>1, <2>2
    <2> QED
      BY <2>3
  <1>2. \A j \in H : j \in Int /\ n - j \in T
    OBVIOUS
  <1>3. \A m \in T : m \in Nat /\ n - m \in H
    OBVIOUS
  <1> HIDE DEF T
  <1>4. PICK m \in T : \A l \in T : ~ (<< l, m >> \in OpToRel(<, Nat))
    BY <1>1, WFMin, NatLessThanWellFounded
  <1>5. ASSUME NEW l \in T PROVE m <= l
    <2>1. l \in Nat /\ m \in Nat
      BY <1>1
    <2>2. l < m => << l, m >> \in OpToRel(<, Nat)
      BY <2>1 DEF OpToRel
    <2>3. ~ (l < m)
      BY <1>4, <2>2
    <2> QED
      BY <2>1, <2>3
  <1>6. \A j \in H : j <= n - m
    BY <1>2, <1>3, <1>5
  <1> QED
    BY <1>3, <1>6

LEMMA InnermostFacts ==
  ASSUME NEW f, NEW x, Len(f) \in Nat, has_attribute(f, x)
  PROVE  /\ Innermost(f, x) \in 1..Len(f)
         /\ x \in DOMAIN f[Innermost(f, x)].attributes
         /\ \A j \in 1..Len(f) : x \in DOMAIN f[j].attributes => j <= Innermost(f, x)
  <1>1. Holders(f, x) \subseteq 1..Len(f) /\ Holders(f, x) # {}
    BY DEF Holders, has_attribute
  <1>2. \E i \in Holders(f, x) : \A j \in Holders(f, x) : j <= i
    BY <1>1, HighestLevel
  <1>3. Innermost(f, x) \in Holders(f, x) /\ \A j \in Holders(f, x) : j <= Innermost(f, x)
    BY <1>2 DEF Innermost
  <1> QED
    BY <1>3 DEF Holders

LEMMA CollectionFacts ==
  ASSUME NEW c \in Collection
  PROVE  /\ c = [attributes |-> c.attributes, inputs |-> c.inputs]
         /\ c.attributes \in Partial(Ids)
         /\ c.inputs \in Partial(Records)
         /\ DOMAIN c.attributes \subseteq Names
         /\ DOMAIN c.inputs \subseteq Names
         /\ \A x \in DOMAIN c.attributes : c.attributes[x] \in Nat
         /\ \A x \in DOMAIN c.inputs : c.inputs[x] \in [obj : Nat, value : Values]
  <1>1. /\ c = [attributes |-> c.attributes, inputs |-> c.inputs]
        /\ c.attributes \in Partial(Ids)
        /\ c.inputs \in Partial(Records)
    BY DEF Collection
  <1>2. c.attributes \in [DOMAIN c.attributes -> Ids] /\ DOMAIN c.attributes \subseteq Names
    BY <1>1, PartialFacts
  <1>3. /\ c.inputs \in [DOMAIN c.inputs -> Records]
        /\ DOMAIN c.inputs \subseteq Names
    BY <1>1, PartialFacts
  <1> QED
    BY <1>1, <1>2, <1>3 DEF Ids, Records

LEMMA EmptyFacts ==
  /\ EmptyCollection \in Collection
  /\ DOMAIN EmptyCollection.attributes = {}
  /\ DOMAIN EmptyCollection.inputs = {}
  <1>1. [x \in {} |-> 0] \in [{} -> Ids] /\ [x \in {} |-> 0] \in [{} -> Records]
    OBVIOUS
  <1>2. {} \in SUBSET Names
    OBVIOUS
  <1>3. [x \in {} |-> 0] \in Partial(Ids) /\ [x \in {} |-> 0] \in Partial(Records)
    BY <1>1, <1>2 DEF Partial
  <1> QED
    BY <1>3 DEF EmptyCollection, Collection

\* The collection c with the name x and a record of what x stands for.
Gains(c, d, x, o, rec) ==
  /\ d \in Collection
  /\ DOMAIN d.attributes = DOMAIN c.attributes \cup {x}
  /\ DOMAIN d.inputs = DOMAIN c.inputs \cup {x}
  /\ d.attributes[x] = o
  /\ d.inputs[x] = rec
  /\ \A y \in DOMAIN c.attributes : y # x => d.attributes[y] = c.attributes[y]
  /\ \A y \in DOMAIN c.inputs : y # x => d.inputs[y] = c.inputs[y]

LEMMA GainsFacts ==
  ASSUME NEW c \in Collection, NEW x \in Names, NEW o \in Ids, NEW rec \in Records
  PROVE  Gains(c, [attributes |-> Extended(c.attributes, x, o),
                   inputs |-> Extended(c.inputs, x, rec)], x, o, rec)
  <1> DEFINE d == [attributes |-> Extended(c.attributes, x, o), inputs |-> Extended(c.inputs, x, rec)]
  <1>1. c.attributes \in Partial(Ids) /\ c.inputs \in Partial(Records)
    BY CollectionFacts
  <1>2. Adds(c.attributes, Extended(c.attributes, x, o), x, o, Ids)
    BY <1>1, ExtendedFacts
  <1>3. Adds(c.inputs, Extended(c.inputs, x, rec), x, rec, Records)
    BY <1>1, ExtendedFacts
  <1>4. d.attributes = Extended(c.attributes, x, o) /\ d.inputs = Extended(c.inputs, x, rec)
    OBVIOUS
  <1>5. d \in Collection
    BY <1>2, <1>3 DEF Collection, Adds
  <1> HIDE DEF d
  <1>7. Gains(c, d, x, o, rec)
    BY <1>2, <1>3, <1>4, <1>5 DEF Gains, Adds
  <1> QED
    BY <1>7 DEF d

\* The field g is f after a look-up of x, which is found at level n.
LookedUp(f, h, x, g, n) ==
  /\ g \in Seq(Collection) /\ Len(g) = Len(f)
  /\ n \in 1..Len(f) /\ x \in Attrs(f, n) /\ f[n].attributes[x] = ObjectOf(f, x)
  /\ \A i \in 1..Len(f) : i > n => x \notin Attrs(f, i) /\ x \notin Ins(f, i)
  /\ \A i \in 1..Len(f) : \A y : y \in Attrs(g, i) <=> y \in Attrs(f, i) \/ (y = x /\ i > n)
  /\ \A i \in 1..Len(f) : \A y : y \in Ins(g, i) <=> y \in Ins(f, i) \/ (y = x /\ i > n)
  /\ \A i \in 1..Len(f) : \A y \in Attrs(f, i) : g[i].attributes[y] = f[i].attributes[y]
  /\ \A i \in 1..Len(f) : \A y \in Ins(f, i) : g[i].inputs[y] = f[i].inputs[y]
  /\ \A i \in 1..Len(f) : i > n =>
       /\ g[i].attributes[x] = ObjectOf(f, x)
       /\ g[i].inputs[x].obj = ObjectOf(f, x)
       /\ g[i].inputs[x].value = h[ObjectOf(f, x)]

LEMMA LookupFacts ==
  ASSUME NEW f \in Seq(Collection), NEW h \in Seq(Values), NEW x \in Names,
         InputsMatch(f), has_attribute(f, x), ObjectOf(f, x) \in 1..Len(h),
         NEW g, g = try_get_attribute(f, h, x),
         NEW n, n = Innermost(f, x)
  PROVE  LookedUp(f, h, x, g, n)
  <1> DEFINE o == ObjectOf(f, x)
             rec == [obj |-> o, value |-> h[o]]
             new(i) == [attributes |-> Extended(f[i].attributes, x, o),
                        inputs |-> Extended(f[i].inputs, x, rec)]
  <1>1. Len(f) \in Nat /\ \A i \in 1..Len(f) : f[i] \in Collection
    OBVIOUS
  <1>2. /\ n \in 1..Len(f) /\ x \in Attrs(f, n)
        /\ \A i \in 1..Len(f) : x \in Attrs(f, i) => i <= n
    BY <1>1, InnermostFacts DEF Attrs
  <1>3. f[n].attributes[x] = o
    BY DEF ObjectOf
  <1>4. \A i \in 1..Len(f) : i > n => x \notin Attrs(f, i) /\ x \notin Ins(f, i)
    BY <1>1, <1>2 DEF InputsMatch
  <1>5. o \in Ids /\ rec \in Records /\ rec.obj = o /\ rec.value = h[o]
    BY DEF Ids, Records
  <1>6. g = [i \in 1..Len(f) |-> IF i <= n THEN f[i] ELSE new(i)]
    BY DEF try_get_attribute, ValueOf
  <1>a. o \in Ids /\ rec \in Records
    BY <1>5
  <1>b. ASSUME NEW c \in Collection
        PROVE  Gains(c, [attributes |-> Extended(c.attributes, x, o),
                         inputs |-> Extended(c.inputs, x, rec)], x, o, rec)
    <2> HIDE DEF o, rec
    <2> QED
      BY <1>a, GainsFacts
  <1>7. \A i \in 1..Len(f) : Gains(f[i], new(i), x, o, rec)
    BY <1>1, <1>b
  <1>8. g \in [1..Len(f) -> Collection]
    <2>1. \A i \in 1..Len(f) : new(i) \in Collection
      BY <1>7 DEF Gains
    <2> HIDE DEF new
    <2> QED
      BY <1>1, <1>6, <2>1
  <1> HIDE DEF o, rec, new
  <1>9. g \in Seq(Collection) /\ Len(g) = Len(f)
    BY <1>1, <1>8, FunctionIsSequence
  <1>10. \A i \in 1..Len(f) : (i <= n => g[i] = f[i]) /\ (i > n => g[i] = new(i))
    BY <1>1, <1>2, <1>6
  <1>11. \A i \in 1..Len(f) : i > n =>
           /\ Attrs(g, i) = Attrs(f, i) \cup {x} /\ Ins(g, i) = Ins(f, i) \cup {x}
           /\ g[i].attributes[x] = o /\ g[i].inputs[x] = rec
           /\ \A y \in Attrs(f, i) : g[i].attributes[y] = f[i].attributes[y]
           /\ \A y \in Ins(f, i) : g[i].inputs[y] = f[i].inputs[y]
    BY <1>4, <1>7, <1>10 DEF Attrs, Ins, Gains
  <1>12. \A i \in 1..Len(f) : i <= n => Attrs(g, i) = Attrs(f, i) /\ Ins(g, i) = Ins(f, i)
    BY <1>10 DEF Attrs, Ins
  <1>13. \A i \in 1..Len(f) : i <= n \/ i > n
    BY <1>1, <1>2
  <1>14. o = ObjectOf(f, x)
    BY DEF o
  <1>15. \A i \in 1..Len(f) : \A y : y \in Attrs(g, i) <=> y \in Attrs(f, i) \/ (y = x /\ i > n)
    BY <1>11, <1>12, <1>13, <1>2
  <1>16. \A i \in 1..Len(f) : \A y : y \in Ins(g, i) <=> y \in Ins(f, i) \/ (y = x /\ i > n)
    BY <1>11, <1>12, <1>13, <1>2
  <1>17. /\ \A i \in 1..Len(f) : \A y \in Attrs(f, i) : g[i].attributes[y] = f[i].attributes[y]
         /\ \A i \in 1..Len(f) : \A y \in Ins(f, i) : g[i].inputs[y] = f[i].inputs[y]
    BY <1>10, <1>11, <1>13
  <1>18. \A i \in 1..Len(f) : i > n =>
           /\ g[i].attributes[x] = ObjectOf(f, x)
           /\ g[i].inputs[x].obj = ObjectOf(f, x)
           /\ g[i].inputs[x].value = h[ObjectOf(f, x)]
    BY <1>5, <1>11, <1>14
  <1> QED
    BY <1>2, <1>3, <1>4, <1>9, <1>14, <1>15, <1>16, <1>17, <1>18 DEF LookedUp
-----------------------------------------------------------------------------
(* What a name is worth at a level.                                        *)

LEMMA InnermostIs ==
  ASSUME NEW f, NEW x, Len(f) \in Nat, NEW n \in 1..Len(f), x \in Attrs(f, n),
         \A j \in 1..Len(f) : x \in Attrs(f, j) => j <= n
  PROVE  has_attribute(f, x) /\ Innermost(f, x) = n /\ ObjectOf(f, x) = f[n].attributes[x]
  <1>1. has_attribute(f, x)
    BY DEF has_attribute, Holders, Attrs
  <1>2. /\ Innermost(f, x) \in 1..Len(f)
        /\ x \in Attrs(f, Innermost(f, x))
        /\ \A j \in 1..Len(f) : x \in Attrs(f, j) => j <= Innermost(f, x)
    BY <1>1, InnermostFacts DEF Attrs
  <1>3. Innermost(f, x) = n
    BY <1>2
  <1> QED
    BY <1>1, <1>3 DEF ObjectOf

\* The levels of x, when it has any.
Found(f, x, n) ==
  /\ n \in 1..Len(f) /\ x \in Attrs(f, n) /\ f[n].attributes[x] = ObjectOf(f, x)
  /\ \A j \in 1..Len(f) : x \in Attrs(f, j) => j <= n

LEMMA HasFacts ==
  ASSUME NEW f, NEW x, Len(f) \in Nat
  PROVE  /\ has_attribute(f, x) => Found(f, x, Innermost(f, x))
         /\ has_attribute(f, x) <=> \E j \in 1..Len(f) : x \in Attrs(f, j)
  <1>1. has_attribute(f, x) => Found(f, x, Innermost(f, x))
    BY InnermostFacts DEF Found, Attrs, ObjectOf
  <1>2. has_attribute(f, x) <=> \E j \in 1..Len(f) : x \in Attrs(f, j)
    BY DEF has_attribute, Holders, Attrs
  <1> QED
    BY <1>1, <1>2

\* Three cases: recorded by the next level, held by an Object, or nothing.
Recorded(f, i, x) == i < Len(f) /\ x \in Ins(f, i + 1)
Held(f, i, x)     == \E j \in 1..i : x \in Attrs(f, j)

WorthIs(f, h, i, x, w) ==
  /\ Recorded(f, i, x) => w = f[i + 1].inputs[x].value
  /\ ~Recorded(f, i, x) /\ Held(f, i, x) => w = h[ObjectOf(f, x)]
  /\ ~Recorded(f, i, x) /\ ~Held(f, i, x) => w = Undefined

LEMMA WorthCases ==
  ASSUME NEW f, NEW h, NEW i, NEW x
  PROVE  WorthIs(f, h, i, x, Worth(f, h, i, x))
  BY DEF WorthIs, Worth, Recorded, Held, Ins, Attrs, ValueOf

\* A value held at a level that no level above recorded is held no further in.
LEMMA HeldNotRecorded ==
  ASSUME NEW f \in Seq(Collection), Contiguous(f), NEW x \in Names, NEW i \in 1..Len(f),
         Held(f, i, x), ~Recorded(f, i, x)
  PROVE  \A j \in 1..Len(f) : x \in Attrs(f, j) => j <= i
  <1>1. PICK k \in 1..i : x \in Attrs(f, k)
    BY DEF Held
  <1>2. ASSUME NEW j \in 1..Len(f), x \in Attrs(f, j), j > i PROVE FALSE
    <2>1. k \in 1..Len(f) /\ i + 1 \in 1..Len(f) /\ k < i + 1 /\ i + 1 <= j /\ i < Len(f)
      BY <1>2
    <2>2. x \in Ins(f, i + 1)
      BY <1>1, <1>2, <2>1 DEF Contiguous
    <2> QED
      BY <2>1, <2>2 DEF Recorded
  <1> QED
    BY <1>2
-----------------------------------------------------------------------------
(* A look-up keeps the invariant and changes no worth.                     *)

LEMMA TypedFacts ==
  ASSUME NEW f, NEW h, NEW r, Typed(f, h, r)
  PROVE  /\ f \in Seq(Collection) /\ Len(f) \in Nat /\ Len(f) >= 1
         /\ h \in Seq(Values) /\ Len(h) \in Nat
         /\ \A i \in 1..Len(f) : f[i] \in Collection /\ Attrs(f, i) \subseteq Names /\ Ins(f, i) \subseteq Names
         /\ \A i \in 1..Len(f) : \A x \in Attrs(f, i) : f[i].attributes[x] \in Nat
         /\ \A i \in 1..Len(f) : \A x \in Ins(f, i) : f[i].inputs[x] \in Records
         /\ \A o \in 1..Len(h) : h[o] \in Values
  <1>1. f \in Seq(Collection) /\ Len(f) \in Nat /\ Len(f) >= 1 /\ h \in Seq(Values) /\ Len(h) \in Nat
    BY DEF Typed
  <1>2. \A i \in 1..Len(f) : f[i] \in Collection
    BY <1>1
  <1>3. ASSUME NEW c \in Collection
        PROVE  /\ DOMAIN c.attributes \subseteq Names /\ DOMAIN c.inputs \subseteq Names
               /\ \A x \in DOMAIN c.attributes : c.attributes[x] \in Nat
               /\ \A x \in DOMAIN c.inputs : c.inputs[x] \in Records
    BY CollectionFacts DEF Records
  <1>4. \A o \in 1..Len(h) : h[o] \in Values
    BY <1>1
  <1> QED
    BY <1>1, <1>2, <1>3, <1>4 DEF Attrs, Ins

\* Who owns an Object does not change.
LEMMA LookupOwners ==
  ASSUME NEW f \in Seq(Collection), NEW h, NEW r, NEW x, NEW g, NEW n, LookedUp(f, h, x, g, n)
  PROVE  \A y, o : Owns(g, r, y, o) => Owns(f, r, y, o)
  <1> SUFFICES ASSUME NEW y, NEW o, Owns(g, r, y, o) PROVE Owns(f, r, y, o)
    OBVIOUS
  <1>1. Len(f) \in Nat /\ Len(g) = Len(f)
    BY DEF LookedUp
  <1>2. PICK i \in 1..Len(f) :
          (y \in Attrs(g, i) /\ g[i].attributes[y] = o) \/ << y, o >> \in r[i]
    BY <1>1 DEF Owns
  <1>3. CASE y \in Attrs(f, i)
    BY <1>2, <1>3 DEF Owns, LookedUp
  <1>4. CASE y \notin Attrs(f, i) /\ << y, o >> \notin r[i]
    <2>1. y = x /\ i > n /\ o = ObjectOf(f, x)
      BY <1>2, <1>4 DEF LookedUp
    <2>2. n \in 1..Len(f) /\ x \in Attrs(f, n) /\ f[n].attributes[x] = o
      BY <2>1 DEF LookedUp
    <2> QED
      BY <2>1, <2>2 DEF Owns
  <1>5. CASE << y, o >> \in r[i]
    BY <1>5 DEF Owns
  <1> QED
    BY <1>3, <1>4, <1>5

LEMMA LookupInv ==
  ASSUME NEW f, NEW h, NEW r, Inv(f, h, r), NEW x \in Names, NEW g, NEW n, LookedUp(f, h, x, g, n)
  PROVE  Inv(g, h, r)
  <1>1. /\ Typed(f, h, r) /\ InputsMatch(f) /\ Contiguous(f) /\ OneOwner(f, r) /\ ReleasedBelow(f, r)
        /\ f \in Seq(Collection) /\ Len(f) \in Nat /\ Len(g) = Len(f) /\ g \in Seq(Collection)
        /\ n \in 1..Len(f) /\ x \in Attrs(f, n) /\ f[n].attributes[x] = ObjectOf(f, x)
    BY TypedFacts DEF Inv, LookedUp
  <1>2. \A i \in 1..Len(f) : \A y : y \in Attrs(g, i) <=> y \in Attrs(f, i) \/ (y = x /\ i > n)
    BY DEF LookedUp
  <1>3. \A i \in 1..Len(f) : \A y : y \in Ins(g, i) <=> y \in Ins(f, i) \/ (y = x /\ i > n)
    BY DEF LookedUp
  <1>4. \A i \in 1..Len(f) : \A y \in Attrs(f, i) : g[i].attributes[y] = f[i].attributes[y]
    BY DEF LookedUp
  <1>5. \A i \in 1..Len(f) : i > n => g[i].attributes[x] = ObjectOf(f, x)
    BY DEF LookedUp
  <1>6. Typed(g, h, r)
    <2>1. ASSUME NEW i \in 1..Len(f), NEW y \in Attrs(g, i) PROVE g[i].attributes[y] \in 1..Len(h)
      <3>1. CASE y \in Attrs(f, i)
        BY <1>1, <1>4, <3>1 DEF Typed
      <3>2. CASE y = x /\ i > n
        BY <1>1, <1>5, <3>2 DEF Typed
      <3> QED
        BY <1>2, <3>1, <3>2
    <2> QED
      BY <1>1, <2>1 DEF Typed
  <1>7. InputsMatch(g)
    <2> SUFFICES ASSUME NEW i \in 1..Len(f), NEW y \in Ins(g, i)
                 PROVE  /\ i > 1
                        /\ y \in Attrs(g, i)
                        /\ y \in Attrs(g, i - 1)
                        /\ g[i].inputs[y].obj = g[i - 1].attributes[y]
      BY <1>1 DEF InputsMatch
    <2>1. CASE y \in Ins(f, i)
      <3>1. /\ i > 1 /\ y \in Attrs(f, i) /\ y \in Attrs(f, i - 1) /\ i - 1 \in 1..Len(f)
            /\ f[i].inputs[y].obj = f[i - 1].attributes[y]
        BY <1>1, <2>1 DEF InputsMatch
      <3>2. g[i].inputs[y] = f[i].inputs[y] /\ g[i - 1].attributes[y] = f[i - 1].attributes[y]
        BY <1>4, <2>1, <3>1 DEF LookedUp
      <3> QED
        BY <1>2, <3>1, <3>2
    <2>2. CASE y = x /\ i > n
      <3>1. i > 1 /\ i - 1 \in 1..Len(f) /\ (i - 1 = n \/ i - 1 > n)
        BY <1>1, <2>2
      <3>2. x \in Attrs(g, i) /\ x \in Attrs(g, i - 1) /\ g[i - 1].attributes[x] = ObjectOf(f, x)
        BY <1>1, <1>2, <1>4, <1>5, <2>2, <3>1
      <3>3. g[i].inputs[x].obj = ObjectOf(f, x)
        BY <2>2 DEF LookedUp
      <3> QED
        BY <2>2, <3>1, <3>2, <3>3
    <2> QED
      BY <1>3, <2>1, <2>2
  <1>8. Contiguous(g)
    <2> SUFFICES ASSUME NEW i \in 1..Len(f), NEW j \in 1..Len(f), NEW k \in 1..Len(f), NEW y \in Names,
                        i < k, k <= j, y \in Attrs(g, i), y \in Attrs(g, j)
                 PROVE  y \in Attrs(g, k) /\ y \in Ins(g, k)
      BY <1>1 DEF Contiguous
    <2>1. CASE y # x
      BY <1>1, <1>2, <1>3, <2>1 DEF Contiguous
    <2>2. CASE y = x /\ k > n
      BY <1>2, <1>3, <2>2
    <2>3. CASE y = x /\ k <= n
      <3>1. i < n /\ x \in Attrs(f, i)
        BY <1>1, <1>2, <2>3
      <3>2. x \in Attrs(f, k) /\ x \in Ins(f, k)
        BY <1>1, <2>3, <3>1 DEF Contiguous
      <3> QED
        BY <1>2, <1>3, <2>3, <3>2
    <2> QED
      BY <1>1, <2>1, <2>2, <2>3
  <1>9. OneOwner(g, r)
    <2>1. \A y, o : Owns(g, r, y, o) => Owns(f, r, y, o)
      BY <1>1, LookupOwners
    <2> QED
      BY <1>1, <2>1 DEF OneOwner
  <1>10. ReleasedBelow(g, r)
    <2> SUFFICES ASSUME NEW i \in 1..Len(f), NEW j \in 1..Len(f), NEW y \in Names,
                        j < i, y \in Attrs(g, j), << y, g[j].attributes[y] >> \in r[i]
                 PROVE  y \in Attrs(g, i)
      BY <1>1 DEF ReleasedBelow
    <2>1. CASE y \in Attrs(f, j)
      <3>1. g[j].attributes[y] = f[j].attributes[y]
        BY <1>4, <2>1
      <3>2. y \in Attrs(f, i)
        BY <1>1, <2>1, <3>1 DEF ReleasedBelow
      <3> QED
        BY <1>2, <3>2
    <2>2. CASE y = x /\ j > n
      BY <1>1, <1>2, <2>2
    <2> QED
      BY <1>2, <2>1, <2>2
  <1> QED
    BY <1>6, <1>7, <1>8, <1>9, <1>10 DEF Inv
\* The Object of every name stays the same.
LEMMA LookupObjects ==
  ASSUME NEW f \in Seq(Collection), NEW h, NEW x, NEW g, NEW n, LookedUp(f, h, x, g, n), n = Innermost(f, x)
  PROVE  /\ \A y : has_attribute(g, y) <=> has_attribute(f, y)
         /\ \A y : has_attribute(f, y) => ObjectOf(g, y) = ObjectOf(f, y)
         /\ Innermost(g, x) = Len(f) /\ x \in Attrs(g, Len(f))
         /\ g[Len(f)].attributes[x] = ObjectOf(f, x)
  <1>1. /\ Len(f) \in Nat /\ Len(g) = Len(f) /\ n \in 1..Len(f) /\ Len(f) \in 1..Len(f)
        /\ x \in Attrs(f, n) /\ f[n].attributes[x] = ObjectOf(f, x)
    BY DEF LookedUp
  <1>2. \A i \in 1..Len(f) : \A y : y \in Attrs(g, i) <=> y \in Attrs(f, i) \/ (y = x /\ i > n)
    BY DEF LookedUp
  <1>3. \A i \in 1..Len(f) : \A y \in Attrs(f, i) : g[i].attributes[y] = f[i].attributes[y]
    BY DEF LookedUp
  <1>4. \A i \in 1..Len(f) : i > n => g[i].attributes[x] = ObjectOf(f, x)
    BY DEF LookedUp
  <1>5. x \in Attrs(g, Len(f)) /\ g[Len(f)].attributes[x] = ObjectOf(f, x)
    <2>1. CASE n = Len(f)
      BY <1>1, <1>2, <1>3, <2>1
    <2>2. CASE n < Len(f)
      BY <1>1, <1>2, <1>4, <2>2
    <2> QED
      BY <1>1, <2>1, <2>2
  <1>6. Innermost(g, x) = Len(f) /\ has_attribute(g, x) /\ ObjectOf(g, x) = ObjectOf(f, x)
    BY <1>1, <1>5, InnermostIs
  <1>7. has_attribute(f, x)
    BY <1>1, HasFacts
  <1>8. ASSUME NEW y, y # x
        PROVE  /\ has_attribute(g, y) <=> has_attribute(f, y)
               /\ has_attribute(f, y) => ObjectOf(g, y) = ObjectOf(f, y)
    <2>1. has_attribute(g, y) <=> has_attribute(f, y)
      BY <1>1, <1>2, <1>8, HasFacts
    <2>2. ASSUME has_attribute(f, y) PROVE ObjectOf(g, y) = ObjectOf(f, y)
      <3>1. Found(f, y, Innermost(f, y))
        BY <1>1, <2>2, HasFacts
      <3>2. PICK m \in 1..Len(f) :
              /\ y \in Attrs(f, m) /\ f[m].attributes[y] = ObjectOf(f, y)
              /\ \A j \in 1..Len(f) : y \in Attrs(f, j) => j <= m
        BY <3>1 DEF Found
      <3>3. /\ y \in Attrs(g, m) /\ g[m].attributes[y] = ObjectOf(f, y)
            /\ \A j \in 1..Len(f) : y \in Attrs(g, j) => j <= m
        BY <1>2, <1>3, <1>8, <3>2
      <3> QED
        BY <1>1, <3>3, InnermostIs
    <2> QED
      BY <2>1, <2>2
  <1> QED
    BY <1>5, <1>6, <1>7, <1>8

LEMMA LookupWorth ==
  ASSUME NEW f, NEW h, NEW r, Inv(f, h, r), NEW x \in Names, NEW g, NEW n,
         LookedUp(f, h, x, g, n), n = Innermost(f, x)
  PROVE  \A i \in 1..Len(f) : \A y \in Names : Worth(g, h, i, y) = Worth(f, h, i, y)
  <1> SUFFICES ASSUME NEW i \in 1..Len(f), NEW y \in Names PROVE Worth(g, h, i, y) = Worth(f, h, i, y)
    OBVIOUS
  <1>1. /\ f \in Seq(Collection) /\ Len(f) \in Nat /\ Len(g) = Len(f) /\ n \in 1..Len(f)
        /\ x \in Attrs(f, n)
    BY TypedFacts DEF Inv, LookedUp
  <1>2. \A k \in 1..Len(f) : \A z : z \in Attrs(g, k) <=> z \in Attrs(f, k) \/ (z = x /\ k > n)
    BY DEF LookedUp
  <1>3. \A k \in 1..Len(f) : \A z : z \in Ins(g, k) <=> z \in Ins(f, k) \/ (z = x /\ k > n)
    BY DEF LookedUp
  <1>4. WorthIs(f, h, i, y, Worth(f, h, i, y)) /\ WorthIs(g, h, i, y, Worth(g, h, i, y))
    BY WorthCases
  <1>5. Held(g, i, y) <=> Held(f, i, y)
    BY <1>1, <1>2 DEF Held
  <1>6. Held(f, i, y) => has_attribute(f, y)
    BY <1>1, HasFacts DEF Held
  <1>7. has_attribute(f, y) => ObjectOf(g, y) = ObjectOf(f, y)
    BY <1>1, LookupObjects
  <1>8. CASE Recorded(f, i, y)
    <2>1. Recorded(g, i, y) /\ g[i + 1].inputs[y] = f[i + 1].inputs[y]
      BY <1>1, <1>3, <1>8 DEF Recorded, LookedUp
    <2> QED
      BY <1>4, <1>8, <2>1 DEF WorthIs
  <1>9. CASE ~Recorded(f, i, y) /\ Recorded(g, i, y)
    <2>1. y = x /\ i + 1 > n /\ i + 1 \in 1..Len(f)
      BY <1>1, <1>3, <1>9 DEF Recorded
    <2>2. g[i + 1].inputs[x].value = h[ObjectOf(f, x)]
      BY <2>1 DEF LookedUp
    <2>3. Held(f, i, y)
      BY <1>1, <2>1 DEF Held
    <2> QED
      BY <1>4, <1>9, <2>1, <2>2, <2>3 DEF WorthIs
  <1>10. CASE ~Recorded(f, i, y) /\ ~Recorded(g, i, y)
    BY <1>4, <1>5, <1>6, <1>7, <1>10 DEF WorthIs
  <1> QED
    BY <1>8, <1>9, <1>10

-----------------------------------------------------------------------------
(* A new Object for a name of the top level, and a new value of an Object. *)

\* The field g is f with the name x of the top level given the Object o.
Given(f, x, o, g) ==
  /\ g \in Seq(Collection) /\ Len(g) = Len(f)
  /\ \A i \in 1..Len(f) : i < Len(f) => g[i] = f[i]
  /\ g[Len(f)].inputs = f[Len(f)].inputs
  /\ Attrs(g, Len(f)) = Attrs(f, Len(f)) \cup {x}
  /\ g[Len(f)].attributes[x] = o
  /\ \A y \in Attrs(f, Len(f)) : y # x => g[Len(f)].attributes[y] = f[Len(f)].attributes[y]

LEMMA GivenFacts ==
  ASSUME NEW f \in Seq(Collection), Len(f) >= 1, NEW x \in Names, NEW o \in Nat,
         NEW g, g = [f EXCEPT ![Len(f)].attributes = Extended(@, x, o)]
  PROVE  Given(f, x, o, g)
  <1> DEFINE c == f[Len(f)]
             e == Extended(c.attributes, x, o)
             d == [attributes |-> e, inputs |-> c.inputs]
  <1>1. c \in Collection /\ Len(f) \in 1..Len(f) /\ Len(f) \in Nat
    OBVIOUS
  <1>2. c = [attributes |-> c.attributes, inputs |-> c.inputs] /\ c.attributes \in Partial(Ids) /\ c.inputs \in Partial(Records)
    BY <1>1, CollectionFacts
  <1>3. Adds(c.attributes, e, x, o, Ids)
    <2>1. o \in Ids
      BY DEF Ids
    <2> HIDE DEF c
    <2> QED
      BY <1>2, <2>1, ExtendedFacts
  <1>4. d \in Collection
    BY <1>2, <1>3 DEF Adds, Collection
  <1>5. [c EXCEPT !.attributes = e] = d
    <2> HIDE DEF c, e
    <2> QED
      BY <1>2
  <1>6. g = [i \in 1..Len(f) |-> IF i = Len(f) THEN d ELSE f[i]]
    <2>1. g = [f EXCEPT ![Len(f)] = [c EXCEPT !.attributes = e]]
      OBVIOUS
    <2> HIDE DEF c, e, d
    <2>2. g = [f EXCEPT ![Len(f)] = d]
      BY <1>5, <2>1
    <2>3. f = [i \in 1..Len(f) |-> f[i]]
      OBVIOUS
    <2> QED
      BY <1>1, <2>2, <2>3
  <1> HIDE DEF d
  <1>7. g \in [1..Len(f) -> Collection]
    BY <1>1, <1>4, <1>6
  <1>8. g \in Seq(Collection) /\ Len(g) = Len(f)
    BY <1>1, <1>7, FunctionIsSequence
  <1>9. g[Len(f)] = d /\ \A i \in 1..Len(f) : i < Len(f) => g[i] = f[i]
    BY <1>1, <1>6
  <1>10. d.attributes = e /\ d.inputs = c.inputs
    BY DEF d
  <1> QED
    BY <1>3, <1>8, <1>9, <1>10 DEF Given, Adds, Attrs
\* x is known at the top or nowhere, and o is at most x's.
Free(f, r, x, o) ==
  /\ x \in Attrs(f, Len(f)) \/ ~has_attribute(f, x)
  /\ \A y \in Names : Owns(f, r, y, o) => y = x

LEMMA GivenInv ==
  ASSUME NEW f, NEW h, NEW r, Inv(f, h, r), NEW x \in Names, NEW o \in 1..Len(h),
         Free(f, r, x, o), NEW g, Given(f, x, o, g)
  PROVE  Inv(g, h, r)
  <1> DEFINE N == Len(f)
  <1>1. /\ Typed(f, h, r) /\ InputsMatch(f) /\ Contiguous(f) /\ OneOwner(f, r) /\ ReleasedBelow(f, r)
        /\ f \in Seq(Collection) /\ N \in Nat /\ N \in 1..N /\ Len(g) = N /\ g \in Seq(Collection)
        /\ Len(h) \in Nat /\ o \in Nat
    BY TypedFacts DEF Inv, Given
  <1> HIDE DEF N
  <1>2. \A i \in 1..N : i < N => g[i] = f[i]
    BY DEF Given, N
  <1>3. \A i \in 1..N : \A y : y \in Attrs(g, i) <=> y \in Attrs(f, i) \/ (y = x /\ i = N)
    BY <1>1, <1>2 DEF Given, Attrs, N
  <1>4. \A i \in 1..N : \A y : y \in Attrs(f, i) /\ ~(y = x /\ i = N) => g[i].attributes[y] = f[i].attributes[y]
    BY <1>1, <1>2 DEF Given, N
  <1>5. \A i \in 1..N : g[i].inputs = f[i].inputs /\ Ins(g, i) = Ins(f, i)
    BY <1>1, <1>2 DEF Given, Ins, N
  <1>6. g[N].attributes[x] = o
    BY DEF Given, N
  <1>7. x \in Attrs(f, N) \/ \A i \in 1..N : x \notin Attrs(f, i)
    BY <1>1, HasFacts DEF Free, N
  <1>8. Typed(g, h, r)
    <2>1. ASSUME NEW i \in 1..N, NEW y \in Attrs(g, i) PROVE g[i].attributes[y] \in 1..Len(h)
      <3>1. CASE y = x /\ i = N
        BY <1>6, <3>1
      <3>2. CASE ~(y = x /\ i = N)
        BY <1>1, <1>3, <1>4, <3>2 DEF Typed, N
      <3> QED
        BY <3>1, <3>2
    <2> QED
      BY <1>1, <2>1 DEF Typed, N
  <1>9. InputsMatch(g)
    <2> SUFFICES ASSUME NEW i \in 1..N, NEW y \in Ins(g, i)
                 PROVE  /\ i > 1
                        /\ y \in Attrs(g, i)
                        /\ y \in Attrs(g, i - 1)
                        /\ g[i].inputs[y].obj = g[i - 1].attributes[y]
      BY <1>1 DEF InputsMatch, N
    <2>1. /\ i > 1 /\ y \in Attrs(f, i) /\ y \in Attrs(f, i - 1) /\ i - 1 \in 1..N /\ i - 1 < N
          /\ f[i].inputs[y].obj = f[i - 1].attributes[y]
      BY <1>1, <1>5 DEF InputsMatch, N
    <2>2. g[i].inputs = f[i].inputs /\ g[i - 1] = f[i - 1]
      BY <1>2, <1>5, <2>1
    <2> QED
      BY <1>3, <2>1, <2>2
  <1>10. Contiguous(g)
    <2> SUFFICES ASSUME NEW i \in 1..N, NEW j \in 1..N, NEW k \in 1..N, NEW y \in Names,
                        i < k, k <= j, y \in Attrs(g, i), y \in Attrs(g, j)
                 PROVE  y \in Attrs(g, k) /\ y \in Ins(g, k)
      BY <1>1 DEF Contiguous, N
    <2>1. i < N /\ y \in Attrs(f, i)
      BY <1>1, <1>3
    <2>2. y \in Attrs(f, j)
      BY <1>3, <1>7, <2>1
    <2>3. y \in Attrs(f, k) /\ y \in Ins(f, k)
      BY <1>1, <2>1, <2>2 DEF Contiguous, N
    <2> QED
      BY <1>3, <1>5, <2>3
  <1>11. OneOwner(g, r)
    <2>1. ASSUME NEW y, NEW p, Owns(g, r, y, p) PROVE Owns(f, r, y, p) \/ (y = x /\ p = o)
      <3>1. PICK i \in 1..N : (y \in Attrs(g, i) /\ g[i].attributes[y] = p) \/ << y, p >> \in r[i]
        BY <1>1, <2>1 DEF Owns, N
      <3>2. CASE y = x /\ i = N /\ << y, p >> \notin r[i]
        BY <1>6, <3>1, <3>2
      <3>3. CASE ~(y = x /\ i = N) \/ << y, p >> \in r[i]
        BY <1>3, <1>4, <3>1, <3>3 DEF Owns, N
      <3> QED
        BY <3>2, <3>3
    <2>2. \A y \in Names : Owns(f, r, y, o) => y = x
      BY DEF Free
    <2> SUFFICES ASSUME NEW y \in Names, NEW z \in Names, NEW p \in Nat, Owns(g, r, y, p), Owns(g, r, z, p)
                 PROVE  y = z
      BY DEF OneOwner
    <2>3. /\ Owns(f, r, y, p) \/ (y = x /\ p = o)
          /\ Owns(f, r, z, p) \/ (z = x /\ p = o)
      BY <2>1
    <2>4. CASE Owns(f, r, y, p) /\ Owns(f, r, z, p)
      BY <1>1, <2>4 DEF OneOwner
    <2>5. CASE p = o
      BY <2>2, <2>3, <2>5
    <2> QED
      BY <2>3, <2>4, <2>5
  <1>12. ReleasedBelow(g, r)
    <2> SUFFICES ASSUME NEW i \in 1..N, NEW j \in 1..N, NEW y \in Names,
                        j < i, y \in Attrs(g, j), << y, g[j].attributes[y] >> \in r[i]
                 PROVE  y \in Attrs(g, i)
      BY <1>1 DEF ReleasedBelow, N
    <2>1. j < N
      BY <1>1
    <2>2. g[j] = f[j] /\ y \in Attrs(f, j)
      BY <1>2, <1>3, <2>1
    <2>3. y \in Attrs(f, i)
      BY <1>1, <2>2 DEF ReleasedBelow, N
    <2> QED
      BY <1>3, <2>3
  <1> QED
    BY <1>8, <1>9, <1>10, <1>11, <1>12 DEF Inv

LEMMA GivenWorth ==
  ASSUME NEW f, NEW h, NEW r, Inv(f, h, r), NEW x \in Names, NEW o \in Nat,
         x \in Attrs(f, Len(f)) \/ ~has_attribute(f, x), NEW g, Given(f, x, o, g)
  PROVE  \A i \in 1..Len(f) : \A y \in Names :
           Worth(g, h, i, y) = IF i = Len(f) /\ y = x THEN h[o] ELSE Worth(f, h, i, y)
  <1> DEFINE N == Len(f)
  <1> SUFFICES ASSUME NEW i \in 1..N, NEW y \in Names
               PROVE  Worth(g, h, i, y) = IF i = N /\ y = x THEN h[o] ELSE Worth(f, h, i, y)
    OBVIOUS
  <1>1. /\ Contiguous(f)
        /\ f \in Seq(Collection) /\ N \in Nat /\ N \in 1..N /\ Len(g) = N /\ g \in Seq(Collection)
    BY TypedFacts DEF Inv, Given
  <1> HIDE DEF N
  <1>2. \A k \in 1..N : k < N => g[k] = f[k]
    BY DEF Given, N
  <1>3. \A k \in 1..N : \A z : z \in Attrs(g, k) <=> z \in Attrs(f, k) \/ (z = x /\ k = N)
    BY <1>1, <1>2 DEF Given, Attrs, N
  <1>4. \A k \in 1..N : \A z : z \in Attrs(f, k) /\ ~(z = x /\ k = N) => g[k].attributes[z] = f[k].attributes[z]
    BY <1>1, <1>2 DEF Given, N
  <1>5. \A k \in 1..N : g[k].inputs = f[k].inputs /\ Ins(g, k) = Ins(f, k)
    BY <1>1, <1>2 DEF Given, Ins, N
  <1>6. Recorded(g, i, y) <=> Recorded(f, i, y)
    BY <1>1, <1>5 DEF Recorded, N
  <1>7. WorthIs(f, h, i, y, Worth(f, h, i, y)) /\ WorthIs(g, h, i, y, Worth(g, h, i, y))
    BY WorthCases
  <1>8. CASE Recorded(f, i, y)
    <2>1. i + 1 \in 1..N /\ i # N
      BY <1>1, <1>8 DEF Recorded, N
    <2>2. g[i + 1].inputs[y] = f[i + 1].inputs[y]
      BY <1>5, <2>1
    <2> QED
      BY <1>6, <1>7, <1>8, <2>1, <2>2 DEF WorthIs
  <1>9. CASE ~Recorded(f, i, y) /\ y # x
    <2>1. Held(g, i, y) <=> Held(f, i, y)
      BY <1>1, <1>3, <1>9 DEF Held
    <2>2. ASSUME Held(f, i, y) PROVE ObjectOf(g, y) = ObjectOf(f, y)
      <3>1. has_attribute(f, y)
        BY <1>1, <2>2, HasFacts DEF Held, N
      <3>2. Found(f, y, Innermost(f, y))
        BY <1>1, <3>1, HasFacts DEF N
      <3>3. PICK m \in 1..N :
              /\ y \in Attrs(f, m) /\ f[m].attributes[y] = ObjectOf(f, y)
              /\ \A j \in 1..N : y \in Attrs(f, j) => j <= m
        BY <3>2 DEF Found, N
      <3>4. /\ y \in Attrs(g, m) /\ g[m].attributes[y] = ObjectOf(f, y)
            /\ \A j \in 1..N : y \in Attrs(g, j) => j <= m
        BY <1>3, <1>4, <1>9, <3>3
      <3> QED
        BY <1>1, <3>4, InnermostIs
    <2> QED
      BY <1>6, <1>7, <1>9, <2>1, <2>2 DEF WorthIs
  <1>10. CASE ~Recorded(f, i, y) /\ y = x /\ i < N
    <2>1. ~Held(f, i, y)
      <3>1. SUFFICES ASSUME Held(f, i, y) PROVE FALSE
        OBVIOUS
      <3>2. \A j \in 1..N : y \in Attrs(f, j) => j <= i
        BY <1>1, <1>10, <3>1, HeldNotRecorded DEF N
      <3>3. has_attribute(f, x)
        BY <1>1, <1>10, <3>1, HasFacts DEF Held, N
      <3>4. x \in Attrs(f, N)
        BY <3>3 DEF N
      <3> QED
        BY <1>1, <1>10, <3>2, <3>4
    <2>2. ~Held(g, i, y)
      BY <1>1, <1>3, <1>10, <2>1 DEF Held
    <2> QED
      BY <1>6, <1>7, <1>10, <2>1, <2>2 DEF WorthIs
  <1>11. CASE ~Recorded(f, i, y) /\ y = x /\ i = N
    <2>1. x \in Attrs(g, N) /\ Held(g, i, y)
      BY <1>1, <1>3, <1>11 DEF Held
    <2>2. ObjectOf(g, x) = g[N].attributes[x]
      BY <1>1, <2>1, InnermostIs
    <2>3. g[N].attributes[x] = o
      BY DEF Given, N
    <2> QED
      BY <1>6, <1>7, <1>11, <2>1, <2>2, <2>3 DEF WorthIs
  <1> QED
    BY <1>1, <1>8, <1>9, <1>10, <1>11

\* A heap that has grown, or where an Object holds another value.
LEMMA HeapInv ==
  ASSUME NEW f, NEW h, NEW r, Inv(f, h, r), NEW h2 \in Seq(Values), Len(h2) >= Len(h)
  PROVE  Inv(f, h2, r)
  <1>1. Typed(f, h, r) /\ Len(h) \in Nat /\ Len(h2) \in Nat
    BY TypedFacts DEF Inv
  <1>2. \A o \in 1..Len(h) : o \in 1..Len(h2)
    BY <1>1
  <1>3. Typed(f, h2, r)
    BY <1>1, <1>2 DEF Typed
  <1> QED
    BY <1>3 DEF Inv

\* The heaps differ in o at most, which is the Object of no name but of x at the top.
Differ(f, h, h2, x, o) ==
  /\ \A p \in 1..Len(h) : p # o => h2[p] = h[p]
  /\ \A y \in Names : has_attribute(f, y) /\ ObjectOf(f, y) = o => y = x /\ x \in Attrs(f, Len(f))

LEMMA HeapWorth ==
  ASSUME NEW f, NEW h, NEW r, Inv(f, h, r), NEW h2, NEW x \in Names, NEW o, Differ(f, h, h2, x, o),
         NEW i \in 1..Len(f), NEW y \in Names, ~(i = Len(f) /\ y = x)
  PROVE  Worth(f, h2, i, y) = Worth(f, h, i, y)
  <1>1. f \in Seq(Collection) /\ Len(f) \in Nat /\ Contiguous(f) /\ Typed(f, h, r)
    BY TypedFacts DEF Inv
  <1>2. WorthIs(f, h, i, y, Worth(f, h, i, y)) /\ WorthIs(f, h2, i, y, Worth(f, h2, i, y))
    BY WorthCases
  <1>3. ASSUME Held(f, i, y), ~Recorded(f, i, y) PROVE h2[ObjectOf(f, y)] = h[ObjectOf(f, y)]
    <2>1. has_attribute(f, y)
      BY <1>1, <1>3, HasFacts DEF Held
    <2>2. Found(f, y, Innermost(f, y))
      BY <1>1, <2>1, HasFacts
    <2>3. ObjectOf(f, y) \in 1..Len(h)
      BY <1>1, <2>2 DEF Found, Typed
    <2>4. ASSUME ObjectOf(f, y) = o PROVE FALSE
      <3>1. y = x /\ x \in Attrs(f, Len(f))
        BY <2>1, <2>4 DEF Differ
      <3>2. \A j \in 1..Len(f) : y \in Attrs(f, j) => j <= i
        BY <1>1, <1>3, HeldNotRecorded
      <3> QED
        BY <1>1, <3>1, <3>2
    <2> QED
      BY <2>3, <2>4 DEF Differ
  <1> QED
    BY <1>2, <1>3 DEF WorthIs

\* A name is given an Object at the top: the field is g afterwards.
Revised(f, h, r, x, o, g) ==
  /\ Inv(g, h, r)
  /\ Len(g) = Len(f)
  /\ \A i \in 1..Len(f) : \A y \in Names :
       Worth(g, h, i, y) = IF i = Len(f) /\ y = x THEN h[o] ELSE Worth(f, h, i, y)

LEMMA LookupStep ==
  ASSUME NEW f, NEW h, NEW r, Inv(f, h, r), NEW x \in Names, has_attribute(f, x),
         NEW g, g = try_get_attribute(f, h, x)
  PROVE  LookedUp(f, h, x, g, Innermost(f, x)) /\ Inv(g, h, r) /\ Len(g) = Len(f)
  <1>1. f \in Seq(Collection) /\ Len(f) \in Nat /\ h \in Seq(Values) /\ InputsMatch(f) /\ Typed(f, h, r)
    BY TypedFacts DEF Inv
  <1>2. Found(f, x, Innermost(f, x))
    BY <1>1, HasFacts
  <1>3. ObjectOf(f, x) \in 1..Len(h)
    BY <1>1, <1>2 DEF Found, Typed
  <1>4. LookedUp(f, h, x, g, Innermost(f, x))
    BY <1>1, <1>3, LookupFacts
  <1>5. Inv(g, h, r)
    BY <1>4, LookupInv
  <1> QED
    BY <1>4, <1>5 DEF LookedUp

LEMMA Revise ==
  ASSUME NEW f, NEW h, NEW r, Inv(f, h, r), NEW x \in Names, NEW o \in 1..Len(h),
         \A y \in Names : Owns(f, r, y, o) => y = x
  PROVE  Revised(f, h, r, x, o, revise(f, h, x, o))
  <1> DEFINE m == try_get_attribute(f, h, x)
             g == revise(f, h, x, o)
  <1>0. f \in Seq(Collection) /\ Len(f) \in Nat /\ Len(f) >= 1 /\ o \in Nat
    BY TypedFacts DEF Inv
  <1>1. /\ Inv(m, h, r) /\ Len(m) = Len(f)
        /\ Free(m, r, x, o)
        /\ \A i \in 1..Len(f) : \A y \in Names : Worth(m, h, i, y) = Worth(f, h, i, y)
    <2>1. CASE has_attribute(f, x)
      <3>1. LookedUp(f, h, x, m, Innermost(f, x)) /\ Inv(m, h, r) /\ Len(m) = Len(f)
        BY <2>1, LookupStep
      <3> HIDE DEF m
      <3>2. x \in Attrs(m, Len(m))
        BY <1>0, <3>1, LookupObjects
      <3>3. \A y, p : Owns(m, r, y, p) => Owns(f, r, y, p)
        BY <1>0, <3>1, LookupOwners
      <3>4. Free(m, r, x, o)
        BY <3>2, <3>3 DEF Free
      <3>5. \A i \in 1..Len(f) : \A y \in Names : Worth(m, h, i, y) = Worth(f, h, i, y)
        BY <3>1, LookupWorth
      <3> QED
        BY <3>1, <3>4, <3>5
    <2>2. CASE ~has_attribute(f, x)
      <3>1. m = f
        BY <2>2 DEF try_get_attribute
      <3> QED
        BY <2>2, <3>1 DEF Free
    <2> QED
      BY <2>1, <2>2
  <1>2. g = [m EXCEPT ![Len(f)].attributes = Extended(@, x, o)]
    BY DEF revise
  <1> HIDE DEF m, g
  <1>3. m \in Seq(Collection) /\ Len(m) \in Nat /\ Len(m) >= 1
    BY <1>1, TypedFacts DEF Inv
  <1>4. g = [m EXCEPT ![Len(m)].attributes = Extended(@, x, o)]
    BY <1>1, <1>2
  <1>5. Given(m, x, o, g)
    BY <1>0, <1>3, <1>4, GivenFacts
  <1>6. Inv(g, h, r)
    BY <1>1, <1>5, GivenInv
  <1>7. \A i \in 1..Len(m) : \A y \in Names :
          Worth(g, h, i, y) = IF i = Len(m) /\ y = x THEN h[o] ELSE Worth(m, h, i, y)
    <2>1. x \in Attrs(m, Len(m)) \/ ~has_attribute(m, x)
      BY <1>1 DEF Free
    <2> QED
      BY <1>0, <1>1, <1>5, <2>1, GivenWorth
  <1>8. Len(g) = Len(f)
    BY <1>1, <1>5 DEF Given
  <1>9. Revised(f, h, r, x, o, g)
    BY <1>1, <1>6, <1>7, <1>8 DEF Revised
  <1> QED
    BY <1>9 DEF g

-----------------------------------------------------------------------------
(* Entering and leaving a body.                                            *)

\* The names of f have the same Objects in g.
SameObjects(f, g) ==
  \A y : /\ has_attribute(g, y) <=> has_attribute(f, y)
         /\ has_attribute(f, y) => ObjectOf(g, y) = ObjectOf(f, y)

Pushed(f, g) ==
  /\ g \in Seq(Collection) /\ Len(g) = Len(f) + 1
  /\ \A i \in 1..Len(f) : g[i] = f[i]
  /\ Attrs(g, Len(f) + 1) = {} /\ Ins(g, Len(f) + 1) = {}

LEMMA PushedFacts ==
  ASSUME NEW f \in Seq(Collection), NEW g, g = push_history(f)
  PROVE  Pushed(f, g)
  <1>1. EmptyCollection \in Collection
    BY EmptyFacts
  <1>2. /\ g \in Seq(Collection) /\ Len(g) = Len(f) + 1
        /\ \A i \in 1..Len(f) : g[i] = f[i]
        /\ g[Len(f) + 1] = EmptyCollection
    BY <1>1 DEF push_history
  <1> QED
    BY <1>2, EmptyFacts DEF Pushed, Attrs, Ins

LEMMA PushObjects ==
  ASSUME NEW f \in Seq(Collection), NEW g, Pushed(f, g)
  PROVE  SameObjects(f, g)
  <1> SUFFICES ASSUME NEW y
               PROVE  /\ has_attribute(g, y) <=> has_attribute(f, y)
                      /\ has_attribute(f, y) => ObjectOf(g, y) = ObjectOf(f, y)
    BY DEF SameObjects
  <1>1. Len(f) \in Nat /\ Len(g) = Len(f) + 1 /\ \A i \in 1..Len(f) : i \in 1..Len(g) /\ g[i] = f[i]
    BY DEF Pushed
  <1>2. \A i \in 1..Len(g) : y \in Attrs(g, i) => i \in 1..Len(f) /\ y \in Attrs(f, i)
    BY <1>1 DEF Pushed, Attrs
  <1>3. \A i \in 1..Len(f) : y \in Attrs(f, i) => i \in 1..Len(g) /\ y \in Attrs(g, i)
    BY <1>1 DEF Attrs
  <1>4. has_attribute(g, y) <=> has_attribute(f, y)
    BY <1>1, <1>2, <1>3, HasFacts
  <1>5. ASSUME has_attribute(f, y) PROVE ObjectOf(g, y) = ObjectOf(f, y)
    <2>1. Found(f, y, Innermost(f, y))
      BY <1>1, <1>5, HasFacts
    <2>2. PICK m \in 1..Len(f) :
            /\ y \in Attrs(f, m) /\ f[m].attributes[y] = ObjectOf(f, y)
            /\ \A j \in 1..Len(f) : y \in Attrs(f, j) => j <= m
      BY <2>1 DEF Found
    <2>3. /\ m \in 1..Len(g) /\ y \in Attrs(g, m) /\ g[m].attributes[y] = ObjectOf(f, y)
          /\ \A j \in 1..Len(g) : y \in Attrs(g, j) => j <= m
      BY <1>1, <1>2, <1>3, <2>2
    <2> QED
      BY <1>1, <2>3, InnermostIs
  <1> QED
    BY <1>4, <1>5

LEMMA PushInv ==
  ASSUME NEW f, NEW h, NEW r, Inv(f, h, r), NEW g, Pushed(f, g), NEW q, q = Append(r, {})
  PROVE  Inv(g, h, q)
  <1> DEFINE N == Len(f)
  <1>1. /\ Typed(f, h, r) /\ InputsMatch(f) /\ Contiguous(f) /\ OneOwner(f, r) /\ ReleasedBelow(f, r)
        /\ f \in Seq(Collection) /\ N \in Nat /\ N >= 1 /\ Len(g) = N + 1 /\ g \in Seq(Collection)
        /\ r \in Seq(SUBSET (Names \X Nat)) /\ Len(r) = N
    BY TypedFacts DEF Inv, Pushed, Typed
  <1>2. /\ q \in Seq(SUBSET (Names \X Nat)) /\ Len(q) = N + 1
        /\ \A i \in 1..N : q[i] = r[i]
        /\ q[N + 1] = {}
    BY <1>1
  <1> HIDE DEF N
  <1>3. /\ \A i \in 1..N : g[i] = f[i] /\ Attrs(g, i) = Attrs(f, i) /\ Ins(g, i) = Ins(f, i)
        /\ Attrs(g, N + 1) = {} /\ Ins(g, N + 1) = {}
    BY DEF Pushed, Attrs, Ins, N
  <1>4. \A i \in 1..Len(g) : i \in 1..N \/ i = N + 1
    BY <1>1
  <1>5. Typed(g, h, q)
    <2>1. \A i \in 1..Len(g) : \A x \in Attrs(g, i) : g[i].attributes[x] \in 1..Len(h)
      BY <1>1, <1>3, <1>4 DEF Typed, N
    <2>2. \A i \in 1..Len(g) : \A x \in Names, o \in Nat : << x, o >> \in q[i] => o \in 1..Len(h)
      BY <1>1, <1>2, <1>4 DEF Typed, N
    <2> QED
      BY <1>1, <1>2, <2>1, <2>2 DEF Typed
  <1>6. InputsMatch(g)
    <2> SUFFICES ASSUME NEW i \in 1..Len(g), NEW x \in Ins(g, i)
                 PROVE  /\ i > 1
                        /\ x \in Attrs(g, i)
                        /\ x \in Attrs(g, i - 1)
                        /\ g[i].inputs[x].obj = g[i - 1].attributes[x]
      BY DEF InputsMatch
    <2>1. i \in 1..N /\ x \in Ins(f, i)
      BY <1>3, <1>4
    <2>2. /\ i > 1 /\ x \in Attrs(f, i) /\ x \in Attrs(f, i - 1)
          /\ f[i].inputs[x].obj = f[i - 1].attributes[x]
      BY <1>1, <2>1 DEF InputsMatch, N
    <2>3. i - 1 \in 1..N
      BY <1>1, <2>1, <2>2
    <2> QED
      BY <1>3, <2>1, <2>2, <2>3
  <1>7. Contiguous(g)
    <2> SUFFICES ASSUME NEW i \in 1..Len(g), NEW j \in 1..Len(g), NEW k \in 1..Len(g), NEW x \in Names,
                        i < k, k <= j, x \in Attrs(g, i), x \in Attrs(g, j)
                 PROVE  x \in Attrs(g, k) /\ x \in Ins(g, k)
      BY DEF Contiguous
    <2>1. i \in 1..N /\ j \in 1..N /\ k \in 1..N
      BY <1>1, <1>3, <1>4
    <2> QED
      BY <1>1, <1>3, <2>1 DEF Contiguous, N
  <1>8. OneOwner(g, q)
    <2>1. ASSUME NEW x, NEW o, Owns(g, q, x, o) PROVE Owns(f, r, x, o)
      <3>1. PICK i \in 1..Len(g) : (x \in Attrs(g, i) /\ g[i].attributes[x] = o) \/ << x, o >> \in q[i]
        BY <2>1 DEF Owns
      <3>2. i \in 1..N
        BY <1>2, <1>3, <1>4, <3>1
      <3> QED
        BY <1>2, <1>3, <3>1, <3>2 DEF Owns, N
    <2> QED
      BY <1>1, <2>1 DEF OneOwner
  <1>9. ReleasedBelow(g, q)
    <2> SUFFICES ASSUME NEW i \in 1..Len(g), NEW j \in 1..Len(g), NEW x \in Names,
                        j < i, x \in Attrs(g, j), << x, g[j].attributes[x] >> \in q[i]
                 PROVE  x \in Attrs(g, i)
      BY DEF ReleasedBelow
    <2>1. i \in 1..N /\ j \in 1..N
      BY <1>2, <1>3, <1>4
    <2> QED
      BY <1>1, <1>2, <1>3, <2>1 DEF ReleasedBelow, N
  <1> QED
    BY <1>5, <1>6, <1>7, <1>8, <1>9 DEF Inv

\* The body starts with what the names are worth around it.
LEMMA PushWorth ==
  ASSUME NEW f, NEW h, NEW r, Inv(f, h, r), NEW g, Pushed(f, g), NEW y \in Names
  PROVE  /\ \A i \in 1..Len(f) : Worth(g, h, i, y) = Worth(f, h, i, y)
         /\ Worth(g, h, Len(f) + 1, y) = Worth(f, h, Len(f), y)
  <1> DEFINE N == Len(f)
  <1>1. /\ f \in Seq(Collection) /\ N \in Nat /\ N >= 1 /\ Len(g) = N + 1
        /\ \A i \in 1..N : g[i] = f[i] /\ Attrs(g, i) = Attrs(f, i) /\ Ins(g, i) = Ins(f, i)
        /\ Attrs(g, N + 1) = {} /\ Ins(g, N + 1) = {}
    BY TypedFacts DEF Inv, Pushed, Attrs, Ins
  <1>2. /\ has_attribute(f, y) => ObjectOf(g, y) = ObjectOf(f, y)
    BY <1>1, PushObjects DEF SameObjects
  <1> HIDE DEF N
  <1>3. \A i \in 1..N : WorthIs(f, h, i, y, Worth(f, h, i, y))
    BY WorthCases
  <1>4. \A i \in 1..(N + 1) : WorthIs(g, h, i, y, Worth(g, h, i, y))
    BY WorthCases
  <1>5. \A i \in 1..N : Held(f, i, y) => has_attribute(f, y)
    BY <1>1, HasFacts DEF Held, N
  <1>6. \A i \in 1..N : Held(g, i, y) <=> Held(f, i, y)
    BY <1>1 DEF Held
  <1>7. Held(g, N + 1, y) <=> Held(f, N, y)
    <2>1. \A j \in 1..(N + 1) : y \in Attrs(g, j) => j \in 1..N
      BY <1>1
    <2>2. \A j \in 1..N : j \in 1..(N + 1)
      BY <1>1
    <2> QED
      BY <1>1, <2>1, <2>2 DEF Held
  <1>8. \A i \in 1..N : Recorded(g, i, y) <=> Recorded(f, i, y)
    <2> TAKE i \in 1..N
    <2>1. CASE i < N
      <3>1. i + 1 \in 1..N /\ i < N + 1
        BY <1>1, <2>1
      <3> QED
        BY <1>1, <2>1, <3>1 DEF Recorded, N
    <2>2. CASE i = N
      BY <1>1, <2>2 DEF Recorded, N
    <2> QED
      BY <1>1, <2>1, <2>2
  <1>9. ~Recorded(f, N, y) /\ ~Recorded(g, N + 1, y)
    BY <1>1 DEF Recorded, N
  <1>10. ASSUME NEW i \in 1..N PROVE Worth(g, h, i, y) = Worth(f, h, i, y)
    <2>1. CASE Recorded(f, i, y)
      <3>1. i + 1 \in 1..N
        BY <1>1, <2>1 DEF Recorded, N
      <3>2. g[i + 1] = f[i + 1]
        BY <1>1, <3>1
      <3>3. i \in 1..(N + 1)
        BY <1>1
      <3> QED
        BY <1>3, <1>4, <1>8, <2>1, <3>2, <3>3 DEF WorthIs
    <2>2. CASE ~Recorded(f, i, y)
      <3>1. i \in 1..(N + 1)
        BY <1>1
      <3> QED
        BY <1>2, <1>3, <1>4, <1>5, <1>6, <1>8, <2>2, <3>1 DEF WorthIs
    <2> QED
      BY <2>1, <2>2
  <1>11. Worth(g, h, N + 1, y) = Worth(f, h, N, y)
    <2>1. N \in 1..N /\ N + 1 \in 1..(N + 1)
      BY <1>1
    <2> QED
      BY <1>2, <1>3, <1>4, <1>5, <1>7, <1>9, <2>1 DEF WorthIs
  <1> QED
    BY <1>10, <1>11 DEF N

\* A body left at level i had the Object o for x, or the innermost body has it.
ReleasedBefore(f, r, i, x, o) ==
  \/ << x, o >> \in r[i]
  \/ i = Len(f) - 1 /\ x \in Attrs(f, Len(f)) /\ f[Len(f)].attributes[x] = o

\* The field f without its top level is g, the restored heap is k, and the
\* outputs of the body join those that were left at the level around it.
Popped(f, h, r, g, k, q) ==
  /\ g \in Seq(Collection) /\ Len(g) = Len(f) - 1
  /\ \A i \in 1..(Len(f) - 1) : g[i] = f[i]
  /\ k \in Seq(Values) /\ Len(k) = Len(h)
  /\ \A x \in Ins(f, Len(f)) : k[f[Len(f)].inputs[x].obj] = f[Len(f)].inputs[x].value
  /\ \A o \in 1..Len(h) : (\A x \in Ins(f, Len(f)) : f[Len(f)].inputs[x].obj # o) => k[o] = h[o]
  /\ q \in Seq(SUBSET (Names \X Nat)) /\ Len(q) = Len(f) - 1
  /\ \A i \in 1..(Len(f) - 1) : \A x \in Names, o \in Nat :
       << x, o >> \in q[i] => ReleasedBefore(f, r, i, x, o)

LEMMA RestoredFacts ==
  ASSUME NEW f, NEW h, NEW r, Inv(f, h, r), Len(f) > 1, NEW k, k = Restored(f, h)
  PROVE  /\ k \in Seq(Values) /\ Len(k) = Len(h)
         /\ \A x \in Ins(f, Len(f)) : k[f[Len(f)].inputs[x].obj] = f[Len(f)].inputs[x].value
         /\ \A o \in 1..Len(h) : (\A x \in Ins(f, Len(f)) : f[Len(f)].inputs[x].obj # o) => k[o] = h[o]
  <1> DEFINE N == Len(f)
             ins == f[N].inputs
             same(o) == CHOOSE x \in DOMAIN ins : ins[x].obj = o
  <1>1. /\ Typed(f, h, r) /\ InputsMatch(f) /\ OneOwner(f, r)
        /\ N \in Nat /\ N \in 1..N /\ N - 1 \in 1..N /\ h \in Seq(Values) /\ Len(h) \in Nat
        /\ DOMAIN ins \subseteq Names
        /\ \A x \in DOMAIN ins : ins[x] \in Records
        /\ \A o \in 1..Len(h) : h[o] \in Values
    BY TypedFacts DEF Inv, Ins
  <1>2. ASSUME NEW x \in DOMAIN ins
        PROVE  /\ x \in Names /\ ins[x].obj \in 1..Len(h) /\ ins[x].value \in Values
               /\ Owns(f, r, x, ins[x].obj)
    <2>1. x \in Attrs(f, N - 1) /\ ins[x].obj = f[N - 1].attributes[x]
      BY <1>1 DEF InputsMatch, Ins
    <2>2. ins[x].obj \in 1..Len(h)
      BY <1>1, <2>1 DEF Typed
    <2>3. Owns(f, r, x, ins[x].obj)
      BY <1>1, <2>1 DEF Owns
    <2> QED
      BY <1>1, <2>2, <2>3 DEF Records
  <1>3. ASSUME NEW x \in DOMAIN ins, NEW y \in DOMAIN ins, ins[x].obj = ins[y].obj PROVE x = y
    <2>1. ins[x].obj \in Nat
      BY <1>1, <1>2
    <2> QED
      BY <1>1, <1>2, <1>3, <2>1 DEF OneOwner
  <1>4. k = [o \in DOMAIN h |-> IF \E x \in DOMAIN ins : ins[x].obj = o THEN ins[same(o)].value ELSE h[o]]
    BY DEF Restored, Top
  <1>5. DOMAIN h = 1..Len(h)
    BY <1>1
  <1> HIDE DEF ins
  <1>6. ASSUME NEW x \in DOMAIN ins PROVE same(ins[x].obj) = x
    <2>1. same(ins[x].obj) \in DOMAIN ins /\ ins[same(ins[x].obj)].obj = ins[x].obj
      OBVIOUS
    <2> QED
      BY <1>3, <2>1
  <1>7. \A o \in DOMAIN h : (\E x \in DOMAIN ins : ins[x].obj = o) => ins[same(o)].value \in Values
    BY <1>2, <1>6
  <1> HIDE DEF same
  <1>8. k \in [1..Len(h) -> Values]
    BY <1>1, <1>4, <1>5, <1>7
  <1>9. k \in Seq(Values) /\ Len(k) = Len(h)
    BY <1>1, <1>8, FunctionIsSequence
  <1>10. \A x \in DOMAIN ins : k[ins[x].obj] = ins[x].value
    BY <1>2, <1>4, <1>5, <1>6
  <1>11. \A o \in 1..Len(h) : (\A x \in DOMAIN ins : ins[x].obj # o) => k[o] = h[o]
    BY <1>4, <1>5
  <1> QED
    BY <1>9, <1>10, <1>11 DEF ins, Ins

LEMMA PoppedFacts ==
  ASSUME NEW f, NEW h, NEW r, Inv(f, h, r), Len(f) > 1,
         NEW g, g = pop_history(f), NEW k, k = Restored(f, h), NEW q, NEW left,
         left = {<< x, Top(f).attributes[x] >> : x \in get_outputs(f, h)},
         q = [i \in 1..(Len(r) - 1) |-> IF i = Len(r) - 1 THEN r[i] \cup left ELSE r[i]]
  PROVE  Popped(f, h, r, g, k, q)
  <1> DEFINE N == Len(f)
  <1>1. /\ N \in Nat /\ N \in 1..N /\ N - 1 \in Nat /\ Typed(f, h, r) /\ Len(r) = N
        /\ f \in Seq(Collection)
        /\ r \in Seq(SUBSET (Names \X Nat))
        /\ Attrs(f, N) \subseteq Names
        /\ \A x \in Attrs(f, N) : f[N].attributes[x] \in Nat
    <2>1. Typed(f, h, r)
      BY DEF Inv
    <2>2. /\ N \in Nat
          /\ \A i \in 1..N : Attrs(f, i) \subseteq Names
          /\ \A i \in 1..N : \A x \in Attrs(f, i) : f[i].attributes[x] \in Nat
      BY <2>1, TypedFacts
    <2>3. f \in Seq(Collection) /\ r \in Seq(SUBSET (Names \X Nat)) /\ Len(r) = N
      BY <2>1 DEF Typed
    <2>4. N \in 1..N /\ N - 1 \in Nat
      BY <2>2
    <2> HIDE DEF N
    <2> QED
      BY <2>1, <2>2, <2>3, <2>4
  <1>2. \A x \in get_outputs(f, h) : x \in Attrs(f, N)
    BY DEF get_outputs, Attrs, Top
  <1>3. left \in SUBSET (Names \X Nat)
    BY <1>1, <1>2 DEF Top
  <1>4. \A x, o : << x, o >> \in left => x \in Attrs(f, N) /\ f[N].attributes[x] = o
    BY <1>2 DEF Top
  <1>5. q \in [1..(N - 1) -> SUBSET (Names \X Nat)]
    <2> HIDE DEF N
    <2>1. \A i \in 1..(N - 1) : r[i] \in SUBSET (Names \X Nat)
      BY <1>1
    <2> QED
      BY <1>1, <1>3, <2>1
  <1>6. q \in Seq(SUBSET (Names \X Nat)) /\ Len(q) = N - 1
    BY <1>1, <1>5, FunctionIsSequence, SMTT(60)
  <1>7. \A i \in 1..(N - 1) : \A x \in Names, o \in Nat :
          << x, o >> \in q[i] => ReleasedBefore(f, r, i, x, o)
    <2> HIDE DEF N
    <2>1. \A i \in 1..(N - 1) : q[i] = IF i = N - 1 THEN r[i] \cup left ELSE r[i]
      BY <1>1
    <2> SUFFICES ASSUME NEW i \in 1..(N - 1), NEW x \in Names, NEW o \in Nat, << x, o >> \in q[i]
                 PROVE  ReleasedBefore(f, r, i, x, o)
      OBVIOUS
    <2>2. << x, o >> \in r[i] \/ (i = N - 1 /\ << x, o >> \in left)
      <3>1. i = N - 1 => q[i] = r[i] \cup left
        BY <2>1
      <3>2. i # N - 1 => q[i] = r[i]
        BY <2>1
      <3> QED
        BY <3>1, <3>2, Zenon
    <2> QED
      BY <1>4, <2>2 DEF ReleasedBefore, N
  <1>8. g \in [1..(N - 1) -> Collection] /\ \A i \in 1..(N - 1) : g[i] = f[i]
    BY <1>1 DEF pop_history
  <1>9. g \in Seq(Collection) /\ Len(g) = N - 1
    BY <1>1, <1>8, FunctionIsSequence
  <1>10. /\ k \in Seq(Values) /\ Len(k) = Len(h)
         /\ \A x \in Ins(f, N) : k[f[N].inputs[x].obj] = f[N].inputs[x].value
         /\ \A o \in 1..Len(h) : (\A x \in Ins(f, N) : f[N].inputs[x].obj # o) => k[o] = h[o]
    BY RestoredFacts, SMTT(60)
  <1> QED
    BY <1>6, <1>7, <1>8, <1>9, <1>10 DEF Popped

LEMMA PopInv ==
  ASSUME NEW f, NEW h, NEW r, Inv(f, h, r), Len(f) > 1, NEW g, NEW k, NEW q, Popped(f, h, r, g, k, q)
  PROVE  Inv(g, k, q)
  <1> DEFINE N == Len(f)
             M == N - 1
  <1>1. /\ Typed(f, h, r) /\ InputsMatch(f) /\ Contiguous(f) /\ OneOwner(f, r) /\ ReleasedBelow(f, r)
        /\ N \in Nat /\ N \in 1..N /\ M \in 1..N /\ Len(g) = M /\ Len(q) = M /\ Len(k) = Len(h)
    BY TypedFacts DEF Inv, Popped
  <1>2. \A i \in 1..M : i \in 1..N /\ g[i] = f[i] /\ Attrs(g, i) = Attrs(f, i) /\ Ins(g, i) = Ins(f, i)
    BY <1>1 DEF Popped, Attrs, Ins
  <1>3. \A i \in 1..M : \A x \in Names, o \in Nat :
          << x, o >> \in q[i] =>
            << x, o >> \in r[i] \/ (i = M /\ x \in Attrs(f, N) /\ f[N].attributes[x] = o)
    <2>1. \A i \in 1..M : \A x \in Names, o \in Nat : << x, o >> \in q[i] => ReleasedBefore(f, r, i, x, o)
      BY DEF Popped
    <2> QED
      BY <2>1 DEF ReleasedBefore
  <1>a. \A i \in 1..N : \A x \in Attrs(f, i) : f[i].attributes[x] \in Nat
    BY TypedFacts DEF Inv
  <1> HIDE DEF N, M
  <1>4. Typed(g, k, q)
    <2>1. \A i \in 1..M : \A x \in Attrs(g, i) : g[i].attributes[x] \in 1..Len(k)
      BY <1>1, <1>2 DEF Typed, N
    <2>2. \A i \in 1..M : \A x \in Names, o \in Nat : << x, o >> \in q[i] => o \in 1..Len(k)
      BY <1>1, <1>2, <1>3 DEF Typed, N
    <2> QED
      BY <1>1, <2>1, <2>2 DEF Typed, Popped, M, N
  <1>5. InputsMatch(g)
    <2> SUFFICES ASSUME NEW i \in 1..M, NEW x \in Ins(g, i)
                 PROVE  /\ i > 1
                        /\ x \in Attrs(g, i)
                        /\ x \in Attrs(g, i - 1)
                        /\ g[i].inputs[x].obj = g[i - 1].attributes[x]
      BY <1>1 DEF InputsMatch
    <2>1. /\ i > 1 /\ x \in Attrs(f, i) /\ x \in Attrs(f, i - 1)
          /\ f[i].inputs[x].obj = f[i - 1].attributes[x]
      BY <1>1, <1>2 DEF InputsMatch, N
    <2>2. i - 1 \in 1..M
      BY <1>1, <2>1
    <2> QED
      BY <1>2, <2>1, <2>2
  <1>6. Contiguous(g)
    <2> SUFFICES ASSUME NEW i \in 1..M, NEW j \in 1..M, NEW l \in 1..M, NEW x \in Names,
                        i < l, l <= j, x \in Attrs(g, i), x \in Attrs(g, j)
                 PROVE  x \in Attrs(g, l) /\ x \in Ins(g, l)
      BY <1>1 DEF Contiguous
    <2> QED
      BY <1>1, <1>2 DEF Contiguous, N
  <1>7. OneOwner(g, q)
    <2>1. ASSUME NEW x \in Names, NEW o \in Nat, Owns(g, q, x, o) PROVE Owns(f, r, x, o)
      <3>1. PICK i \in 1..M : (x \in Attrs(g, i) /\ g[i].attributes[x] = o) \/ << x, o >> \in q[i]
        BY <1>1, <2>1 DEF Owns
      <3>2. \/ (x \in Attrs(f, i) /\ f[i].attributes[x] = o)
            \/ << x, o >> \in r[i]
            \/ x \in Attrs(f, N) /\ f[N].attributes[x] = o
        BY <1>2, <1>3, <3>1
      <3> QED
        BY <1>1, <1>2, <3>2 DEF Owns, N
    <2> QED
      BY <1>1, <2>1 DEF OneOwner
  <1>8. ReleasedBelow(g, q)
    <2> SUFFICES ASSUME NEW i \in 1..M, NEW j \in 1..M, NEW x \in Names,
                        j < i, x \in Attrs(g, j), << x, g[j].attributes[x] >> \in q[i]
                 PROVE  x \in Attrs(g, i)
      BY <1>1 DEF ReleasedBelow
    <2>1. x \in Attrs(f, j) /\ g[j] = f[j] /\ f[j].attributes[x] \in Nat
      BY <1>2, <1>a
    <2>2. CASE << x, f[j].attributes[x] >> \in r[i]
      BY <1>1, <1>2, <2>1, <2>2 DEF ReleasedBelow, N
    <2>3. CASE i = M /\ x \in Attrs(f, N)
      <3>1. i <= N /\ i \in 1..N /\ j \in 1..N
        BY <1>1, <2>3
      <3>2. x \in Attrs(f, i)
        BY <1>1, <2>1, <2>3, <3>1 DEF Contiguous, N
      <3> QED
        BY <1>2, <3>2
    <2> QED
      BY <1>3, <2>1, <2>2, <2>3
  <1> QED
    BY <1>4, <1>5, <1>6, <1>7, <1>8 DEF Inv

\* Leaving the body undoes what it did.
LEMMA PopWorth ==
  ASSUME NEW f, NEW h, NEW r, Inv(f, h, r), Len(f) > 1, NEW g, NEW k, NEW q, Popped(f, h, r, g, k, q),
         NEW i \in 1..(Len(f) - 1), NEW y \in Names
  PROVE  Worth(g, k, i, y) = Worth(f, h, i, y)
  <1> DEFINE N == Len(f)
             M == N - 1
  <1>1. /\ Typed(f, h, r) /\ InputsMatch(f) /\ Contiguous(f) /\ OneOwner(f, r)
        /\ f \in Seq(Collection) /\ N \in Nat /\ N \in 1..N /\ M \in 1..N /\ M \in Nat /\ Len(g) = M /\ Len(k) = Len(h)
        /\ i \in 1..M /\ i \in 1..N
    BY TypedFacts DEF Inv, Popped
  <1>2. \A j \in 1..M : j \in 1..N /\ g[j] = f[j] /\ Attrs(g, j) = Attrs(f, j) /\ Ins(g, j) = Ins(f, j)
    BY <1>1 DEF Popped, Attrs, Ins
  <1> HIDE DEF N, M
  <1>3. WorthIs(f, h, i, y, Worth(f, h, i, y)) /\ WorthIs(g, k, i, y, Worth(g, k, i, y))
    BY WorthCases
  <1>4. Held(g, i, y) <=> Held(f, i, y)
    <2>1. \A j \in 1..i : j \in 1..M
      BY <1>1
    <2> QED
      BY <1>2, <2>1 DEF Held
  <1>5. ASSUME NEW j \in 1..M, y \in Attrs(f, j), \A l \in 1..M : y \in Attrs(f, l) => l <= j
        PROVE  ObjectOf(g, y) = f[j].attributes[y]
    <2>1. j \in 1..Len(g) /\ y \in Attrs(g, j) /\ \A l \in 1..Len(g) : y \in Attrs(g, l) => l <= j
      BY <1>1, <1>2, <1>5
    <2>2. Len(g) \in Nat
      BY <1>1
    <2> QED
      BY <1>2, <2>1, <2>2, InnermostIs
  \* What no level recorded is held by an Object that the body did not look up.
  <1>6. ASSUME ~Recorded(f, i, y), Held(f, i, y)
        PROVE  ~Recorded(g, i, y) /\ k[ObjectOf(g, y)] = h[ObjectOf(f, y)]
    <2>1. \A j \in 1..N : y \in Attrs(f, j) => j <= i
      BY <1>1, <1>6, HeldNotRecorded DEF N
    <2>2. has_attribute(f, y)
      BY <1>1, <1>6, HasFacts DEF Held, N
    <2>3. Found(f, y, Innermost(f, y))
      BY <1>1, <2>2, HasFacts DEF N
    <2>4. PICK m \in 1..N :
            /\ y \in Attrs(f, m) /\ f[m].attributes[y] = ObjectOf(f, y)
            /\ \A j \in 1..N : y \in Attrs(f, j) => j <= m
      BY <2>3 DEF Found, N
    <2>5. m \in 1..M
      BY <1>1, <2>1, <2>4
    <2>6. ObjectOf(g, y) = ObjectOf(f, y)
      BY <1>2, <1>5, <2>4, <2>5
    <2>7. ObjectOf(f, y) \in 1..Len(h) /\ ObjectOf(f, y) \in Nat /\ Owns(f, r, y, ObjectOf(f, y))
      <3>1. f[m].attributes[y] \in 1..Len(h)
        BY <1>1, <2>4 DEF Typed, N
      <3>2. Owns(f, r, y, ObjectOf(f, y))
        BY <2>4 DEF Owns, N
      <3> QED
        BY <2>4, <3>1, <3>2
    <2>8. ASSUME NEW x \in Ins(f, N), f[N].inputs[x].obj = ObjectOf(f, y) PROVE FALSE
      <3>1. x \in Attrs(f, M) /\ x \in Attrs(f, N) /\ f[M].attributes[x] = ObjectOf(f, y) /\ x \in Names
        BY <1>1, <2>8, TypedFacts DEF InputsMatch, M, N
      <3>2. Owns(f, r, x, ObjectOf(f, y))
        BY <1>1, <3>1 DEF Owns, N
      <3>3. x = y
        BY <1>1, <2>7, <3>1, <3>2 DEF OneOwner
      <3> QED
        BY <1>1, <2>1, <3>1, <3>3 DEF M, N
    <2>9. k[ObjectOf(f, y)] = h[ObjectOf(f, y)]
      BY <2>7, <2>8 DEF Popped, N
    <2>10. ~Recorded(g, i, y)
      <3>1. SUFFICES ASSUME Recorded(g, i, y) PROVE FALSE
        OBVIOUS
      <3>2. i + 1 \in 1..M /\ i < N /\ y \in Ins(g, i + 1)
        BY <1>1, <3>1 DEF Recorded, M, N
      <3> QED
        BY <1>2, <1>6, <3>2 DEF Recorded, N
    <2> QED
      BY <2>6, <2>9, <2>10
  <1>7. CASE ~Recorded(f, i, y) /\ Held(f, i, y)
    BY <1>3, <1>4, <1>6, <1>7 DEF WorthIs
  <1>8. CASE ~Recorded(f, i, y) /\ ~Held(f, i, y)
    <2>1. ~Recorded(g, i, y)
      <3>1. SUFFICES ASSUME Recorded(g, i, y) PROVE FALSE
        OBVIOUS
      <3>2. i + 1 \in 1..M /\ i < N /\ y \in Ins(g, i + 1)
        BY <1>1, <3>1 DEF Recorded, M, N
      <3> QED
        BY <1>2, <1>8, <3>2 DEF Recorded, N
    <2> QED
      BY <1>3, <1>4, <1>8, <2>1 DEF WorthIs
  <1>9. CASE Recorded(f, i, y) /\ i < M
    <2>1. i + 1 \in 1..M
      BY <1>1, <1>9
    <2>2. Recorded(g, i, y) /\ g[i + 1] = f[i + 1]
      BY <1>1, <1>2, <1>9, <2>1 DEF Recorded
    <2> QED
      BY <1>3, <1>9, <2>2 DEF WorthIs
  <1>10. CASE Recorded(f, i, y) /\ i = M
    <2>1. i + 1 = N /\ N - 1 = M /\ y \in Ins(f, N)
      BY <1>1, <1>10 DEF Recorded, M, N
    <2>2. y \in Attrs(f, M) /\ f[N].inputs[y].obj = f[M].attributes[y]
      BY <1>1, <2>1 DEF InputsMatch, N
    <2>3. ObjectOf(g, y) = f[N].inputs[y].obj
      BY <1>1, <1>5, <1>10, <2>2
    <2>4. k[ObjectOf(g, y)] = f[N].inputs[y].value
      BY <2>1, <2>3 DEF Popped, N
    <2>5. ~Recorded(g, i, y) /\ Held(g, i, y)
      BY <1>1, <1>4, <1>10, <2>2 DEF Recorded, Held
    <2> QED
      BY <1>3, <1>10, <2>1, <2>4, <2>5 DEF WorthIs
  <1> QED
    BY <1>1, <1>7, <1>8, <1>9, <1>10

-----------------------------------------------------------------------------
(* The steps of the specification.                                         *)

\* FieldHistory's Scopes for f and h.
Row(f, h, i) == [x \in Names |-> Worth(f, h, i, x)]

ScopesOf(f, h) == [i \in 1..Len(f) |-> Row(f, h, i)]

LEMMA ScopesAre == Scopes = ScopesOf(field, heap) /\ Scopes' = ScopesOf(field', heap')
  BY DEF Scopes, ScopesOf, Row, ValueAt, DefinedAt, Worth

LEMMA SameRow ==
  ASSUME NEW f, NEW h, NEW i, NEW g, NEW k, NEW j, \A x \in Names : Worth(g, k, j, x) = Worth(f, h, i, x)
  PROVE  Row(g, k, j) = Row(f, h, i)
  BY DEF Row

\* A function on 1..n.
Long(S, n) == S = [i \in 1..n |-> S[i]]

\* Appending the last element again.
LEMMA AppendLast ==
  ASSUME NEW n \in Nat, n >= 1, NEW S, NEW T, Long(S, n), Long(T, n + 1),
         \A i \in 1..n : T[i] = S[i], T[n + 1] = S[n]
  PROVE  T = Append(S, S[Len(S)])
  <1> DEFINE R == {S[i] : i \in 1..n}
  <1>1. S \in [1..n -> R] /\ n \in 1..n
    BY DEF Long
  <1>2. S \in Seq(R) /\ Len(S) = n /\ S[n] \in R
    BY <1>1, FunctionIsSequence
  <1> HIDE DEF R
  <1> DEFINE A == Append(S, S[n])
  <1>3. A \in Seq(R) /\ Len(A) = n + 1 /\ (\A i \in 1..n : A[i] = S[i]) /\ A[n + 1] = S[n]
    BY <1>2
  <1>4. A = [i \in 1..(n + 1) |-> A[i]]
    BY <1>3
  <1>5. \A i \in 1..(n + 1) : A[i] = T[i]
    <2>1. \A i \in 1..(n + 1) : i \in 1..n \/ i = n + 1
      OBVIOUS
    <2> HIDE DEF A
    <2> QED
      BY <1>3, <2>1
  <1> HIDE DEF A
  <1>6. A = T
    BY <1>4, <1>5 DEF Long
  <1> QED
    BY <1>2, <1>6 DEF A

LEMMA ScopesFacts ==
  ASSUME NEW f, NEW h, Len(f) \in Nat
  PROVE  /\ Len(ScopesOf(f, h)) = Len(f) /\ DOMAIN ScopesOf(f, h) = 1..Len(f)
         /\ \A i \in 1..Len(f) : ScopesOf(f, h)[i] = Row(f, h, i)
         /\ ScopesOf(f, h) = [i \in 1..Len(f) |-> ScopesOf(f, h)[i]]
  BY DEF ScopesOf

\* Every name is worth the same in g and k as in f and h, but for x at the top.
Writes(f, h, g, k, x, v) ==
  /\ Len(g) = Len(f)
  /\ \A i \in 1..Len(f) : \A y \in Names :
       Worth(g, k, i, y) = IF i = Len(f) /\ y = x THEN v ELSE Worth(f, h, i, y)

\* BranchStack's Write of x on the scopes S makes them T.
WrittenTo(S, T, x, v) == T = [S EXCEPT ![Len(S)][x] = v]

LEMMA WriteScopes ==
  ASSUME NEW f, NEW h, NEW g, NEW k, NEW x \in Names, NEW v, Len(f) \in Nat, Len(f) >= 1,
         Writes(f, h, g, k, x, v)
  PROVE  WrittenTo(ScopesOf(f, h), ScopesOf(g, k), x, v)
  <1> DEFINE N == Len(f)
             S == ScopesOf(f, h)
             T == ScopesOf(g, k)
             row == Row(f, h, N)
  <1>1. /\ N \in Nat /\ N \in 1..N /\ Len(g) = N
        /\ Len(S) = N /\ DOMAIN S = 1..N /\ \A i \in 1..N : S[i] = Row(f, h, i)
        /\ DOMAIN T = 1..N /\ \A i \in 1..N : T[i] = Row(g, k, i)
    BY ScopesFacts DEF Writes
  <1>2. S = [i \in 1..N |-> S[i]] /\ T = [i \in 1..N |-> T[i]]
    BY DEF ScopesOf, Writes
  <1>3. ASSUME NEW i \in 1..N, i # N PROVE T[i] = S[i]
    <2>1. \A y \in Names : Worth(g, k, i, y) = Worth(f, h, i, y)
      BY <1>3 DEF Writes
    <2> HIDE DEF N, S, T
    <2> QED
      BY <1>1, <2>1, SameRow
  <1>4. T[N] = [row EXCEPT ![x] = v]
    <2>1. \A y \in Names : Worth(g, k, N, y) = IF y = x THEN v ELSE Worth(f, h, N, y)
      BY <1>1 DEF Writes
    <2> HIDE DEF N, S, T
    <2> QED
      BY <1>1, <2>1 DEF Row
  <1>5. S[N] = row
    BY <1>1
  <1> HIDE DEF N, S, T, row
  <1>6. T = [S EXCEPT ![N] = [row EXCEPT ![x] = v]]
    BY <1>1, <1>2, <1>3, <1>4
  <1>7. T = [S EXCEPT ![N] = [S[N] EXCEPT ![x] = v]]
    BY <1>5, <1>6
  <1> QED
    BY <1>1, <1>7 DEF S, T, WrittenTo

LEMMA Initially == Init => IInv /\ Branches!Init
  <1> SUFFICES ASSUME Init PROVE IInv /\ Branches!Init
    OBVIOUS
  <1>1. field = << EmptyCollection >> /\ heap = << >> /\ released = << {} >>
    BY DEF Init
  <1>2. /\ field \in Seq(Collection) /\ Len(field) = 1
        /\ Attrs(field, 1) = {} /\ Ins(field, 1) = {}
    BY <1>1, EmptyFacts DEF Attrs, Ins
  <1>3. /\ released \in Seq(SUBSET (Names \X Nat)) /\ Len(released) = 1 /\ released[1] = {}
    BY <1>1
  <1>4. heap \in Seq(Values)
    BY <1>1
  <1>5. Typed(field, heap, released)
    BY <1>2, <1>3, <1>4 DEF Typed
  <1>6. InputsMatch(field) /\ Contiguous(field) /\ ReleasedBelow(field, released)
    BY <1>2, <1>3 DEF InputsMatch, Contiguous, ReleasedBelow
  <1>7. OneOwner(field, released)
    BY <1>2, <1>3 DEF OneOwner, Owns
  <1>8. IInv
    BY <1>2, <1>5, <1>6, <1>7 DEF IInv, Inv
  <1>9. \A x \in Names : Worth(field, heap, 1, x) = Undefined
    <2> TAKE x \in Names
    <2>1. ~Recorded(field, 1, x) /\ ~Held(field, 1, x)
      BY <1>2 DEF Recorded, Held
    <2> QED
      BY <2>1, WorthCases DEF WorthIs
  <1>10. ScopesOf(field, heap) = << [x \in Names |-> Undefined] >>
    BY <1>2, <1>9 DEF ScopesOf, Row
  <1> QED
    BY <1>8, <1>10, ScopesAre DEF Branches!Init, Branches!InitScope

LEMMA ReadStep ==
  ASSUME IInv, NEW x \in Names, Read(x)
  PROVE  IInv' /\ Scopes' = Scopes
  <1> DEFINE n == Innermost(field, x)
  <1>1. /\ Inv(field, heap, released) /\ Len(field) \in 1..MaxDepth \cup {1}
        /\ has_attribute(field, x) /\ field' = try_get_attribute(field, heap, x)
        /\ heap' = heap /\ released' = released
    BY DEF IInv, Read
  <1>2. LookedUp(field, heap, x, field', n) /\ Inv(field', heap, released) /\ Len(field') = Len(field)
    BY <1>1, LookupStep
  <1>3. IInv'
    BY <1>1, <1>2 DEF IInv
  <1> HIDE DEF n
  <1>4. \A i \in 1..Len(field) : \A y \in Names : Worth(field', heap, i, y) = Worth(field, heap, i, y)
    BY <1>1, <1>2, LookupWorth DEF n
  <1>5. ScopesOf(field', heap) = ScopesOf(field, heap)
    <2>1. \A i \in 1..Len(field) : Row(field', heap, i) = Row(field, heap, i)
      BY <1>4, SameRow
    <2> QED
      BY <1>2, <2>1 DEF ScopesOf
  <1> QED
    BY <1>1, <1>3, <1>5, ScopesAre

\* A step that gives x an Object at the top, after the heap has changed.
LEMMA ReviseStep ==
  ASSUME IInv, NEW x \in Names, NEW v \in Values, NEW o \in 1..Len(heap'),
         \A y \in Names : Owns(field, released, y, o) => y = x,
         heap' \in Seq(Values), Len(heap') >= Len(heap), heap'[o] = v,
         \A i \in 1..Len(field) : \A y \in Names :
           ~(i = Len(field) /\ y = x) => Worth(field, heap', i, y) = Worth(field, heap, i, y),
         field' = revise(field, heap', x, o), released' = released
  PROVE  IInv' /\ Branches!Write(x, v)
  <1>1. Inv(field, heap, released) /\ Len(field) \in 1..MaxDepth \cup {1}
    BY DEF IInv
  <1>2. Len(field) \in Nat /\ Len(field) >= 1
    BY <1>1, TypedFacts DEF Inv
  <1>3. Inv(field, heap', released)
    BY <1>1, HeapInv
  <1>4. Revised(field, heap', released, x, o, field')
    BY <1>3, Revise
  <1>5. IInv'
    BY <1>1, <1>4 DEF IInv, Revised
  <1>6. Writes(field, heap, field', heap', x, v)
    BY <1>4 DEF Revised, Writes
  <1>7. WrittenTo(ScopesOf(field, heap), ScopesOf(field', heap'), x, v)
    BY <1>2, <1>6, WriteScopes
  <1>8. WrittenTo(Scopes, Scopes', x, v)
    BY <1>7, ScopesAre
  <1> QED
    BY <1>5, <1>8 DEF Branches!Write, WrittenTo

LEMMA AssignStep ==
  ASSUME IInv, NEW x \in Names, NEW v \in Values, Assign(x, v)
  PROVE  IInv' /\ Branches!Write(x, v)
  <1> DEFINE o == Len(heap) + 1
  <1>1. /\ Inv(field, heap, released) /\ Typed(field, heap, released)
        /\ heap \in Seq(Values) /\ Len(heap) \in Nat /\ Len(field) \in Nat
    BY TypedFacts DEF IInv, Inv
  <1>2. /\ heap' = Append(heap, v) /\ field' = revise(field, heap', x, o) /\ released' = released
    BY DEF Assign
  <1>3. /\ heap' \in Seq(Values) /\ Len(heap') = Len(heap) + 1 /\ heap'[o] = v
        /\ \A p \in 1..Len(heap) : heap'[p] = heap[p]
    BY <1>1, <1>2
  <1>4. ASSUME NEW y \in Names PROVE ~Owns(field, released, y, o)
    <2>1. SUFFICES ASSUME Owns(field, released, y, o) PROVE FALSE
      OBVIOUS
    <2>2. PICK i \in 1..Len(field) :
            (y \in Attrs(field, i) /\ field[i].attributes[y] = o) \/ << y, o >> \in released[i]
      BY <2>1 DEF Owns
    <2>3. o \in Nat
      BY <1>1
    <2>4. o \in 1..Len(heap)
      <3>1. CASE y \in Attrs(field, i) /\ field[i].attributes[y] = o
        <4> HIDE DEF o
        <4> QED
          BY <1>1, <3>1 DEF Typed
      <3>2. CASE << y, o >> \in released[i]
        <4> HIDE DEF o
        <4> QED
          BY <1>1, <2>3, <3>2 DEF Typed
      <3> QED
        BY <2>2, <3>1, <3>2
    <2> QED
      BY <1>1, <2>4
  <1>5. ASSUME NEW y \in Names, has_attribute(field, y) PROVE ObjectOf(field, y) # o
    <2>1. Found(field, y, Innermost(field, y))
      BY <1>1, <1>5, HasFacts
    <2>2. Owns(field, released, y, ObjectOf(field, y))
      BY <2>1 DEF Found, Owns
    <2> QED
      BY <1>4, <2>2
  <1>6. o \in 1..Len(heap') /\ Len(heap') >= Len(heap)
    BY <1>1, <1>3
  <1> HIDE DEF o
  <1>7. Differ(field, heap, heap', x, o)
    BY <1>3, <1>5 DEF Differ
  <1>8. \A i \in 1..Len(field) : \A y \in Names :
          ~(i = Len(field) /\ y = x) => Worth(field, heap', i, y) = Worth(field, heap, i, y)
    BY <1>1, <1>7, HeapWorth
  <1> QED
    BY <1>2, <1>3, <1>4, <1>6, <1>8, ReviseStep

LEMMA MergeStep ==
  ASSUME IInv, NEW x \in Names, NEW o \in Objects, NEW v \in Values, Merge(x, o, v)
  PROVE  IInv' /\ Branches!Write(x, v)
  <1> DEFINE N == Len(field)
  <1>1. /\ Inv(field, heap, released) /\ Typed(field, heap, released)
        /\ OneOwner(field, released) /\ ReleasedBelow(field, released)
        /\ heap \in Seq(Values) /\ Len(heap) \in Nat /\ N \in Nat /\ N \in 1..N /\ Len(released) = N
    BY TypedFacts DEF IInv, Inv, Typed
  <1>2. /\ << x, o >> \in released[N]
        /\ heap' = [heap EXCEPT ![o] = v] /\ field' = revise(field, heap', x, o) /\ released' = released
    BY <1>1 DEF Merge, Top
  <1>3. o \in 1..Len(heap) /\ o \in Nat
    BY <1>1 DEF Objects
  <1>4. /\ heap' \in Seq(Values) /\ Len(heap') = Len(heap) /\ heap'[o] = v
        /\ \A p \in 1..Len(heap) : p # o => heap'[p] = heap[p]
    BY <1>1, <1>2, <1>3
  <1>5. \A y \in Names : Owns(field, released, y, o) => y = x
    <2>1. Owns(field, released, x, o)
      BY <1>1, <1>2 DEF Owns
    <2> QED
      BY <1>1, <1>3, <2>1 DEF OneOwner
  <1>6. ASSUME NEW y \in Names, has_attribute(field, y), ObjectOf(field, y) = o
        PROVE  y = x /\ x \in Attrs(field, N)
    <2>1. Found(field, y, Innermost(field, y))
      BY <1>1, <1>6, HasFacts
    <2>2. PICK m \in 1..N : y \in Attrs(field, m) /\ field[m].attributes[y] = o
      BY <1>6, <2>1 DEF Found
    <2>3. y = x
      BY <1>5, <2>2 DEF Owns
    <2>4. x \in Attrs(field, N)
      <3>1. CASE m = N
        BY <2>2, <2>3, <3>1
      <3>2. CASE m < N
        <4>1. << x, field[m].attributes[x] >> \in released[N]
          BY <1>2, <2>2, <2>3
        <4> QED
          BY <1>1, <2>2, <2>3, <3>2, <4>1 DEF ReleasedBelow
      <3> QED
        BY <1>1, <3>1, <3>2
    <2> QED
      BY <2>3, <2>4
  <1>7. Differ(field, heap, heap', x, o)
    BY <1>4, <1>6 DEF Differ
  <1>8. \A i \in 1..Len(field) : \A y \in Names :
          ~(i = Len(field) /\ y = x) => Worth(field, heap', i, y) = Worth(field, heap, i, y)
    BY <1>1, <1>7, HeapWorth
  <1>9. o \in 1..Len(heap') /\ Len(heap') >= Len(heap)
    BY <1>1, <1>3, <1>4
  <1> QED
    BY <1>2, <1>4, <1>5, <1>8, <1>9, ReviseStep

LEMMA AugAssignStep ==
  ASSUME IInv, NEW x \in Names, NEW v \in Values, AugAssign(x, v)
  PROVE  IInv' /\ Branches!Write(x, v)
  <1> DEFINE n == Innermost(field, x)
             o == ObjectOf(field, x)
             N == Len(field)
  <1>1. /\ Inv(field, heap, released) /\ Typed(field, heap, released) /\ Len(field) \in 1..MaxDepth \cup {1}
        /\ field \in Seq(Collection) /\ heap \in Seq(Values) /\ Len(heap) \in Nat
        /\ N \in Nat /\ N >= 1 /\ N \in 1..N
    BY TypedFacts DEF IInv, Inv
  <1>2. /\ has_attribute(field, x) /\ field' = try_get_attribute(field, heap, x)
        /\ heap' = [heap EXCEPT ![o] = v] /\ released' = released
    BY DEF AugAssign
  <1>3. LookedUp(field, heap, x, field', n) /\ Inv(field', heap, released) /\ Len(field') = N
    BY <1>1, <1>2, LookupStep
  <1>4. Found(field, x, n)
    BY <1>1, <1>2, HasFacts
  <1>5. o \in 1..Len(heap) /\ o \in Nat
    BY <1>1, <1>4 DEF Found, Typed
  <1>6. /\ x \in Attrs(field', N) /\ field'[N].attributes[x] = o
        /\ has_attribute(field', x) /\ ObjectOf(field', x) = o
    BY <1>1, <1>2, <1>3, LookupObjects
  <1> HIDE DEF o, n, N
  <1>7. /\ heap' \in Seq(Values) /\ Len(heap') = Len(heap) /\ heap'[o] = v
        /\ \A p \in 1..Len(heap) : p # o => heap'[p] = heap[p]
    BY <1>1, <1>2, <1>5
  <1>8. IInv'
    <2>1. Len(heap') >= Len(heap)
      BY <1>1, <1>7
    <2>2. Inv(field', heap', released)
      BY <1>3, <1>7, <2>1, HeapInv
    <2> QED
      BY <1>1, <1>2, <1>3, <2>2 DEF IInv, N
  <1>9. ASSUME NEW y \in Names, has_attribute(field', y), ObjectOf(field', y) = o PROVE y = x
    <2>1. Found(field', y, Innermost(field', y))
      BY <1>1, <1>3, <1>9, HasFacts
    <2>2. Owns(field', released, y, o)
      BY <1>9, <2>1 DEF Found, Owns
    <2>3. Owns(field', released, x, o)
      BY <1>1, <1>3, <1>6 DEF Owns
    <2>4. OneOwner(field', released)
      BY <1>3 DEF Inv
    <2> QED
      BY <1>5, <2>2, <2>3, <2>4 DEF OneOwner
  <1>10. Differ(field', heap, heap', x, o)
    BY <1>3, <1>6, <1>7, <1>9 DEF Differ
  <1>11. ASSUME NEW i \in 1..N, NEW y \in Names, ~(i = N /\ y = x)
         PROVE  Worth(field', heap', i, y) = Worth(field, heap, i, y)
    <2>1. Worth(field', heap', i, y) = Worth(field', heap, i, y)
      BY <1>3, <1>10, <1>11, HeapWorth
    <2>2. Worth(field', heap, i, y) = Worth(field, heap, i, y)
      BY <1>1, <1>3, LookupWorth DEF n, N
    <2> QED
      BY <2>1, <2>2
  <1>12. Worth(field', heap', N, x) = v
    <2>1. ~Recorded(field', N, x) /\ Held(field', N, x)
      BY <1>1, <1>3, <1>6 DEF Recorded, Held
    <2> QED
      BY <1>6, <1>7, <2>1, WorthCases DEF WorthIs
  <1>13. Writes(field, heap, field', heap', x, v)
    BY <1>3, <1>11, <1>12 DEF Writes, N
  <1>14. WrittenTo(ScopesOf(field, heap), ScopesOf(field', heap'), x, v)
    BY <1>1, <1>13, WriteScopes DEF N
  <1>15. WrittenTo(Scopes, Scopes', x, v)
    BY <1>14, ScopesAre
  <1> QED
    BY <1>8, <1>15 DEF Branches!Write, WrittenTo

LEMMA PushStep ==
  ASSUME IInv, PushHistory
  PROVE  IInv' /\ Branches!Enter
  <1> DEFINE N == Len(field)
  <1>1. /\ Inv(field, heap, released) /\ field \in Seq(Collection) /\ N \in Nat /\ N >= 1
    BY TypedFacts DEF IInv, Inv
  <1>2. /\ N < MaxDepth /\ field' = push_history(field) /\ heap' = heap /\ released' = Append(released, {})
    BY DEF PushHistory
  <1>3. Pushed(field, field')
    BY <1>1, <1>2, PushedFacts
  <1>4. Inv(field', heap, released')
    BY <1>1, <1>2, <1>3, PushInv
  <1>5. Len(field') = N + 1
    BY <1>3 DEF Pushed
  <1>6. IInv'
    <2>1. Len(field') \in 1..MaxDepth
      BY <1>1, <1>2, <1>5, FieldAssumption DEF FieldAssumption
    <2> QED
      BY <1>2, <1>4, <2>1 DEF IInv
  <1> DEFINE S == ScopesOf(field, heap)
             T == ScopesOf(field', heap)
  <1>7. /\ \A i \in 1..N : S[i] = Row(field, heap, i)
        /\ \A i \in 1..(N + 1) : T[i] = Row(field', heap, i)
        /\ S = [i \in 1..N |-> S[i]] /\ T = [i \in 1..(N + 1) |-> T[i]]
    <2>1. Len(field') \in Nat
      BY <1>1, <1>5
    <2> HIDE DEF S, T, N
    <2>2. \A i \in 1..N : S[i] = Row(field, heap, i)
      BY <1>1, ScopesFacts DEF S, N
    <2>3. \A i \in 1..(N + 1) : T[i] = Row(field', heap, i)
      BY <1>5, <2>1, ScopesFacts DEF T
    <2>4. S = [i \in 1..N |-> S[i]]
      BY <1>1, ScopesFacts DEF S, N
    <2>5. T = [i \in 1..(N + 1) |-> T[i]]
      BY <1>5, <2>1, ScopesFacts DEF T
    <2> QED
      BY <2>2, <2>3, <2>4, <2>5
  <1>8. \A x \in Names : /\ \A i \in 1..N : Worth(field', heap, i, x) = Worth(field, heap, i, x)
                         /\ Worth(field', heap, N + 1, x) = Worth(field, heap, N, x)
    BY <1>1, <1>3, PushWorth
  <1> HIDE DEF S, T, N
  <1>9. \A i \in 1..N : T[i] = S[i]
    <2> TAKE i \in 1..N
    <2>1. i \in 1..(N + 1)
      BY <1>1
    <2>2. Row(field', heap, i) = Row(field, heap, i)
      BY <1>8, SameRow
    <2> QED
      BY <1>7, <2>1, <2>2
  <1>10. T[N + 1] = S[N]
    <2>1. N \in 1..N /\ N + 1 \in 1..(N + 1)
      BY <1>1
    <2>2. Row(field', heap, N + 1) = Row(field, heap, N)
      BY <1>8, SameRow
    <2> QED
      BY <1>7, <2>1, <2>2
  <1>11. T = Append(S, S[Len(S)])
    <2>1. Long(S, N) /\ Long(T, N + 1) /\ N \in Nat /\ N >= 1
      BY <1>1, <1>7 DEF N, Long
    <2> QED
      BY <1>9, <1>10, <2>1, AppendLast
  <1> QED
    BY <1>2, <1>6, <1>11, ScopesAre DEF Branches!Enter, S, T

LEMMA PopStep ==
  ASSUME IInv, PopHistory
  PROVE  IInv' /\ Branches!Leave
  <1> DEFINE N == Len(field)
  <1>1. /\ Inv(field, heap, released) /\ N \in 1..MaxDepth \cup {1} /\ N \in Nat
    BY TypedFacts DEF IInv, Inv
  <1>2. N > 1
    BY DEF PopHistory
  <1>3. Popped(field, heap, released, field', heap', released')
    BY <1>1, <1>2, PoppedFacts DEF PopHistory, LeftBehind
  <1>4. Inv(field', heap', released')
    BY <1>1, <1>2, <1>3, PopInv
  <1>5. Len(field') = N - 1
    BY <1>3 DEF Popped
  <1>6. IInv'
    <2>1. Len(field') \in 1..MaxDepth
      BY <1>1, <1>2, <1>5, FieldAssumption DEF FieldAssumption
    <2> QED
      BY <1>4, <2>1 DEF IInv
  <1> DEFINE S == ScopesOf(field, heap)
             T == ScopesOf(field', heap')
  <1>7. /\ Len(S) = N /\ \A i \in 1..N : S[i] = Row(field, heap, i)
        /\ \A i \in 1..(N - 1) : T[i] = Row(field', heap', i)
        /\ T = [i \in 1..(N - 1) |-> T[i]]
    <2>1. Len(field') \in Nat
      BY <1>1, <1>2, <1>5
    <2> HIDE DEF S, T, N
    <2>2. Len(S) = N /\ \A i \in 1..N : S[i] = Row(field, heap, i)
      BY <1>1, ScopesFacts DEF S, N
    <2>3. \A i \in 1..(N - 1) : T[i] = Row(field', heap', i)
      BY <1>5, <2>1, ScopesFacts DEF T
    <2>4. T = [i \in 1..(N - 1) |-> T[i]]
      BY <1>5, <2>1, ScopesFacts DEF T
    <2> QED
      BY <2>2, <2>3, <2>4
  <1>8. \A x \in Names : \A i \in 1..(N - 1) : Worth(field', heap', i, x) = Worth(field, heap, i, x)
    BY <1>1, <1>2, <1>3, PopWorth
  <1> HIDE DEF S, T, N
  <1>9. \A i \in 1..(N - 1) : T[i] = S[i]
    <2> TAKE i \in 1..(N - 1)
    <2>1. i \in 1..N
      BY <1>1
    <2>2. Row(field', heap', i) = Row(field, heap, i)
      BY <1>8, SameRow
    <2> QED
      BY <1>7, <2>1, <2>2
  <1>10. T = [i \in 1..(Len(S) - 1) |-> S[i]] /\ Len(S) > 1
    BY <1>2, <1>7, <1>9
  <1> QED
    BY <1>6, <1>10, ScopesAre DEF Branches!Leave, S, T

LEMMA Stuttering ==
  ASSUME IInv, UNCHANGED vars
  PROVE  IInv' /\ Scopes' = Scopes
  <1>1. field' = field /\ heap' = heap /\ released' = released
    BY DEF vars
  <1> QED
    BY <1>1, ScopesAre DEF IInv

LEMMA Step ==
  ASSUME IInv, [Next]_vars
  PROVE  IInv' /\ [Branches!Next]_Scopes
  <1>1. ASSUME NEW x \in Names, Read(x) PROVE IInv' /\ [Branches!Next]_Scopes
    BY <1>1, ReadStep
  <1>2. ASSUME NEW x \in Names, NEW v \in Values, Assign(x, v) PROVE IInv' /\ [Branches!Next]_Scopes
    BY <1>2, AssignStep DEF Branches!Next
  <1>3. ASSUME NEW x \in Names, NEW v \in Values, AugAssign(x, v) PROVE IInv' /\ [Branches!Next]_Scopes
    BY <1>3, AugAssignStep DEF Branches!Next
  <1>4. ASSUME NEW x \in Names, NEW o \in Objects, NEW v \in Values, Merge(x, o, v)
        PROVE  IInv' /\ [Branches!Next]_Scopes
    BY <1>4, MergeStep DEF Branches!Next
  <1>5. CASE PushHistory
    BY <1>5, PushStep DEF Branches!Next
  <1>6. CASE PopHistory
    BY <1>6, PopStep DEF Branches!Next
  <1>7. CASE UNCHANGED vars
    BY <1>7, Stuttering
  <1> QED
    BY <1>1, <1>2, <1>3, <1>4, <1>5, <1>6, <1>7 DEF Next

-----------------------------------------------------------------------------
(* What the invariant says of the properties that the runs check.          *)

LEMMA InvTypeOK == IInv => TypeOK
  <1> SUFFICES ASSUME IInv PROVE TypeOK
    OBVIOUS
  <1>1. /\ Inv(field, heap, released) /\ Typed(field, heap, released) /\ InputsMatch(field)
        /\ Len(field) \in 1..MaxDepth \cup {1} /\ Len(field) \in Nat
        /\ heap \in Seq(Values) /\ Len(heap) \in Nat
    BY TypedFacts DEF IInv, Inv
  <1>2. /\ \A i \in 1..Len(field) : Attrs(field, i) \subseteq Names
        /\ \A i \in 1..Len(field) : \A x \in Ins(field, i) : field[i].inputs[x] \in Records
    BY <1>1, TypedFacts
  <1>3. ASSUME NEW i \in 1..Len(field) PROVE CollectionOK(field[i])
    <2>1. \A x \in Attrs(field, i) : field[i].attributes[x] \in Objects
      BY <1>1 DEF Typed, Objects
    <2>2. ASSUME NEW x \in Ins(field, i)
          PROVE  x \in Attrs(field, i) /\ field[i].inputs[x].obj \in Objects /\ field[i].inputs[x].value \in Values
      <3>1. /\ i > 1 /\ x \in Attrs(field, i) /\ x \in Attrs(field, i - 1)
            /\ field[i].inputs[x].obj = field[i - 1].attributes[x]
        BY <1>1 DEF InputsMatch
      <3>2. i - 1 \in 1..Len(field)
        BY <1>1, <3>1
      <3>3. field[i].inputs[x].obj \in Objects
        BY <1>1, <3>1, <3>2 DEF Typed, Objects
      <3>4. field[i].inputs[x].value \in Values
        BY <1>2 DEF Records
      <3> QED
        BY <3>1, <3>3, <3>4
    <2> QED
      BY <1>2, <2>1, <2>2 DEF CollectionOK, Attrs, Ins
  <1>4. ASSUME NEW i \in 1..Len(released) PROVE released[i] \subseteq Names \X Objects
    <2>1. i \in 1..Len(field) /\ released[i] \subseteq Names \X Nat
      BY <1>1 DEF Typed
    <2>2. \A x \in Names, o \in Nat : << x, o >> \in released[i] => o \in 1..Len(heap)
      BY <1>1, <2>1 DEF Typed
    <2> QED
      BY <2>1, <2>2 DEF Objects
  <1>5. Len(released) = Len(field)
    BY <1>1 DEF Typed
  <1> QED
    BY <1>1, <1>3, <1>4, <1>5 DEF TypeOK

LEMMA InvOutputs == IInv => ChangesAreOutputs
  <1> DEFINE N == Len(field)
  <1> SUFFICES ASSUME IInv, N > 1, NEW x \in Names, x \notin get_outputs(field, heap)
               PROVE  ValueAt(N, x) = ValueAt(N - 1, x)
    BY DEF ChangesAreOutputs
  <1>1. /\ Inv(field, heap, released) /\ InputsMatch(field) /\ N \in Nat /\ N \in 1..N /\ N - 1 \in 1..N
    BY TypedFacts DEF IInv, Inv
  <1>2. /\ WorthIs(field, heap, N, x, Worth(field, heap, N, x))
        /\ WorthIs(field, heap, N - 1, x, Worth(field, heap, N - 1, x))
    BY WorthCases
  <1>3. ~Recorded(field, N, x) /\ (Recorded(field, N - 1, x) <=> x \in Ins(field, N))
    BY <1>1 DEF Recorded
  <1>4. \A i \in 1..N : Worth(field, heap, i, x) = ValueAt(i, x)
    BY DEF Worth, ValueAt, DefinedAt
  <1>5. CASE x \notin Attrs(field, N)
    <2>1. x \notin Ins(field, N)
      BY <1>1, <1>5 DEF InputsMatch
    <2>2. Held(field, N, x) <=> Held(field, N - 1, x)
      <3> HIDE DEF N
      <3>1. \A j \in 1..N : j = N \/ j \in 1..(N - 1)
        BY <1>1
      <3>2. \A j \in 1..(N - 1) : j \in 1..N
        BY <1>1
      <3> QED
        BY <1>5, <3>1, <3>2 DEF Held
    <2> QED
      BY <1>1, <1>2, <1>3, <1>4, <2>1, <2>2 DEF WorthIs
  <1>6. CASE x \in Attrs(field, N)
    <2>1. /\ x \in Ins(field, N)
          /\ heap[field[N].attributes[x]] = field[N].inputs[x].value
      BY <1>6 DEF get_outputs, Top, Attrs, Ins
    <2>2. Held(field, N, x) /\ ObjectOf(field, x) = field[N].attributes[x]
      BY <1>1, <1>6, InnermostIs DEF Held
    <2>3. Worth(field, heap, N, x) = field[N].inputs[x].value
      BY <1>2, <1>3, <2>1, <2>2 DEF WorthIs
    <2>4. Worth(field, heap, N - 1, x) = field[N].inputs[x].value
      <3>1. N - 1 + 1 = N
        BY <1>1
      <3> QED
        BY <1>2, <1>3, <2>1, <3>1 DEF WorthIs
    <2> QED
      BY <1>1, <1>4, <2>3, <2>4
  <1> QED
    BY <1>5, <1>6

LEMMA InvInputs == IInv => InputsComeFromOutside
  <1> DEFINE N == Len(field)
             g == pop_history(field)
             k == Restored(field, heap)
             q == [i \in 1..(Len(released) - 1) |->
                     IF i = Len(released) - 1 THEN released[i] \cup LeftBehind ELSE released[i]]
  <1> SUFFICES ASSUME IInv, N > 1, NEW x \in get_inputs(field)
               PROVE  has_attribute(g, x) /\ Top(field).inputs[x].value = ValueOf(g, k, x)
    BY DEF InputsComeFromOutside
  <1>1. /\ Inv(field, heap, released) /\ InputsMatch(field) /\ N \in Nat /\ N \in 1..N /\ N - 1 \in 1..N
        /\ N - 1 \in 1..(N - 1) /\ N - 1 + 1 = N
    BY TypedFacts DEF IInv, Inv
  <1>2. x \in Ins(field, N)
    BY DEF get_inputs, Ins, Top
  <1>3. x \in Names /\ x \in Attrs(field, N - 1)
    BY <1>1, <1>2, TypedFacts DEF InputsMatch, Inv
  <1>4. Popped(field, heap, released, g, k, q)
    BY <1>1, PoppedFacts DEF LeftBehind
  <1>5. Worth(g, k, N - 1, x) = Worth(field, heap, N - 1, x)
    <2> HIDE DEF g, k, q
    <2> QED
      BY <1>1, <1>3, <1>4, PopWorth
  <1>6. Worth(field, heap, N - 1, x) = field[N].inputs[x].value
    <2>1. Recorded(field, N - 1, x)
      BY <1>1, <1>2 DEF Recorded
    <2> QED
      BY <1>1, <2>1, WorthCases DEF WorthIs
  <1>7. Len(g) = N - 1 /\ x \in Attrs(g, N - 1)
    BY <1>1, <1>3, <1>4 DEF Popped, Attrs
  <1> HIDE DEF g, k, q, N
  <1>8. has_attribute(g, x) /\ ~Recorded(g, N - 1, x) /\ Held(g, N - 1, x)
    BY <1>1, <1>7, HasFacts DEF Recorded, Held
  <1>9. Worth(g, k, N - 1, x) = ValueOf(g, k, x)
    BY <1>8, WorthCases DEF WorthIs, ValueOf
  <1> QED
    BY <1>5, <1>6, <1>8, <1>9 DEF Top, N

-----------------------------------------------------------------------------
(* The theorems.                                                           *)

\* The collections of the history are built as the invariant says, whatever
\* the function reads, assigns and merges (values.py, FieldAttributeCollection
\* and Field).
THEOREM InvariantHolds == Spec => []IInv
  <1>1. Init => IInv
    BY Initially
  <1>2. IInv /\ [Next]_vars => IInv'
    BY Step
  <1> QED
    BY <1>1, <1>2, PTL DEF Spec

\* The history maps names to Objects that exist and records values of inputs
\* (values.py, try_get_attribute and set_predefined_obj).
THEOREM TypeCorrect == Spec => []TypeOK
  BY InvariantHolds, InvTypeOK, PTL

\* The outputs of a body are all that it changed (values.py, get_outputs).
THEOREM OutputsComplete == Spec => []ChangesAreOutputs
  BY InvariantHolds, InvOutputs, PTL

\* The value that a body's input is recorded with is the one the name has
\* outside the body once it has been left (values.py, get_inputs and
\* pop_history).
THEOREM InputsOutside == Spec => []InputsComeFromOutside
  BY InvariantHolds, InvInputs, PTL

\* The history of a field implements a stack of scopes: entering, writing and
\* leaving the bodies of if and for does to the values of the variables what
\* it does to the scopes, and nothing else does anything (values.py,
\* push_history, pop_history and revise).
THEOREM HistoryImplementsScopes == Spec => BodiesAreUndone
  <1>1. Init => Branches!Init
    BY Initially
  <1>2. IInv /\ [Next]_vars => [Branches!Next]_Scopes
    BY Step
  <1> QED
    BY <1>1, <1>2, InvariantHolds, PTL DEF Spec, BodiesAreUndone, Branches!Spec

=============================================================================
