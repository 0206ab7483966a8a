----------------------- MODULE GradientReads_proofs -----------------------
(***************************************************************************)
(* What the gradients and the nodes computed again read is there, for      *)
(* every model, every policy and every choice of it: no node reads a value *)
(* before it is computed or after it has been forgotten.                   *)
(***************************************************************************)
EXTENDS GradientWithOrder_proofs
LOCAL INSTANCE SequencesExt
-----------------------------------------------------------------------------

\* Each node reads what is known or what an earlier one computes.
InReadingOrder(nodes, known) ==
    \A k \in DOMAIN nodes : \A v \in Elements(nodes[k].ins) :
        v \in known \/ \E i \in DOMAIN nodes : i < k /\ v \in Elements(nodes[i].outs)

\* d is a with these nodes of a part behind it.
Lengthened(a, nodes, part, d) ==
    /\ d \in Seq(Entries)
    /\ Len(a) \in Nat /\ DOMAIN a = 1..Len(a) /\ DOMAIN d = 1..(Len(a) + Len(nodes))
    /\ \A i \in DOMAIN a : i \in DOMAIN d /\ d[i] = a[i]
    /\ \A k \in DOMAIN nodes : /\ Len(a) + k \in DOMAIN d /\ d[Len(a) + k].node = nodes[k]
                               /\ d[Len(a) + k].part = part
    /\ \A i \in DOMAIN d : i \in DOMAIN a \/ (i > Len(a) /\ i - Len(a) \in DOMAIN nodes
                               /\ d[i].node = nodes[i - Len(a)] /\ d[i].part = part)
    /\ \A p : MadeBy(d, p) = MadeBy(a, p) \cup (IF p = part THEN ComputedBy(nodes) ELSE {})

LEMMA MadeByMore ==
    ASSUME NEW a \in Seq(Entries), NEW nodes \in Seq(Nodes), NEW part \in Parts, NEW d,
           d = a \o [k \in DOMAIN nodes |-> [node |-> nodes[k], part |-> part]]
    PROVE  Lengthened(a, nodes, part, d)
<1> DEFINE more == [k \in DOMAIN nodes |-> [node |-> nodes[k], part |-> part]]
<1>1. /\ DOMAIN nodes = 1..Len(nodes) /\ Len(nodes) \in Nat
      /\ \A k \in DOMAIN nodes : nodes[k] \in Nodes
  OBVIOUS
<1>2. /\ more \in Seq(Entries) /\ Len(more) = Len(nodes)
      /\ \A k \in 1..Len(nodes) : more[k].node = nodes[k] /\ more[k].part = part
  <2>1. \A k \in DOMAIN nodes : [node |-> nodes[k], part |-> part] \in Entries
    BY <1>1 DEF Entries
  <2> QED  BY <1>1, <2>1
<1> HIDE DEF more
<1>3. /\ d \in Seq(Entries) /\ Len(d) = Len(a) + Len(nodes)
      /\ \A i \in 1..Len(a) : i \in 1..Len(d) /\ d[i] = a[i]
      /\ \A i \in 1..Len(nodes) : Len(a) + i \in 1..Len(d) /\ d[Len(a) + i] = more[i]
      /\ \A i \in 1..Len(d) : i \in 1..Len(a) \/ (i > Len(a) /\ i - Len(a) \in 1..Len(nodes)
                                                   /\ d[i] = more[i - Len(a)])
  <2>1. d = a \o more
    BY DEF more
  <2> DEFINE c == a \o more
  <2>2. /\ c \in Seq(Entries) /\ Len(c) = Len(a) + Len(more)
        /\ \A i \in 1..Len(a) : i \in 1..Len(c) /\ c[i] = a[i]
        /\ \A i \in 1..Len(more) : Len(a) + i \in 1..Len(c) /\ c[Len(a) + i] = more[i]
        /\ \A i \in 1..Len(c) : i \in 1..Len(a) \/ (i > Len(a) /\ i - Len(a) \in 1..Len(more)
                                                   /\ c[i] = more[i - Len(a)])
    <3>1. more \in Seq(Entries)
      BY <1>2
    <3> QED  BY <3>1, Concatenation
  <2>3. d = c
    BY <2>1
  <2> HIDE DEF c
  <2> QED  BY <1>2, <2>2, <2>3
<1>4. Len(a) \in Nat /\ DOMAIN a = 1..Len(a) /\ DOMAIN d = 1..Len(d)
  BY <1>3
<1>5. /\ \A i \in DOMAIN a : i \in DOMAIN d /\ d[i] = a[i]
      /\ \A k \in DOMAIN nodes : /\ Len(a) + k \in DOMAIN d /\ d[Len(a) + k].node = nodes[k]
                                 /\ d[Len(a) + k].part = part
      /\ \A i \in DOMAIN d : i \in DOMAIN a \/ (i > Len(a) /\ i - Len(a) \in DOMAIN nodes
                                      /\ d[i].node = nodes[i - Len(a)] /\ d[i].part = part)
  BY <1>1, <1>2, <1>3, <1>4
<1>6. ASSUME NEW p PROVE MadeBy(d, p) = MadeBy(a, p) \cup (IF p = part THEN ComputedBy(nodes) ELSE {})
  <2>1. ASSUME NEW v \in MadeBy(a, p) PROVE v \in MadeBy(d, p)
    BY <1>5, <2>1 DEF MadeBy
  <2>2. ASSUME p = part, NEW v \in ComputedBy(nodes) PROVE v \in MadeBy(d, p)
    <3>1. PICK k \in DOMAIN nodes : v \in Elements(nodes[k].outs)
      BY <2>2 DEF ComputedBy
    <3>2. Len(a) + k \in DOMAIN d /\ d[Len(a) + k].node = nodes[k] /\ d[Len(a) + k].part = p
      BY <1>5, <2>2
    <3> QED  BY <3>1, <3>2 DEF MadeBy
  <2>3. ASSUME NEW v \in MadeBy(d, p)
        PROVE  v \in MadeBy(a, p) \/ (p = part /\ v \in ComputedBy(nodes))
    <3>1. PICK i \in DOMAIN d : d[i].part = p /\ v \in Elements(d[i].node.outs)
      BY <2>3 DEF MadeBy
    <3>2. CASE i \in DOMAIN a
      BY <1>5, <3>1, <3>2 DEF MadeBy
    <3>3. CASE i \notin DOMAIN a
      BY <1>5, <3>1, <3>3 DEF ComputedBy
    <3> QED  BY <3>2, <3>3
  <2> QED  BY <2>1, <2>2, <2>3
<1> QED  BY <1>3, <1>4, <1>5, <1>6 DEF Lengthened

\* Nodes are placed behind the rest, which read what is there.
LEMMA FedMore ==
    ASSUME NEW j, NEW s, s.schedule \in Seq(Entries), Fed(j, s),
           NEW nodes \in Seq(Nodes), NEW part \in Parts, NEW t,
           t.schedule = s.schedule \o [k \in DOMAIN nodes |-> [node |-> nodes[k], part |-> part]],
           t.forgotten = s.forgotten,
           \A p : GivenTo(j, s, p) \subseteq GivenTo(j, t, p),
           InReadingOrder(nodes, GivenTo(j, t, part) \cup MadeBy(s.schedule, part)),
           ReadBy(nodes) \cap LostIn(s, part) = {}
    PROVE  Fed(j, t)
<1> DEFINE a == s.schedule
           d == t.schedule
<1>1. /\ Len(a) \in Nat /\ DOMAIN a = 1..Len(a) /\ DOMAIN d = 1..(Len(a) + Len(nodes))
      /\ \A i \in DOMAIN a : i \in DOMAIN d /\ d[i] = a[i]
      /\ \A k \in DOMAIN nodes : /\ Len(a) + k \in DOMAIN d /\ d[Len(a) + k].node = nodes[k]
                                 /\ d[Len(a) + k].part = part
      /\ \A i \in DOMAIN d : i \in DOMAIN a \/ (i > Len(a) /\ i - Len(a) \in DOMAIN nodes
                                 /\ d[i].node = nodes[i - Len(a)] /\ d[i].part = part)
  <2> HIDE DEF a, d
  <2>1. a \in Seq(Entries) /\ d = a \o [k \in DOMAIN nodes |-> [node |-> nodes[k], part |-> part]]
    BY DEF a, d
  <2>2. Lengthened(a, nodes, part, d)
    BY <2>1, MadeByMore
  <2> QED  BY <2>2 DEF Lengthened
<1>2. ASSUME NEW i \in DOMAIN d, NEW v \in Elements(d[i].node.ins)
      PROVE  /\ \/ v \in GivenTo(j, t, d[i].part)
                \/ \E k \in DOMAIN d : k < i /\ d[k].part = d[i].part /\ v \in Elements(d[k].node.outs)
             /\ \A f \in s.forgotten : f.value = v /\ f.part = d[i].part => i <= f.at
  <2>1. CASE i \in DOMAIN a
    <3>1. d[i] = a[i] /\ v \in Elements(a[i].node.ins)
      BY <1>1, <1>2, <2>1
    <3>2. LET p == a[i].part
          IN  /\ \/ v \in GivenTo(j, s, p)
                 \/ \E k \in DOMAIN a : k < i /\ a[k].part = p /\ v \in Elements(a[k].node.outs)
              /\ \A f \in s.forgotten : f.value = v /\ f.part = p => i <= f.at
      BY <2>1, <3>1 DEF Fed
    <3> HIDE DEF a, d
    <3> QED  BY <1>1, <3>1, <3>2
  <2>2. CASE i \notin DOMAIN a
    <3> DEFINE n == i - Len(a)
    <3>1. n \in DOMAIN nodes /\ d[i].node = nodes[n] /\ d[i].part = part
          /\ i \in Int /\ i = Len(a) + n
      <4>1. DOMAIN nodes \subseteq Int
        OBVIOUS
      <4>3. i \in Int
        BY <1>1
      <4> HIDE DEF a, d
      <4> QED  BY <1>1, <2>2, <4>1, <4>3
    <3> HIDE DEF n, a, d
    <3>2. v \in Elements(nodes[n].ins)
      BY <1>2, <3>1
    <3>3. v \in ReadBy(nodes)
      BY <3>1, <3>2 DEF ReadBy
    <3>4. \A f \in s.forgotten : ~(f.value = v /\ f.part = part)
      BY <3>3 DEF LostIn
    <3>5. CASE v \in GivenTo(j, t, part)
      BY <3>1, <3>4, <3>5
    <3>6. CASE v \in MadeBy(a, part)
      <4>1. PICK k \in DOMAIN a : a[k].part = part /\ v \in Elements(a[k].node.outs)
        BY <3>6 DEF MadeBy
      <4>2. k < i /\ k \in DOMAIN d /\ d[k] = a[k]
        <5>1. n >= 1
          BY <3>1
        <5> QED  BY <1>1, <3>1, <5>1
      <4> QED  BY <3>1, <3>4, <4>1, <4>2
    <3>7. CASE \E k \in DOMAIN nodes : k < n /\ v \in Elements(nodes[k].outs)
      <4>1. PICK k \in DOMAIN nodes : k < n /\ v \in Elements(nodes[k].outs)
        BY <3>7
      <4>2. Len(a) + k < i /\ Len(a) + k \in DOMAIN d /\ d[Len(a) + k].part = part
            /\ d[Len(a) + k].node = nodes[k]
        <5>1. DOMAIN nodes \subseteq Int
          OBVIOUS
        <5> QED  BY <1>1, <3>1, <4>1, <5>1
      <4> QED  BY <3>1, <3>4, <4>1, <4>2
    <3> QED  BY <3>1, <3>2, <3>5, <3>6, <3>7 DEF InReadingOrder, a
  <2> QED  BY <2>1, <2>2
<1>3. ASSUME NEW i \in DOMAIN t.schedule, NEW v \in Elements(t.schedule[i].node.ins)
      PROVE  /\ \/ v \in GivenTo(j, t, t.schedule[i].part)
                \/ \E k \in DOMAIN t.schedule :
                      k < i /\ t.schedule[k].part = t.schedule[i].part /\ v \in Elements(t.schedule[k].node.outs)
             /\ \A f \in t.forgotten : f.value = v /\ f.part = t.schedule[i].part => i <= f.at
  BY <1>2, <1>3
<1> QED  BY <1>3 DEF Fed

\* What is available has a name.
LEMMA AvailableHasName ==
    ASSUME NEW j, NEW home, NEW s, NEW p \in Parts
    PROVE  Available(j, home, s, p) \subseteq Names(j, s)
<1>1. Available(j, home, s, p) \subseteq Names(j, s) \cup StandIns(s) \cup j.graph.inputs
  BY DEF Available, Names, GivenTo, Parts
<1>2. StandIns(s) \subseteq Names(j, s) /\ j.graph.inputs \subseteq Names(j, s)
  BY DEF StandIns, Names, Elements, Values
<1> QED  BY <1>1, <1>2

LEMMA LateIsPart ==
    ASSUME NEW j
    PROVE  Late(j) \in Parts /\ "forward" \in Parts /\ "backward" \in Parts
BY DEF Late, Parts


\* What was added, in the order in which it is placed.
InOrderOf(added) ==
    LET order == SortTopologically(added, ClassifiedInputs(added))
    IN  [k \in DOMAIN order |-> added[order[k]]]

\* All of it is placed, each node after those that compute what it reads.
LEMMA AddedInOrder ==
    ASSUME NEW added \in Seq(Nodes), NEW known, NEW m \in Nat, known \subseteq 1..m,
           Numbered(added, known)
    PROVE  /\ InOrderOf(added) \in Seq(Nodes)
           /\ ComputedBy(InOrderOf(added)) = ComputedBy(added)
           /\ ReadBy(InOrderOf(added)) \subseteq known
           /\ InReadingOrder(InOrderOf(added), known \ ComputedBy(added))
<1> DEFINE inputs == ClassifiedInputs(added)
           order  == SortTopologically(added, inputs)
           nodes  == InOrderOf(added)
           rank   == [i \in DOMAIN added |-> added[i].outs[1]]
           Out(i) == added[i].outs[1]
<1>1. /\ DOMAIN added = 1..Len(added) /\ Len(added) \in Nat
      /\ \A i \in DOMAIN added : /\ added[i] \in Nodes /\ added[i].outs \in Seq(Nat)
                                 /\ DOMAIN added[i].outs = {1} /\ Out(i) \in Nat
                                 /\ Elements(added[i].outs) = {Out(i)}
                                 /\ \A v \in Elements(added[i].ins) : v \in known /\ v < Out(i)
      /\ \A i, k \in DOMAIN added : Out(i) = Out(k) => i = k
  <2>1. \A i \in DOMAIN added : added[i].outs \in Seq(Nat) /\ added[i] \in Nodes
    BY DomainOfNodes
  <2>2. ASSUME NEW i \in DOMAIN added
        PROVE  DOMAIN added[i].outs = {1} /\ Out(i) \in Nat /\ Elements(added[i].outs) = {Out(i)}
    <3> DEFINE outs == added[i].outs
    <3>1. outs \in Seq(Nat) /\ Len(outs) = 1
      BY <2>1 DEF Numbered
    <3> HIDE DEF outs
    <3>2. DOMAIN outs = {1} /\ outs[1] \in Nat
      <4>1. DOMAIN outs = 1..1
        BY <3>1
      <4>2. 1 \in DOMAIN outs
        BY <4>1
      <4>3. outs[1] \in Nat
        <5>1. outs \in Seq(Nat)
          BY <3>1
        <5>2. \A n \in DOMAIN outs : outs[n] \in Nat
          BY <5>1
        <5> QED  BY <4>2, <5>2
      <4> QED  BY <4>1, <4>3
    <3>3. Elements(outs) = {outs[1]}
      BY <3>2 DEF Elements
    <3> QED  BY <3>2, <3>3 DEF outs
  <2>3. ASSUME NEW i \in DOMAIN added
        PROVE  \A v \in Elements(added[i].ins) : v \in known /\ v < Out(i)
    BY DEF Numbered
  <2>4. \A i, k \in DOMAIN added : Out(i) = Out(k) => i = k
    BY DEF Numbered
  <2>5. DOMAIN added = 1..Len(added) /\ Len(added) \in Nat
    OBVIOUS
  <2> HIDE DEF Out
  <2> QED  BY <2>1, <2>2, <2>3, <2>4, <2>5
<1>2. ReadBy(added) \subseteq known
  BY <1>1 DEF ReadBy
<1>3. /\ inputs \in Seq(Nat) /\ Elements(inputs) = ReadBy(added) \ ComputedBy(added)
      /\ \A i, k \in DOMAIN inputs : i < k => inputs[i] < inputs[k]
  <2> DEFINE S == ReadBy(added) \ ComputedBy(added)
  <2>1. S \in SUBSET (1..m)
    BY <1>2
  <2> HIDE DEF S
  <2>2. /\ InOrder(S) \in Seq(Nat) /\ Elements(InOrder(S)) = S
        /\ \A i, k \in DOMAIN InOrder(S) : i < k => InOrder(S)[i] < InOrder(S)[k]
    BY <2>1, InOrderLists
  <2> QED  BY <2>2 DEF ClassifiedInputs, S
<1> HIDE DEF inputs
<1>4. OneOrigin(added, inputs)
  <2>1. Distinct(inputs)
    <3> SUFFICES ASSUME NEW i \in DOMAIN inputs, NEW k \in DOMAIN inputs, inputs[i] = inputs[k]
                 PROVE  i = k
      BY DEF Distinct
    <3>1. i \in Nat /\ k \in Nat /\ inputs[i] \in Nat /\ inputs[k] \in Nat
      BY <1>3
    <3> QED  BY <1>3, <3>1
  <2>2. \A i, k \in DOMAIN added : \A x \in DOMAIN added[i].outs, y \in DOMAIN added[k].outs :
            added[i].outs[x] = added[k].outs[y] => i = k /\ x = y
    BY <1>1
  <2> QED  BY <1>3, <2>1, <2>2 DEF OneOrigin
<1>5. Elements(order) = DOMAIN added
  <2>1. rank \in [DOMAIN added -> Nat]
    BY <1>1
  <2>2. ASSUME NEW i \in DOMAIN added, NEW k \in DOMAIN added,
               Elements(added[i].outs) \cap Elements(added[k].ins) # {}
        PROVE  rank[i] < rank[k]
    <3> HIDE DEF Out
    <3>1. Out(i) \in Elements(added[k].ins)
      <4>1. Elements(added[i].outs) = {Out(i)}
        BY <1>1
      <4> QED  BY <2>2, <4>1
    <3>2. Out(i) < Out(k)
      BY <1>1, <3>1
    <3> QED  BY <3>2 DEF Out
  <2>3. ReadBy(added) \subseteq Elements(inputs) \cup ComputedBy(added)
    BY <1>3
  <2> HIDE DEF rank
  <2> QED  BY <1>3, <1>4, <2>1, <2>2, <2>3, SortIsComplete
<1>6. InTopologicalOrder(added, Elements(inputs), order)
  BY <1>3, <1>4, SortOrder
<1>7. nodes = [k \in DOMAIN order |-> added[order[k]]]
  BY DEF InOrderOf, inputs
<1> HIDE DEF order, nodes
<1>8. order \in Seq(DOMAIN added) /\ DOMAIN order = 1..Len(order) /\ Len(order) \in Nat
      /\ \A k \in DOMAIN order : order[k] \in DOMAIN added
  <2>1. order \in Seq(DOMAIN added)
    BY <1>6 DEF InTopologicalOrder
  <2> HIDE DEF Out
  <2> QED  BY <2>1
<1>9. nodes \in Seq(Nodes) /\ DOMAIN nodes = DOMAIN order
      /\ \A k \in DOMAIN order : nodes[k] = added[order[k]]
  BY <1>1, <1>7, <1>8
<1>10. ComputedBy(nodes) = ComputedBy(added)
  <2>1. \A k \in DOMAIN nodes : Elements(nodes[k].outs) \subseteq ComputedBy(added)
    BY <1>8, <1>9 DEF ComputedBy
  <2>2. ASSUME NEW i \in DOMAIN added PROVE Elements(added[i].outs) \subseteq ComputedBy(nodes)
    <3>1. PICK k \in DOMAIN order : order[k] = i
      BY <1>5 DEF Elements
    <3>2. nodes[k] = added[i] /\ k \in DOMAIN nodes
      BY <1>9, <3>1
    <3> QED  BY <3>2 DEF ComputedBy
  <2>3. ComputedBy(nodes) \subseteq ComputedBy(added)
    BY <2>1 DEF ComputedBy
  <2>4. ComputedBy(added) \subseteq ComputedBy(nodes)
    <3>1. \A v \in ComputedBy(added) : \E i \in DOMAIN added : v \in Elements(added[i].outs)
      BY DEF ComputedBy
    <3> QED  BY <2>2, <3>1
  <2> QED  BY <2>3, <2>4
<1>11. ReadBy(nodes) \subseteq known
  BY <1>1, <1>8, <1>9 DEF ReadBy
<1>12. InReadingOrder(nodes, known \ ComputedBy(added))
  <2> SUFFICES ASSUME NEW k \in DOMAIN nodes, NEW v \in Elements(nodes[k].ins)
               PROVE  \/ v \in known \ ComputedBy(added)
                      \/ \E i \in DOMAIN nodes : i < k /\ v \in Elements(nodes[i].outs)
    BY DEF InReadingOrder
  <2>1. v \in known /\ k \in DOMAIN order /\ v \in Elements(added[order[k]].ins)
    BY <1>1, <1>8, <1>9
  <2>2. v \in Elements(inputs) \/ \E i \in DOMAIN order : i < k /\ v \in Elements(added[order[i]].outs)
    BY <1>6, <2>1 DEF InTopologicalOrder
  <2> QED  BY <1>3, <1>9, <2>1, <2>2
<1> QED  BY <1>9, <1>10, <1>11, <1>12 DEF nodes

\* Only these fields of t are not as in s.
Differs(s, t, fields) ==
    \A f \in (BuilderFields \cup OtherFields) \ fields : t[f] = s[f]

LEMMA ScheduledFields ==
    ASSUME NEW h, NEW s, Builder(h, s), NEW nodes, NEW part
    PROVE  LET t == Scheduled(s, nodes, part)
           IN  /\ DOMAIN t = DOMAIN s
               /\ t.schedule = s.schedule \o [k \in DOMAIN nodes |-> [node |-> nodes[k], part |-> part]]
               /\ Differs(s, t, {"schedule"})
<1> DEFINE more == s.schedule \o [k \in DOMAIN nodes |-> [node |-> nodes[k], part |-> part]]
           t == Scheduled(s, nodes, part)
<1>1. t = [s EXCEPT !.schedule = more]
  BY DEF Scheduled
<1> HIDE DEF more, t
<1>2. DOMAIN t = DOMAIN s /\ t.schedule = more /\ Differs(s, t, {"schedule"})
  BY <1>1 DEF Builder, BuilderFields, OtherFields, Differs
<1> QED  BY <1>2 DEF more, t

LEMMA ScheduleAddedFields ==
    ASSUME NEW h, NEW s, Builder(h, s), NEW part
    PROVE  LET t == ScheduleAdded(s, part)
               nodes == InOrderOf(s.added)
           IN  /\ t.schedule = s.schedule \o [k \in DOMAIN nodes |-> [node |-> nodes[k], part |-> part]]
               /\ t.added = <<>>
               /\ Differs(s, t, {"schedule", "added"})
<1> DEFINE nodes == InOrderOf(s.added)
           more == s.schedule \o [k \in DOMAIN nodes |-> [node |-> nodes[k], part |-> part]]
           u == Scheduled(s, nodes, part)
           t == ScheduleAdded(s, part)
<1>1. t = [u EXCEPT !.added = <<>>]
  BY DEF ScheduleAdded, InOrderOf
<1> HIDE DEF nodes, t
<1>2. DOMAIN u = DOMAIN s /\ u.schedule = more /\ Differs(s, u, {"schedule"})
  <2>1. /\ DOMAIN Scheduled(s, nodes, part) = DOMAIN s
        /\ Scheduled(s, nodes, part).schedule
               = s.schedule \o [k \in DOMAIN nodes |-> [node |-> nodes[k], part |-> part]]
        /\ Differs(s, Scheduled(s, nodes, part), {"schedule"})
    BY ScheduledFields
  <2> QED  BY <2>1
<1> HIDE DEF u, more
<1>3. t.schedule = more /\ t.added = <<>> /\ Differs(s, t, {"schedule", "added"})
  BY <1>1, <1>2 DEF Builder, BuilderFields, OtherFields, Differs
<1> QED  BY <1>3 DEF nodes, more, t

\* The fields that are not added to.
LEMMA FieldsKept ==
    ASSUME NEW s, NEW t, NEW fields, Differs(s, t, fields), fields \subseteq {"schedule", "added", "contexts"}
    PROVE  /\ t.grads = s.grads /\ t.retained = s.retained /\ t.fresh = s.fresh
           /\ t.first = s.first /\ t.last = s.last /\ t.staged = s.staged
           /\ t.turned = s.turned /\ t.stagedInForward = s.stagedInForward
           /\ t.outGrads = s.outGrads /\ t.forgotten = s.forgotten
BY DEF Differs, BuilderFields, OtherFields

\* What has been added is placed, and nothing is lost.
LEMMA ScheduleAddedTracks ==
    ASSUME NEW j, IsModel(j.graph), NEW s, Sound(j.graph, s), s.contexts = <<>>,
           NEW home, Track(j, home, s), NEW next
    PROVE  LET t == ScheduleAdded(s, Late(j))
           IN  /\ Track(j, next, t) /\ t.added = <<>> /\ t.contexts = <<>>
<1> DEFINE t == ScheduleAdded(s, Late(j))
           nodes == InOrderOf(s.added)
           a == s.schedule
           d == t.schedule
           late == Late(j)
<1>1. /\ d = a \o [k \in DOMAIN nodes |-> [node |-> nodes[k], part |-> late]]
      /\ t.added = <<>> /\ Differs(s, t, {"schedule", "added"})
  <2>1. Builder(j.graph, s)
    BY DEF Sound
  <2> QED  BY <2>1, ScheduleAddedFields
<1> HIDE DEF t, late
<1>2. /\ t.grads = s.grads /\ t.retained = s.retained /\ t.fresh = s.fresh
      /\ t.first = s.first /\ t.last = s.last /\ t.staged = s.staged
      /\ t.turned = s.turned /\ t.stagedInForward = s.stagedInForward
      /\ t.outGrads = s.outGrads /\ t.forgotten = s.forgotten /\ t.contexts = s.contexts
  <2>1. t.contexts = s.contexts
    BY <1>1 DEF Differs, BuilderFields
  <2> QED  BY <1>1, <2>1, FieldsKept
<1>3. /\ s.added \in Seq(Nodes) /\ s.fresh \in Nat /\ s.fresh > 0 /\ a \in Seq(Entries)
      /\ Names(j, s) \subseteq 1..(s.fresh - 1)
  BY DEF Sound, Builder, Track, Named
<1>4. late \in Parts
  BY LateIsPart DEF late
<1> DEFINE known == Readable(j, home, s)
<1>5. known \subseteq 1..(s.fresh - 1) /\ s.fresh - 1 \in Nat
  <2>1. Available(j, home, s, late) \subseteq Names(j, s)
    BY <1>4, AvailableHasName
  <2> QED  BY <1>3, <2>1 DEF Readable, late
<1>6. /\ nodes \in Seq(Nodes) /\ ComputedBy(nodes) = ComputedBy(s.added)
      /\ ReadBy(nodes) \subseteq known /\ InReadingOrder(nodes, known \ ComputedBy(s.added))
  <2> DEFINE added == s.added
             m == s.fresh - 1
  <2>1. added \in Seq(Nodes) /\ Numbered(added, known) /\ m \in Nat /\ known \subseteq 1..m
    BY <1>3, <1>5 DEF Track, AddedWell
  <2> HIDE DEF added, m, known
  <2>2. /\ InOrderOf(added) \in Seq(Nodes) /\ ComputedBy(InOrderOf(added)) = ComputedBy(added)
        /\ ReadBy(InOrderOf(added)) \subseteq known
        /\ InReadingOrder(InOrderOf(added), known \ ComputedBy(added))
    BY <2>1, AddedInOrder
  <2> QED  BY <2>2 DEF added
<1> HIDE DEF nodes
<1>7. \A p : MadeBy(d, p) = MadeBy(a, p) \cup (IF p = late THEN ComputedBy(s.added) ELSE {})
  <2> HIDE DEF a, d
  <2>1. Lengthened(a, nodes, late, d)
    BY <1>1, <1>3, <1>4, <1>6, MadeByMore
  <2> QED  BY <1>6, <2>1 DEF Lengthened
<1>8. /\ Lost(t) = Lost(s) /\ StandIns(t) = StandIns(s)
      /\ \A p : LostIn(t, p) = LostIn(s, p) /\ GivenTo(j, t, p) = GivenTo(j, s, p)
      /\ \A w : Copied(t, w) = Copied(s, w)
  BY <1>2 DEF Lost, LostIn, StandIns, GivenTo, Copied
<1>9. ComputedBy(t.added) = {} /\ Elements(t.contexts) = {} /\ Elements(s.contexts) = {}
  BY <1>1, <1>2 DEF ComputedBy, Elements
<1>10. \A p : Available(j, next, t, p) = Available(j, home, s, p)
  BY <1>7, <1>8, <1>9 DEF Available, late
<1>11. Readable(j, next, t) = Readable(j, home, s) /\ Gradable(j, next, t) = Gradable(j, home, s)
  BY <1>2, <1>8, <1>10 DEF Readable, Gradable
<1>12. Named(j, t)
  <2>1. ComputedBy(s.added) \subseteq Names(j, s)
    BY DEF Names
  <2>2. MadeBy(d, "forward") \cup MadeBy(d, "backward") \subseteq Names(j, s)
    BY <1>7, <2>1 DEF Names
  <2>3. Names(j, t) \subseteq Names(j, s)
    BY <1>2, <1>8, <1>9, <2>2 DEF Names
  <2> QED  BY <1>2, <2>3 DEF Track, Named
<1>13. Fed(j, t)
  <2>1. InReadingOrder(nodes, GivenTo(j, t, late) \cup MadeBy(a, late))
    <3>1. known \ ComputedBy(s.added) \subseteq GivenTo(j, t, late) \cup MadeBy(a, late)
      BY <1>8, <1>9 DEF Readable, Available, late
    <3> QED  BY <1>6, <3>1 DEF InReadingOrder
  <2>2. ReadBy(nodes) \cap LostIn(s, late) = {}
    BY <1>6 DEF Readable, late
  <2>3. Fed(j, s)
    BY DEF Track
  <2>4. \A p : GivenTo(j, s, p) \subseteq GivenTo(j, t, p)
    BY <1>8
  <2> QED  BY <1>1, <1>2, <1>3, <1>4, <1>6, <2>1, <2>2, <2>3, <2>4, FedMore
<1>14. AddedWell(j, next, t) /\ Graded(j, next, t)
  <2>1. Graded(j, next, t)
    BY <1>2, <1>11 DEF Track, Graded
  <2>2. AddedWell(j, next, t)
    BY <1>1 DEF AddedWell, Numbered
  <2> QED  BY <2>1, <2>2
<1>15. RetainedWell(j, next, t)
  BY <1>2, <1>8, <1>10 DEF Track, RetainedWell
<1>16. StagedWell(j, next, t)
  BY <1>2, <1>8, <1>10 DEF Track, StagedWell
<1>17. OriginsWell(j, t)
  <2>1. OriginsWell(j, s)
    BY DEF Track
  <2>2. \A p : MadeBy(d, p) \cap Values(j.graph) = MadeBy(a, p) \cap Values(j.graph)
    BY <1>7, <2>1 DEF OriginsWell
  <2>3. MadeBy(a, "forward") \subseteq MadeBy(d, "forward")
    BY <1>7
  <2> HIDE DEF a, d
  <2>4. a = s.schedule /\ d = t.schedule
    BY DEF a, d
  <2> QED  BY <1>2, <1>8, <1>9, <2>1, <2>2, <2>3, <2>4 DEF OriginsWell
<1>18. PlacesWell(j, t)
  <2>1. \A i \in DOMAIN a : i \in DOMAIN d /\ d[i] = a[i]
    <3> HIDE DEF a, d
    <3>1. Lengthened(a, nodes, late, d)
      BY <1>1, <1>3, <1>4, <1>6, MadeByMore
    <3> QED  BY <3>1 DEF Lengthened
  <2>2. \A n \in DOMAIN s.first : s.first[n] \in DOMAIN a /\ s.last[n] \in DOMAIN a
    BY DEF Sound, Placed
  <2>3. \A n \in DOMAIN s.first : d[s.first[n]] = a[s.first[n]] /\ d[s.last[n]] = a[s.last[n]]
    BY <2>1, <2>2
  <2>4. PlacesWell(j, s)
    BY DEF Track
  <2> QED  BY <1>2, <2>3, <2>4, PlacesKept
<1>19. Phases(j, t)
  BY <1>2 DEF Track, Phases
<1>20. Elements(t.contexts) \cap (Values(j.graph) \cup DOMAIN t.staged) = {}
  BY <1>9
<1> QED  BY <1>1, <1>2, <1>12, <1>13, <1>14, <1>15, <1>16, <1>17, <1>18, <1>19, <1>20 DEF Track, t

-----------------------------------------------------------------------------
(* Between two orders nothing is being added.                              *)

Settled(j, s) ==
    Sound(j.graph, s) /\ Track(j, "forward", s) /\ s.added = <<>> /\ s.contexts = <<>>

LEMMA Anywhere ==
    ASSUME NEW j, NEW home, NEW s, Track(j, home, s), s.contexts = <<>>, NEW next
    PROVE  /\ Track(j, next, s)
           /\ \A p : Available(j, next, s, p) = Available(j, home, s, p)
<1>1. Elements(s.contexts) = {}
  BY DEF Elements
<1>2. \A p : Available(j, next, s, p) = Available(j, home, s, p)
  BY <1>1 DEF Available
<1>3. AddedWell(j, next, s) /\ Graded(j, next, s)
  BY <1>2 DEF Track, AddedWell, Graded, Readable, Gradable
<1>4. RetainedWell(j, next, s) /\ StagedWell(j, next, s)
  <2>1. RetainedWell(j, next, s)
    BY <1>2 DEF Track, RetainedWell
  <2>2. StagedWell(j, next, s)
    BY <1>2 DEF Track, StagedWell
  <2> QED  BY <2>1, <2>2
<1> QED  BY <1>2, <1>3, <1>4 DEF Track

LEMMA StagedElements ==
    ASSUME NEW s, NEW vs, AllStaged(s, vs)
    PROVE  /\ DOMAIN GetStaged(s, vs) = DOMAIN vs /\ DOMAIN GetRetainedStaged(s, vs) = DOMAIN vs
           /\ \A k \in DOMAIN vs :
                 /\ vs[k] \in DOMAIN s.staged
                 /\ GetStaged(s, vs)[k] = s.staged[vs[k]]
                 /\ GetRetainedStaged(s, vs)[k] = Copied(s, s.staged[vs[k]])
BY DEF GetStaged, GetRetainedStaged, Copied, AllStaged, Elements

\* A value that is staged may be read or retained, as the gradient does.
LEMMA StagedIsUsable ==
    ASSUME NEW j, NEW keep \in BOOLEAN, NEW home, NEW s, Track(j, home, s),
           home = (IF keep THEN "forward" ELSE Late(j)), keep => j.twoPhase,
           NEW v \in DOMAIN s.staged,
           ~keep /\ j.twoPhase => s.staged[v] \in DOMAIN s.retained
    PROVE  (IF keep THEN s.staged[v] ELSE Copied(s, s.staged[v])) \in Usable(j, home, keep, s)
<1> DEFINE w == s.staged[v]
<1>1. /\ w \in DOMAIN s.retained \/ (w = v /\ w \in Available(j, home, s, "forward"))
      /\ w \notin Lost(s) /\ Copied(s, w) \notin Lost(s)
  BY DEF Track, StagedWell
<1>2. w \in DOMAIN s.retained => /\ s.retained[w] = w => w \in Available(j, home, s, Late(j))
                                 /\ s.retained[w] # w => j.twoPhase
  BY DEF Track, RetainedWell
<1>3. \A p : LostIn(s, p) \subseteq Lost(s)
  BY DEF LostIn, Lost
<1> HIDE DEF w
<1>4. CASE keep
  <2>1. w \in Usable(j, home, keep, s)
    BY <1>1, <1>3, <1>4 DEF Usable
  <2> QED  BY <1>4, <2>1 DEF w
<1>5. CASE ~keep
  <2>1. Copied(s, w) \in Available(j, home, s, Late(j))
    <3>1. CASE w \in DOMAIN s.retained
      <4>1. CASE s.retained[w] = w
        BY <1>2, <3>1, <4>1 DEF Copied
      <4>2. CASE s.retained[w] # w
        <5>1. Late(j) = "backward" /\ Copied(s, w) \in StandIns(s)
          BY <1>2, <3>1, <4>2 DEF Late, Copied, StandIns
        <5> QED  BY <5>1 DEF Available, GivenTo
      <4> QED  BY <4>1, <4>2
    <3>2. CASE w \notin DOMAIN s.retained
      <4>1. ~j.twoPhase
        BY <1>5, <3>2 DEF w
      <4>2. Late(j) = "forward" /\ Copied(s, w) = w
        BY <3>2, <4>1 DEF Late, Copied
      <4> QED  BY <1>1, <3>2, <4>2
    <3> QED  BY <3>1, <3>2
  <2>2. Copied(s, w) \in Usable(j, home, keep, s)
    BY <1>1, <1>3, <1>5, <2>1 DEF Usable, Readable
  <2> QED  BY <1>5, <2>2 DEF w
<1> QED  BY <1>4, <1>5

LEMMA AddsNothing ==
    ASSUME NEW j, NEW home, NEW s, Builder(j.graph, s), Track(j, home, s)
    PROVE  Adds(j, home, s, s)
BY DEF Adds, Builds

\* A node's gradient has been added, and the node has its outputs.
LEMMA GradientTracks ==
    ASSUME NEW j, IsModel(j.graph), NEW keep \in BOOLEAN, NEW home, NEW s, Sound(j.graph, s),
           Adding(j, home, keep, s), s.contexts = <<>>, home = (IF keep THEN "forward" ELSE Late(j)),
           NEW place \in DOMAIN s.schedule, s.schedule[place].part = home,
           NEW op, NEW x, NEW y, Fits(op, x, y),
           Elements(x) \subseteq Usable(j, home, keep, s), y[1] \in Usable(j, home, keep, s)
    PROVE  LET t == WithContexts(AddGradientForNode(s, keep, op, x, y), place)
           IN  Sound(j.graph, t) /\ Track(j, home, t) /\ t.contexts = <<>> /\ t.turned = s.turned
<1> DEFINE added == AddGradientForNode(s, keep, op, x, y)
           t == WithContexts(added, place)
<1>1. Adds(j, home, s, added)
  BY GradientAdds
<1> HIDE DEF added
<1>2. Track(j, home, added) /\ added.schedule = s.schedule /\ Builds(j.graph, s, added)
  <2>1. Builds(j.graph, s, added)
    BY <1>1 DEF Adds
  <2>2. Track(j, home, added) /\ added.schedule = s.schedule
    BY <1>1, AddsState
  <2> QED  BY <2>1, <2>2
<1>3. Sound(j.graph, added)
  BY <1>2, BuildsKeep DEF Keeps
<1>4. home \in Parts
  BY LateIsPart
<1>5. Track(j, home, WithContexts(added, place)) /\ WithContexts(added, place).contexts = <<>>
  BY <1>2, <1>3, <1>4, ContextsTrack
<1>6. Keeps(j.graph, added, WithContexts(added, place))
  <2> DEFINE h == j.graph
  <2>1. Sound(h, added) /\ place \in DOMAIN added.schedule
    BY <1>2, <1>3
  <2> HIDE DEF h
  <2>2. Keeps(h, added, WithContexts(added, place))
    BY <2>1, WithContextsKeeps
  <2> QED  BY <2>2 DEF h
<1>7. WithContexts(added, place).turned = s.turned
  <2>1. added.turned = s.turned /\ DOMAIN added = BuilderFields \cup OtherFields
    BY <1>2 DEF Builds, Builder, OtherFields
  <2> QED  BY <2>1 DEF WithContexts, BuilderFields, OtherFields
<1> QED  BY <1>5, <1>6, <1>7 DEF Keeps, added

LEMMA PartIsLate == Part("backward") = Late(job)
BY DEF Part, Late

\* The gradients of a node read what is there.
LEMMA GradientsTrack ==
    ASSUME IsJob(job), NEW s, Settled(job, s), job.twoPhase => s.turned, NEW n \in DOMAIN s.first,
           AllStaged(s, Original(s, n).ins), AllStaged(s, Original(s, n).outs)
    PROVE  Settled(job, GradientsOf(s, n))
<1> DEFINE place    == s.last[n]
           original == Original(s, n)
           node     == s.schedule[place].node
           own      == place = s.first[n]
           keep     == job.twoPhase /\ own
           home     == IF keep THEN "forward" ELSE Late(job)
           Staged(vs) == IF keep THEN GetStaged(s, vs) ELSE GetRetainedStaged(s, vs)
           ins  == original.ins
           outs == original.outs
           op   == original.op
           i == node.ins
           o == node.outs
           c1       == CopyGrads(s, ins, i)
           begun    == IF own THEN s ELSE CopyGrads(c1, outs, o)
           x        == Staged(ins)
           y        == Staged(outs)
           added    == AddGradientForNode(begun, keep, op, x, y)
           with     == WithContexts(added, place)
           back     == CopyGrads(with, x, ins)
<1>1. GradientsOf(s, n) = ScheduleAdded(back, Late(job))
  BY PartIsLate DEF GradientsOf
<1>2. /\ IsModel(job.graph) /\ keep \in BOOLEAN /\ Sound(job.graph, s) /\ Sound(g, s)
      /\ s.schedule \in Seq(Entries)
      /\ place \in DOMAIN s.schedule /\ s.first[n] \in DOMAIN s.schedule /\ node \in Nodes
      /\ original = s.schedule[s.first[n]].node /\ n \in DOMAIN s.first
  <2>1. IsModel(job.graph) /\ job.twoPhase \in BOOLEAN /\ Sound(job.graph, s)
    BY DEF IsJob, Settled
  <2>2. s.last[n] \in DOMAIN s.schedule /\ s.first[n] \in DOMAIN s.schedule /\ s.schedule \in Seq(Entries)
    BY <2>1 DEF Sound, Placed
  <2>3. s.schedule[s.last[n]] \in Entries
    BY <2>2
  <2> QED  BY <2>1, <2>2, <2>3 DEF Entries, g, Original
<1>3. /\ ins \in Seq(Nat) /\ outs \in Seq(Nat) /\ i \in Seq(Nat) /\ o \in Seq(Nat)
      /\ AllStaged(s, ins) /\ AllStaged(s, outs)
  <2>1. s.schedule[s.first[n]] \in Entries
    BY <1>2
  <2> QED  BY <1>2, <2>1 DEF Entries, Nodes
<1>4. /\ op \in Operators /\ outs # <<>>
      /\ Len(ins) = IF op \in {"Add", "Mul"} THEN 2 ELSE 1
  <2>1. Stands(g, original, n) /\ n \in DOMAIN g.nodes
    <3>1. IsModel(g)
      BY <1>2 DEF g
    <3> QED  BY <1>2, <3>1, OriginalStands
  <2>2. op = g.nodes[n].op /\ ins = g.nodes[n].ins /\ Elements(g.nodes[n].outs) \subseteq Elements(outs)
    BY <2>1 DEF Stands
  <2>3. Elements(outs) # {}
    BY <2>1, <2>2, JobsFit
  <2>4. outs # <<>>
    BY <2>3 DEF Elements
  <2> QED  BY <2>1, <2>2, <2>4, JobsFit
<1>5. Track(job, home, s) /\ s.contexts = <<>>
  BY Anywhere DEF Settled
<1>6. s.schedule[place].part = home
  <2>1. /\ s.schedule[s.first[n]].part = "forward"
        /\ place # s.first[n] => s.schedule[place].part = Late(job)
    BY <1>5 DEF Track, PlacesWell
  <2> QED  BY <2>1 DEF Late
<1>7. ASSUME NEW v \in Elements(ins) \cup Elements(outs)
      PROVE  /\ v \in DOMAIN s.staged
             /\ ~keep /\ job.twoPhase => s.staged[v] \in DOMAIN s.retained
  <2>1. v \in DOMAIN s.staged
    BY <1>3, <1>7 DEF AllStaged
  <2>2. ASSUME ~keep, job.twoPhase PROVE s.staged[v] \in DOMAIN s.retained
    <3>1. place # s.first[n]
      BY <2>2
    <3> QED  BY <1>2, <1>5, <1>7, <2>1, <2>2, <3>1 DEF Track, PlacesWell
  <2> QED  BY <2>1, <2>2
<1> HIDE DEF original, node, own, ins, outs, op, i, o
<1>8. Adds(job, home, s, begun) /\ begun.contexts = <<>> /\ Sound(job.graph, begun)
  <2>1. Builder(job.graph, s)
    BY <1>2 DEF Sound
  <2>2. CASE own
    <3>1. Adds(job, home, s, s)
      BY <1>5, <2>1, AddsNothing
    <3> QED  BY <1>2, <1>5, <2>2, <3>1
  <2>3. CASE ~own
    <3>1. begun = CopyGrads(c1, outs, o)
      BY <2>3
    <3> HIDE DEF begun, home
    <3>2. Adds(job, home, s, c1) /\ c1.contexts = s.contexts
      BY <1>3, <1>5, <2>1, CopyGradsAdds
    <3>3. Sound(job.graph, c1)
      BY <1>2, <1>3, CopyGradsKeeps DEF Keeps
    <3> HIDE DEF c1
    <3>4. Builder(job.graph, c1) /\ Track(job, home, c1)
      BY <3>2, AddsState
    <3>5. Adds(job, home, c1, CopyGrads(c1, outs, o)) /\ CopyGrads(c1, outs, o).contexts = c1.contexts
      BY <1>3, <3>4, CopyGradsAdds
    <3>6. Sound(job.graph, CopyGrads(c1, outs, o))
      BY <1>3, <3>3, CopyGradsKeeps DEF Keeps
    <3> QED  BY <1>5, <3>1, <3>2, <3>5, <3>6, AddsMore
  <2> QED  BY <2>2, <2>3
<1> HIDE DEF begun
<1>9. Adding(job, home, keep, begun) /\ begun.schedule = s.schedule
  <2>1. begun.turned = s.turned /\ begun.schedule = s.schedule
        /\ Builder(job.graph, begun) /\ Track(job, home, begun)
    BY <1>8, AddsState
  <2> QED  BY <2>1 DEF Adding
<1>10. /\ Elements(x) \subseteq Usable(job, home, keep, s)
       /\ Elements(y) \subseteq Usable(job, home, keep, s)
       /\ x \in Seq(Nat) /\ y \in Seq(Nat) /\ Len(x) = Len(ins) /\ Len(y) = Len(outs)
  <2>1. ASSUME NEW vs \in Seq(Nat), AllStaged(s, vs), Elements(vs) \subseteq Elements(ins) \cup Elements(outs)
        PROVE  /\ Elements(Staged(vs)) \subseteq Usable(job, home, keep, s)
               /\ Staged(vs) \in Seq(Nat) /\ Len(Staged(vs)) = Len(vs)
    <3>1. /\ DOMAIN Staged(vs) = DOMAIN vs
          /\ \A k \in DOMAIN vs : Staged(vs)[k] = IF keep THEN s.staged[vs[k]] ELSE Copied(s, s.staged[vs[k]])
      BY <2>1, StagedElements
    <3>2. Staged(vs) \in Seq(Nat) /\ Len(Staged(vs)) = Len(vs)
      BY <1>2, <2>1, StagedType
    <3>3. ASSUME NEW k \in DOMAIN vs PROVE Staged(vs)[k] \in Usable(job, home, keep, s)
      <4> DEFINE v == vs[k]
      <4>1. v \in Elements(ins) \cup Elements(outs)
        BY <2>1 DEF Elements
      <4> HIDE DEF v
      <4>2. v \in DOMAIN s.staged /\ (~keep /\ job.twoPhase => s.staged[v] \in DOMAIN s.retained)
        BY <1>7, <4>1
      <4>3. home = (IF keep THEN "forward" ELSE Late(job)) /\ (keep => job.twoPhase)
        OBVIOUS
      <4> HIDE DEF keep, home
      <4>4. (IF keep THEN s.staged[v] ELSE Copied(s, s.staged[v])) \in Usable(job, home, keep, s)
        BY <1>2, <1>5, <4>2, <4>3, StagedIsUsable
      <4> QED  BY <3>1, <4>4 DEF v
    <3> HIDE DEF Staged
    <3> QED  BY <3>1, <3>2, <3>3 DEF Elements
  <2> HIDE DEF Staged, keep, home
  <2> QED  BY <1>3, <2>1
<1>11. Fits(op, x, y) /\ y[1] \in Elements(y)
  <2> HIDE DEF x, y
  <2>1. Len(outs) # 0 /\ y # <<>>
    <3>1. Len(outs) # 0
      BY <1>3, <1>4
    <3> QED  BY <1>10, <3>1
  <2>2. 1 \in DOMAIN y
    BY <1>10, <2>1
  <2> QED  BY <1>4, <1>10, <2>1, <2>2 DEF Fits, Elements
<1>12. /\ Elements(x) \subseteq Usable(job, home, keep, begun)
       /\ y[1] \in Usable(job, home, keep, begun)
  <2>1. Usable(job, home, keep, s) \subseteq Usable(job, home, keep, begun)
    BY <1>2, <1>8 DEF Adds
  <2> HIDE DEF x, y, home, keep
  <2> QED  BY <1>10, <1>11, <2>1
<1>13. home = (IF keep THEN "forward" ELSE Late(job)) /\ Len(x) = Len(ins)
  BY <1>10
<1> HIDE DEF x, y, home, keep, added
<1>14. Sound(job.graph, with) /\ Track(job, home, with) /\ with.contexts = <<>>
  <2> HIDE DEF place
  <2>1. place \in DOMAIN begun.schedule /\ begun.schedule[place].part = home
    BY <1>2, <1>6, <1>9
  <2> HIDE DEF with
  <2>2. LET t == WithContexts(AddGradientForNode(begun, keep, op, x, y), place)
        IN  Sound(job.graph, t) /\ Track(job, home, t) /\ t.contexts = <<>> /\ t.turned = begun.turned
    BY <1>2, <1>8, <1>9, <1>11, <1>12, <1>13, <2>1, GradientTracks
  <2> QED  BY <2>2 DEF added, with
<1> HIDE DEF with
<1>15. Sound(job.graph, back) /\ Track(job, home, back) /\ back.contexts = <<>>
  <2>1. Adds(job, home, with, CopyGrads(with, x, ins)) /\ CopyGrads(with, x, ins).contexts = with.contexts
    <3>1. Builder(job.graph, with)
      BY <1>14 DEF Sound
    <3> QED  BY <1>3, <1>14, <3>1, CopyGradsAdds
  <2>2. Sound(job.graph, CopyGrads(with, x, ins))
    BY <1>3, <1>14, CopyGradsKeeps DEF Keeps
  <2> QED  BY <1>14, <2>1, <2>2, AddsState
<1> HIDE DEF back
<1>16. /\ Track(job, "forward", ScheduleAdded(back, Late(job)))
       /\ ScheduleAdded(back, Late(job)).added = <<>> /\ ScheduleAdded(back, Late(job)).contexts = <<>>
  BY <1>2, <1>15, ScheduleAddedTracks
<1>17. Sound(job.graph, ScheduleAdded(back, Late(job)))
  BY <1>15, LateIsPart, ScheduleAddedKeeps DEF Keeps
<1> QED  BY <1>1, <1>16, <1>17 DEF Settled


\* Without a policy a value of the model stands for itself and was not forgotten.
LEMMA ValueIsUsable ==
    ASSUME NEW j, NEW s, Track(j, "forward", s), j.policy = "none", j.twoPhase \in BOOLEAN,
           NEW v \in Values(j.graph)
    PROVE  v \in Usable(j, "forward", j.twoPhase, s)
<1> DEFINE keep == j.twoPhase
           home == "forward"
<1>1. v \in DOMAIN s.staged /\ s.staged[v] = v
  BY DEF Track, Phases
<1>2. home = (IF keep THEN "forward" ELSE Late(j)) /\ (keep => j.twoPhase) /\ Track(j, home, s)
  BY DEF Late
<1> HIDE DEF home
<1>3. (IF keep THEN s.staged[v] ELSE Copied(s, s.staged[v])) \in Usable(j, home, keep, s)
  BY <1>1, <1>2, StagedIsUsable
<1>4. ~keep => Copied(s, v) = v
  BY DEF Track, RetainedWell, Copied
<1> QED  BY <1>1, <1>3, <1>4 DEF home

\* The gradient of a node that is computed once.
LEMMA AddGradientTracks ==
    ASSUME IsJob(job), NEW s, Settled(job, s), job.policy = "none", job.twoPhase => s.turned,
           NEW n \in DOMAIN s.first
    PROVE  LET node  == Original(s, n)
               added == AddGradientForNode(s, job.twoPhase, node.op, node.ins, node.outs)
               done  == ScheduleAdded(WithContexts(added, s.first[n]), Part("backward"))
           IN  Settled(job, done) /\ done.turned = s.turned
<1> DEFINE node  == Original(s, n)
           op    == node.op
           x     == node.ins
           y     == node.outs
           keep  == job.twoPhase
           place == s.first[n]
           home  == "forward"
           added == AddGradientForNode(s, keep, op, x, y)
           with  == WithContexts(added, place)
           done  == ScheduleAdded(with, Late(job))
<1>1. IsModel(job.graph) /\ IsModel(g) /\ keep \in BOOLEAN /\ Sound(job.graph, s) /\ Sound(g, s)
      /\ Track(job, home, s) /\ s.contexts = <<>>
  BY DEF IsJob, g, Settled
<1>2. node \in Nodes /\ Stands(g, node, n) /\ n \in DOMAIN g.nodes
      /\ node = s.schedule[place].node /\ place \in DOMAIN s.schedule
  <2>1. node \in Nodes /\ Stands(g, node, n) /\ n \in DOMAIN g.nodes
    BY <1>1, OriginalStands
  <2> QED  BY <1>1, <2>1 DEF Original, Sound, Placed
<1>3. /\ s.schedule[place].part = home
      /\ y # <<>> /\ y[1] \in Values(job.graph)
  BY <1>1, <1>2 DEF Track, PlacesWell
<1>4. op = g.nodes[n].op /\ x = g.nodes[n].ins
  BY <1>2 DEF Stands
<1>5. Fits(op, x, y)
  <2>1. x \in Seq(Nat) /\ y \in Seq(Nat)
    BY <1>2 DEF Nodes
  <2>2. op \in Operators /\ Len(x) = IF op \in {"Add", "Mul"} THEN 2 ELSE 1
    BY <1>2, <1>4, JobsFit
  <2> QED  BY <1>3, <2>1, <2>2 DEF Fits
<1>6. Elements(x) \subseteq Values(job.graph)
  BY <1>1, <1>2, <1>4, ModelOrder DEF g
<1>7. home = (IF keep THEN "forward" ELSE Late(job)) /\ Adding(job, home, keep, s)
  BY <1>1 DEF Late, Adding, Sound
<1>8. \A v \in Values(job.graph) : v \in Usable(job, home, keep, s)
  BY <1>1, ValueIsUsable
<1> HIDE DEF op, x, y, keep, place, home
<1>9. LET t == WithContexts(AddGradientForNode(s, keep, op, x, y), place)
      IN  Sound(job.graph, t) /\ Track(job, home, t) /\ t.contexts = <<>> /\ t.turned = s.turned
  BY <1>1, <1>2, <1>3, <1>5, <1>6, <1>7, <1>8, GradientTracks
<1>10. Sound(job.graph, with) /\ Track(job, home, with) /\ with.contexts = <<>> /\ with.turned = s.turned
  BY <1>9
<1> HIDE DEF with
<1>11. Track(job, "forward", ScheduleAdded(with, Late(job)))
       /\ ScheduleAdded(with, Late(job)).added = <<>> /\ ScheduleAdded(with, Late(job)).contexts = <<>>
  BY <1>1, <1>10, ScheduleAddedTracks
<1>12. Sound(job.graph, ScheduleAdded(with, Late(job)))
  BY <1>10, LateIsPart, ScheduleAddedKeeps DEF Keeps
<1>13. ScheduleAdded(with, Late(job)).turned = s.turned
  <2>1. DOMAIN with = BuilderFields \cup OtherFields
    BY <1>10 DEF Sound, Builder
  <2> QED  BY <1>10, <2>1 DEF ScheduleAdded, Scheduled, BuilderFields, OtherFields
<1> QED  BY <1>11, <1>12, <1>13, PartIsLate DEF Settled, with, place, keep, op, x, y

\* In one phase the output gets a gradient that is computed from a constant.
LEMMA InitialGradientsTrack ==
    ASSUME IsJob(job), ~job.twoPhase, Len(g.outputs) = 1, NEW s, Settled(job, s),
           job.policy = "none" => g.outputs[1] \in Readable(job, "forward", s)
    PROVE  Settled(job, SetInitialGradients(s))
<1> DEFINE y == g.outputs[1]
           k1 == "Constant"
           k2 == "Shape"
           k3 == "Expand"
           home == "forward"
           i1 == <<>>
           c == Op(s, k1, i1)
           i2 == <<y>>
           d == Op(c, k2, i2)
           i3 == <<s.fresh, c.fresh>>
           e == Op(d, k3, i3)
           t == IF job.policy = "none" THEN e ELSE c
           grads == WithGrad(t.grads, y, t.fresh - 1)
           u == [t EXCEPT !.grads = grads]
<1>1. IsModel(job.graph) /\ IsModel(g) /\ y \in Nat /\ g = job.graph
  <2>1. IsModel(g) /\ g.outputs \in Seq(Nat)
    BY NaturalOutputs
  <2> QED  BY <2>1 DEF g
<1>2. SetInitialGradients(s) = ScheduleAdded(u, Late(job))
  BY DEF SetInitialGradients, Late
<1>3. /\ k1 \in Operators \cup AddedOperators /\ k2 \in Operators \cup AddedOperators
      /\ k3 \in Operators \cup AddedOperators
  BY DEF Operators, AddedOperators
<1>4. Builder(job.graph, s) /\ s.fresh \in Nat /\ Track(job, home, s) /\ s.contexts = <<>>
  BY DEF Settled, Sound, Builder
<1>5. i1 \in Seq(Nat) /\ i2 \in Seq(Nat) /\ Elements(i1) = {} /\ Elements(i2) = {y}
  BY <1>1 DEF Elements
<1> HIDE DEF k1, k2, k3, y, home, i1, i2
<1>6. /\ Adds(job, home, s, c) /\ s.fresh \in Gradable(job, home, c) /\ s.fresh \in Readable(job, home, c)
      /\ c.fresh = s.fresh + 1 /\ c.contexts = <<>>
  <2>1. Elements(i1) \subseteq Readable(job, home, s)
    BY <1>5
  <2>2. /\ Adds(job, home, s, Op(s, k1, i1)) /\ s.fresh \in Gradable(job, home, Op(s, k1, i1))
        /\ s.fresh \in Readable(job, home, Op(s, k1, i1))
    BY <1>1, <1>3, <1>4, <1>5, <2>1, OpAdds
  <2>3. Op(s, k1, i1).fresh = s.fresh + 1 /\ Op(s, k1, i1).contexts = s.contexts
    BY <1>4, OpFields, ZenonT(60)
  <2> QED  BY <1>4, <2>2, <2>3
<1> HIDE DEF c
<1>7. Builder(job.graph, c) /\ Track(job, home, c) /\ c.fresh \in Nat
  BY <1>4, <1>6, AddsState
<1>8. /\ Adds(job, home, s, t) /\ t.fresh - 1 \in Gradable(job, home, t) /\ t.contexts = <<>>
  <2>1. CASE job.policy = "none"
    <3>1. Elements(i2) \subseteq Readable(job, home, c)
      BY <1>5, <1>6, <2>1 DEF Adds, y, home
    <3>2. /\ Adds(job, home, c, d) /\ c.fresh \in Readable(job, home, d)
          /\ d.fresh = c.fresh + 1 /\ d.contexts = <<>>
      <4>1. /\ Adds(job, home, c, Op(c, k2, i2)) /\ c.fresh \in Readable(job, home, Op(c, k2, i2))
        BY <1>1, <1>3, <1>5, <1>7, <3>1, OpAdds
      <4>2. Op(c, k2, i2).fresh = c.fresh + 1 /\ Op(c, k2, i2).contexts = c.contexts
        <5> DEFINE h == job.graph
        <5>1. Builder(h, c)
          BY <1>7
        <5> HIDE DEF h, d, i3, e, t, grads, u
        <5> QED  BY <5>1, OpFields, ZenonT(60)
      <4> QED  BY <1>6, <4>1, <4>2
    <3> HIDE DEF d
    <3>3. Builder(job.graph, d) /\ Track(job, home, d) /\ d.fresh \in Nat
      BY <1>7, <3>2, AddsState
    <3>4. i3 \in Seq(Nat) /\ Elements(i3) \subseteq Readable(job, home, d)
      <4>1. i3 \in Seq(Nat)
        BY <1>4, <1>7
      <4>2. s.fresh \in Readable(job, home, d)
        BY <1>6, <3>2 DEF Adds
      <4>3. Elements(i3) = {s.fresh, c.fresh}
        BY DEF Elements
      <4> QED  BY <3>2, <4>1, <4>2, <4>3
    <3> HIDE DEF i3
    <3>5. /\ Adds(job, home, d, e) /\ d.fresh \in Gradable(job, home, e)
          /\ e.fresh = d.fresh + 1 /\ e.contexts = <<>>
      <4>1. Adds(job, home, d, Op(d, k3, i3)) /\ d.fresh \in Gradable(job, home, Op(d, k3, i3))
        BY <1>1, <1>3, <3>3, <3>4, OpAdds
      <4>2. Op(d, k3, i3).fresh = d.fresh + 1 /\ Op(d, k3, i3).contexts = d.contexts
        <5> DEFINE h == job.graph
        <5>1. Builder(h, d)
          BY <3>3
        <5> HIDE DEF h, e, t, grads, u
        <5> QED  BY <5>1, OpFields, ZenonT(60)
      <4> QED  BY <3>2, <4>1, <4>2
    <3> HIDE DEF e
    <3>6. Adds(job, home, s, e)
      BY <1>6, <3>2, <3>5, AddsMore
    <3>7. t = e /\ e.fresh - 1 = d.fresh
      BY <2>1, <3>3, <3>5
    <3> QED  BY <3>5, <3>6, <3>7
  <2>2. CASE job.policy # "none"
    <3>1. t = c /\ c.fresh - 1 = s.fresh
      BY <1>4, <1>6, <2>2
    <3> QED  BY <1>6, <3>1
  <2> QED  BY <2>1, <2>2
<1> HIDE DEF t
<1>9. Builder(job.graph, t) /\ Track(job, home, t)
  BY <1>8, AddsState
<1>10. t.fresh \in Nat /\ t.fresh - 1 \in Nat
  BY <1>9 DEF Builder, Track, Named
<1>11. IsMap(grads) /\ Elements(grads) \subseteq Gradable(job, home, t)
  <2> DEFINE f == t.grads
             x == t.fresh - 1
  <2>1. IsMap(f) /\ x \in Nat
    BY <1>9, <1>10 DEF Builder
  <2>2. Elements(f) \subseteq Gradable(job, home, t) /\ x \in Gradable(job, home, t)
    BY <1>8, <1>9 DEF Track, Graded
  <2> HIDE DEF f, x
  <2>3. IsMap(With(f, y, x))
    BY <2>1, WithType
  <2>4. Elements(With(f, y, x)) \subseteq Elements(f) \cup {x}
    BY DEF With, Over, Elements
  <2> QED  BY <2>2, <2>3, <2>4 DEF WithGrad, f, x
<1> HIDE DEF grads
<1>12. /\ Builds(job.graph, t, u) /\ u.grads = grads
       /\ u.retained = t.retained /\ u.contexts = t.contexts /\ u.added = t.added /\ u.fresh = t.fresh
  <2>1. Builds(job.graph, t, u)
    BY <1>9, <1>11, GradsBuild
  <2> QED  BY <1>9, <2>1 DEF Builder, BuilderFields, OtherFields
<1> HIDE DEF u
<1>13. Adds(job, home, t, u)
  <2>1. AddedWell(job, home, u)
    <3>1. Numbered(t.added, Readable(job, home, t))
      BY <1>9 DEF Track, AddedWell
    <3>2. Readable(job, home, u) = Readable(job, home, t)
      BY <1>12 DEF Builds, OtherFields, Readable, Available, GivenTo, StandIns, LostIn
    <3> QED  BY <1>12, <3>1, <3>2 DEF AddedWell
  <2> QED  BY <1>9, <1>10, <1>11, <1>12, <2>1, AddingTracks
<1>14. Adds(job, home, s, u)
  BY <1>8, <1>13, AddsMore
<1>15. Sound(job.graph, u) /\ Track(job, home, u) /\ u.contexts = <<>>
  <2>1. Builds(job.graph, s, u)
    BY <1>14 DEF Adds
  <2>2. Sound(job.graph, u)
    BY <2>1, BuildsKeep DEF Keeps, Settled
  <2> QED  BY <1>8, <1>12, <1>14, <2>2, AddsState
<1>16. Track(job, "forward", ScheduleAdded(u, Late(job)))
       /\ ScheduleAdded(u, Late(job)).added = <<>> /\ ScheduleAdded(u, Late(job)).contexts = <<>>
  BY <1>1, <1>15, ScheduleAddedTracks
<1>17. Sound(job.graph, ScheduleAdded(u, Late(job)))
  BY <1>15, LateIsPart, ScheduleAddedKeeps DEF Keeps
<1> QED  BY <1>2, <1>16, <1>17 DEF Settled


\* t is s with a gradient for each output, and the backward graph is current.
Turned(s, t) ==
    LET news == [v \in Elements(g.outputs) |-> s.fresh + Place(g.outputs, v)]
    IN  /\ t.grads = Over(news, s.grads) /\ t.outGrads = news
        /\ t.fresh = s.fresh + Len(g.outputs) + 1
        /\ t.turned = TRUE
        /\ job.policy # "none" => t.stagedInForward = Elements(s.staged)
        /\ Differs(s, t, {"grads", "outGrads", "fresh", "turned", "stagedInForward"})

LEMMA TurnedTracks ==
    ASSUME IsJob(job), NEW s, Settled(job, s), job.twoPhase, ~s.turned,
           NEW t, Sound(job.graph, t), Turned(s, t)
    PROVE  Settled(job, t)
<1> DEFINE news == [v \in Elements(g.outputs) |-> s.fresh + Place(g.outputs, v)]
           home == "forward"
<1>1. /\ t.grads = Over(news, s.grads) /\ t.outGrads = news
      /\ t.fresh = s.fresh + Len(g.outputs) + 1 /\ t.turned
      /\ job.policy # "none" => t.stagedInForward = Elements(s.staged)
      /\ t.schedule = s.schedule /\ t.first = s.first /\ t.last = s.last /\ t.staged = s.staged
      /\ t.forgotten = s.forgotten
      /\ t.retained = s.retained /\ t.added = <<>> /\ t.contexts = <<>>
      /\ s.added = <<>> /\ s.contexts = <<>>
  <2> HIDE DEF news
  <2>1. /\ t.schedule = s.schedule /\ t.first = s.first /\ t.last = s.last /\ t.staged = s.staged
        /\ t.forgotten = s.forgotten
        /\ t.retained = s.retained /\ t.added = s.added /\ t.contexts = s.contexts
    BY DEF Turned, Differs, BuilderFields, OtherFields
  <2> QED  BY <2>1 DEF Turned, news, Settled
<1>2. g.outputs \in Seq(Nat) /\ Len(g.outputs) \in Nat
  BY NaturalOutputs
<1>3. s.fresh \in Nat /\ s.fresh > 0 /\ Names(job, s) \subseteq 1..(s.fresh - 1) /\ Track(job, home, s)
  BY DEF Settled, Sound, Builder, Track, Named
<1>4. s.outGrads = <<>> /\ DOMAIN s.retained = {}
  BY <1>3 DEF Track, Phases
<1>5. Elements(news) \subseteq s.fresh..(t.fresh - 1)
  <2>1. \A v \in Elements(g.outputs) : Place(g.outputs, v) \in 1..Len(g.outputs)
    BY <1>2, PlaceOfElement
  <2>2. \A v \in Elements(g.outputs) : s.fresh + Place(g.outputs, v) \in s.fresh..(t.fresh - 1)
    BY <1>1, <1>2, <1>3, <2>1
  <2> QED  BY <2>2 DEF Elements
<1>6. Elements(t.grads) \subseteq Elements(news) \cup Elements(s.grads)
  <2> DEFINE f == s.grads
  <2> HIDE DEF news, f
  <2>1. Elements(Over(news, f)) \subseteq Elements(news) \cup Elements(f)
    BY DEF Over, Elements
  <2> QED  BY <1>1, <2>1 DEF f
<1> HIDE DEF news
<1>7. Elements(news) \cap Names(job, s) = {}
  BY <1>3, <1>5
<1>8. /\ Lost(t) = Lost(s) /\ StandIns(t) = StandIns(s)
      /\ \A p : LostIn(t, p) = LostIn(s, p)
      /\ \A w : Copied(t, w) = Copied(s, w)
      /\ ComputedBy(s.added) = {} /\ ComputedBy(t.added) = {}
      /\ Elements(s.contexts) = {} /\ Elements(t.contexts) = {} /\ Elements(s.outGrads) = {}
  BY <1>1, <1>4 DEF Lost, LostIn, StandIns, Copied, ComputedBy, Elements
<1>9. /\ \A p : GivenTo(job, s, p) \subseteq GivenTo(job, t, p)
      /\ Elements(news) \subseteq GivenTo(job, t, "backward") /\ Late(job) = "backward"
  BY <1>1, <1>8 DEF GivenTo, Late
<1>10. \A p : Available(job, home, s, p) \subseteq Available(job, home, t, p)
  BY <1>1, <1>8, <1>9 DEF Available
<1>11. Named(job, t)
  <2>1. Names(job, t) \subseteq Names(job, s) \cup Elements(news)
    BY <1>1, <1>6, <1>8 DEF Names
  <2>2. t.fresh \in Nat /\ s.fresh <= t.fresh
    BY <1>1, <1>2, <1>3
  <2> QED  BY <1>3, <1>5, <2>1, <2>2 DEF Named
<1>12. Fed(job, t)
  BY <1>1, <1>3, <1>9, ZenonT(60) DEF Track, Fed
<1>13. AddedWell(job, home, t)
  BY <1>1 DEF AddedWell, Numbered
<1>14. Graded(job, home, t)
  <2>1. Elements(s.grads) \subseteq Gradable(job, home, s)
    BY <1>3 DEF Track, Graded
  <2>2. Gradable(job, home, s) \subseteq Gradable(job, home, t)
    BY <1>1, <1>8, <1>10 DEF Gradable
  <2>3. Elements(news) \subseteq Gradable(job, home, t)
    <3>1. Elements(news) \subseteq Available(job, home, t, Late(job))
      BY <1>9 DEF Available
    <3>2. Elements(news) \cap (Values(job.graph) \cup Elements(t.staged) \cup Elements(t.retained) \cup Lost(t)) = {}
      BY <1>1, <1>7, <1>8 DEF Names
    <3> QED  BY <3>1, <3>2 DEF Gradable
  <2> QED  BY <1>6, <2>1, <2>2, <2>3 DEF Graded
<1>15. RetainedWell(job, home, t)
  BY <1>1, <1>4 DEF RetainedWell
<1>16. StagedWell(job, home, t)
  <2>1. \A v \in DOMAIN s.staged : s.staged[v] \in Elements(s.staged)
    BY DEF Elements
  <2> QED  BY <1>1, <1>3, <1>8, <1>10, <2>1 DEF Track, StagedWell
<1>17. OriginsWell(job, t) /\ PlacesWell(job, t)
  <2>1. OriginsWell(job, t)
    BY <1>1, <1>3, <1>8 DEF Track, OriginsWell
  <2>2. PlacesWell(job, t)
    <3>1. PlacesWell(job, s)
      BY <1>3 DEF Track
    <3> QED  BY <1>1, <3>1, PlacesKept
  <2> QED  BY <2>1, <2>2
<1>18. Phases(job, t)
  BY <1>1, <1>3 DEF Track, Phases
<1>19. Track(job, home, t)
  BY <1>8, <1>11, <1>12, <1>13, <1>14, <1>15, <1>16, <1>17, <1>18 DEF Track
<1> QED  BY <1>1, <1>19 DEF Settled

\* The fields that AddGradInputs sets.
LEMMA GradInputsFields ==
    ASSUME NEW s, Sound(g, s)
    PROVE  LET t == AddGradInputs(s)
               news == [v \in Elements(g.outputs) |-> s.fresh + Place(g.outputs, v)]
           IN  /\ t.grads = Over(news, s.grads) /\ t.outGrads = news
               /\ t.fresh = s.fresh + Len(g.outputs) + 1
               /\ DOMAIN t = BuilderFields \cup OtherFields
               /\ Differs(s, t, {"grads", "outGrads", "fresh"})
<1> DEFINE t == AddGradInputs(s)
           news == [v \in Elements(g.outputs) |-> s.fresh + Place(g.outputs, v)]
<1>1. t = [s EXCEPT !.grads = Over(news, @), !.outGrads = news, !.fresh = @ + Len(g.outputs) + 1]
  BY DEF AddGradInputs
<1>2. DOMAIN s = BuilderFields \cup OtherFields
  BY DEF Sound, Builder
<1> HIDE DEF t, news
<1>3. /\ t.grads = Over(news, s.grads) /\ t.outGrads = news
      /\ t.fresh = s.fresh + Len(g.outputs) + 1
      /\ DOMAIN t = BuilderFields \cup OtherFields
      /\ Differs(s, t, {"grads", "outGrads", "fresh"})
  BY <1>1, <1>2 DEF BuilderFields, OtherFields, Differs
<1> QED  BY <1>3 DEF t, news

LEMMA TurnTracks ==
    ASSUME IsJob(job), NEW s, Settled(job, s)
    PROVE  /\ Settled(job, Turn(s)) /\ Turn(s).staged = s.staged /\ Turn(s).first = s.first
           /\ Turn(s).schedule = s.schedule /\ Turn(s).last = s.last
           /\ s.turned => Turn(s).turned
<1> DEFINE turns == job.twoPhase /\ ~s.turned /\ Elements(g.outputs) \subseteq DOMAIN s.staged
           t == AddGradInputs(s)
           u == [t EXCEPT !.turned = TRUE, !.stagedInForward = Elements(s.staged)]
           news == [v \in Elements(g.outputs) |-> s.fresh + Place(g.outputs, v)]
<1>1. CASE turns
  <2>1. Turn(s) = u
    BY <1>1 DEF Turn
  <2>2. Sound(g, s) /\ g = job.graph
    BY DEF Settled, g
  <2>3. /\ t.grads = Over(news, s.grads) /\ t.outGrads = news
        /\ t.fresh = s.fresh + Len(g.outputs) + 1
        /\ DOMAIN t = BuilderFields \cup OtherFields
        /\ Differs(s, t, {"grads", "outGrads", "fresh"})
    BY <2>2, GradInputsFields
  <2> HIDE DEF t, news
  <2>4. /\ u.grads = t.grads /\ u.outGrads = t.outGrads /\ u.fresh = t.fresh
        /\ u.turned = TRUE /\ u.stagedInForward = Elements(s.staged)
        /\ Differs(s, u, {"grads", "outGrads", "fresh", "turned", "stagedInForward"})
    BY <2>3 DEF Differs, BuilderFields, OtherFields
  <2> HIDE DEF u
  <2>5. Sound(job.graph, u)
    BY <2>1, <2>2, TurnKeeps DEF Keeps
  <2>6. Turned(s, u)
    BY <2>3, <2>4 DEF Turned, news
  <2>7. Settled(job, u)
    BY <1>1, <2>5, <2>6, TurnedTracks
  <2>8. u.staged = s.staged /\ u.first = s.first /\ u.schedule = s.schedule /\ u.last = s.last
    BY <2>4 DEF Differs, OtherFields
  <2> QED  BY <2>1, <2>4, <2>7, <2>8
<1>2. CASE ~turns
  <2>1. Turn(s) = s
    BY <1>2 DEF Turn
  <2> QED  BY <2>1
<1> QED  BY <1>1, <1>2

\* Without a policy, the backward graph is current from the start.
LEMMA BeginTurned ==
    ASSUME IsJob(job), NEW s, Settled(job, s), job.twoPhase, ~s.turned, job.policy = "none"
    PROVE  LET u == [AddGradInputs(s) EXCEPT !.turned = TRUE]
           IN  Settled(job, u) /\ u.turned
<1> DEFINE t == AddGradInputs(s)
           u == [t EXCEPT !.turned = TRUE]
           news == [v \in Elements(g.outputs) |-> s.fresh + Place(g.outputs, v)]
<1>1. Sound(g, s) /\ g = job.graph
  BY DEF Settled, g
<1>2. /\ t.grads = Over(news, s.grads) /\ t.outGrads = news
      /\ t.fresh = s.fresh + Len(g.outputs) + 1
      /\ DOMAIN t = BuilderFields \cup OtherFields
      /\ Differs(s, t, {"grads", "outGrads", "fresh"})
  BY <1>1, GradInputsFields
<1>3. Sound(g, t)
  BY <1>1, AddGradInputsKeeps DEF Keeps
<1> HIDE DEF t, news
<1>4. /\ u.grads = t.grads /\ u.outGrads = t.outGrads /\ u.fresh = t.fresh
      /\ u.turned = TRUE /\ DOMAIN u = DOMAIN t
      /\ Differs(s, u, {"grads", "outGrads", "fresh", "turned"})
      /\ Differs(t, u, {"turned"})
  BY <1>2 DEF Differs, BuilderFields, OtherFields
<1> HIDE DEF u
<1>5. Sound(job.graph, u)
  <2>1. \A f \in BuilderFields : u[f] = t[f]
    BY <1>4 DEF Differs, BuilderFields
  <2>2. Builder(g, u)
    BY <1>3, <1>4, <2>1 DEF Sound, Builder, BuilderFields
  <2>3. \A f \in {"schedule", "staged", "first", "last"} : u[f] = t[f]
    BY <1>4 DEF Differs, OtherFields
  <2> QED  BY <1>1, <1>3, <2>2, <2>3, OthersKeep DEF Keeps
<1>6. Turned(s, u)
  <2>1. Differs(s, u, {"grads", "outGrads", "fresh", "turned", "stagedInForward"})
    BY <1>4 DEF Differs
  <2> QED  BY <1>2, <1>4, <2>1 DEF Turned, news
<1>7. Settled(job, u)
  BY <1>5, <1>6, TurnedTracks
<1> QED  BY <1>4, <1>7 DEF u, t


LEMMA ScheduleForwardFields ==
    ASSUME NEW h, NEW s, Builder(h, s), s.schedule \in Seq(Entries), NEW n, NEW node, NEW part
    PROVE  LET t == ScheduleForward(s, n, node, part)
               place == Len(s.schedule) + 1
               nodes == <<node>>
           IN  /\ t.schedule = s.schedule \o [k \in DOMAIN nodes |-> [node |-> nodes[k], part |-> part]]
               /\ t.first = IF n \in DOMAIN s.first THEN s.first ELSE With(s.first, n, place)
               /\ t.last = With(s.last, n, place)
               /\ DOMAIN t = BuilderFields \cup OtherFields
               /\ Differs(s, t, {"schedule", "first", "last"})
<1> DEFINE place == Len(s.schedule) + 1
           nodes == <<node>>
           more == s.schedule \o [k \in DOMAIN nodes |-> [node |-> nodes[k], part |-> part]]
           z == Scheduled(s, nodes, part)
           t == ScheduleForward(s, n, node, part)
<1>1. t = [z EXCEPT !.first = IF n \in DOMAIN @ THEN @ ELSE With(@, n, place), !.last = With(@, n, place)]
  BY DEF ScheduleForward
<1> HIDE DEF t, nodes, place
<1>2. DOMAIN z = DOMAIN s /\ z.schedule = more /\ Differs(s, z, {"schedule"})
  <2>1. /\ DOMAIN Scheduled(s, nodes, part) = DOMAIN s
        /\ Scheduled(s, nodes, part).schedule
               = s.schedule \o [k \in DOMAIN nodes |-> [node |-> nodes[k], part |-> part]]
        /\ Differs(s, Scheduled(s, nodes, part), {"schedule"})
    BY ScheduledFields
  <2> QED  BY <2>1
<1> HIDE DEF z, more
<1>3. DOMAIN s = BuilderFields \cup OtherFields
  BY DEF Builder
<1>4. /\ t.schedule = more /\ DOMAIN t = BuilderFields \cup OtherFields
      /\ t.first = IF n \in DOMAIN s.first THEN s.first ELSE With(s.first, n, place)
      /\ t.last = With(s.last, n, place)
      /\ Differs(s, t, {"schedule", "first", "last"})
  BY <1>1, <1>2, <1>3 DEF BuilderFields, OtherFields, Differs
<1> QED  BY <1>4 DEF t, place, more, nodes

\* One node more in the schedule.
Behind(a, nodes, part) == a \o [k \in DOMAIN nodes |-> [node |-> nodes[k], part |-> part]]

OneLonger(a, node, part, d) ==
    /\ d \in Seq(Entries) /\ Len(a) \in Nat /\ DOMAIN a = 1..Len(a)
    /\ DOMAIN d = DOMAIN a \cup {Len(a) + 1} /\ Len(a) + 1 \notin DOMAIN a
    /\ \A i \in DOMAIN a : i \in DOMAIN d /\ d[i] = a[i]
    /\ d[Len(a) + 1].node = node /\ d[Len(a) + 1].part = part
    /\ \A p : MadeBy(d, p) = MadeBy(a, p) \cup (IF p = part THEN Elements(node.outs) ELSE {})

LEMMA OneLengthens ==
    ASSUME NEW a \in Seq(Entries), NEW node \in Nodes, NEW part \in Parts, NEW d,
           d = Behind(a, <<node>>, part)
    PROVE  OneLonger(a, node, part, d)
<1> DEFINE nodes == <<node>>
<1>1. nodes \in Seq(Nodes) /\ Len(nodes) = 1 /\ DOMAIN nodes = {1} /\ nodes[1] = node
  OBVIOUS
<1>2. d = a \o [k \in DOMAIN nodes |-> [node |-> nodes[k], part |-> part]]
  BY DEF Behind
<1> HIDE DEF nodes
<1>3. Lengthened(a, nodes, part, d)
  BY <1>1, <1>2, MadeByMore
<1>4. ComputedBy(nodes) = Elements(node.outs)
  BY <1>1 DEF ComputedBy
<1>5. /\ d \in Seq(Entries) /\ Len(a) \in Nat /\ DOMAIN a = 1..Len(a) /\ DOMAIN d = 1..(Len(a) + 1)
      /\ \A i \in DOMAIN a : i \in DOMAIN d /\ d[i] = a[i]
      /\ d[Len(a) + 1].node = node /\ d[Len(a) + 1].part = part
  BY <1>1, <1>3 DEF Lengthened
<1>6. DOMAIN d = DOMAIN a \cup {Len(a) + 1} /\ Len(a) + 1 \notin DOMAIN a
  <2>1. Len(a) \in Nat /\ DOMAIN a = 1..Len(a) /\ DOMAIN d = 1..(Len(a) + 1)
    BY <1>5
  <2>2. \A m \in Nat : 1..(m + 1) = (1..m) \cup {m + 1} /\ m + 1 \notin 1..m
    OBVIOUS
  <2>3. 1..(Len(a) + 1) = (1..Len(a)) \cup {Len(a) + 1} /\ Len(a) + 1 \notin 1..Len(a)
    BY <2>1, <2>2
  <2> QED  BY <2>1, <2>3, Zenon
<1>7. \A p : MadeBy(d, p) = MadeBy(a, p) \cup (IF p = part THEN Elements(node.outs) ELSE {})
  BY <1>3, <1>4 DEF Lengthened
<1> QED  BY <1>5, <1>6, <1>7 DEF OneLonger

\* A node whose values were not made yet.
LEMMA NotYetMade ==
    ASSUME NEW j, IsModel(j.graph), NEW s, OriginsWell(j, s), DOMAIN s.first \subseteq DOMAIN j.graph.nodes,
           NEW n \in DOMAIN j.graph.nodes, n \notin DOMAIN s.first,
           NEW v \in Elements(j.graph.nodes[n].outs)
    PROVE  /\ v \in Values(j.graph) /\ v \notin j.graph.inputs /\ v \notin Lost(s)
           /\ \A p \in Parts : v \notin MadeBy(s.schedule, p)
<1> DEFINE nodes == j.graph.nodes
<1>1. v \in ComputedBy(nodes)
  BY DEF ComputedBy
<1>2. v \in Values(j.graph) /\ v \notin j.graph.inputs
  BY <1>1 DEF Values, IsModel
<1>3. \A m \in DOMAIN s.first : v \notin Elements(nodes[m].outs)
  <2> SUFFICES ASSUME NEW m \in DOMAIN s.first, v \in Elements(nodes[m].outs) PROVE FALSE
    OBVIOUS
  <2>1. PICK x \in DOMAIN nodes[n].outs : nodes[n].outs[x] = v
    BY DEF Elements
  <2>2. PICK y \in DOMAIN nodes[m].outs : nodes[m].outs[y] = v
    BY DEF Elements
  <2>3. n = m
    BY <2>1, <2>2 DEF IsModel
  <2> QED  BY <2>3
<1>4. \A p \in Parts : v \notin MadeBy(s.schedule, p)
  BY <1>2, <1>3 DEF OriginsWell
<1> QED  BY <1>2, <1>4, LateIsPart DEF OriginsWell

\* A node is computed for the first time.
LEMMA FirstForwardTracks ==
    ASSUME IsJob(job), NEW s, Settled(job, s), ForwardIsCurrent(s), job.policy # "none",
           NEW n \in DOMAIN g.nodes, n \notin DOMAIN s.first,
           AllStaged(s, g.nodes[n].ins), GetStaged(s, g.nodes[n].ins) = g.nodes[n].ins,
           Elements(g.nodes[n].outs) \cap DOMAIN s.staged = {}
    PROVE  Settled(job, [ScheduleForward(s, n, g.nodes[n], "forward") EXCEPT
                            !.staged = Over([v \in Elements(g.nodes[n].outs) |-> v], @)])
<1> DEFINE node == g.nodes[n]
           home == "forward"
           e == [v \in Elements(node.outs) |-> v]
           u == ScheduleForward(s, n, node, home)
           t == [u EXCEPT !.staged = Over(e, @)]
           a == s.schedule
           d == t.schedule
           place == Len(a) + 1
           outs == Elements(node.outs)
<1>1. /\ IsModel(job.graph) /\ g = job.graph /\ Sound(job.graph, s) /\ Track(job, home, s)
      /\ s.added = <<>> /\ s.contexts = <<>> /\ job.twoPhase \in BOOLEAN
      /\ (job.twoPhase => ~s.turned)
  BY DEF Settled, IsJob, g, ForwardIsCurrent
<1>2. /\ node \in Nodes /\ node.outs # <<>> /\ node.outs \in Seq(Nat) /\ node.outs[1] \in outs
      /\ outs \subseteq Values(job.graph)
  <2>1. node \in Nodes /\ node.outs # <<>>
    BY <1>1 DEF IsModel
  <2>2. node.outs \in Seq(Nat)
    BY <2>1 DEF Nodes
  <2> DEFINE o == node.outs
  <2>3. o \in Seq(Nat) /\ o # <<>>
    BY <2>1, <2>2
  <2> HIDE DEF o
  <2>4. 1 \in DOMAIN o
    BY <2>3
  <2>5. o[1] \in Elements(o)
    BY <2>4 DEF Elements
  <2> QED  BY <1>1, <2>1, <2>2, <2>5 DEF o, Values, ComputedBy
<1>3. Sound(job.graph, t) /\ DOMAIN t.staged = DOMAIN s.staged \cup outs
  BY <1>1, ComputedIsSound
<1> DEFINE nodes == <<node>>
<1>4. /\ u.schedule = a \o [k \in DOMAIN nodes |-> [node |-> nodes[k], part |-> home]]
      /\ u.first = With(s.first, n, place) /\ u.last = With(s.last, n, place)
      /\ DOMAIN u = BuilderFields \cup OtherFields
      /\ Differs(s, u, {"schedule", "first", "last"})
  <2>1. Builder(job.graph, s) /\ s.schedule \in Seq(Entries)
    BY <1>1 DEF Sound
  <2> DEFINE v == ScheduleForward(s, n, node, home)
  <2> HIDE DEF node, home, place
  <2>2. /\ v.schedule = a \o [k \in DOMAIN nodes |-> [node |-> nodes[k], part |-> home]]
        /\ v.first = (IF n \in DOMAIN s.first THEN s.first ELSE With(s.first, n, Len(a) + 1))
        /\ v.last = With(s.last, n, Len(a) + 1)
        /\ DOMAIN v = BuilderFields \cup OtherFields
        /\ Differs(s, v, {"schedule", "first", "last"})
    BY <2>1, ScheduleForwardFields
  <2>3. v.first = With(s.first, n, Len(a) + 1)
    BY <2>2
  <2> QED  BY <2>2, <2>3 DEF place
<1> HIDE DEF u, e, node, home, nodes
<1>5. /\ d = u.schedule /\ t.first = u.first /\ t.last = u.last /\ t.staged = Over(e, s.staged)
      /\ Differs(s, t, {"schedule", "first", "last", "staged"})
  BY <1>4 DEF BuilderFields, OtherFields, Differs
<1> HIDE DEF t
<1>6. /\ t.grads = s.grads /\ t.retained = s.retained /\ t.fresh = s.fresh
      /\ t.turned = s.turned /\ t.stagedInForward = s.stagedInForward
      /\ t.outGrads = s.outGrads /\ t.forgotten = s.forgotten
      /\ t.added = <<>> /\ t.contexts = <<>>
  BY <1>1, <1>5 DEF Differs, BuilderFields, OtherFields
<1>7. /\ \A v \in outs : t.staged[v] = v
      /\ \A v \in DOMAIN s.staged : t.staged[v] = s.staged[v]
      /\ Elements(t.staged) = Elements(s.staged) \cup outs
  <2>1. DOMAIN e = outs /\ \A v \in outs : e[v] = v
    BY DEF e
  <2> DEFINE f == s.staged
  <2>2. outs \cap DOMAIN f = {}
    BY DEF node
  <2> HIDE DEF outs, f
  <2>3. /\ \A v \in outs : Over(e, f)[v] = v
        /\ \A v \in DOMAIN f : Over(e, f)[v] = f[v]
        /\ DOMAIN Over(e, f) = outs \cup DOMAIN f
    BY <2>1, <2>2 DEF Over
  <2>4. Elements(Over(e, f)) = Elements(f) \cup outs
    BY <2>3 DEF Elements
  <2> QED  BY <1>5, <2>3, <2>4 DEF f
<1>8. /\ d \in Seq(Entries) /\ a \in Seq(Entries) /\ place \notin DOMAIN a
      /\ DOMAIN d = DOMAIN a \cup {place}
      /\ \A i \in DOMAIN a : i \in DOMAIN d /\ d[i] = a[i]
      /\ d[place].node = node /\ d[place].part = home
      /\ \A p : MadeBy(d, p) = MadeBy(a, p) \cup (IF p = home THEN outs ELSE {})
  <2> DEFINE x == d
  <2>1. a \in Seq(Entries) /\ home \in Parts
    BY <1>1 DEF Sound, Parts, home
  <2>2. x = Behind(a, <<node>>, home)
    BY <1>4, <1>5 DEF nodes, Behind
  <2> HIDE DEF a, x
  <2>3. OneLonger(a, node, home, x)
    BY <1>2, <2>1, <2>2, OneLengthens
  <2> QED  BY <2>1, <2>3 DEF x, OneLonger
<1>9. \A v \in outs : v \notin Lost(s) /\ v \notin DOMAIN s.staged
  <2>1. OriginsWell(job, s) /\ DOMAIN s.first \subseteq DOMAIN job.graph.nodes
    BY <1>1 DEF Track, Sound, Placed
  <2>2. \A v \in Elements(job.graph.nodes[n].outs) : v \notin Lost(s)
    BY <1>1, <2>1, NotYetMade
  <2> QED  BY <1>1, <2>2 DEF node, g
<1>10. /\ Lost(t) = Lost(s) /\ StandIns(t) = StandIns(s)
       /\ \A p : LostIn(t, p) = LostIn(s, p) /\ LostIn(s, p) \subseteq Lost(s)
       /\ \A p : GivenTo(job, t, p) = GivenTo(job, s, p)
       /\ \A w : Copied(t, w) = Copied(s, w)
       /\ ComputedBy(s.added) = {} /\ ComputedBy(t.added) = {}
       /\ Elements(s.contexts) = {} /\ Elements(t.contexts) = {}
  BY <1>1, <1>6 DEF Lost, LostIn, StandIns, Copied, GivenTo, ComputedBy, Elements
<1>11. \A p : Available(job, home, s, p) = GivenTo(job, s, p) \cup MadeBy(a, p)
  BY <1>10 DEF Available
<1>12. \A p : Available(job, home, t, p) = GivenTo(job, s, p) \cup MadeBy(d, p)
  BY <1>10 DEF Available
<1> HIDE DEF d, a, place, outs
<1>13. \A p : Available(job, home, s, p) \subseteq Available(job, home, t, p)
  BY <1>8, <1>11, <1>12
<1>14. job.twoPhase => DOMAIN s.retained = {} /\ s.first = s.last
  BY <1>1 DEF Track, Phases
<1>15. \A w \in DOMAIN s.retained : /\ s.retained[w] = w /\ w \notin Values(job.graph)
                                    /\ w \in Available(job, home, s, home)
  <2>1. ~job.twoPhase => Late(job) = home
    BY DEF Late, home
  <2> QED  BY <1>1, <1>14, <2>1 DEF Track, RetainedWell
<1>16. Named(job, t)
  <2>1. Names(job, t) \subseteq Names(job, s)
    <3>1. \A p : MadeBy(d, p) \subseteq MadeBy(a, p) \cup Values(job.graph)
      BY <1>2, <1>8
    <3> QED  BY <1>2, <1>3, <1>6, <1>7, <1>10, <3>1 DEF Names, d, a
  <2> QED  BY <1>1, <1>6, <2>1 DEF Track, Named
<1>17. Fed(job, t)
  <2>1. ASSUME NEW v \in Elements(node.ins)
        PROVE  v \in GivenTo(job, s, home) \cup MadeBy(a, home) /\ v \notin Lost(s)
    <3>1. v \in DOMAIN s.staged /\ s.staged[v] = v
      <4>1. PICK k \in DOMAIN node.ins : node.ins[k] = v
        BY DEF Elements
      <4> QED  BY <4>1 DEF AllStaged, GetStaged, Elements, node
    <3>2. v \notin Lost(s) /\ (v \in DOMAIN s.retained \/ v \in Available(job, home, s, home))
      BY <1>1, <3>1 DEF Track, StagedWell, home
    <3> QED  BY <1>11, <1>15, <3>2
  <2>2. nodes \in Seq(Nodes) /\ DOMAIN nodes = {1} /\ nodes[1] = node
    BY <1>2 DEF nodes
  <2>3. InReadingOrder(nodes, GivenTo(job, t, home) \cup MadeBy(a, home))
    BY <1>10, <2>1, <2>2 DEF InReadingOrder
  <2>4. ReadBy(nodes) \cap LostIn(s, home) = {}
    BY <1>10, <2>1, <2>2 DEF ReadBy
  <2>5. Fed(job, s) /\ home \in Parts
    BY <1>1 DEF Track, Parts, home
  <2>6. t.schedule = s.schedule \o [k \in DOMAIN nodes |-> [node |-> nodes[k], part |-> home]]
    BY <1>4, <1>5 DEF a, d
  <2>7. \A p : GivenTo(job, s, p) \subseteq GivenTo(job, t, p)
    BY <1>10
  <2>8. s.schedule \in Seq(Entries) /\ t.forgotten = s.forgotten
        /\ InReadingOrder(nodes, GivenTo(job, t, home) \cup MadeBy(s.schedule, home))
    BY <1>6, <1>8, <2>3 DEF a
  <2> QED  BY <2>2, <2>4, <2>5, <2>6, <2>7, <2>8, FedMore
<1>18. AddedWell(job, home, t)
  BY <1>6 DEF AddedWell, Numbered
<1>19. Graded(job, home, t)
  <2>1. Elements(s.grads) \subseteq Gradable(job, home, s)
    BY <1>1 DEF Track, Graded
  <2>2. Gradable(job, home, s) \subseteq Gradable(job, home, t)
    BY <1>2, <1>6, <1>7, <1>10, <1>13 DEF Gradable
  <2> QED  BY <1>6, <2>1, <2>2 DEF Graded
<1>20. RetainedWell(job, home, t)
  BY <1>1, <1>6, <1>10, <1>13 DEF Track, RetainedWell
<1>21. StagedWell(job, home, t)
  <2>1. \A v \in outs : v \notin DOMAIN s.retained /\ Copied(s, v) = v
    BY <1>2, <1>15 DEF Copied
  <2>2. ASSUME NEW v \in DOMAIN s.staged
        PROVE  /\ s.staged[v] \notin outs /\ Copied(s, s.staged[v]) \notin outs
               /\ s.staged[v] \in DOMAIN s.retained \/ (s.staged[v] = v /\ v \in Available(job, home, s, "forward"))
               /\ s.staged[v] = v \/ s.staged[v] \notin Values(job.graph)
               /\ s.staged[v] \notin Lost(s) /\ Copied(s, s.staged[v]) \notin Lost(s)
               /\ \A x \in DOMAIN s.staged : x # v =>
                     {s.staged[v], Copied(s, s.staged[v])} \cap {s.staged[x], Copied(s, s.staged[x])} = {}
    <3> DEFINE w == s.staged[v]
    <3>1. /\ w \in DOMAIN s.retained \/ (w = v /\ v \in Available(job, home, s, "forward"))
          /\ w = v \/ w \notin Values(job.graph)
          /\ w \notin Lost(s) /\ Copied(s, w) \notin Lost(s)
          /\ \A x \in DOMAIN s.staged : x # v =>
                     {w, Copied(s, w)} \cap {s.staged[x], Copied(s, s.staged[x])} = {}
      BY <1>1 DEF Track, StagedWell
    <3> HIDE DEF w
    <3>2. w \notin outs
      BY <1>2, <1>9, <3>1
    <3>3. Copied(s, w) = w
      BY <1>15 DEF Copied
    <3> QED  BY <3>1, <3>2, <3>3 DEF w
  <2> SUFFICES ASSUME NEW v \in DOMAIN t.staged
               PROVE  LET w == t.staged[v]
                      IN  /\ w \in DOMAIN t.retained \/ (w = v /\ w \in Available(job, home, t, "forward"))
                          /\ w = v \/ w \notin Values(job.graph)
                          /\ w \notin Lost(t) /\ Copied(t, w) \notin Lost(t)
                          /\ \A x \in DOMAIN t.staged : x # v =>
                                {w, Copied(t, w)} \cap {t.staged[x], Copied(t, t.staged[x])} = {}
    BY <1>1, <1>6 DEF StagedWell
  <2>3. CASE v \in outs
    <3>1. v \in Available(job, home, t, "forward")
      BY <1>8, <1>12, <2>3 DEF home
    <3>2. \A x \in DOMAIN t.staged : x # v =>
              {v, Copied(t, v)} \cap {t.staged[x], Copied(t, t.staged[x])} = {}
      <4> SUFFICES ASSUME NEW x \in DOMAIN t.staged, x # v
                   PROVE  {v} \cap {t.staged[x], Copied(s, t.staged[x])} = {}
        BY <1>10, <2>1, <2>3
      <4>1. CASE x \in outs
        BY <1>7, <2>1, <4>1
      <4>2. CASE x \in DOMAIN s.staged
        BY <1>7, <2>2, <2>3, <4>2
      <4> QED  BY <1>3, <4>1, <4>2 DEF outs
    <3> QED  BY <1>7, <1>9, <1>10, <2>1, <2>3, <3>1, <3>2
  <2>4. CASE v \in DOMAIN s.staged
    <3> DEFINE w == s.staged[v]
    <3>1. t.staged[v] = w
      BY <1>7, <2>4
    <3>2. \A x \in DOMAIN t.staged : x # v =>
              {w, Copied(s, w)} \cap {t.staged[x], Copied(s, t.staged[x])} = {}
      <4> SUFFICES ASSUME NEW x \in DOMAIN t.staged, x # v
                   PROVE  {w, Copied(s, w)} \cap {t.staged[x], Copied(s, t.staged[x])} = {}
        OBVIOUS
      <4>1. CASE x \in outs
        BY <1>7, <2>1, <2>2, <2>4, <4>1
      <4>2. CASE x \in DOMAIN s.staged
        BY <1>7, <2>2, <2>4, <4>2
      <4> QED  BY <1>3, <4>1, <4>2 DEF outs
    <3>3. /\ w \in DOMAIN s.retained \/ (w = v /\ w \in Available(job, home, t, "forward"))
          /\ w = v \/ w \notin Values(job.graph)
          /\ w \notin Lost(s) /\ Copied(s, w) \notin Lost(s)
      BY <1>13, <2>2, <2>4
    <3> HIDE DEF w
    <3> QED  BY <1>6, <1>10, <3>1, <3>2, <3>3
  <2> QED  BY <1>3, <2>3, <2>4 DEF outs
<1>22. /\ DOMAIN t.first = DOMAIN s.first \cup {n} /\ t.first[n] = place /\ t.last[n] = place
       /\ \A m \in DOMAIN s.first : t.first[m] = s.first[m] /\ t.last[m] = s.last[m]
                                    /\ s.first[m] \in DOMAIN a /\ s.last[m] \in DOMAIN a
  <2>1. DOMAIN s.last = DOMAIN s.first /\ \A m \in DOMAIN s.first : s.first[m] \in DOMAIN a /\ s.last[m] \in DOMAIN a
    BY <1>1 DEF Sound, Placed, a
  <2> DEFINE f == s.first
             l == s.last
  <2>2. n \notin DOMAIN f /\ DOMAIN l = DOMAIN f
    BY <2>1
  <2> HIDE DEF f, l
  <2>3. /\ DOMAIN With(f, n, place) = DOMAIN f \cup {n} /\ With(f, n, place)[n] = place
        /\ With(l, n, place)[n] = place
        /\ \A m \in DOMAIN f : With(f, n, place)[m] = f[m] /\ With(l, n, place)[m] = l[m]
    BY <2>2 DEF With, Over
  <2> QED  BY <1>4, <1>5, <2>1, <2>3 DEF f, l
<1>23. OriginsWell(job, t)
  <2>1. OriginsWell(job, s)
    BY <1>1 DEF Track
  <2>2. \A m \in DOMAIN s.first : m \in DOMAIN t.first
    BY <1>22
  <2>3. outs = Elements(job.graph.nodes[n].outs) /\ n \in DOMAIN t.first
    BY <1>1, <1>22 DEF outs, node
  <2>4. \A p \in Parts : MadeBy(a, p) \cap Values(job.graph) \subseteq
           UNION {Elements(job.graph.nodes[m].outs) : m \in DOMAIN t.first}
    BY <2>1, <2>2 DEF OriginsWell, a
  <2>5. outs \subseteq UNION {Elements(job.graph.nodes[m].outs) : m \in DOMAIN t.first}
    BY <2>3
  <2>6. \A p \in Parts : MadeBy(t.schedule, p) \cap Values(job.graph) \subseteq
           UNION {Elements(job.graph.nodes[m].outs) : m \in DOMAIN t.first}
    BY <1>8, <2>4, <2>5 DEF d
  <2>7. MadeBy(s.schedule, "forward") \subseteq MadeBy(t.schedule, "forward")
    BY <1>8 DEF d, a
  <2> QED  BY <1>10, <2>1, <2>6, <2>7 DEF OriginsWell
<1>24. PlacesWell(job, t)
  <2> SUFFICES ASSUME NEW m \in DOMAIN t.first
               PROVE  LET x == d[t.first[m]].node
                      IN  /\ d[t.first[m]].part = "forward"
                          /\ x.outs # <<>> /\ x.outs[1] \in Values(job.graph)
                          /\ t.last[m] # t.first[m] =>
                               /\ d[t.last[m]].part = Late(job)
                               /\ ~job.twoPhase
    BY DEF PlacesWell, d
  <2>1. CASE m = n
    BY <1>2, <1>8, <1>22, <2>1 DEF home
  <2>2. CASE m \in DOMAIN s.first
    <3>1. LET x == a[s.first[m]].node
          IN  /\ a[s.first[m]].part = "forward"
              /\ x.outs # <<>> /\ x.outs[1] \in Values(job.graph)
              /\ s.last[m] # s.first[m] => a[s.last[m]].part = Late(job)
      BY <1>1, <2>2 DEF Track, PlacesWell, a
    <3>2. t.first[m] = s.first[m] /\ t.last[m] = s.last[m]
          /\ d[s.first[m]] = a[s.first[m]] /\ d[s.last[m]] = a[s.last[m]]
      BY <1>8, <1>22, <2>2
    <3>3. job.twoPhase => s.first[m] = s.last[m]
      BY <1>14
    <3> QED  BY <3>1, <3>2, <3>3
  <2> QED  BY <1>22, <2>1, <2>2
<1>25. Phases(job, t)
  BY <1>1, <1>4, <1>5, <1>6, <1>14 DEF Track, Phases
<1>26. Track(job, home, t)
  BY <1>10, <1>16, <1>17, <1>18, <1>19, <1>20, <1>21, <1>23, <1>24, <1>25 DEF Track
<1> QED  BY <1>3, <1>6, <1>26 DEF Settled, home, t, u, node, e


\* The values of vs that get others to stand for them, and those.
NewlyMoved(s, vs) == (Elements(vs) \cap s.stagedInForward) \ DOMAIN s.retained
CopyOf(s, vs, v) == s.fresh + Place(vs, v)
Copies(s, vs) == {CopyOf(s, vs, v) : v \in NewlyMoved(s, vs)}

Moved(s, vs, t) ==
    /\ DOMAIN t.retained = DOMAIN s.retained \cup NewlyMoved(s, vs) \cup Copies(s, vs)
    /\ \A v \in NewlyMoved(s, vs) : t.retained[v] = CopyOf(s, vs, v)
    /\ \A c \in Copies(s, vs) \ NewlyMoved(s, vs) : t.retained[c] = c
    /\ \A w \in DOMAIN s.retained \ (NewlyMoved(s, vs) \cup Copies(s, vs)) : t.retained[w] = s.retained[w]
    /\ \A v \in NewlyMoved(s, vs) : CopyOf(s, vs, v) \in s.fresh..(t.fresh - 1)
    /\ \A v, w \in NewlyMoved(s, vs) : CopyOf(s, vs, v) = CopyOf(s, vs, w) => v = w
    /\ Elements(t.grads) \subseteq Elements(s.grads)
    /\ t.fresh = s.fresh + Len(vs) + 1
    /\ t.stagedInForward = s.stagedInForward \ Elements(vs)
    /\ Differs(s, t, {"retained", "grads", "fresh", "stagedInForward"})

LEMMA MovingMoves ==
    ASSUME NEW h, NEW s, Sound(h, s), NEW vs \in Seq(Nat)
    PROVE  Moved(s, vs, MoveToBackward(s, vs))
<1> DEFINE t == MoveToBackward(s, vs)
           moved  == Elements(vs) \cap s.stagedInForward
           news   == moved \ DOMAIN s.retained
           Copy(v) == s.fresh + Place(vs, v)
           Origin(c) == CHOOSE v \in news : Copy(v) = c
           graded == {v \in news \cap Elements(g.outputs) : HasGrad(s, v)}
           r1 == [v \in news |-> Copy(v)]
           r2 == [c \in {Copy(v) : v \in news} |-> c]
           g1 == [c \in {Copy(v) : v \in graded} |-> Grad(s, Origin(c))]
<1>1. /\ t.retained = Over(r1, Over(r2, s.retained)) /\ t.stagedInForward = s.stagedInForward \ moved
      /\ t.grads = Over(g1, s.grads) /\ t.fresh = s.fresh + Len(vs) + 1
      /\ Differs(s, t, {"retained", "grads", "fresh", "stagedInForward"})
  <2>1. t = [s EXCEPT !.stagedInForward = @ \ moved, !.retained = Over(r1, Over(r2, @)),
                      !.grads = Over(g1, @), !.fresh = @ + Len(vs) + 1]
    BY DEF MoveToBackward
  <2>2. DOMAIN s = BuilderFields \cup OtherFields
    BY DEF Sound, Builder
  <2> HIDE DEF t, moved, r1, r2, g1
  <2> QED  BY <2>1, <2>2 DEF Differs, BuilderFields, OtherFields
<1> HIDE DEF t
<1>2. s.fresh \in Nat /\ Len(vs) \in Nat
  BY DEF Sound, Builder
<1>3. \A v \in news : Place(vs, v) \in 1..Len(vs) /\ vs[Place(vs, v)] = v
  BY PlaceOfElement
<1>4. \A v \in news : Copy(v) \in s.fresh..(t.fresh - 1)
  BY <1>1, <1>2, <1>3
<1>5. \A v, w \in news : Copy(v) = Copy(w) => v = w
  <2> SUFFICES ASSUME NEW v \in news, NEW w \in news, Copy(v) = Copy(w) PROVE v = w
    OBVIOUS
  <2>1. Place(vs, v) = Place(vs, w)
    BY <1>2, <1>3
  <2> QED  BY <1>3, <2>1
<1>6. graded \subseteq news /\ \A v \in graded : v \in DOMAIN s.grads
  BY DEF HasGrad
<1>7. NewlyMoved(s, vs) = news /\ Copies(s, vs) = {Copy(v) : v \in news}
      /\ \A v : CopyOf(s, vs, v) = Copy(v)
  BY DEF NewlyMoved, Copies, CopyOf
<1>8. s.stagedInForward \ moved = s.stagedInForward \ Elements(vs)
  OBVIOUS
<1> HIDE DEF news, graded, Copy
<1>9. Elements(t.grads) \subseteq Elements(s.grads)
  <2>1. ASSUME NEW c \in {Copy(v) : v \in graded} PROVE g1[c] \in Elements(s.grads)
    <3>1. \E v \in graded : Copy(v) = c
      OBVIOUS
    <3>2. Origin(c) \in news /\ Copy(Origin(c)) = c
      BY <1>6, <3>1
    <3>3. Origin(c) \in graded
      BY <1>5, <1>6, <3>1, <3>2
    <3> HIDE DEF Origin
    <3> QED  BY <1>6, <3>3 DEF Grad, Elements
  <2>2. DOMAIN g1 = {Copy(v) : v \in graded}
    OBVIOUS
  <2> DEFINE f == s.grads
  <2> HIDE DEF g1, f
  <2>3. \A x \in DOMAIN Over(g1, f) : Over(g1, f)[x] \in Elements(f)
    BY <2>1, <2>2 DEF Over, Elements, f
  <2>4. Elements(Over(g1, f)) \subseteq Elements(f)
    BY <2>3 DEF Elements
  <2> QED  BY <1>1, <2>4 DEF f
<1>10. /\ DOMAIN t.retained = DOMAIN s.retained \cup news \cup {Copy(v) : v \in news}
       /\ \A v \in news : t.retained[v] = Copy(v)
       /\ \A c \in {Copy(v) : v \in news} \ news : t.retained[c] = c
       /\ \A w \in DOMAIN s.retained \ (news \cup {Copy(v) : v \in news}) : t.retained[w] = s.retained[w]
  <2> DEFINE f == s.retained
             C == {Copy(v) : v \in news}
  <2>1. DOMAIN r1 = news /\ (\A v \in news : r1[v] = Copy(v)) /\ DOMAIN r2 = C /\ \A c \in C : r2[c] = c
    OBVIOUS
  <2> HIDE DEF r1, r2, f, C
  <2>2. DOMAIN Over(r2, f) = C \cup DOMAIN f
        /\ \A c \in C \cup DOMAIN f : Over(r2, f)[c] = IF c \in C THEN c ELSE f[c]
    BY <2>1 DEF Over
  <2> DEFINE q == Over(r2, f)
  <2> HIDE DEF q
  <2>3. DOMAIN q = C \cup DOMAIN f
        /\ \A c \in C \cup DOMAIN f : q[c] = IF c \in C THEN c ELSE f[c]
    BY <2>2 DEF q
  <2>4. DOMAIN Over(r1, q) = news \cup DOMAIN q
        /\ \A v \in news \cup DOMAIN q : Over(r1, q)[v] = IF v \in news THEN Copy(v) ELSE q[v]
    BY <2>1 DEF Over
  <2>5. t.retained = Over(r1, q)
    BY <1>1 DEF q, f
  <2>6. /\ DOMAIN t.retained = DOMAIN f \cup news \cup C
        /\ \A v \in news : t.retained[v] = Copy(v)
        /\ \A c \in C \ news : t.retained[c] = c
        /\ \A w \in DOMAIN f \ (news \cup C) : t.retained[w] = f[w]
    BY <2>3, <2>4, <2>5
  <2> QED  BY <2>6 DEF f, C
<1>11. Moved(s, vs, t)
  <2> DEFINE C == {Copy(v) : v \in news}
             N == NewlyMoved(s, vs)
  <2>1. N = news /\ Copies(s, vs) = C /\ \A v : CopyOf(s, vs, v) = Copy(v)
    BY <1>7
  <2>2. /\ DOMAIN t.retained = DOMAIN s.retained \cup N \cup C
        /\ \A v \in N : t.retained[v] = CopyOf(s, vs, v)
        /\ \A c \in C \ N : t.retained[c] = c
        /\ \A w \in DOMAIN s.retained \ (N \cup C) : t.retained[w] = s.retained[w]
    BY <1>10, <2>1
  <2> HIDE DEF C, N
  <2>3. /\ DOMAIN t.retained = DOMAIN s.retained \cup NewlyMoved(s, vs) \cup Copies(s, vs)
        /\ \A v \in NewlyMoved(s, vs) : t.retained[v] = CopyOf(s, vs, v)
        /\ \A c \in Copies(s, vs) \ NewlyMoved(s, vs) : t.retained[c] = c
        /\ \A w \in DOMAIN s.retained \ (NewlyMoved(s, vs) \cup Copies(s, vs)) : t.retained[w] = s.retained[w]
    BY <2>1, <2>2 DEF N
  <2>4. /\ \A v \in NewlyMoved(s, vs) : CopyOf(s, vs, v) \in s.fresh..(t.fresh - 1)
        /\ \A v, w \in NewlyMoved(s, vs) : CopyOf(s, vs, v) = CopyOf(s, vs, w) => v = w
    BY <1>4, <1>5, <1>7
  <2>5. t.stagedInForward = s.stagedInForward \ Elements(vs)
    BY <1>1, <1>8
  <2> QED  BY <1>1, <1>9, <2>3, <2>4, <2>5 DEF Moved
<1> QED  BY <1>11 DEF t

\* What is computed again can read what stands for the forward values.
LEMMA MovedTracks ==
    ASSUME IsJob(job), NEW s, Settled(job, s), BackwardIsCurrent(s), job.policy # "none",
           NEW vs \in Seq(Nat), Elements(vs) \subseteq Elements(s.staged),
           NEW t, Sound(job.graph, t), Moved(s, vs, t)
    PROVE  /\ Settled(job, t) /\ t.turned = s.turned /\ t.schedule = s.schedule
           /\ job.twoPhase => Elements(vs) \subseteq DOMAIN t.retained
<1> DEFINE news == NewlyMoved(s, vs)
           C == Copies(s, vs)
           home == "forward"
<1>1. /\ t.schedule = s.schedule /\ t.first = s.first /\ t.last = s.last /\ t.staged = s.staged
      /\ t.forgotten = s.forgotten /\ t.turned = s.turned /\ t.outGrads = s.outGrads
      /\ t.added = <<>> /\ t.contexts = <<>>
      /\ s.added = <<>> /\ s.contexts = <<>> /\ Track(job, home, s)
      /\ job.twoPhase \in BOOLEAN /\ (job.twoPhase => s.turned)
  <2>1. Differs(s, t, {"retained", "grads", "fresh", "stagedInForward"})
    BY DEF Moved
  <2>2. /\ t.schedule = s.schedule /\ t.first = s.first /\ t.last = s.last /\ t.staged = s.staged
        /\ t.forgotten = s.forgotten /\ t.turned = s.turned /\ t.outGrads = s.outGrads
        /\ t.added = s.added /\ t.contexts = s.contexts
    BY <2>1 DEF Differs, BuilderFields, OtherFields
  <2> QED  BY <2>2 DEF Settled, BackwardIsCurrent, IsJob
<1>2. /\ s.fresh \in Nat /\ s.fresh > 0 /\ Names(job, s) \subseteq 1..(s.fresh - 1)
      /\ t.fresh \in Nat /\ s.fresh <= t.fresh
  <2>1. Len(vs) \in Nat
    OBVIOUS
  <2> QED  BY <1>1, <2>1 DEF Moved, Settled, Sound, Builder, Track, Named
<1>3. /\ DOMAIN t.retained = DOMAIN s.retained \cup news \cup C
      /\ C \subseteq s.fresh..(t.fresh - 1)
      /\ \A v \in news : t.retained[v] = CopyOf(s, vs, v) /\ t.retained[v] \in C
      /\ \A v, w \in news : t.retained[v] = t.retained[w] => v = w
      /\ Elements(t.grads) \subseteq Elements(s.grads)
      /\ t.stagedInForward = s.stagedInForward \ Elements(vs)
      /\ \A c \in C : \E v \in news : t.retained[v] = c
  BY DEF Moved, Copies
<1>4. news \subseteq Elements(s.staged) /\ news \cap DOMAIN s.retained = {} /\ C \cap Names(job, s) = {}
  BY <1>2, <1>3 DEF NewlyMoved
<1>5. news \subseteq Names(job, s) /\ news \cap C = {} /\ C \cap DOMAIN s.retained = {}
      /\ C \cap Values(job.graph) = {} /\ C \cap Lost(s) = {}
  BY <1>4 DEF Names
<1>6. /\ \A c \in C : t.retained[c] = c
      /\ \A w \in DOMAIN s.retained : t.retained[w] = s.retained[w]
  BY <1>4, <1>5 DEF Moved
<1>7. news # {} => job.twoPhase /\ s.turned
  BY <1>1 DEF Track, Phases, NewlyMoved
<1> HIDE DEF news, C, home
<1>8. Elements(t.retained) \subseteq Elements(s.retained) \cup C
  BY <1>3, <1>6 DEF Elements
<1>9. /\ Lost(t) = Lost(s)
      /\ \A p : LostIn(t, p) = LostIn(s, p) /\ LostIn(s, p) \subseteq Lost(s)
      /\ ComputedBy(s.added) = {} /\ ComputedBy(t.added) = {}
      /\ Elements(s.contexts) = {} /\ Elements(t.contexts) = {}
  BY <1>1 DEF Lost, LostIn, ComputedBy, Elements
<1>10. StandIns(s) \subseteq StandIns(t) /\ C \subseteq StandIns(t)
  <2>1. StandIns(s) \subseteq StandIns(t)
    BY <1>3, <1>6 DEF StandIns
  <2>2. ASSUME NEW c \in C PROVE c \in StandIns(t)
    <3>1. PICK v \in news : t.retained[v] = c
      BY <1>3
    <3>2. v # c /\ v \in DOMAIN t.retained
      BY <1>3, <1>5
    <3> QED  BY <3>1, <3>2 DEF StandIns
  <2> QED  BY <2>1, <2>2
<1>11. \A p : GivenTo(job, s, p) \subseteq GivenTo(job, t, p)
  BY <1>1, <1>10 DEF GivenTo
<1>12. \A p : Available(job, home, s, p) \subseteq Available(job, home, t, p)
  BY <1>1, <1>9, <1>11 DEF Available
<1>13. /\ \A w \in news : Copied(t, w) \in C /\ Copied(t, w) = t.retained[w] /\ Copied(s, w) = w
       /\ \A w : w \notin news \cup C => Copied(t, w) = Copied(s, w)
  BY <1>3, <1>4, <1>6 DEF Copied
<1>14. Named(job, t)
  <2>1. Names(job, t) \subseteq Names(job, s) \cup C
    <3>1. DOMAIN t.retained \subseteq Names(job, s) \cup C
      BY <1>3, <1>5 DEF Names
    <3>2. Elements(t.retained) \subseteq Names(job, s) \cup C /\ Elements(t.grads) \subseteq Names(job, s)
      BY <1>3, <1>8 DEF Names
    <3>3. Values(job.graph) \cup DOMAIN t.staged \cup Elements(t.staged) \cup Elements(t.outGrads)
          \cup MadeBy(t.schedule, "forward") \cup MadeBy(t.schedule, "backward")
          \cup ComputedBy(t.added) \cup Elements(t.contexts) \cup Lost(t) \subseteq Names(job, s)
      BY <1>1, <1>9 DEF Names
    <3> DEFINE K == Names(job, s)
    <3> HIDE DEF K
    <3>4. /\ DOMAIN t.retained \subseteq K \cup C
          /\ Elements(t.retained) \subseteq K \cup C /\ Elements(t.grads) \subseteq K
          /\ Values(job.graph) \cup DOMAIN t.staged \cup Elements(t.staged) \cup Elements(t.outGrads)
             \cup MadeBy(t.schedule, "forward") \cup MadeBy(t.schedule, "backward")
             \cup ComputedBy(t.added) \cup Elements(t.contexts) \cup Lost(t) \subseteq K
      BY <3>1, <3>2, <3>3 DEF K
    <3>5. Names(job, t) \subseteq K \cup C
      BY <3>4 DEF Names
    <3> QED  BY <3>5 DEF K
  <2>2. C \subseteq 1..(t.fresh - 1) /\ 1..(s.fresh - 1) \subseteq 1..(t.fresh - 1) /\ t.fresh > 0
    BY <1>2, <1>3
  <2>3. Names(job, t) \subseteq 1..(t.fresh - 1)
    BY <1>2, <2>1, <2>2
  <2> QED  BY <2>2, <2>3 DEF Named
<1>15. Fed(job, t)
  BY <1>1, <1>11 DEF Track, Fed
<1>16. AddedWell(job, home, t)
  BY <1>1 DEF AddedWell, Numbered
<1>17. Graded(job, home, t)
  <2>1. Elements(s.grads) \subseteq Gradable(job, home, s) /\ Gradable(job, home, s) \subseteq Names(job, s)
    BY <1>1, AvailableHasName, LateIsPart DEF Track, Graded, Gradable
  <2>2. Elements(s.grads) \subseteq Gradable(job, home, t)
    BY <1>1, <1>4, <1>8, <1>9, <1>12, <2>1 DEF Gradable
  <2> QED  BY <1>3, <2>2 DEF Graded
<1>18. ASSUME NEW v \in DOMAIN s.staged
       PROVE  LET w == s.staged[v]
              IN  /\ w \in DOMAIN s.retained \/ (w = v /\ w \in Available(job, home, s, "forward"))
                  /\ w = v \/ w \notin Values(job.graph)
                  /\ w \notin Lost(s) /\ Copied(s, w) \notin Lost(s)
                  /\ (job.twoPhase => w \in s.stagedInForward \cup DOMAIN s.retained)
                  /\ w \in Names(job, s)
                  /\ \A u \in DOMAIN s.staged : u # v =>
                        {w, Copied(s, w)} \cap {s.staged[u], Copied(s, s.staged[u])} = {}
  <2>1. s.staged[v] \in Names(job, s)
    BY DEF Names, Elements
  <2> QED  BY <1>1, <2>1 DEF Track, StagedWell
<1>19. RetainedWell(job, home, t)
  <2> SUFFICES ASSUME NEW w \in DOMAIN t.retained
               PROVE  /\ t.retained[w] \notin Values(job.graph)
                      /\ t.retained[w] = w => w \in Available(job, home, t, Late(job))
                      /\ t.retained[w] # w =>
                            job.twoPhase /\ w \in Available(job, home, t, "forward") \ LostIn(t, "forward")
    BY DEF RetainedWell
  <2>1. CASE w \in DOMAIN s.retained
    BY <1>1, <1>6, <1>9, <1>12, <2>1 DEF Track, RetainedWell
  <2>2. CASE w \in C
    <3>1. job.twoPhase
      BY <1>3, <1>7, <2>2
    <3>2. w \in Available(job, home, t, Late(job))
      BY <1>10, <2>2, <3>1 DEF Available, GivenTo, Late
    <3> QED  BY <1>5, <1>6, <2>2, <3>2
  <2>3. CASE w \in news
    <3>1. t.retained[w] \in C /\ t.retained[w] # w /\ t.retained[w] \notin Values(job.graph)
      BY <1>3, <1>5, <2>3
    <3>2. PICK v \in DOMAIN s.staged : s.staged[v] = w
      BY <1>4, <2>3 DEF Elements
    <3>3. w \in Available(job, home, s, "forward") /\ w \notin Lost(s)
      BY <1>4, <1>18, <2>3, <3>2
    <3> QED  BY <1>7, <1>9, <1>12, <2>3, <3>1, <3>3
  <2> QED  BY <1>3, <2>1, <2>2, <2>3
<1>20. \A x \in Elements(vs) : job.twoPhase => x \in DOMAIN t.retained
  <2> SUFFICES ASSUME NEW x \in Elements(vs), job.twoPhase PROVE x \in DOMAIN t.retained
    OBVIOUS
  <2>1. PICK v \in DOMAIN s.staged : s.staged[v] = x
    BY DEF Elements
  <2>2. x \in s.stagedInForward \cup DOMAIN s.retained
    BY <1>18, <2>1
  <2> QED  BY <1>3, <2>2 DEF news, NewlyMoved
<1>21. StagedWell(job, home, t)
  <2> SUFFICES ASSUME NEW v \in DOMAIN s.staged
               PROVE  LET w == s.staged[v]
                      IN  /\ w \in DOMAIN t.retained \/ (w = v /\ w \in Available(job, home, t, "forward"))
                          /\ w = v \/ w \notin Values(job.graph)
                          /\ w \notin Lost(t) /\ Copied(t, w) \notin Lost(t)
                          /\ (job.twoPhase => w \in t.stagedInForward \cup DOMAIN t.retained)
                          /\ \A u \in DOMAIN s.staged : u # v =>
                                {w, Copied(t, w)} \cap {s.staged[u], Copied(t, s.staged[u])} = {}
    BY <1>1 DEF StagedWell
  <2> DEFINE w == s.staged[v]
  <2>1. \A u \in DOMAIN s.staged : s.staged[u] \in Names(job, s) /\ s.staged[u] \notin C
        /\ (s.staged[u] \in news \/ Copied(t, s.staged[u]) = Copied(s, s.staged[u]))
        /\ Copied(s, s.staged[u]) \notin C
    <3> SUFFICES ASSUME NEW u \in DOMAIN s.staged
                 PROVE  s.staged[u] \in Names(job, s) /\ Copied(s, s.staged[u]) \in Names(job, s)
      BY <1>4, <1>13
    <3>1. s.staged[u] \in Names(job, s)
      BY <1>18
    <3>2. s.staged[u] \in DOMAIN s.retained => s.retained[s.staged[u]] \in Names(job, s)
      BY DEF Names, Elements
    <3> QED  BY <3>1, <3>2 DEF Copied
  <2>2. /\ w \in DOMAIN s.retained \/ (w = v /\ w \in Available(job, home, s, "forward"))
        /\ w = v \/ w \notin Values(job.graph)
        /\ w \notin Lost(s) /\ Copied(s, w) \notin Lost(s)
        /\ (job.twoPhase => w \in s.stagedInForward \cup DOMAIN s.retained)
        /\ \A u \in DOMAIN s.staged : u # v =>
              {w, Copied(s, w)} \cap {s.staged[u], Copied(s, s.staged[u])} = {}
    BY <1>18
  <2>3. Copied(t, w) \notin Lost(t)
    BY <1>5, <1>9, <1>13, <2>1, <2>2
  <2>4. job.twoPhase => w \in t.stagedInForward \cup DOMAIN t.retained
    <3>1. CASE w \in Elements(vs)
      BY <1>20, <3>1
    <3>2. CASE w \notin Elements(vs)
      BY <1>3, <2>2, <3>2
    <3> QED  BY <3>1, <3>2
  <2>5. ASSUME NEW u \in DOMAIN s.staged, u # v
        PROVE  {w, Copied(t, w)} \cap {s.staged[u], Copied(t, s.staged[u])} = {}
    <3> DEFINE x == s.staged[u]
    <3>1. w # x /\ w # Copied(s, x) /\ Copied(s, w) # x /\ Copied(s, w) # Copied(s, x)
      BY <2>2, <2>5
    <3>2. /\ w \notin C /\ Copied(s, w) \notin C /\ x \notin C /\ Copied(s, x) \notin C
          /\ w \in news \/ Copied(t, w) = Copied(s, w)
          /\ x \in news \/ Copied(t, x) = Copied(s, x)
      BY <2>1
    <3> HIDE DEF w, x
    <3>3. w # Copied(t, x) /\ Copied(t, w) # x
      BY <1>13, <3>1, <3>2
    <3>4. Copied(t, w) # Copied(t, x)
      <4>1. CASE w \in news /\ x \in news
        BY <1>3, <1>13, <3>1, <4>1
      <4>2. CASE w \notin news \/ x \notin news
        BY <1>13, <3>1, <3>2, <4>2
      <4> QED  BY <4>1, <4>2
    <3> QED  BY <3>1, <3>3, <3>4 DEF x
  <2>6. w \in DOMAIN t.retained \/ (w = v /\ w \in Available(job, home, t, "forward"))
    BY <1>3, <1>12, <2>2
  <2> HIDE DEF w
  <2>7. w \notin Lost(t)
    BY <1>9, <2>2
  <2> QED  BY <2>2, <2>3, <2>4, <2>5, <2>6, <2>7 DEF w
<1>22. OriginsWell(job, t) /\ PlacesWell(job, t)
  <2>1. OriginsWell(job, t)
    BY <1>1, <1>9 DEF Track, OriginsWell
  <2>2. PlacesWell(job, t)
    <3>1. \A w \in DOMAIN s.retained : w \in DOMAIN t.retained
      BY <1>3
    <3>2. PlacesWell(job, s)
      BY <1>1 DEF Track
    <3> QED  BY <1>1, <3>1, <3>2, PlacesKept
  <2> QED  BY <2>1, <2>2
<1>23. Phases(job, t)
  BY <1>1, <1>3 DEF Track, Phases
<1>24. Track(job, home, t)
  BY <1>9, <1>14, <1>15, <1>16, <1>17, <1>19, <1>21, <1>22, <1>23 DEF Track
<1> QED  BY <1>1, <1>20, <1>24 DEF Settled, home


\* t is s with node n computed again, from what stands for the staged values.
Again(s, n, node, t) ==
    LET news == [k \in DOMAIN node.outs |-> s.fresh + k - 1]
        copy == Node(node.op, GetRetainedStaged(s, node.ins), news)
    IN  /\ copy \in Nodes
        /\ t.schedule = Behind(s.schedule, <<copy>>, Late(job))
        /\ t.first = s.first /\ t.last = With(s.last, n, Len(s.schedule) + 1)
        /\ t.retained = Over([v \in Elements(news) |-> v], s.retained)
        /\ t.staged = Over([v \in Elements(node.outs) |-> news[Place(node.outs, v)]], s.staged)
        /\ t.fresh = s.fresh + Len(news)
        /\ Differs(s, t, {"schedule", "first", "last", "retained", "recomputed", "staged", "fresh"})

\* What was computed again has names of its own.
Renewed(s, node, t, N) ==
    /\ N \subseteq s.fresh..(t.fresh - 1) /\ t.fresh \in Nat /\ s.fresh <= t.fresh
    /\ DOMAIN t.retained = DOMAIN s.retained \cup N
    /\ \A w \in N : t.retained[w] = w
    /\ \A w \in DOMAIN s.retained \ N : t.retained[w] = s.retained[w]
    /\ DOMAIN t.staged = DOMAIN s.staged \cup Elements(node.outs)
    /\ \A v \in Elements(node.outs) : t.staged[v] \in N
    /\ \A v, w \in Elements(node.outs) : t.staged[v] = t.staged[w] => v = w
    /\ \A v \in DOMAIN s.staged \ Elements(node.outs) : t.staged[v] = s.staged[v]

LEMMA AgainRenews ==
    ASSUME NEW s, s.fresh \in Nat, NEW n, NEW node \in Nodes, NEW t, Again(s, n, node, t)
    PROVE  Renewed(s, node, t, Elements([k \in DOMAIN node.outs |-> s.fresh + k - 1]))
<1> DEFINE outs == node.outs
           news == [k \in DOMAIN outs |-> s.fresh + k - 1]
           N    == Elements(news)
           r1   == [v \in N |-> v]
           s1   == [v \in Elements(outs) |-> news[Place(outs, v)]]
           f    == s.retained
           e    == s.staged
<1>1. t.retained = Over(r1, f) /\ t.staged = Over(s1, e) /\ t.fresh = s.fresh + Len(news)
  BY DEF Again
<1>2. outs \in Seq(Nat) /\ DOMAIN outs = 1..Len(outs) /\ Len(outs) \in Nat
  BY DEF Nodes
<1> HIDE DEF outs
<1>3. /\ DOMAIN news = 1..Len(outs) /\ Len(news) = Len(outs)
      /\ \A k \in 1..Len(outs) : news[k] = s.fresh + k - 1
  <2>1. news \in Seq(Nat) /\ Len(news) = Len(outs)
    <3>1. \A k \in 1..Len(outs) : s.fresh + k - 1 \in Nat
      BY <1>2
    <3> QED  BY <1>2, <3>1
  <2> QED  BY <1>2, <2>1
<1>4. \A v \in Elements(outs) : Place(outs, v) \in 1..Len(outs) /\ outs[Place(outs, v)] = v
  BY <1>2, PlaceOfElement
<1> HIDE DEF news
<1>5. t.fresh = s.fresh + Len(outs) /\ N = {news[k] : k \in 1..Len(outs)}
  BY <1>1, <1>3 DEF Elements
<1>6. N \subseteq s.fresh..(t.fresh - 1) /\ t.fresh \in Nat /\ s.fresh <= t.fresh
  BY <1>2, <1>3, <1>5
<1>7. /\ DOMAIN t.retained = DOMAIN f \cup N /\ (\A w \in N : t.retained[w] = w)
      /\ \A w \in DOMAIN f \ N : t.retained[w] = f[w]
  <2>1. DOMAIN r1 = N /\ \A w \in N : r1[w] = w
    OBVIOUS
  <2> HIDE DEF r1, N, f
  <2> QED  BY <1>1, <2>1 DEF Over
<1>8. /\ DOMAIN t.staged = DOMAIN e \cup Elements(outs)
      /\ \A v \in Elements(outs) : t.staged[v] = news[Place(outs, v)]
      /\ \A v \in DOMAIN e \ Elements(outs) : t.staged[v] = e[v]
  <2>1. DOMAIN s1 = Elements(outs) /\ \A v \in Elements(outs) : s1[v] = news[Place(outs, v)]
    OBVIOUS
  <2> HIDE DEF s1, e
  <2> QED  BY <1>1, <2>1 DEF Over
<1>9. \A v \in Elements(outs) : t.staged[v] \in N
  BY <1>4, <1>5, <1>8
<1>10. \A v, w \in Elements(outs) : t.staged[v] = t.staged[w] => v = w
  <2> SUFFICES ASSUME NEW v \in Elements(outs), NEW w \in Elements(outs), t.staged[v] = t.staged[w]
               PROVE  v = w
    OBVIOUS
  <2>1. Place(outs, v) = Place(outs, w)
    BY <1>3, <1>4, <1>8
  <2> QED  BY <1>4, <2>1
<1>11. Renewed(s, node, t, N)
  BY <1>6, <1>7, <1>8, <1>9, <1>10 DEF Renewed, outs
<1> QED  BY <1>11 DEF news, outs

\* A node is computed again.
LEMMA AgainTracks ==
    ASSUME IsJob(job), NEW s, Settled(job, s), BackwardIsCurrent(s), job.policy # "none",
           NEW n \in DOMAIN s.first, NEW node, node = Original(s, n),
           AllStaged(s, node.ins), Elements(node.outs) \cap DOMAIN s.staged = {},
           job.twoPhase => \A v \in Elements(node.ins) : s.staged[v] \in DOMAIN s.retained,
           NEW t, Sound(job.graph, t), Again(s, n, node, t)
    PROVE  Settled(job, t)
<1> DEFINE home == "forward"
           late == Late(job)
           N == Elements([k \in DOMAIN node.outs |-> s.fresh + k - 1])
           news == [k \in DOMAIN node.outs |-> s.fresh + k - 1]
           copy == Node(node.op, GetRetainedStaged(s, node.ins), news)
           a == s.schedule
           d == t.schedule
           place == Len(a) + 1
           outs == Elements(node.outs)
<1>1. /\ IsModel(job.graph) /\ Sound(job.graph, s) /\ Track(job, home, s) /\ g = job.graph
      /\ s.added = <<>> /\ s.contexts = <<>> /\ job.twoPhase \in BOOLEAN
      /\ (job.twoPhase => s.turned)
  BY DEF Settled, IsJob, g, BackwardIsCurrent
<1>2. /\ node \in Nodes /\ node = a[s.first[n]].node /\ s.first[n] \in DOMAIN a
      /\ a[s.first[n]].part = "forward"
  <2>1. node \in Nodes
    BY <1>1, OriginalStands
  <2>2. node = a[s.first[n]].node /\ s.first[n] \in DOMAIN a
    BY <1>1 DEF Original, Sound, Placed
  <2> QED  BY <1>1, <2>1, <2>2 DEF Track, PlacesWell
<1>3. /\ s.fresh \in Nat /\ s.fresh > 0 /\ Names(job, s) \subseteq 1..(s.fresh - 1)
  BY <1>1 DEF Track, Named, Sound, Builder
<1>4. Renewed(s, node, t, N)
  BY <1>2, <1>3, AgainRenews
<1>5. /\ copy \in Nodes /\ Elements(copy.outs) = N /\ copy.ins = GetRetainedStaged(s, node.ins)
      /\ d = Behind(a, <<copy>>, late)
      /\ t.first = s.first /\ t.last = With(s.last, n, place)
      /\ Differs(s, t, {"schedule", "first", "last", "retained", "recomputed", "staged", "fresh"})
  BY DEF Again, Node
<1>6. /\ t.grads = s.grads
      /\ t.turned = s.turned /\ t.stagedInForward = s.stagedInForward
      /\ t.outGrads = s.outGrads /\ t.forgotten = s.forgotten
      /\ t.added = <<>> /\ t.contexts = <<>>
  BY <1>1, <1>5 DEF Differs, BuilderFields, OtherFields
<1> HIDE DEF N, news, copy, a, d, late, home, place
<1>7. late \in Parts /\ a \in Seq(Entries) /\ home \in Parts
  BY <1>1, LateIsPart DEF Sound, a, late, home
<1>8. OneLonger(a, copy, late, d)
  BY <1>5, <1>7, OneLengthens
<1>9. /\ d \in Seq(Entries) /\ DOMAIN d = DOMAIN a \cup {place} /\ place \notin DOMAIN a
      /\ \A i \in DOMAIN a : i \in DOMAIN d /\ d[i] = a[i]
      /\ d[place].node = copy /\ d[place].part = late
      /\ \A p : MadeBy(d, p) = MadeBy(a, p) \cup (IF p = late THEN N ELSE {})
  BY <1>5, <1>8 DEF OneLonger, place
<1>10. /\ N \subseteq s.fresh..(t.fresh - 1) /\ t.fresh \in Nat /\ s.fresh <= t.fresh
       /\ DOMAIN t.retained = DOMAIN s.retained \cup N
       /\ \A w \in N : t.retained[w] = w
       /\ \A w \in DOMAIN s.retained \ N : t.retained[w] = s.retained[w]
       /\ DOMAIN t.staged = DOMAIN s.staged \cup outs
       /\ \A v \in outs : t.staged[v] \in N
       /\ \A v, w \in outs : t.staged[v] = t.staged[w] => v = w
       /\ \A v \in DOMAIN s.staged : t.staged[v] = s.staged[v] /\ v \notin outs
  BY <1>4 DEF Renewed
<1>11. N \cap Names(job, s) = {}
  BY <1>3, <1>10
<1>12. N \cap DOMAIN s.retained = {} /\ N \cap Values(job.graph) = {} /\ N \cap Lost(s) = {}
  BY <1>11 DEF Names
<1> HIDE DEF outs
<1>13. outs \subseteq Names(job, s)
  BY <1>2 DEF MadeBy, Names, outs, a
<1>14. /\ \A w \in DOMAIN s.retained : t.retained[w] = s.retained[w]
       /\ \A w \in N : Copied(t, w) = w
       /\ \A w : w \notin N => Copied(t, w) = Copied(s, w)
  BY <1>10, <1>12 DEF Copied
<1>15. /\ Lost(t) = Lost(s)
       /\ \A p : LostIn(t, p) = LostIn(s, p) /\ LostIn(s, p) \subseteq Lost(s)
       /\ ComputedBy(s.added) = {} /\ ComputedBy(t.added) = {}
       /\ Elements(s.contexts) = {} /\ Elements(t.contexts) = {}
       /\ StandIns(t) = StandIns(s)
  <2>1. StandIns(t) = StandIns(s)
    <3>1. ASSUME NEW x \in StandIns(s)
          PROVE  x \in StandIns(t)
      <4>1. PICK w \in DOMAIN s.retained : s.retained[w] # w /\ x = s.retained[w]
        BY <3>1 DEF StandIns
      <4>2. w \in DOMAIN t.retained /\ t.retained[w] = s.retained[w]
        BY <1>10, <1>14
      <4> QED  BY <4>1, <4>2 DEF StandIns
    <3>2. ASSUME NEW x \in StandIns(t)
          PROVE  x \in StandIns(s)
      <4>1. PICK w \in DOMAIN t.retained : t.retained[w] # w /\ x = t.retained[w]
        BY <3>2 DEF StandIns
      <4>2. w \in DOMAIN s.retained /\ t.retained[w] = s.retained[w]
        BY <1>10, <1>14, <4>1
      <4> QED  BY <4>1, <4>2 DEF StandIns
    <3> QED  BY <3>1, <3>2
  <2> QED  BY <1>1, <1>6, <2>1 DEF Lost, LostIn, ComputedBy, Elements
<1>16. \A p : GivenTo(job, t, p) = GivenTo(job, s, p)
  BY <1>6, <1>15 DEF GivenTo
<1>17. /\ \A p : Available(job, home, s, p) = GivenTo(job, s, p) \cup MadeBy(a, p)
       /\ \A p : Available(job, home, t, p) = GivenTo(job, s, p) \cup MadeBy(d, p)
  BY <1>15, <1>16 DEF Available, a, d
<1>18. \A p : Available(job, home, s, p) \subseteq Available(job, home, t, p)
  BY <1>9, <1>17
<1>19. /\ Elements(t.retained) \subseteq Elements(s.retained) \cup N
       /\ Elements(t.staged) \subseteq Elements(s.staged) \cup N
  <2>1. \A w \in DOMAIN t.retained : t.retained[w] \in Elements(s.retained) \cup N
    BY <1>10, <1>14 DEF Elements
  <2>2. \A w \in DOMAIN t.staged : t.staged[w] \in Elements(s.staged) \cup N
    BY <1>10 DEF Elements
  <2> QED  BY <2>1, <2>2 DEF Elements
<1>20. Named(job, t)
  <2> DEFINE K == Names(job, s)
  <2>1. /\ DOMAIN t.retained \cup DOMAIN t.staged \subseteq K \cup N
        /\ Elements(t.retained) \subseteq K \cup N /\ Elements(t.staged) \subseteq K \cup N
    BY <1>10, <1>13, <1>19 DEF Names
  <2>2. Values(job.graph) \cup Elements(t.grads) \cup Elements(t.outGrads)
        \cup ComputedBy(t.added) \cup Elements(t.contexts) \cup Lost(t) \subseteq K
    BY <1>6, <1>15 DEF Names
  <2>3. MadeBy(t.schedule, "forward") \subseteq K \cup N /\ MadeBy(t.schedule, "backward") \subseteq K \cup N
    BY <1>9 DEF Names, a, d
  <2> HIDE DEF K
  <2>4. Names(job, t) \subseteq K \cup N
    BY <2>1, <2>2, <2>3 DEF Names
  <2>5. N \subseteq 1..(t.fresh - 1) /\ 1..(s.fresh - 1) \subseteq 1..(t.fresh - 1) /\ t.fresh > 0
    BY <1>3, <1>10
  <2>6. Names(job, t) \subseteq 1..(t.fresh - 1)
    BY <1>3, <2>4, <2>5 DEF K
  <2> QED  BY <2>5, <2>6 DEF Named
<1>21. Fed(job, t)
  <2> DEFINE nodes == <<copy>>
  <2>1. ASSUME NEW v \in Elements(copy.ins)
        PROVE  v \in GivenTo(job, s, late) \cup MadeBy(a, late) /\ v \notin LostIn(s, late)
    <3> DEFINE ins == node.ins
               false == FALSE
    <3>1. AllStaged(s, ins) /\ copy.ins = GetRetainedStaged(s, ins)
      BY <1>5
    <3>2. PICK k \in DOMAIN copy.ins : copy.ins[k] = v
      BY DEF Elements
    <3> HIDE DEF ins
    <3>3. k \in DOMAIN ins /\ ins[k] \in DOMAIN s.staged /\ v = Copied(s, s.staged[ins[k]])
      BY <3>1, <3>2, StagedElements
    <3> DEFINE x == ins[k]
    <3>4. x \in Elements(ins) /\ x \in DOMAIN s.staged
      BY <3>3 DEF Elements
    <3> HIDE DEF x
    <3>5. job.twoPhase => s.staged[x] \in DOMAIN s.retained
      BY <3>4 DEF ins
    <3>6. Track(job, late, s) /\ \A p : Available(job, late, s, p) = Available(job, home, s, p)
      BY <1>1, Anywhere
    <3>7. false \in BOOLEAN /\ late = (IF false THEN "forward" ELSE Late(job)) /\ (false => job.twoPhase)
      BY DEF late
    <3> HIDE DEF false
    <3>8. (IF false THEN s.staged[x] ELSE Copied(s, s.staged[x])) \in Usable(job, late, false, s)
      BY <3>4, <3>5, <3>6, <3>7, StagedIsUsable
    <3>9. v \in Readable(job, late, s)
      BY <3>3, <3>8 DEF Usable, false, x
    <3> QED  BY <1>17, <3>6, <3>9 DEF Readable, late
  <2>2. nodes \in Seq(Nodes) /\ DOMAIN nodes = {1} /\ nodes[1] = copy
    BY <1>5
  <2>3. t.schedule = s.schedule \o [k \in DOMAIN nodes |-> [node |-> nodes[k], part |-> late]]
    BY <1>5 DEF a, d, Behind
  <2> HIDE DEF nodes
  <2>4. InReadingOrder(nodes, GivenTo(job, t, late) \cup MadeBy(s.schedule, late))
    BY <1>16, <2>1, <2>2 DEF InReadingOrder, a
  <2>5. ReadBy(nodes) \cap LostIn(s, late) = {}
    BY <2>1, <2>2 DEF ReadBy
  <2>6. Fed(job, s)
    BY <1>1 DEF Track
  <2>7. \A p : GivenTo(job, s, p) \subseteq GivenTo(job, t, p)
    BY <1>16
  <2>8. s.schedule \in Seq(Entries) /\ t.forgotten = s.forgotten
    BY <1>6, <1>7 DEF a
  <2> QED  BY <1>7, <2>2, <2>3, <2>4, <2>5, <2>6, <2>7, <2>8, FedMore
<1>22. AddedWell(job, home, t)
  BY <1>6 DEF AddedWell, Numbered
<1>23. Graded(job, home, t)
  <2>1. Elements(s.grads) \subseteq Gradable(job, home, s) /\ Gradable(job, home, s) \subseteq Names(job, s)
    BY <1>1, AvailableHasName, LateIsPart DEF Track, Graded, Gradable
  <2>2. Elements(s.grads) \subseteq Gradable(job, home, t)
    BY <1>11, <1>15, <1>18, <1>19, <2>1 DEF Gradable
  <2> QED  BY <1>6, <2>2 DEF Graded
<1>24. RetainedWell(job, home, t)
  <2>1. N \subseteq Available(job, home, t, Late(job))
    BY <1>9, <1>17 DEF late
  <2> SUFFICES ASSUME NEW w \in DOMAIN t.retained
               PROVE  /\ t.retained[w] \notin Values(job.graph)
                      /\ t.retained[w] = w => w \in Available(job, home, t, Late(job))
                      /\ t.retained[w] # w =>
                            job.twoPhase /\ w \in Available(job, home, t, "forward") \ LostIn(t, "forward")
    BY DEF RetainedWell
  <2>2. CASE w \in DOMAIN s.retained
    BY <1>1, <1>14, <1>15, <1>18, <2>2 DEF Track, RetainedWell
  <2>3. CASE w \in N
    BY <1>10, <1>12, <2>1, <2>3
  <2> QED  BY <1>10, <2>2, <2>3
<1>25. ASSUME NEW v \in DOMAIN s.staged
       PROVE  /\ s.staged[v] \in DOMAIN s.retained
                   \/ (s.staged[v] = v /\ s.staged[v] \in Available(job, home, s, "forward"))
              /\ s.staged[v] = v \/ s.staged[v] \notin Values(job.graph)
              /\ s.staged[v] \notin Lost(s) /\ Copied(s, s.staged[v]) \notin Lost(s)
              /\ (job.twoPhase => s.staged[v] \in s.stagedInForward \cup DOMAIN s.retained)
              /\ s.staged[v] \notin N /\ Copied(s, s.staged[v]) \notin N
              /\ \A u \in DOMAIN s.staged : u # v =>
                    {s.staged[v], Copied(s, s.staged[v])} \cap {s.staged[u], Copied(s, s.staged[u])} = {}
  <2>1. s.staged[v] \in Names(job, s)
    BY DEF Names, Elements
  <2>2. Copied(s, s.staged[v]) \in Names(job, s)
    <3>1. s.staged[v] \in DOMAIN s.retained => s.retained[s.staged[v]] \in Names(job, s)
      BY DEF Names, Elements
    <3> QED  BY <2>1, <3>1 DEF Copied
  <2> QED  BY <1>1, <1>11, <2>1, <2>2 DEF Track, StagedWell
<1>26. StagedWell(job, home, t)
  <2> SUFFICES ASSUME NEW v \in DOMAIN t.staged
               PROVE  LET w == t.staged[v]
                      IN  /\ w \in DOMAIN t.retained \/ (w = v /\ w \in Available(job, home, t, "forward"))
                          /\ w = v \/ w \notin Values(job.graph)
                          /\ w \notin Lost(t) /\ Copied(t, w) \notin Lost(t)
                          /\ (job.twoPhase => w \in t.stagedInForward \cup DOMAIN t.retained)
                          /\ \A u \in DOMAIN t.staged : u # v =>
                                {w, Copied(t, w)} \cap {t.staged[u], Copied(t, t.staged[u])} = {}
    BY DEF StagedWell
  <2> DEFINE w == t.staged[v]
  <2>1. \A u \in DOMAIN s.staged : /\ t.staged[u] = s.staged[u] /\ s.staged[u] \notin N
                                   /\ Copied(t, s.staged[u]) = Copied(s, s.staged[u])
                                   /\ Copied(s, s.staged[u]) \notin N
    BY <1>10, <1>14, <1>25
  <2>2. \A u \in outs : t.staged[u] \in N /\ Copied(t, t.staged[u]) = t.staged[u]
    BY <1>10, <1>14
  <2>3. \A u \in DOMAIN t.staged : u # v =>
            {w, Copied(t, w)} \cap {t.staged[u], Copied(t, t.staged[u])} = {}
    <3> SUFFICES ASSUME NEW u \in DOMAIN t.staged, u # v
                 PROVE  {w, Copied(t, w)} \cap {t.staged[u], Copied(t, t.staged[u])} = {}
      OBVIOUS
    <3>1. CASE v \in outs /\ u \in outs
      BY <1>10, <2>2, <3>1
    <3>2. CASE v \in outs /\ u \in DOMAIN s.staged
      BY <2>1, <2>2, <3>2
    <3>3. CASE v \in DOMAIN s.staged /\ u \in outs
      BY <2>1, <2>2, <3>3
    <3>4. CASE v \in DOMAIN s.staged /\ u \in DOMAIN s.staged
      BY <1>25, <2>1, <3>4
    <3> QED  BY <1>10, <3>1, <3>2, <3>3, <3>4
  <2>4. CASE v \in outs
    <3>1. w \in N /\ Copied(t, w) = w
      BY <2>2, <2>4
    <3> HIDE DEF w
    <3> QED  BY <1>10, <1>12, <1>15, <2>3, <3>1 DEF w
  <2>5. CASE v \in DOMAIN s.staged
    <3>1. /\ w \in DOMAIN s.retained \/ (w = v /\ w \in Available(job, home, s, "forward"))
          /\ w = v \/ w \notin Values(job.graph)
          /\ w \notin Lost(s) /\ Copied(t, w) \notin Lost(s)
          /\ (job.twoPhase => w \in s.stagedInForward \cup DOMAIN s.retained)
      BY <1>25, <2>1, <2>5
    <3> HIDE DEF w
    <3> QED  BY <1>6, <1>10, <1>15, <1>18, <2>3, <3>1 DEF w
  <2> QED  BY <1>10, <2>4, <2>5
<1>27. OriginsWell(job, t)
  <2>1. OriginsWell(job, s)
    BY <1>1 DEF Track
  <2>2. \A p : MadeBy(d, p) \cap Values(job.graph) = MadeBy(a, p) \cap Values(job.graph)
    BY <1>9, <1>12
  <2>3. MadeBy(a, "forward") \subseteq MadeBy(d, "forward")
    BY <1>9
  <2>4. a = s.schedule /\ d = t.schedule
    BY DEF a, d
  <2> QED  BY <1>5, <1>15, <2>1, <2>2, <2>3, <2>4 DEF OriginsWell
<1>28. /\ \A m \in DOMAIN s.first : s.first[m] \in DOMAIN a /\ s.last[m] \in DOMAIN a
       /\ t.last[n] = place
       /\ \A m \in DOMAIN s.first : m # n => t.last[m] = s.last[m]
  <2>1. /\ \A m \in DOMAIN s.first : s.first[m] \in DOMAIN a /\ s.last[m] \in DOMAIN a
        /\ DOMAIN s.last = DOMAIN s.first
    BY <1>1 DEF Sound, Placed, a
  <2> DEFINE l == s.last
  <2> HIDE DEF l
  <2>2. With(l, n, place)[n] = place /\ \A m \in DOMAIN l : m # n => With(l, n, place)[m] = l[m]
    BY DEF With, Over
  <2> QED  BY <1>5, <2>1, <2>2 DEF l
<1>29. PlacesWell(job, t)
  <2> SUFFICES ASSUME NEW m \in DOMAIN s.first
               PROVE  LET x == d[s.first[m]].node
                      IN  /\ d[s.first[m]].part = "forward"
                          /\ x.outs # <<>> /\ x.outs[1] \in Values(job.graph)
                          /\ t.last[m] # s.first[m] =>
                               /\ d[t.last[m]].part = late
                               /\ job.twoPhase =>
                                     \A v \in (Elements(x.ins) \cup Elements(x.outs)) \cap DOMAIN t.staged :
                                         t.staged[v] \in DOMAIN t.retained
    BY <1>5 DEF PlacesWell, d, late
  <2>1. LET x == a[s.first[m]].node
        IN  /\ a[s.first[m]].part = "forward"
            /\ x.outs # <<>> /\ x.outs[1] \in Values(job.graph)
            /\ s.last[m] # s.first[m] =>
                 /\ a[s.last[m]].part = late
                 /\ job.twoPhase =>
                       \A v \in (Elements(x.ins) \cup Elements(x.outs)) \cap DOMAIN s.staged :
                           s.staged[v] \in DOMAIN s.retained
    BY <1>1 DEF Track, PlacesWell, a, late
  <2>2. d[s.first[m]] = a[s.first[m]] /\ d[s.last[m]] = a[s.last[m]]
    BY <1>9, <1>28
  <2>3. \A v \in outs : t.staged[v] \in DOMAIN t.retained
    BY <1>10
  <2>4. \A v \in DOMAIN s.staged : s.staged[v] \in DOMAIN s.retained => t.staged[v] \in DOMAIN t.retained
    BY <1>10
  <2>5. CASE m = n
    <3>1. d[s.first[m]].node = node
      BY <1>2, <2>2, <2>5
    <3>2. ASSUME job.twoPhase, NEW v \in Elements(node.ins) \cup Elements(node.outs)
          PROVE  t.staged[v] \in DOMAIN t.retained
      <4>1. CASE v \in Elements(node.outs)
        BY <2>3, <4>1 DEF outs
      <4>2. CASE v \in Elements(node.ins)
        BY <2>4, <3>2, <4>2 DEF AllStaged
      <4> QED  BY <3>2, <4>1, <4>2
    <3> QED  BY <1>9, <1>28, <2>1, <2>2, <2>5, <3>1, <3>2
  <2>6. CASE m # n
    BY <1>10, <1>28, <2>1, <2>2, <2>3, <2>4, <2>6
  <2> QED  BY <2>5, <2>6
<1>30. Phases(job, t)
  BY <1>1, <1>6 DEF Track, Phases
<1>31. Track(job, home, t)
  BY <1>15, <1>20, <1>21, <1>22, <1>23, <1>24, <1>26, <1>27, <1>29, <1>30 DEF Track
<1> QED  BY <1>6, <1>31 DEF Settled, home


LEMMA RecomputedTracks ==
    ASSUME IsJob(job), NEW s, Settled(job, s), BackwardIsCurrent(s), job.policy # "none",
           NEW n \in DOMAIN s.first,
           AllStaged(s, Original(s, n).ins), Elements(Original(s, n).outs) \cap DOMAIN s.staged = {}
    PROVE  Settled(job, Recomputed(s, n, Original(s, n)))
<1> DEFINE node  == Original(s, n)
           ins   == node.ins
           vs    == GetStaged(s, ins)
           moved == MoveToBackward(s, vs)
           news  == [k \in DOMAIN node.outs |-> moved.fresh + k - 1]
           copy  == Node(node.op, GetRetainedStaged(moved, ins), news)
           part  == Part("backward")
           u     == ScheduleForward(moved, n, copy, part)
           t     == Recomputed(s, n, node)
           r1    == [v \in Elements(news) |-> v]
           s1    == [v \in Elements(node.outs) |-> news[Place(node.outs, v)]]
<1>1. /\ IsModel(job.graph) /\ IsModel(g) /\ g = job.graph /\ Sound(job.graph, s) /\ Sound(g, s)
  BY DEF Settled, IsJob, g
<1>2. Sound(g, t)
  BY <1>1, RecomputedIsSound
<1>3. node \in Nodes /\ n \in DOMAIN g.nodes
  BY <1>1, OriginalStands
<1>4. /\ ins \in Seq(Nat) /\ node.outs \in Seq(Nat) /\ node.op \in Operators \cup AddedOperators
      /\ AllStaged(s, ins)
  BY <1>3 DEF Nodes
<1>5. t = [u EXCEPT !.retained = Over(r1, @), !.recomputed = @ \cup Elements(news),
                    !.staged = Over(s1, @), !.fresh = @ + Len(news)]
  BY DEF Recomputed
<1> HIDE DEF node
<1> HIDE DEF ins
<1>6. vs \in Seq(Nat) /\ Elements(vs) \subseteq Elements(s.staged)
  <2>1. vs \in Seq(Nat)
    BY <1>1, <1>4, StagedType
  <2>2. DOMAIN vs = DOMAIN ins /\ \A k \in DOMAIN ins : ins[k] \in DOMAIN s.staged /\ vs[k] = s.staged[ins[k]]
    BY <1>4, StagedElements
  <2> HIDE DEF vs
  <2> QED  BY <2>1, <2>2 DEF Elements
<1>7. \A v \in Elements(ins) : s.staged[v] \in Elements(vs)
  <2>1. DOMAIN vs = DOMAIN ins /\ \A k \in DOMAIN ins : ins[k] \in DOMAIN s.staged /\ vs[k] = s.staged[ins[k]]
    BY <1>4, StagedElements
  <2> HIDE DEF vs
  <2> QED  BY <2>1 DEF Elements
<1> HIDE DEF vs
<1>8. Keeps(g, s, moved) /\ Moved(s, vs, moved)
  BY <1>1, <1>6, MovingKeeps, MovingMoves
<1> HIDE DEF moved
<1>9. /\ Sound(g, moved) /\ moved.fresh \in Nat /\ moved.staged = s.staged /\ moved.first = s.first
  BY <1>8 DEF Keeps, Sound, Builder
<1>10. /\ Settled(job, moved) /\ moved.turned = s.turned /\ moved.schedule = s.schedule
       /\ job.twoPhase => Elements(vs) \subseteq DOMAIN moved.retained
  BY <1>1, <1>6, <1>8, <1>9, MovedTracks
<1>11. /\ n \in DOMAIN moved.first /\ node = Original(moved, n) /\ BackwardIsCurrent(moved)
       /\ AllStaged(moved, ins) /\ Elements(node.outs) \cap DOMAIN moved.staged = {}
  BY <1>4, <1>9, <1>10 DEF Original, BackwardIsCurrent, AllStaged, node
<1>12. job.twoPhase => \A v \in Elements(ins) : moved.staged[v] \in DOMAIN moved.retained
  BY <1>7, <1>9, <1>10
<1>13. news \in Seq(Nat) /\ Len(news) \in Nat
  <2>1. DOMAIN node.outs = 1..Len(node.outs) /\ Len(node.outs) \in Nat
    BY <1>4
  <2>2. \A k \in DOMAIN node.outs : moved.fresh + k - 1 \in Nat
    BY <1>9, <2>1
  <2> QED  BY <2>1, <2>2
<1> HIDE DEF news
<1>14. copy \in Nodes
  <2> DEFINE x == GetRetainedStaged(moved, ins)
  <2>1. x \in Seq(Nat)
    BY <1>4, <1>9, <1>11, StagedType
  <2> HIDE DEF x
  <2>2. Node(node.op, x, news) \in Nodes
    BY <1>4, <1>13, <2>1 DEF Node, Nodes
  <2> QED  BY <2>2 DEF x
<1> HIDE DEF copy
<1>15. /\ u.schedule = Behind(moved.schedule, <<copy>>, part)
       /\ u.first = moved.first /\ u.last = With(moved.last, n, Len(moved.schedule) + 1)
       /\ DOMAIN u = BuilderFields \cup OtherFields
       /\ Differs(moved, u, {"schedule", "first", "last"})
  <2> DEFINE nodes == <<copy>>
             place == Len(moved.schedule) + 1
  <2>1. Builder(g, moved) /\ moved.schedule \in Seq(Entries)
    BY <1>9 DEF Sound
  <2> HIDE DEF part, place
  <2>2. /\ u.schedule = moved.schedule \o [k \in DOMAIN nodes |-> [node |-> nodes[k], part |-> part]]
        /\ u.first = (IF n \in DOMAIN moved.first THEN moved.first ELSE With(moved.first, n, Len(moved.schedule) + 1))
        /\ u.last = With(moved.last, n, Len(moved.schedule) + 1)
        /\ DOMAIN u = BuilderFields \cup OtherFields
        /\ Differs(moved, u, {"schedule", "first", "last"})
    BY <2>1, ScheduleForwardFields
  <2> HIDE DEF u
  <2>3. u.first = moved.first
    BY <1>11, <2>2
  <2> QED  BY <2>2, <2>3 DEF Behind, nodes
<1> HIDE DEF u, r1, s1
<1>16. /\ t.schedule = u.schedule /\ t.first = u.first /\ t.last = u.last
       /\ t.retained = Over(r1, u.retained) /\ t.staged = Over(s1, u.staged)
       /\ t.fresh = u.fresh + Len(news)
       /\ Differs(u, t, {"retained", "recomputed", "staged", "fresh"})
  <2> HIDE DEF t
  <2> QED  BY <1>5, <1>15 DEF BuilderFields, OtherFields, Differs
<1> HIDE DEF t
<1>17. /\ u.retained = moved.retained /\ u.staged = moved.staged /\ u.fresh = moved.fresh
       /\ Differs(moved, t, {"schedule", "first", "last", "retained", "recomputed", "staged", "fresh"})
  BY <1>15, <1>16 DEF Differs, BuilderFields, OtherFields
<1>18. part = Late(job)
  BY PartIsLate
<1> HIDE DEF part
<1>19. Again(moved, n, node, t)
  <2>1. t.schedule = Behind(moved.schedule, <<copy>>, Late(job))
    BY <1>15, <1>16, <1>18
  <2>2. /\ t.retained = Over(r1, moved.retained) /\ t.staged = Over(s1, moved.staged)
        /\ t.fresh = moved.fresh + Len(news)
    BY <1>16, <1>17
  <2>3. t.first = moved.first /\ t.last = With(moved.last, n, Len(moved.schedule) + 1)
    BY <1>15, <1>16
  <2> QED  BY <1>14, <1>17, <2>1, <2>2, <2>3 DEF Again, copy, news, r1, s1, ins
<1>20. Settled(job, t)
  <2>1. job.twoPhase => \A v \in Elements(node.ins) : moved.staged[v] \in DOMAIN moved.retained
    BY <1>12 DEF ins
  <2>2. AllStaged(moved, node.ins) /\ Elements(node.outs) \cap DOMAIN moved.staged = {}
    BY <1>11 DEF ins
  <2>3. Sound(job.graph, t)
    BY <1>1, <1>2 DEF t
  <2> QED  BY <1>10, <1>11, <1>19, <2>1, <2>2, <2>3, AgainTracks
<1> QED  BY <1>20 DEF t, node


\* A value is given up.
LEMMA ForgottenTracks ==
    ASSUME IsJob(job), NEW s, Settled(job, s), job.policy # "none", NEW v, AllStaged(s, <<v>>)
    PROVE  Settled(job, Forgotten(s, v))
<1> DEFINE t == Forgotten(s, v)
           w == s.staged[v]
           c == Copied(s, w)
           where == IF s.turned THEN Late(job) ELSE "forward"
           home == "forward"
           x == [value |-> c, at |-> Len(s.schedule), part |-> where]
<1>1. /\ Sound(job.graph, s) /\ Track(job, home, s) /\ s.added = <<>> /\ s.contexts = <<>>
      /\ job.twoPhase \in BOOLEAN
  BY DEF Settled, IsJob
<1>2. v \in DOMAIN s.staged /\ GetRetainedStaged(s, <<v>>)[1] = c
  <2> DEFINE vs == <<v>>
  <2>1. 1 \in DOMAIN vs /\ vs[1] = v /\ AllStaged(s, vs)
    OBVIOUS
  <2> HIDE DEF vs
  <2>2. vs[1] \in DOMAIN s.staged /\ GetRetainedStaged(s, vs)[1] = Copied(s, s.staged[vs[1]])
    BY <2>1, StagedElements
  <2> QED  BY <2>1, <2>2 DEF vs
<1>3. DOMAIN s = BuilderFields \cup OtherFields
  BY <1>1 DEF Sound, Builder
<1>4. /\ t.staged = [u \in DOMAIN s.staged \ {v} |-> s.staged[u]]
      /\ t.forgotten = s.forgotten \cup {x}
      /\ Differs(s, t, {"staged", "forgotten"})
  <2> DEFINE y == [value |-> GetRetainedStaged(s, <<v>>)[1], at |-> Len(s.schedule),
                   part |-> IF s.turned THEN Part("backward") ELSE "forward"]
  <2>1. y = x
    BY <1>2, PartIsLate
  <2>2. t = [s EXCEPT !.staged = [u \in DOMAIN @ \ {v} |-> @[u]], !.forgotten = @ \cup {y}]
    BY DEF Forgotten
  <2> HIDE DEF t, x, y
  <2> QED  BY <1>3, <2>1, <2>2 DEF BuilderFields, OtherFields, Differs
<1>5. Sound(job.graph, t)
  BY <1>1, ForgottenIsSound
<1> HIDE DEF t
<1>6. /\ t.schedule = s.schedule /\ t.first = s.first /\ t.last = s.last /\ t.retained = s.retained
      /\ t.grads = s.grads /\ t.fresh = s.fresh /\ t.turned = s.turned
      /\ t.stagedInForward = s.stagedInForward /\ t.outGrads = s.outGrads
      /\ t.added = <<>> /\ t.contexts = <<>>
  BY <1>1, <1>4 DEF Differs, BuilderFields, OtherFields
<1>7. /\ DOMAIN t.staged = DOMAIN s.staged \ {v}
      /\ \A u \in DOMAIN t.staged : t.staged[u] = s.staged[u]
      /\ Elements(t.staged) \subseteq Elements(s.staged)
  BY <1>4 DEF Elements
<1>8. x.value = c /\ x.at = Len(s.schedule) /\ x.part = where
  OBVIOUS
<1> HIDE DEF x
<1>9. /\ Lost(t) = Lost(s) \cup {c}
      /\ \A p : LostIn(t, p) = LostIn(s, p) \cup (IF p = where THEN {c} ELSE {})
  BY <1>4, <1>8 DEF Lost, LostIn
<1>10. /\ StandIns(t) = StandIns(s) /\ \A y : Copied(t, y) = Copied(s, y)
  BY <1>6 DEF StandIns, Copied
<1>11. /\ \A p : GivenTo(job, t, p) = GivenTo(job, s, p)
       /\ ComputedBy(s.added) = {} /\ ComputedBy(t.added) = {}
       /\ Elements(s.contexts) = {} /\ Elements(t.contexts) = {}
  BY <1>1, <1>6, <1>10 DEF GivenTo, ComputedBy, Elements
<1>12. \A p : /\ Available(job, home, t, p) = Available(job, home, s, p)
              /\ Available(job, home, s, p) = GivenTo(job, s, p) \cup MadeBy(s.schedule, p)
  BY <1>6, <1>11 DEF Available
<1>13. c \in Elements(s.staged) \cup Elements(s.retained)
  BY <1>2 DEF Copied, Elements
<1>14. /\ \A u \in DOMAIN s.staged : u # v =>
              {w, c} \cap {s.staged[u], Copied(s, s.staged[u])} = {}
       /\ w \in DOMAIN s.retained \/ (w = v /\ w \in Available(job, home, s, "forward"))
  BY <1>1, <1>2 DEF Track, StagedWell
<1>15. job.twoPhase /\ DOMAIN s.retained # {} => where # "forward"
  <2>1. job.twoPhase /\ ~s.turned => DOMAIN s.retained = {}
    BY <1>1 DEF Track, Phases
  <2> QED  BY <2>1 DEF Late
<1> HIDE DEF c, w, where
<1>16. Named(job, t)
  <2>1. Names(job, t) \subseteq Names(job, s)
    BY <1>6, <1>7, <1>9, <1>11, <1>13 DEF Names
  <2> QED  BY <1>1, <1>6, <2>1 DEF Track, Named
<1>17. Fed(job, t)
  <2>1. \A i \in DOMAIN s.schedule : i <= x.at
    <3>1. s.schedule \in Seq(Entries)
      BY <1>1 DEF Sound
    <3> DEFINE q == s.schedule
    <3> HIDE DEF q
    <3>2. q \in Seq(Entries) => \A i \in DOMAIN q : i <= Len(q)
      OBVIOUS
    <3> QED  BY <1>8, <3>1, <3>2 DEF q
  <2>2. \A f \in t.forgotten : f \in s.forgotten \/ f = x
    BY <1>4
  <2>3. Fed(job, s)
    BY <1>1 DEF Track
  <2> SUFFICES ASSUME NEW i \in DOMAIN t.schedule, NEW y \in Elements(t.schedule[i].node.ins)
               PROVE  LET p == t.schedule[i].part
                      IN  /\ \/ y \in GivenTo(job, t, p)
                             \/ \E k \in DOMAIN t.schedule :
                                   /\ k < i /\ t.schedule[k].part = p
                                   /\ y \in Elements(t.schedule[k].node.outs)
                          /\ \A f \in t.forgotten : f.value = y /\ f.part = p => i <= f.at
    BY DEF Fed
  <2>4. LET p == s.schedule[i].part
        IN  /\ \/ y \in GivenTo(job, s, p)
               \/ \E k \in DOMAIN s.schedule :
                     /\ k < i /\ s.schedule[k].part = p
                     /\ y \in Elements(s.schedule[k].node.outs)
            /\ \A f \in s.forgotten : f.value = y /\ f.part = p => i <= f.at
    BY <1>6, <2>3 DEF Fed
  <2> QED  BY <1>6, <1>11, <2>1, <2>2, <2>4
<1>18. AddedWell(job, home, t)
  BY <1>6 DEF AddedWell, Numbered
<1>19. Graded(job, home, t)
  BY <1>1, <1>6, <1>7, <1>9, <1>12, <1>13 DEF Track, Graded, Gradable
<1>20. RetainedWell(job, home, t)
  <2> SUFFICES ASSUME NEW y \in DOMAIN s.retained
               PROVE  /\ s.retained[y] \notin Values(job.graph)
                      /\ s.retained[y] = y => y \in Available(job, home, s, Late(job))
                      /\ s.retained[y] # y =>
                            job.twoPhase /\ y \in Available(job, home, s, "forward") \ LostIn(t, "forward")
    BY <1>6, <1>12 DEF RetainedWell
  <2> QED  BY <1>1, <1>9, <1>15 DEF Track, RetainedWell
<1>21. StagedWell(job, home, t)
  <2> SUFFICES ASSUME NEW y \in DOMAIN t.staged
               PROVE  LET z == s.staged[y]
                      IN  /\ z \in DOMAIN s.retained \/ (z = y /\ z \in Available(job, home, s, "forward"))
                          /\ z = y \/ z \notin Values(job.graph)
                          /\ z \notin Lost(t) /\ Copied(s, z) \notin Lost(t)
                          /\ job.twoPhase /\ s.turned /\ job.policy # "none" =>
                                z \in s.stagedInForward \cup DOMAIN s.retained
                          /\ \A u \in DOMAIN t.staged : u # y =>
                                {z, Copied(s, z)} \cap {s.staged[u], Copied(s, s.staged[u])} = {}
    BY <1>6, <1>7, <1>10, <1>12 DEF StagedWell
  <2>1. y \in DOMAIN s.staged /\ y # v
    BY <1>7
  <2>2. LET z == s.staged[y]
        IN  /\ z \in DOMAIN s.retained \/ (z = y /\ z \in Available(job, home, s, "forward"))
            /\ z = y \/ z \notin Values(job.graph)
            /\ z \notin Lost(s) /\ Copied(s, z) \notin Lost(s)
            /\ job.twoPhase /\ s.turned /\ job.policy # "none" =>
                  z \in s.stagedInForward \cup DOMAIN s.retained
            /\ \A u \in DOMAIN s.staged : u # y =>
                  {z, Copied(s, z)} \cap {s.staged[u], Copied(s, s.staged[u])} = {}
    BY <1>1, <2>1 DEF Track, StagedWell
  <2>3. s.staged[y] # c /\ Copied(s, s.staged[y]) # c
    BY <1>14, <2>1
  <2> QED  BY <1>7, <1>9, <2>2, <2>3
<1>22. OriginsWell(job, t)
  <2>1. c \in Values(job.graph) => c \in job.graph.inputs \cup MadeBy(s.schedule, "forward")
    <3>1. CASE w \in DOMAIN s.retained
      BY <1>1, <3>1 DEF Track, RetainedWell, Copied, c
    <3>2. CASE w \notin DOMAIN s.retained
      BY <1>12, <1>14, <3>2 DEF Copied, c, GivenTo
    <3> QED  BY <3>1, <3>2
  <2> QED  BY <1>1, <1>6, <1>9, <1>11, <2>1 DEF Track, OriginsWell
<1>23. PlacesWell(job, t)
  <2>1. PlacesWell(job, s)
    BY <1>1 DEF Track
  <2> QED  BY <1>6, <1>7, <2>1, PlacesKept
<1>24. Phases(job, t)
  BY <1>1, <1>6 DEF Track, Phases
<1>25. Track(job, home, t)
  BY <1>11, <1>16, <1>17, <1>18, <1>19, <1>20, <1>21, <1>22, <1>23, <1>24 DEF Track
<1> QED  BY <1>5, <1>6, <1>25 DEF Settled, home, t


\* Nothing has been built yet.
LEMMA InitialFields ==
    /\ DOMAIN InitialState = BuilderFields \cup OtherFields
    /\ InitialState.grads = <<>> /\ InitialState.retained = <<>> /\ InitialState.added = <<>>
    /\ InitialState.contexts = <<>> /\ InitialState.fresh = 1 + Cardinality(Values(g))
    /\ InitialState.schedule = <<>> /\ InitialState.first = <<>> /\ InitialState.last = <<>>
    /\ InitialState.staged = [v \in g.inputs |-> v] /\ InitialState.turned = FALSE
    /\ InitialState.stagedInForward = {} /\ InitialState.outGrads = <<>>
    /\ InitialState.forgotten = {}
BY DEF InitialState, BuilderFields, OtherFields

LEMMA ModelNames ==
    ASSUME IsModel(g)
    PROVE  /\ Cardinality(Values(g)) \in Nat /\ Values(g) = 1..Cardinality(Values(g))
           /\ g.nodes \in Seq(Nodes)
<1>1. LET n == Cardinality(Values(g)) IN g.nodes \in Seq(Nodes) /\ n \in Nat /\ Values(g) = 1..n
  BY ModelValues
<1> QED  BY <1>1

\* No value stands for another, none is lost, and none is a gradient.
Fresh(s) ==
    /\ s.grads = <<>> /\ s.retained = <<>> /\ s.added = <<>> /\ s.contexts = <<>>
    /\ s.fresh = 1 + Cardinality(Values(g)) /\ s.turned = FALSE /\ s.stagedInForward = {}
    /\ s.outGrads = <<>> /\ s.forgotten = {} /\ s.first = s.last
    /\ DOMAIN s.staged \subseteq Values(g)
    /\ \A v \in DOMAIN s.staged : s.staged[v] = v /\ v \in g.inputs \cup MadeBy(s.schedule, "forward")
    /\ MadeBy(s.schedule, "backward") = {} /\ MadeBy(s.schedule, "forward") \subseteq Values(g)

\* What has only been computed forward is settled.
LEMMA FreshTracks ==
    ASSUME IsJob(job), NEW s, Sound(g, s), Fresh(s), Fed(job, s),
           MadeBy(s.schedule, "forward") \subseteq UNION {Elements(g.nodes[n].outs) : n \in DOMAIN s.first},
           \A n \in DOMAIN s.first : LET node == s.schedule[s.first[n]].node
                                     IN  /\ s.schedule[s.first[n]].part = "forward"
                                         /\ node.outs # <<>> /\ node.outs[1] \in Values(g),
           job.policy = "none" => Values(g) \subseteq DOMAIN s.staged
    PROVE  Settled(job, s)
<1> DEFINE home == "forward"
<1>1. /\ g = job.graph /\ IsModel(g) /\ job.twoPhase \in BOOLEAN
  BY DEF IsJob, g
<1>2. /\ s.grads = <<>> /\ s.retained = <<>> /\ s.added = <<>> /\ s.contexts = <<>>
      /\ s.fresh = 1 + Cardinality(Values(g)) /\ s.turned = FALSE /\ s.stagedInForward = {}
      /\ s.outGrads = <<>> /\ s.forgotten = {} /\ s.first = s.last
      /\ DOMAIN s.staged \subseteq Values(g)
      /\ \A v \in DOMAIN s.staged : s.staged[v] = v /\ v \in g.inputs \cup MadeBy(s.schedule, "forward")
      /\ MadeBy(s.schedule, "backward") = {} /\ MadeBy(s.schedule, "forward") \subseteq Values(g)
  BY DEF Fresh
<1>3. /\ Elements(s.grads) = {} /\ DOMAIN s.retained = {} /\ Elements(s.retained) = {}
      /\ Elements(s.outGrads) = {} /\ ComputedBy(s.added) = {} /\ Elements(s.contexts) = {}
      /\ Lost(s) = {} /\ \A p : LostIn(s, p) = {}
  BY <1>2 DEF Elements, ComputedBy, Lost, LostIn
<1>4. \A v : Copied(s, v) = v
  BY <1>3 DEF Copied
<1>5. Elements(s.staged) \subseteq Values(g)
  BY <1>2 DEF Elements
<1>6. Named(job, s)
  <2>1. Names(job, s) \subseteq Values(g)
    BY <1>1, <1>2, <1>3, <1>5 DEF Names
  <2>2. /\ s.fresh > 0 /\ Values(g) \subseteq 1..(s.fresh - 1)
    BY <1>1, <1>2, ModelNames
  <2> QED  BY <2>1, <2>2 DEF Named
<1>7. AddedWell(job, home, s)
  BY <1>2 DEF AddedWell, Numbered
<1>8. Graded(job, home, s) /\ RetainedWell(job, home, s)
  BY <1>3 DEF Graded, RetainedWell
<1>9. \A v \in DOMAIN s.staged : v \in Available(job, home, s, "forward")
  BY <1>1, <1>2 DEF Available, GivenTo
<1>10. StagedWell(job, home, s)
  BY <1>2, <1>3, <1>4, <1>9 DEF StagedWell
<1>11. OriginsWell(job, s)
  BY <1>1, <1>2, <1>3 DEF OriginsWell, Parts
<1>12. PlacesWell(job, s)
  BY <1>1, <1>2 DEF PlacesWell
<1>13. Phases(job, s)
  BY <1>1, <1>2, <1>3 DEF Phases
<1>14. Track(job, home, s)
  BY <1>3, <1>6, <1>7, <1>8, <1>10, <1>11, <1>12, <1>13 DEF Track
<1> QED  BY <1>1, <1>2, <1>14 DEF Settled, home

LEMMA InitialTracks ==
    ASSUME IsJob(job), Sound(g, InitialState), job.policy # "none"
    PROVE  Settled(job, InitialState)
<1> DEFINE s == InitialState
<1>1. /\ s.grads = <<>> /\ s.retained = <<>> /\ s.added = <<>> /\ s.contexts = <<>>
      /\ s.fresh = 1 + Cardinality(Values(g)) /\ s.turned = FALSE /\ s.stagedInForward = {}
      /\ s.outGrads = <<>> /\ s.forgotten = {}
      /\ s.schedule = <<>> /\ s.first = <<>> /\ s.last = <<>>
      /\ s.staged = [v \in g.inputs |-> v]
  BY InitialFields
<1>2. Sound(g, s)
  OBVIOUS
<1> HIDE DEF s
<1>3. DOMAIN s.first = {} /\ \A p : MadeBy(s.schedule, p) = {}
  BY <1>1 DEF MadeBy
<1>4. DOMAIN s.staged \subseteq Values(g)
  BY <1>1 DEF Values
<1>5. Fresh(s)
  BY <1>1, <1>3, <1>4 DEF Fresh
<1>6. Fed(job, s)
  BY <1>1 DEF Fed
<1>7. Settled(job, s)
  BY <1>2, <1>3, <1>5, <1>6, FreshTracks
<1> QED  BY <1>7 DEF s


\* The nodes of the model in order, and their values.
SortedNodes == [k \in DOMAIN Sorted(g) |-> g.nodes[Sorted(g)[k]]]

LEMMA SortedNodesRead ==
    ASSUME IsModel(g)
    PROVE  /\ Sorted(g) \in Seq(Nat) /\ Elements(Sorted(g)) = DOMAIN g.nodes
           /\ SortedNodes \in Seq(Nodes) /\ DOMAIN SortedNodes = DOMAIN Sorted(g)
           /\ \A k \in DOMAIN Sorted(g) : SortedNodes[k] = g.nodes[Sorted(g)[k]] /\ Sorted(g)[k] \in DOMAIN g.nodes
           /\ ComputedBy(SortedNodes) = ComputedBy(g.nodes)
           /\ InReadingOrder(SortedNodes, g.inputs)
<1>1. /\ Sorted(g) \in Seq(DOMAIN g.nodes) /\ Elements(Sorted(g)) = DOMAIN g.nodes
      /\ \A k \in DOMAIN Sorted(g) : Rank(g)[Sorted(g)[k]] = k
      /\ \A i \in DOMAIN g.nodes : Rank(g)[i] \in DOMAIN Sorted(g) /\ Sorted(g)[Rank(g)[i]] = i
      /\ \A i, j \in DOMAIN g.nodes : Feeds(g, i, j) => Rank(g)[i] < Rank(g)[j]
      /\ \A i \in DOMAIN g.nodes : Elements(g.nodes[i].ins) \subseteq Values(g)
  BY ModelOrder DEF Sorted
<1>2. g.nodes \in Seq(Nodes)
  BY ModelNames
<1>3. /\ DOMAIN Sorted(g) = 1..Len(Sorted(g)) /\ Len(Sorted(g)) \in Nat /\ DOMAIN g.nodes \subseteq Nat
      /\ \A k \in DOMAIN Sorted(g) : Sorted(g)[k] \in DOMAIN g.nodes /\ g.nodes[Sorted(g)[k]] \in Nodes
  <2> DEFINE q == Sorted(g)
             Y == DOMAIN g.nodes
  <2>1. q \in Seq(Y)
    BY <1>1
  <2>2. Y \subseteq Nat /\ \A i \in Y : g.nodes[i] \in Nodes
    BY <1>2
  <2> HIDE DEF q, Y
  <2>3. DOMAIN q = 1..Len(q) /\ Len(q) \in Nat /\ \A k \in DOMAIN q : q[k] \in Y
    BY <2>1
  <2> QED  BY <2>2, <2>3 DEF q, Y
<1>4. Sorted(g) \in Seq(Nat)
  BY <1>1, <1>3
<1>5. /\ SortedNodes \in Seq(Nodes) /\ DOMAIN SortedNodes = DOMAIN Sorted(g)
      /\ \A k \in DOMAIN Sorted(g) : SortedNodes[k] = g.nodes[Sorted(g)[k]]
  BY <1>3 DEF SortedNodes
<1>6. ComputedBy(SortedNodes) = ComputedBy(g.nodes)
  <2>1. ASSUME NEW v \in ComputedBy(SortedNodes) PROVE v \in ComputedBy(g.nodes)
    BY <1>3, <1>5 DEF ComputedBy
  <2>2. ASSUME NEW v \in ComputedBy(g.nodes) PROVE v \in ComputedBy(SortedNodes)
    <3>1. PICK i \in DOMAIN g.nodes : v \in Elements(g.nodes[i].outs)
      BY DEF ComputedBy
    <3>2. Rank(g)[i] \in DOMAIN SortedNodes /\ SortedNodes[Rank(g)[i]] = g.nodes[i]
      BY <1>1, <1>5
    <3> QED  BY <3>1, <3>2 DEF ComputedBy
  <2> QED  BY <2>1, <2>2
<1>7. InReadingOrder(SortedNodes, g.inputs)
  <2> SUFFICES ASSUME NEW k \in DOMAIN SortedNodes, NEW v \in Elements(SortedNodes[k].ins), v \notin g.inputs
               PROVE  \E i \in DOMAIN SortedNodes : i < k /\ v \in Elements(SortedNodes[i].outs)
    BY DEF InReadingOrder
  <2> DEFINE n == Sorted(g)[k]
  <2>1. n \in DOMAIN g.nodes /\ SortedNodes[k] = g.nodes[n] /\ Rank(g)[n] = k
    BY <1>1, <1>3, <1>5
  <2> HIDE DEF n
  <2>2. v \in Values(g)
    BY <1>1, <2>1
  <2>3. PICK i \in DOMAIN g.nodes : v \in Elements(g.nodes[i].outs)
    BY <2>2 DEF Values, ComputedBy
  <2>4. Feeds(g, i, n)
    BY <2>1, <2>3 DEF Feeds
  <2>5. Rank(g)[i] < k /\ Rank(g)[i] \in DOMAIN SortedNodes /\ SortedNodes[Rank(g)[i]] = g.nodes[i]
    BY <1>1, <1>5, <2>1, <2>4
  <2> QED  BY <2>3, <2>5
<1> QED  BY <1>1, <1>3, <1>4, <1>5, <1>6, <1>7

LEMMA AllForwardFields ==
    ASSUME NEW s, Sound(g, s)
    PROVE  LET u == AllForward(s)
           IN  /\ u.schedule = s.schedule \o [k \in DOMAIN SortedNodes |->
                                                 [node |-> SortedNodes[k], part |-> "forward"]]
               /\ u.first = [n \in Elements(Sorted(g)) |-> Len(s.schedule) + Place(Sorted(g), n)]
               /\ u.last = u.first
               /\ u.staged = Over([v \in ComputedBy(SortedNodes) |-> v], s.staged)
               /\ Differs(s, u, {"schedule", "first", "last", "staged"})
<1> DEFINE places == [n \in Elements(Sorted(g)) |-> Len(s.schedule) + Place(Sorted(g), n)]
           e == [v \in ComputedBy(SortedNodes) |-> v]
           part == "forward"
           more == s.schedule \o [k \in DOMAIN SortedNodes |-> [node |-> SortedNodes[k], part |-> part]]
           t == Scheduled(s, SortedNodes, part)
           u == AllForward(s)
<1>1. u = [t EXCEPT !.first = places, !.last = places, !.staged = Over(e, @)]
  BY DEF AllForward, Sorted, SortedNodes
<1> HIDE DEF u, places, e, part
<1>2. DOMAIN t = DOMAIN s /\ t.schedule = more /\ Differs(s, t, {"schedule"})
  <2>1. Builder(g, s)
    BY DEF Sound
  <2>2. /\ DOMAIN Scheduled(s, SortedNodes, part) = DOMAIN s
        /\ Scheduled(s, SortedNodes, part).schedule
               = s.schedule \o [k \in DOMAIN SortedNodes |-> [node |-> SortedNodes[k], part |-> part]]
        /\ Differs(s, Scheduled(s, SortedNodes, part), {"schedule"})
    BY <2>1, ScheduledFields
  <2> QED  BY <2>2
<1> HIDE DEF t, more
<1>3. DOMAIN s = BuilderFields \cup OtherFields
  BY DEF Sound, Builder
<1>4. /\ u.schedule = more /\ u.first = places /\ u.last = u.first /\ u.staged = Over(e, s.staged)
      /\ Differs(s, u, {"schedule", "first", "last", "staged"})
  BY <1>1, <1>2, <1>3 DEF BuilderFields, OtherFields, Differs
<1> QED  BY <1>4 DEF u, places, e, part, more

\* All nodes are in place before their gradients.
LEMMA AllForwardTracks ==
    ASSUME IsJob(job), Sound(g, InitialState)
    PROVE  LET s == AllForward(InitialState)
           IN  /\ Settled(job, s) /\ s.turned = FALSE
               /\ Values(g) \subseteq Available(job, "forward", s, "forward")
               /\ LostIn(s, "forward") = {}
<1> DEFINE z == InitialState
           s == AllForward(z)
           part == "forward"
           e == [v \in ComputedBy(SortedNodes) |-> v]
           f == [v \in g.inputs |-> v]
<1>1. /\ z.grads = <<>> /\ z.retained = <<>> /\ z.added = <<>> /\ z.contexts = <<>>
      /\ z.fresh = 1 + Cardinality(Values(g)) /\ z.turned = FALSE /\ z.stagedInForward = {}
      /\ z.outGrads = <<>> /\ z.forgotten = {} /\ z.schedule = <<>> /\ z.staged = f
  BY InitialFields
<1>2. IsModel(g) /\ g = job.graph /\ Sound(g, z)
  BY DEF IsJob, g
<1> HIDE DEF z
<1>3. /\ s.schedule = z.schedule \o [k \in DOMAIN SortedNodes |->
                                        [node |-> SortedNodes[k], part |-> "forward"]]
      /\ s.first = [n \in Elements(Sorted(g)) |-> Len(z.schedule) + Place(Sorted(g), n)]
      /\ s.last = s.first /\ s.staged = Over(e, z.staged)
      /\ Differs(z, s, {"schedule", "first", "last", "staged"})
  BY <1>2, AllForwardFields
<1>4. Sound(g, s) /\ DOMAIN s.first = DOMAIN g.nodes
  BY <1>2, AllForwardIsSound
<1> HIDE DEF s, e, f
<1>5. /\ Sorted(g) \in Seq(Nat) /\ Elements(Sorted(g)) = DOMAIN g.nodes
      /\ SortedNodes \in Seq(Nodes) /\ DOMAIN SortedNodes = DOMAIN Sorted(g)
      /\ \A k \in DOMAIN Sorted(g) : SortedNodes[k] = g.nodes[Sorted(g)[k]] /\ Sorted(g)[k] \in DOMAIN g.nodes
      /\ ComputedBy(SortedNodes) = ComputedBy(g.nodes)
      /\ InReadingOrder(SortedNodes, g.inputs)
  BY <1>2, SortedNodesRead
<1>6. /\ s.grads = <<>> /\ s.retained = <<>> /\ s.added = <<>> /\ s.contexts = <<>>
      /\ s.fresh = 1 + Cardinality(Values(g)) /\ s.turned = FALSE /\ s.stagedInForward = {}
      /\ s.outGrads = <<>> /\ s.forgotten = {} /\ s.forgotten = z.forgotten
  BY <1>1, <1>3 DEF Differs, BuilderFields, OtherFields
<1>7. z.schedule \in Seq(Entries) /\ part \in Parts /\ Len(z.schedule) = 0
  BY <1>1, <1>2 DEF Sound, Parts
<1>8. s.schedule = z.schedule \o [k \in DOMAIN SortedNodes |-> [node |-> SortedNodes[k], part |-> part]]
  BY <1>3
<1> HIDE DEF part
<1>9. Lengthened(z.schedule, SortedNodes, part, s.schedule)
  BY <1>5, <1>7, <1>8, MadeByMore
<1>10. /\ \A p : MadeBy(s.schedule, p) = IF p = part THEN ComputedBy(g.nodes) ELSE {}
       /\ \A k \in DOMAIN SortedNodes : s.schedule[k].node = SortedNodes[k] /\ s.schedule[k].part = part
  <2>1. \A p : MadeBy(z.schedule, p) = {}
    BY <1>1 DEF MadeBy
  <2>2. \A k \in DOMAIN SortedNodes : k \in Nat
    BY <1>5
  <2>3. \A k \in Nat : Len(z.schedule) + k = k
    BY <1>7
  <2> DEFINE a == z.schedule
             d == s.schedule
  <2> HIDE DEF a, d
  <2>4. /\ \A k \in DOMAIN SortedNodes : d[Len(a) + k].node = SortedNodes[k] /\ d[Len(a) + k].part = part
        /\ \A p : MadeBy(d, p) = MadeBy(a, p) \cup (IF p = part THEN ComputedBy(SortedNodes) ELSE {})
    BY <1>9 DEF Lengthened, a, d
  <2>5. \A k \in DOMAIN SortedNodes : Len(a) + k = k
    BY <2>2, <2>3 DEF a
  <2>6. \A p : MadeBy(d, p) = IF p = part THEN ComputedBy(g.nodes) ELSE {}
    BY <1>5, <2>1, <2>4 DEF a
  <2>7. \A k \in DOMAIN SortedNodes : d[k].node = SortedNodes[k] /\ d[k].part = part
    BY <2>4, <2>5
  <2> QED  BY <2>6, <2>7 DEF d
<1>11. \A p : GivenTo(job, s, p) = GivenTo(job, z, p)
  BY <1>1, <1>6 DEF GivenTo, StandIns
<1>12. Fed(job, s)
  <2>1. Fed(job, z)
    BY <1>1 DEF Fed
  <2>2. InReadingOrder(SortedNodes, GivenTo(job, s, part) \cup MadeBy(z.schedule, part))
    BY <1>2, <1>5 DEF InReadingOrder, GivenTo, part
  <2>3. ReadBy(SortedNodes) \cap LostIn(z, part) = {}
    BY <1>1 DEF LostIn
  <2>4. \A p : GivenTo(job, z, p) \subseteq GivenTo(job, s, p)
    BY <1>11
  <2> QED  BY <1>5, <1>6, <1>7, <1>8, <2>1, <2>2, <2>3, <2>4, FedMore, ZenonT(60)
<1>13. /\ DOMAIN s.staged = Values(g) /\ \A v \in DOMAIN s.staged : s.staged[v] = v
  <2>1. DOMAIN e = ComputedBy(g.nodes) /\ \A v \in DOMAIN e : e[v] = v
    BY <1>5 DEF e
  <2>2. DOMAIN f = g.inputs /\ \A v \in DOMAIN f : f[v] = v
    BY DEF f
  <2> QED  BY <1>1, <1>3, <2>1, <2>2 DEF Over, Values
<1>14. \A n \in DOMAIN g.nodes : /\ s.first[n] \in DOMAIN SortedNodes
                                 /\ SortedNodes[s.first[n]] = g.nodes[n]
  <2>1. \A n \in Elements(Sorted(g)) : Place(Sorted(g), n) \in 1..Len(Sorted(g)) /\ Sorted(g)[Place(Sorted(g), n)] = n
    BY <1>5, PlaceOfElement
  <2>2. DOMAIN Sorted(g) = 1..Len(Sorted(g)) /\ Len(Sorted(g)) \in Nat
    BY <1>5
  <2>3. \A n \in Elements(Sorted(g)) : s.first[n] = Place(Sorted(g), n)
    BY <1>3, <1>7, <2>1, <2>2
  <2> QED  BY <1>5, <2>1, <2>2, <2>3
<1>15. \A n \in DOMAIN s.first : LET node == s.schedule[s.first[n]].node
                                 IN  /\ s.schedule[s.first[n]].part = "forward"
                                     /\ node.outs # <<>> /\ node.outs[1] \in Values(g)
  <2> SUFFICES ASSUME NEW n \in DOMAIN g.nodes
               PROVE  LET node == s.schedule[s.first[n]].node
                      IN  /\ s.schedule[s.first[n]].part = "forward"
                          /\ node.outs # <<>> /\ node.outs[1] \in Values(g)
    BY <1>4
  <2>1. s.schedule[s.first[n]].node = g.nodes[n] /\ s.schedule[s.first[n]].part = part
    BY <1>10, <1>14
  <2> DEFINE o == g.nodes[n].outs
  <2>2. o \in Seq(Nat) /\ o # <<>>
    <3>1. g.nodes \in Seq(Nodes)
      BY <1>2, ModelNames
    <3> QED  BY <1>2, <3>1, DomainOfNodes DEF IsModel
  <2>3. \A v \in Elements(o) : v \in Values(g)
    BY DEF Values, ComputedBy
  <2> HIDE DEF o
  <2>4. o[1] \in Elements(o)
    <3>1. 1 \in DOMAIN o
      BY <2>2
    <3> QED  BY <3>1 DEF Elements
  <2> QED  BY <2>1, <2>2, <2>3, <2>4 DEF o, part
<1>16. MadeBy(s.schedule, "forward") = ComputedBy(g.nodes) /\ MadeBy(s.schedule, "backward") = {}
  BY <1>10 DEF part
<1>17. Fresh(s)
  BY <1>3, <1>6, <1>13, <1>16 DEF Fresh, Values
<1>18. MadeBy(s.schedule, "forward") \subseteq UNION {Elements(g.nodes[n].outs) : n \in DOMAIN s.first}
  BY <1>4, <1>16 DEF ComputedBy
<1>19. Settled(job, s)
  BY <1>4, <1>12, <1>13, <1>15, <1>17, <1>18, FreshTracks
<1>20. Values(g) \subseteq Available(job, "forward", s, "forward") /\ LostIn(s, "forward") = {}
  BY <1>2, <1>6, <1>16 DEF Available, GivenTo, Values, LostIn
<1> QED  BY <1>6, <1>19, <1>20 DEF s, z


\* What is retained becomes an output of the forward graph.
LEMMA RetainedPartsTrack ==
    ASSUME IsJob(job), NEW s, Settled(job, s)
    PROVE  LET t == AddRetainedParts(s)
           IN  /\ Fed(job, t) /\ t.schedule \in Seq(Entries) /\ t.fresh \in Nat
               /\ StandIns(s) \subseteq UNION {Elements(n.outs) : n \in t.retainParts}
               /\ DOMAIN t = BuilderFields \cup OtherFields
               /\ \A p \in Parts : MadeBy(s.schedule, p) \subseteq MadeBy(t.schedule, p)
               /\ Differs(s, t, {"schedule", "retainParts", "fresh"})
<1> DEFINE K == {v \in DOMAIN s.retained : s.retained[v] # v}
           kept == InOrder(K)
           Name(k) == s.fresh + k
           nodes == [k \in DOMAIN kept |-> Node("Identity", <<kept[k]>>, <<Name(k)>>)]
           part == "forward"
           u == Scheduled(s, nodes, part)
           parts == {Node("Identity", <<Name(k)>>, <<s.retained[kept[k]]>>) : k \in DOMAIN kept}
           t == AddRetainedParts(s)
           a == s.schedule
<1>1. t = [u EXCEPT !.retainParts = parts, !.fresh = @ + Len(kept) + 1]
  BY DEF AddRetainedParts
<1>2. /\ Sound(job.graph, s) /\ Track(job, "forward", s) /\ s.fresh \in Nat /\ a \in Seq(Entries)
      /\ ComputedBy(s.added) = {} /\ Elements(s.contexts) = {} /\ Builder(job.graph, s)
  BY DEF Settled, Sound, Builder, ComputedBy, Elements
<1>3. K \in SUBSET (1..(s.fresh - 1)) /\ s.fresh - 1 \in Nat
  <2>1. K \subseteq Names(job, s)
    BY DEF Names
  <2>2. Names(job, s) \subseteq 1..(s.fresh - 1) /\ s.fresh > 0
    BY <1>2 DEF Track, Named
  <2> HIDE DEF K
  <2> QED  BY <1>2, <2>1, <2>2
<1>4. kept \in Seq(Nat) /\ Elements(kept) = K
  <2> DEFINE m == s.fresh - 1
  <2> HIDE DEF m, K
  <2>1. m \in Nat /\ K \in SUBSET (1..m)
    BY <1>3 DEF m
  <2> QED  BY <2>1, InOrderLists
<1> HIDE DEF kept
<1>5. /\ DOMAIN kept = 1..Len(kept) /\ Len(kept) \in Nat
      /\ \A k \in DOMAIN kept : kept[k] \in Nat /\ kept[k] \in K /\ s.fresh + k \in Nat
  BY <1>2, <1>4 DEF Elements
<1>6. nodes \in Seq(Nodes) /\ DOMAIN nodes = DOMAIN kept
      /\ \A k \in DOMAIN kept : Elements(nodes[k].ins) = {kept[k]}
  <2> DEFINE One(k) == Node("Identity", <<kept[k]>>, <<Name(k)>>)
  <2>1. ASSUME NEW k \in DOMAIN kept
        PROVE  One(k) \in Nodes /\ Elements(One(k).ins) = {kept[k]}
    <3> DEFINE x == kept[k]
               y == Name(k)
    <3>1. x \in Nat /\ y \in Nat
      BY <1>5
    <3> HIDE DEF x, y
    <3>2. <<x>> \in Seq(Nat) /\ <<y>> \in Seq(Nat) /\ Elements(<<x>>) = {x}
      BY <3>1 DEF Elements
    <3>3. Node("Identity", <<x>>, <<y>>) \in Nodes /\ Elements(Node("Identity", <<x>>, <<y>>).ins) = {x}
      BY <3>2 DEF Node, Nodes, AddedOperators
    <3> QED  BY <3>3 DEF x, y
  <2>2. nodes = [k \in DOMAIN kept |-> One(k)]
    OBVIOUS
  <2> HIDE DEF One, nodes
  <2>3. \A k \in 1..Len(kept) : One(k) \in Nodes
    BY <1>5, <2>1
  <2>4. nodes \in Seq(Nodes)
    BY <1>5, <2>2, <2>3
  <2> QED  BY <2>1, <2>2, <2>4
<1> HIDE DEF nodes, parts, part
<1>7. /\ DOMAIN u = DOMAIN s
      /\ u.schedule = a \o [k \in DOMAIN nodes |-> [node |-> nodes[k], part |-> part]]
      /\ Differs(s, u, {"schedule"})
  <2>1. /\ DOMAIN Scheduled(s, nodes, part) = DOMAIN s
        /\ Scheduled(s, nodes, part).schedule
               = s.schedule \o [k \in DOMAIN nodes |-> [node |-> nodes[k], part |-> part]]
        /\ Differs(s, Scheduled(s, nodes, part), {"schedule"})
    BY <1>2, ScheduledFields
  <2> QED  BY <2>1
<1> HIDE DEF u
<1>8. /\ t.schedule = u.schedule /\ t.retainParts = parts /\ t.fresh = u.fresh + Len(kept) + 1
      /\ DOMAIN t = BuilderFields \cup OtherFields
      /\ Differs(s, t, {"schedule", "retainParts", "fresh"})
  <2>1. DOMAIN u = BuilderFields \cup OtherFields
    BY <1>2, <1>7 DEF Builder
  <2> HIDE DEF t
  <2> QED  BY <1>1, <1>7, <2>1 DEF Differs, BuilderFields, OtherFields
<1> HIDE DEF t
<1>9. t.schedule = a \o [k \in DOMAIN nodes |-> [node |-> nodes[k], part |-> part]]
  BY <1>7, <1>8
<1>10. /\ t.forgotten = s.forgotten /\ t.retained = s.retained /\ t.outGrads = s.outGrads
       /\ u.fresh = s.fresh
  BY <1>7, <1>8 DEF Differs, BuilderFields, OtherFields
<1>11. part \in Parts
  BY DEF Parts, part
<1>12. \A p : GivenTo(job, t, p) = GivenTo(job, s, p)
  BY <1>10 DEF GivenTo, StandIns
<1>13. \A k \in DOMAIN kept : kept[k] \in (GivenTo(job, s, part) \cup MadeBy(a, part)) \ LostIn(s, part)
  <2> SUFFICES ASSUME NEW w \in K
               PROVE  w \in (GivenTo(job, s, part) \cup MadeBy(a, part)) \ LostIn(s, part)
    BY <1>5
  <2>1. w \in Available(job, "forward", s, "forward") \ LostIn(s, "forward")
    BY <1>2 DEF Track, RetainedWell
  <2>2. Available(job, "forward", s, part) = GivenTo(job, s, part) \cup MadeBy(a, part)
    BY <1>2 DEF Available
  <2> QED  BY <2>1, <2>2 DEF part
<1>14. Fed(job, t)
  <2>1. Fed(job, s) /\ s.schedule \in Seq(Entries)
    BY <1>2 DEF Track
  <2>2. InReadingOrder(nodes, GivenTo(job, t, part) \cup MadeBy(s.schedule, part))
    BY <1>6, <1>12, <1>13 DEF InReadingOrder
  <2>3. ReadBy(nodes) \cap LostIn(s, part) = {}
    BY <1>6, <1>13 DEF ReadBy
  <2>4. \A p : GivenTo(job, s, p) \subseteq GivenTo(job, t, p)
    BY <1>12
  <2> QED  BY <1>6, <1>9, <1>10, <1>11, <2>1, <2>2, <2>3, <2>4, FedMore
<1>15. t.schedule \in Seq(Entries) /\ \A p \in Parts : MadeBy(s.schedule, p) \subseteq MadeBy(t.schedule, p)
  <2>1. Lengthened(a, nodes, part, t.schedule)
    BY <1>2, <1>6, <1>9, <1>11, MadeByMore
  <2> QED  BY <2>1 DEF Lengthened
<1>16. t.fresh \in Nat
  BY <1>2, <1>5, <1>8, <1>10
<1>17. StandIns(s) \subseteq UNION {Elements(n.outs) : n \in t.retainParts}
  <2> SUFFICES ASSUME NEW w \in K
               PROVE  \E n \in t.retainParts : s.retained[w] \in Elements(n.outs)
    BY DEF StandIns
  <2>1. PICK k \in DOMAIN kept : kept[k] = w
    BY <1>4 DEF Elements
  <2> DEFINE n == Node("Identity", <<Name(k)>>, <<s.retained[kept[k]]>>)
  <2>2. n \in t.retainParts
    BY <1>8 DEF parts
  <2>3. s.retained[w] \in Elements(n.outs)
    BY <2>1 DEF Node, Elements
  <2> QED  BY <2>2, <2>3
<1>18. /\ Fed(job, t) /\ t.schedule \in Seq(Entries) /\ t.fresh \in Nat
       /\ StandIns(s) \subseteq UNION {Elements(n.outs) : n \in t.retainParts}
       /\ DOMAIN t = BuilderFields \cup OtherFields
       /\ \A p \in Parts : MadeBy(s.schedule, p) \subseteq MadeBy(t.schedule, p)
       /\ Differs(s, t, {"schedule", "retainParts", "fresh"})
  BY <1>8, <1>14, <1>15, <1>16, <1>17
<1> QED  BY <1>18 DEF t


\* The gradients of the parameters become outputs.
LEMMA ParamGradsTrack ==
    ASSUME IsJob(job), NEW s, Settled(job, s), NEW r, Fed(job, r), r.schedule \in Seq(Entries),
           r.fresh \in Nat, DOMAIN r = BuilderFields \cup OtherFields,
           \A p \in Parts : MadeBy(s.schedule, p) \subseteq MadeBy(r.schedule, p),
           Differs(s, r, {"schedule", "retainParts", "fresh"})
    PROVE  LET t == ExposeParamGradsAsOutputs(r)
           IN  /\ Fed(job, t) /\ t.schedule \in Seq(Entries)
               /\ Differs(r, t, {"schedule", "gradOuts", "fresh"})
<1> DEFINE X == {x \in GetParamValues(g) : HasGrad(r, x)}
           xs == InOrder(X)
           Name(k) == r.fresh + k
           One(k) == Node("Identity", <<Grad(r, xs[k])>>, <<Name(k)>>)
           nodes == [k \in DOMAIN xs |-> One(k)]
           part == Part("backward")
           u == Scheduled(r, nodes, part)
           outs == [x \in Elements(xs) |-> r.fresh + Place(xs, x)]
           t == ExposeParamGradsAsOutputs(r)
           a == r.schedule
<1>1. t = [u EXCEPT !.gradOuts = outs, !.fresh = @ + Len(xs) + 1]
  BY DEF ExposeParamGradsAsOutputs
<1>2. /\ Track(job, "forward", s) /\ IsMap(s.grads) /\ IsModel(g) /\ g = job.graph
      /\ ComputedBy(s.added) = {} /\ Elements(s.contexts) = {}
  BY DEF Settled, Sound, Builder, ComputedBy, Elements, IsJob, g
<1>3. /\ r.grads = s.grads /\ r.forgotten = s.forgotten /\ r.retained = s.retained
      /\ r.outGrads = s.outGrads
  BY DEF Differs, BuilderFields, OtherFields
<1>4. xs \in Seq(Nat) /\ Elements(xs) = X
  <2>1. X \subseteq g.inputs
    BY <1>2 DEF GetParamValues, IsJob
  <2>2. PICK n \in Nat : g.inputs \in SUBSET (1..n)
    BY <1>2, ModelValues
  <2> HIDE DEF X
  <2>3. X \in SUBSET (1..n)
    BY <2>1, <2>2
  <2> QED  BY <2>2, <2>3, InOrderLists
<1> HIDE DEF xs
<1>5. /\ DOMAIN xs = 1..Len(xs) /\ Len(xs) \in Nat
      /\ \A k \in DOMAIN xs : Name(k) \in Nat /\ Grad(r, xs[k]) \in Nat /\ Grad(r, xs[k]) \in Elements(s.grads)
  <2>1. DOMAIN xs = 1..Len(xs) /\ Len(xs) \in Nat /\ \A k \in DOMAIN xs : xs[k] \in X
    BY <1>4 DEF Elements
  <2>2. \A x \in X : Grad(r, x) \in Nat /\ Grad(r, x) \in Elements(s.grads)
    BY <1>2, <1>3 DEF HasGrad, Grad, IsMap, Elements
  <2> HIDE DEF X
  <2> QED  BY <2>1, <2>2
<1>6. /\ nodes \in Seq(Nodes) /\ DOMAIN nodes = DOMAIN xs
      /\ \A k \in DOMAIN xs : Elements(nodes[k].ins) = {Grad(r, xs[k])}
  <2>1. ASSUME NEW k \in DOMAIN xs
        PROVE  One(k) \in Nodes /\ Elements(One(k).ins) = {Grad(r, xs[k])}
    <3> DEFINE x == Grad(r, xs[k])
               y == Name(k)
    <3>1. x \in Nat /\ y \in Nat
      BY <1>5
    <3> HIDE DEF x, y
    <3>2. <<x>> \in Seq(Nat) /\ <<y>> \in Seq(Nat) /\ Elements(<<x>>) = {x}
      BY <3>1 DEF Elements
    <3>3. Node("Identity", <<x>>, <<y>>) \in Nodes /\ Elements(Node("Identity", <<x>>, <<y>>).ins) = {x}
      BY <3>2 DEF Node, Nodes, AddedOperators
    <3> QED  BY <3>3 DEF x, y
  <2>2. nodes = [k \in DOMAIN xs |-> One(k)]
    OBVIOUS
  <2> HIDE DEF One, nodes
  <2>3. \A k \in 1..Len(xs) : One(k) \in Nodes
    BY <1>5, <2>1
  <2>4. nodes \in Seq(Nodes)
    BY <1>5, <2>2, <2>3
  <2> QED  BY <2>1, <2>2, <2>4
<1> HIDE DEF nodes, part, outs
<1>7. /\ DOMAIN u = DOMAIN r
      /\ u.schedule = a \o [k \in DOMAIN nodes |-> [node |-> nodes[k], part |-> part]]
      /\ Differs(r, u, {"schedule"})
  BY DEF Scheduled, Differs, BuilderFields, OtherFields
<1> HIDE DEF u
<1>8. /\ t.schedule = u.schedule /\ Differs(r, t, {"schedule", "gradOuts", "fresh"})
  <2> HIDE DEF t
  <2> QED  BY <1>1, <1>7 DEF Differs, BuilderFields, OtherFields
<1> HIDE DEF t
<1>9. t.schedule = a \o [k \in DOMAIN nodes |-> [node |-> nodes[k], part |-> part]]
  BY <1>7, <1>8
<1>10. t.forgotten = r.forgotten /\ t.retained = r.retained /\ t.outGrads = r.outGrads
  BY <1>8 DEF Differs, BuilderFields, OtherFields
<1>11. part \in Parts /\ part = Late(job)
  BY PartIsLate, LateIsPart DEF part
<1>12. \A p : GivenTo(job, t, p) = GivenTo(job, r, p) /\ GivenTo(job, r, p) = GivenTo(job, s, p)
  BY <1>3, <1>10 DEF GivenTo, StandIns
<1>13. \A k \in DOMAIN xs : Grad(r, xs[k]) \in (GivenTo(job, r, part) \cup MadeBy(a, part)) \ LostIn(r, part)
  <2> SUFFICES ASSUME NEW w \in Elements(s.grads)
               PROVE  w \in (GivenTo(job, r, part) \cup MadeBy(a, part)) \ LostIn(r, part)
    BY <1>5
  <2>1. w \in Gradable(job, "forward", s)
    BY <1>2 DEF Track, Graded
  <2>2. Available(job, "forward", s, part) = GivenTo(job, s, part) \cup MadeBy(s.schedule, part)
    BY <1>2 DEF Available
  <2>3. LostIn(r, part) \subseteq Lost(s)
    BY <1>3 DEF LostIn, Lost
  <2> QED  BY <1>11, <1>12, <2>1, <2>2, <2>3 DEF Gradable
<1>14. Fed(job, t)
  <2>1. InReadingOrder(nodes, GivenTo(job, t, part) \cup MadeBy(r.schedule, part))
    BY <1>6, <1>12, <1>13 DEF InReadingOrder
  <2>2. ReadBy(nodes) \cap LostIn(r, part) = {}
    <3>1. \A k \in DOMAIN nodes : Elements(nodes[k].ins) \cap LostIn(r, part) = {}
      BY <1>6, <1>13
    <3> QED  BY <3>1 DEF ReadBy
  <2>3. \A p : GivenTo(job, r, p) \subseteq GivenTo(job, t, p)
    BY <1>12
  <2> QED  BY <1>6, <1>9, <1>10, <1>11, <2>1, <2>2, <2>3, FedMore
<1>15. t.schedule \in Seq(Entries)
  <2>1. Lengthened(a, nodes, part, t.schedule)
    BY <1>6, <1>9, <1>11, MadeByMore
  <2> QED  BY <2>1 DEF Lengthened
<1> QED  BY <1>8, <1>14, <1>15 DEF t

\* What the nodes read is there when the graphs are run.
ReadsKept(h, s) ==
    \A i \in DOMAIN s.schedule :
        LET node   == s.schedule[i].node
            part   == s.schedule[i].part
            before == {j \in 1..(i - 1) : s.schedule[j].part = part}
            given  == IF part = "forward" THEN h.inputs
                      ELSE Elements(s.outGrads)
                               \cup UNION {Elements(n.outs) : n \in s.retainParts}
        IN  \A v \in Elements(node.ins) :
                /\ v \in given \cup UNION {Elements(s.schedule[j].node.outs) : j \in before}
                /\ \A f \in s.forgotten :
                      f.value = v /\ f.part = part => i <= f.at

LEMMA FinishedKeeps ==
    ASSUME IsJob(job), NEW s, Settled(job, s)
    PROVE  ReadsKept(job.graph, ExposeParamGradsAsOutputs(AddRetainedParts(s)))
<1> DEFINE r == AddRetainedParts(s)
           t == ExposeParamGradsAsOutputs(r)
<1>1. /\ Fed(job, r) /\ r.schedule \in Seq(Entries) /\ r.fresh \in Nat
      /\ StandIns(s) \subseteq UNION {Elements(n.outs) : n \in r.retainParts}
      /\ DOMAIN r = BuilderFields \cup OtherFields
      /\ \A p \in Parts : MadeBy(s.schedule, p) \subseteq MadeBy(r.schedule, p)
      /\ Differs(s, r, {"schedule", "retainParts", "fresh"})
  BY RetainedPartsTrack
<1> HIDE DEF r
<1>2. Fed(job, t) /\ t.schedule \in Seq(Entries) /\ Differs(r, t, {"schedule", "gradOuts", "fresh"})
  BY <1>1, ParamGradsTrack
<1> HIDE DEF t
<1>3. t.retainParts = r.retainParts /\ t.retained = s.retained
  BY <1>1, <1>2 DEF Differs, BuilderFields, OtherFields
<1>4. StandIns(t) \subseteq UNION {Elements(n.outs) : n \in t.retainParts}
  BY <1>1, <1>3 DEF StandIns
<1>5. ReadsKept(job.graph, t)
  <2> SUFFICES ASSUME NEW i \in DOMAIN t.schedule, NEW v \in Elements(t.schedule[i].node.ins)
               PROVE  LET part   == t.schedule[i].part
                          before == {k \in 1..(i - 1) : t.schedule[k].part = part}
                          given  == IF part = "forward" THEN job.graph.inputs
                                    ELSE Elements(t.outGrads)
                                             \cup UNION {Elements(n.outs) : n \in t.retainParts}
                      IN  /\ v \in given \cup UNION {Elements(t.schedule[k].node.outs) : k \in before}
                          /\ \A f \in t.forgotten : f.value = v /\ f.part = part => i <= f.at
    BY DEF ReadsKept
  <2> DEFINE p == t.schedule[i].part
  <2>1. /\ \/ v \in GivenTo(job, t, p)
           \/ \E k \in DOMAIN t.schedule :
                 k < i /\ t.schedule[k].part = p /\ v \in Elements(t.schedule[k].node.outs)
        /\ \A f \in t.forgotten : f.value = v /\ f.part = p => i <= f.at
    BY <1>2 DEF Fed
  <2>2. \A k \in DOMAIN t.schedule : k < i => k \in 1..(i - 1)
    <3> DEFINE q == t.schedule
    <3>1. q \in Seq(Entries)
      BY <1>2
    <3> QED  BY <3>1
  <2>3. GivenTo(job, t, p) \subseteq (IF p = "forward" THEN job.graph.inputs
                                      ELSE Elements(t.outGrads)
                                             \cup UNION {Elements(n.outs) : n \in t.retainParts})
    BY <1>4 DEF GivenTo
  <2> QED  BY <2>1, <2>2, <2>3
<1> QED  BY <1>5 DEF t, r

-----------------------------------------------------------------------------
(* The invariant, and that every step keeps it.                            *)

Tracked ==
    /\ pc = "begin" => b = InitialState
    /\ pc = "build" =>
          /\ Settled(job, b)
          /\ job.policy = "none" /\ job.twoPhase => b.turned
    /\ pc = "done" => ReadsKept(job.graph, b)

\* While the graph is built, it is enough that what a step leaves is settled.
LEMMA TrackedAfter ==
    ASSUME job' = job, pc' = "build", NEW t, b' = t, Settled(job, t),
           job.policy = "none" /\ job.twoPhase => t.turned
    PROVE  Tracked'
<1>1. pc' # "begin" /\ pc' # "done"
  OBVIOUS
<1>2. Settled(job, b') /\ (job.policy = "none" /\ job.twoPhase => b'.turned)
  OBVIOUS
<1> QED  BY <1>1, <1>2 DEF Tracked, Settled

LEMMA TrackedAborted ==
    ASSUME pc' = "aborted"
    PROVE  Tracked'
BY DEF Tracked

\* An order either fails a CHECK or leaves what is settled.
LEMMA ExecutedTracks ==
    ASSUME pc = "build", NEW ok \in BOOLEAN, NEW u, Execute(ok, u),
           ok => Settled(job, u) /\ (job.policy = "none" /\ job.twoPhase => u.turned)
    PROVE  Tracked'
<1>1. job' = job /\ (IF ok THEN b' = u /\ pc' = pc ELSE pc' = "aborted")
  BY DEF Execute
<1>2. CASE ok
  BY <1>1, <1>2, TrackedAfter
<1>3. CASE ~ok
  BY <1>1, <1>3, TrackedAborted
<1> QED  BY <1>2, <1>3

\* Without a policy the output is computed before its gradient is begun.
LEMMA OutputIsReadable ==
    ASSUME IsJob(job), ~job.twoPhase, Len(g.outputs) = 1, NEW s,
           Values(g) \subseteq Available(job, "forward", s, "forward"),
           LostIn(s, "forward") = {}
    PROVE  g.outputs[1] \in Readable(job, "forward", s)
<1>1. g.outputs \in Seq(Values(g)) /\ 1 \in DOMAIN g.outputs
  BY DEF IsJob, g
<1>2. g.outputs[1] \in Values(g)
  BY <1>1
<1>3. Late(job) = "forward"
  BY DEF Late
<1> QED  BY <1>2, <1>3 DEF Readable

LEMMA BeginTracks ==
    ASSUME Inv, Tracked, Begin
    PROVE  Tracked'
<1> DEFINE plain == job.policy = "none"
           s == IF plain THEN AllForward(b) ELSE b
           r == [AddGradInputs(s) EXCEPT !.turned = TRUE]
           t == IF ~job.twoPhase THEN SetInitialGradients(s)
                ELSE IF plain THEN r
                ELSE s
           refused == \/ ~job.twoPhase /\ Len(g.outputs) # 1
                      \/ job.policy = "dummy2" /\ ~IsChain(g)
<1>1. /\ IsJob(job) /\ Sound(g, b) /\ job' = job /\ b = InitialState
  BY DEF Inv, Tracked, Begin, g
<1>2. IF refused THEN pc' = "aborted" ELSE pc' = "build" /\ b' = t
  BY DEF Begin
<1>3. CASE refused
  BY <1>2, <1>3, TrackedAborted
<1>4. ASSUME ~refused PROVE Tracked'
  <2>1. pc' = "build" /\ b' = t
    BY <1>2, <1>4
  <2>2. ~job.twoPhase => Len(g.outputs) = 1
    BY <1>4
  <2> HIDE DEF refused
  <2>3. /\ Settled(job, s)
        /\ plain => /\ s.turned = FALSE
                    /\ Values(g) \subseteq Available(job, "forward", s, "forward")
                    /\ LostIn(s, "forward") = {}
    <3>1. CASE plain
      <4>1. LET a == AllForward(InitialState)
            IN  /\ Settled(job, a) /\ a.turned = FALSE
                /\ Values(g) \subseteq Available(job, "forward", a, "forward")
                /\ LostIn(a, "forward") = {}
        BY <1>1, AllForwardTracks
      <4>2. s = AllForward(InitialState)
        BY <1>1, <3>1
      <4> HIDE DEF s
      <4> QED  BY <4>1, <4>2
    <3>2. CASE ~plain
      <4>1. Settled(job, InitialState)
        BY <1>1, <3>2, InitialTracks
      <4>2. s = InitialState
        BY <1>1, <3>2
      <4> HIDE DEF s
      <4> QED  BY <3>2, <4>1, <4>2
    <3> QED  BY <3>1, <3>2
  <2> HIDE DEF s
  <2>4. Settled(job, t) /\ (plain /\ job.twoPhase => t.turned)
    <3>1. CASE ~job.twoPhase
      <4>1. plain => g.outputs[1] \in Readable(job, "forward", s)
        BY <1>1, <2>2, <2>3, <3>1, OutputIsReadable
      <4>2. Settled(job, SetInitialGradients(s))
        BY <1>1, <2>2, <2>3, <3>1, <4>1, InitialGradientsTrack
      <4>3. t = SetInitialGradients(s)
        BY <3>1
      <4> HIDE DEF t
      <4> QED  BY <3>1, <4>2, <4>3
    <3>2. CASE job.twoPhase /\ plain
      <4>1. Settled(job, r) /\ r.turned
        BY <1>1, <2>3, <3>2, BeginTurned
      <4>2. t = r
        BY <3>2
      <4> HIDE DEF t, r
      <4> QED  BY <4>1, <4>2
    <3>3. CASE job.twoPhase /\ ~plain
      <4>1. t = s
        BY <3>3
      <4> HIDE DEF t
      <4> QED  BY <2>3, <3>3, <4>1
    <3> QED  BY <3>1, <3>2, <3>3
  <2> HIDE DEF t
  <2> QED  BY <1>1, <2>1, <2>4, TrackedAfter
<1> QED  BY <1>3, <1>4

\* What an order of a policy finds.
LEMMA TrackedNext ==
    ASSUME Inv, Tracked, NEW kind, IsNext(kind)
    PROVE  /\ pc = "build" /\ orders # <<>> /\ IsJob(job) /\ Sound(g, b) /\ IsModel(g)
           /\ Settled(job, b) /\ (job.policy = "none" /\ job.twoPhase => b.turned)
           /\ Head(orders) \in Orders(g)
           /\ Head(orders).kind = kind
           /\ kind \in {"ComputeForward", "ForgetForward"} => job.policy # "none"
           /\ job.policy = "none" => DOMAIN b.first = DOMAIN g.nodes
<1>1. /\ pc = "build" /\ orders # <<>> /\ Head(orders).kind = kind
      /\ IsJob(job) /\ Building(job, executed, orders, b)
  BY DEF IsNext, Inv
<1>2. Ordered(job, executed, orders) /\ Sound(g, b)
      /\ (job.policy = "none" => DOMAIN b.first = DOMAIN g.nodes)
  BY <1>1 DEF Building, g
<1>3. Head(orders) \in Orders(g) /\ (kind # "ComputeBackward" => job.policy # "none")
  BY <1>1, <1>2, OrderedNext DEF g
<1>4. IsModel(g)
  BY <1>1, NaturalOutputs
<1> QED  BY <1>1, <1>2, <1>3, <1>4 DEF Tracked

LEMMA FirstForwardStepTracks ==
    ASSUME Inv, Tracked, FirstForward
    PROVE  Tracked'
<1> DEFINE n    == Head(orders).node
           node == g.nodes[n]
           s    == Turn(b)
           t    == ScheduleForward(s, n, node, "forward")
           ok   == /\ Constraints(b)
                   /\ ForwardIsCurrent(s)
                   /\ AllStaged(s, node.ins)
                   /\ GetStaged(s, node.ins) = node.ins
                   /\ Elements(node.outs) \cap DOMAIN s.staged = {}
           u    == [t EXCEPT !.staged = Over([v \in Elements(node.outs) |-> v], @)]
<1>1. IsNext("ComputeForward") /\ Execute(ok, u) /\ n \notin DOMAIN b.first
  BY DEF FirstForward
<1>2. /\ pc = "build" /\ IsJob(job) /\ Settled(job, b) /\ job.policy # "none"
      /\ Head(orders) \in Orders(g) /\ Head(orders).kind = "ComputeForward"
  <2> DEFINE kind == "ComputeForward"
  <2>1. IsNext(kind) /\ kind \in {"ComputeForward", "ForgetForward"}
    BY <1>1
  <2> HIDE DEF kind
  <2>2. /\ pc = "build" /\ IsJob(job) /\ Settled(job, b) /\ job.policy # "none"
        /\ Head(orders) \in Orders(g) /\ Head(orders).kind = kind
    BY <2>1, TrackedNext
  <2> QED  BY <2>2 DEF kind
<1>3. n \in DOMAIN g.nodes
  BY <1>2 DEF Orders
<1>4. Settled(job, s) /\ s.first = b.first
  BY <1>2, TurnTracks
<1> HIDE DEF n, s
<1>5. ok => Settled(job, u)
  BY <1>1, <1>2, <1>3, <1>4, FirstForwardTracks
<1>6. ok \in BOOLEAN
  BY DEF Constraints, ForwardIsCurrent, AllStaged
<1> HIDE DEF ok, u
<1> QED  BY <1>1, <1>2, <1>5, <1>6, ExecutedTracks

LEMMA RecomputeStepTracks ==
    ASSUME Inv, Tracked, Recompute
    PROVE  Tracked'
<1> DEFINE n    == Head(orders).node
           s    == Turn(b)
           node == Original(s, n)
           ok   == /\ Constraints(b)
                   /\ BackwardIsCurrent(s)
                   /\ AllStaged(s, node.ins)
                   /\ Elements(node.outs) \cap DOMAIN s.staged = {}
           u    == IF ok THEN Recomputed(s, n, node) ELSE s
<1>1. IsNext("ComputeForward") /\ Execute(ok, u) /\ n \in DOMAIN b.first
  BY DEF Recompute
<1>2. pc = "build" /\ IsJob(job) /\ Settled(job, b) /\ job.policy # "none"
  <2> DEFINE kind == "ComputeForward"
  <2>1. IsNext(kind) /\ kind \in {"ComputeForward", "ForgetForward"}
    BY <1>1
  <2> HIDE DEF kind
  <2> QED  BY <2>1, TrackedNext
<1>3. Settled(job, s) /\ s.first = b.first
  BY <1>2, TurnTracks
<1>4. ok \in BOOLEAN
  BY DEF Constraints, BackwardIsCurrent, AllStaged
<1> HIDE DEF n, s
<1>5. ok => Settled(job, Recomputed(s, n, node))
  BY <1>1, <1>2, <1>3, RecomputedTracks
<1>6. ok => Settled(job, u)
  BY <1>5
<1> HIDE DEF ok, u
<1> QED  BY <1>1, <1>2, <1>4, <1>6, ExecutedTracks

LEMMA ForgetStagedTracks ==
    ASSUME Inv, Tracked, ForgetStaged
    PROVE  Tracked'
<1> DEFINE v  == Head(orders).value
           s  == Turn(b)
           ok == Constraints(b) /\ AllStaged(s, <<v>>)
           u  == IF ok THEN Forgotten(s, v) ELSE s
<1>1. IsNext("ForgetForward") /\ Execute(ok, u)
  BY DEF ForgetStaged
<1>2. pc = "build" /\ IsJob(job) /\ Settled(job, b) /\ job.policy # "none"
  <2> DEFINE kind == "ForgetForward"
  <2>1. IsNext(kind) /\ kind \in {"ComputeForward", "ForgetForward"}
    BY <1>1
  <2> HIDE DEF kind
  <2> QED  BY <2>1, TrackedNext
<1>3. Settled(job, s)
  BY <1>2, TurnTracks
<1>4. ok \in BOOLEAN
  BY DEF Constraints, AllStaged
<1> HIDE DEF v, s
<1>5. ok => Settled(job, Forgotten(s, v))
  BY <1>2, <1>3, ForgottenTracks
<1>6. ok => Settled(job, u)
  BY <1>5
<1> HIDE DEF ok, u
<1> QED  BY <1>1, <1>2, <1>4, <1>6, ExecutedTracks

LEMMA ComputeGradientsTrack ==
    ASSUME Inv, Tracked, ComputeGradients
    PROVE  Tracked'
<1> DEFINE n  == Head(orders).node
           s  == Turn(b)
           ok == /\ Constraints(b)
                 /\ BackwardIsCurrent(s)
                 /\ n \in DOMAIN s.first
                 /\ AllStaged(s, Original(s, n).ins)
                 /\ AllStaged(s, Original(s, n).outs)
           u  == IF ok THEN GradientsOf(s, n) ELSE s
<1>1. IsNext("ComputeBackward") /\ Execute(ok, u) /\ job.policy # "none"
  BY DEF ComputeGradients
<1>2. pc = "build" /\ IsJob(job) /\ Settled(job, b)
  <2> DEFINE kind == "ComputeBackward"
  <2>1. IsNext(kind)
    BY <1>1
  <2> HIDE DEF kind
  <2> QED  BY <2>1, TrackedNext
<1>3. Settled(job, s)
  BY <1>2, TurnTracks
<1>4. ok \in BOOLEAN
  BY DEF Constraints, BackwardIsCurrent, AllStaged
<1> HIDE DEF n, s
<1>5. ok => (job.twoPhase => s.turned)
  BY DEF BackwardIsCurrent
<1>6. ok => Settled(job, GradientsOf(s, n))
  BY <1>2, <1>3, <1>5, GradientsTrack
<1>7. ok => Settled(job, u)
  BY <1>6
<1> HIDE DEF ok, u
<1> QED  BY <1>1, <1>2, <1>4, <1>7, ExecutedTracks

LEMMA AddGradientStepTracks ==
    ASSUME Inv, Tracked, AddGradient
    PROVE  Tracked'
<1> DEFINE n     == Head(orders).node
           node  == Original(b, n)
           added == AddGradientForNode(b, job.twoPhase, node.op, node.ins, node.outs)
           u     == ScheduleAdded(WithContexts(added, b.first[n]), Part("backward"))
           ok    == TRUE
<1>1. IsNext("ComputeBackward") /\ Execute(ok, u) /\ job.policy = "none"
  BY DEF AddGradient
<1>2. /\ pc = "build" /\ IsJob(job) /\ Settled(job, b) /\ (job.twoPhase => b.turned)
      /\ Head(orders) \in Orders(g) /\ Head(orders).kind = "ComputeBackward"
      /\ DOMAIN b.first = DOMAIN g.nodes
  <2> DEFINE kind == "ComputeBackward"
  <2>1. IsNext(kind)
    BY <1>1
  <2> HIDE DEF kind
  <2>2. /\ pc = "build" /\ IsJob(job) /\ Settled(job, b) /\ (job.twoPhase => b.turned)
        /\ Head(orders) \in Orders(g) /\ Head(orders).kind = kind
        /\ DOMAIN b.first = DOMAIN g.nodes
    BY <1>1, <2>1, TrackedNext
  <2> QED  BY <2>2 DEF kind
<1>3. n \in DOMAIN b.first
  BY <1>2 DEF Orders
<1> HIDE DEF n
<1>4. Settled(job, u) /\ u.turned = b.turned
  <2>1. LET m  == Original(b, n)
            ad == AddGradientForNode(b, job.twoPhase, m.op, m.ins, m.outs)
            dn == ScheduleAdded(WithContexts(ad, b.first[n]), Part("backward"))
        IN  Settled(job, dn) /\ dn.turned = b.turned
    BY <1>1, <1>2, <1>3, AddGradientTracks
  <2> QED  BY <2>1
<1>5. ok \in BOOLEAN
  OBVIOUS
<1> HIDE DEF ok, u
<1> QED  BY <1>1, <1>2, <1>4, <1>5, ExecutedTracks

LEMMA FinishTracks ==
    ASSUME Inv, Tracked, Finish
    PROVE  Tracked'
<1> DEFINE t == ExposeParamGradsAsOutputs(AddRetainedParts(b))
<1>1. /\ IsJob(job) /\ Settled(job, b) /\ job' = job
      /\ pc' = "aborted" \/ (pc' = "done" /\ b' = t)
  BY DEF Inv, Tracked, Finish
<1>2. ReadsKept(job.graph, t)
  BY <1>1, FinishedKeeps
<1> HIDE DEF t
<1>3. CASE pc' = "aborted"
  BY <1>3, TrackedAborted
<1>4. CASE pc' = "done" /\ b' = t
  <2>1. ReadsKept(job.graph, b') /\ pc' # "begin" /\ pc' # "build"
    BY <1>2, <1>4
  <2> QED  BY <1>1, <2>1 DEF Tracked, ReadsKept
<1> QED  BY <1>1, <1>3, <1>4

LEMMA NextTracks ==
    ASSUME Inv, Tracked, [Next]_vars
    PROVE  Tracked'
<1>1. CASE CustomPolicy \/ UNCHANGED vars
  <2>1. job' = job /\ b' = b /\ pc' = pc
    BY <1>1 DEF CustomPolicy, vars
  <2>2. InitialState' = InitialState
    BY <2>1 DEF InitialState, g
  <2>3. Settled(job, b)' = Settled(job, b)
    BY <2>1 DEF Settled
  <2>4. ReadsKept(job.graph, b)' = ReadsKept(job.graph, b)
    BY <2>1 DEF ReadsKept
  <2> QED  BY <2>1, <2>2, <2>3, <2>4 DEF Tracked
<1> QED  BY <1>1, BeginTracks, FirstForwardStepTracks, RecomputeStepTracks, ForgetStagedTracks,
            ComputeGradientsTrack, AddGradientStepTracks, FinishTracks DEF Next, Stopped

\* Every node of the generated graphs reads what was given to its graph or
\* what an earlier node computed, and nothing after it was forgotten, for
\* every model, policy and choice.
THEOREM ReadsAlwaysKept == Spec => []ReadsAreKept
<1>1. Init => Inv /\ Tracked
  <2> SUFFICES ASSUME Init PROVE Tracked
    BY InitPlays
  <2> QED  BY DEF Init, Tracked
<1>2. Inv /\ Tracked /\ [Next]_vars => Inv' /\ Tracked'
  BY NextPlays, NextTracks
<1>3. Tracked => ReadsAreKept
  <2>1. ReadsKept(job.graph, b) = ReadsKept(g, b)
    BY DEF g
  <2> QED  BY <2>1 DEF Tracked, ReadsAreKept, ReadsKept
<1> QED  BY <1>1, <1>2, <1>3, PTL DEF Spec
=============================================================================
