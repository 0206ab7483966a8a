----------------------------- MODULE VEvaluator -----------------------------
(***************************************************************************)
(* elichika's evaluator (parser/vevaluator.py): it walks a canonicalized   *)
(* function once, keeps in Fields what is known of the variables, and adds *)
(* a node to the current graph for each operation.  An if and a for give   *)
(* nodes with subgraphs, whose inputs and outputs are found by comparing   *)
(* the variables before and after each body.                               *)
(*                                                                         *)
(* The state `s' of the walk is a record, threaded through every call:     *)
(*   fields     the Fields of the calls in progress, each a stack of       *)
(*              collections;  heap  the value of each Object;              *)
(*   vals       the Values made so far: type, constant and whether the     *)
(*              value is a dummy;  generated  those a node computes;       *)
(*   nodes      the nodes of the graph under construction;                 *)
(*   ok         FALSE once the evaluation raised an exception.             *)
(***************************************************************************)
EXTENDS Canonicalizer

LOCAL INSTANCE Field

NoConstant == [t |-> "unknown", v |-> 0]

Start == [fields |-> <<>>, heap |-> <<>>, vals |-> <<>>, generated |-> {}, nodes |-> <<>>, ok |-> TRUE]

Failed(s) == [s EXCEPT !.ok = FALSE]

(***************************************************************************)
(* Values, Objects and nodes.                                              *)
(***************************************************************************)
Value(ty, c) == [ty |-> ty, c |-> c, dummy |-> FALSE]

NewValue(s, val) == [s |-> [s EXCEPT !.vals = Append(@, val)], v |-> Len(s.vals) + 1]
NewObject(s, v)  == [s |-> [s EXCEPT !.heap = Append(@, v)], o |-> Len(s.heap) + 1]

has_constant_value(s, v) == s.vals[v].ty = "none" \/ s.vals[v].c # NoConstant
is_not_none_or_any_value(s, v) == s.vals[v].ty \in {"num", "bool", "range"}

\* A value of the same type of which nothing is known; only None is constant by its type.
same_type(s, v, is_dummy) ==
  [ty |-> s.vals[v].ty, c |-> IF s.vals[v].ty = "none" THEN None ELSE NoConstant, dummy |-> is_dummy]
generate_value_with_same_type(s, v, is_dummy) == NewValue(s, same_type(s, v, is_dummy))

Node(k, op, ins, outs) == [k |-> k, op |-> op, ins |-> ins, outs |-> outs, subs |-> <<>>, exit_cond |-> 0]

add_node(s, node) ==
  [s EXCEPT !.nodes = Append(@, node), !.generated = @ \cup {node.outs[i] : i \in 1..Len(node.outs)}]

\* What an expression gives: the state after it and an Object.  0 is no Object.
Gives(s, o) == [s |-> s, o |-> o]

\* A new node with one output, and the Object that holds the output.
Computed(s, k, op, ins, val) ==
  Then(NewValue(s, val), LAMBDA r :
  Then(NewObject(add_node(r.s, Node(k, op, ins, << r.v >>)), r.v), LAMBDA b : Gives(b.s, b.o)))

\* return_value_or_obj: an assignment shares the value of numbers, booleans and
\* None but gives the variable an Object of its own; ranges are shared whole.
return_value_or_obj(s, o) ==
  IF s.vals[s.heap[o]].ty \in {"num", "bool", "none"}
  THEN LET b == NewObject(s, s.heap[o]) IN Gives(b.s, b.o)
  ELSE Gives(s, o)

(***************************************************************************)
(* Types and constants of results.                                         *)
(***************************************************************************)
\* veval_bin: a number on the right gives a number, anything else a value of no type.
veval_bin(s, l, r) ==
  IF s.vals[r].ty = "num" THEN Value("num", NoConstant) ELSE Value("unknown", NoConstant)

veval_unary_not(s, v) ==
  IF s.vals[v].ty \in {"num", "bool"} THEN same_type(s, v, FALSE) ELSE Value("unknown", NoConstant)

\* Python's and / or of the known operands, where an unknown one is None.
veval_multiary(s, op, vs) ==
  LET cs   == [i \in 1..Len(vs) |-> s.vals[vs[i]].c]
      And_ == IF \A i \in 1..Len(cs) : cs[i] = Bool(TRUE) THEN Bool(TRUE)
              ELSE cs[CHOOSE i \in 1..Len(cs) : cs[i] # Bool(TRUE) /\ \A j \in 1..(i - 1) : cs[j] = Bool(TRUE)]
      Or_  == IF \E i \in 1..Len(cs) : cs[i] = Bool(TRUE) THEN Bool(TRUE) ELSE Last(cs)
  IN IF \A i \in 1..Len(vs) : s.vals[vs[i]].ty = "bool"
     THEN Value("bool", IF op = "and" THEN And_ ELSE Or_)
     ELSE Value("unknown", NoConstant)

\* A comparison of two constants is decided by the evaluator.
veval_compare(s, op, l, r) ==
  Value("bool", IF has_constant_value(s, l) /\ has_constant_value(s, r)
                THEN Relates(op, s.vals[l].c, s.vals[r].c) ELSE NoConstant)

(***************************************************************************)
(* Histories of all fields: what a body took in and left.                  *)
(***************************************************************************)
push_histories(s) == [s EXCEPT !.fields = [i \in 1..Len(@) |-> push_history(@[i])]]

pop_histories(s) ==
  [s EXCEPT !.fields = [i \in 1..Len(@) |-> pop_history(@[i])],
            !.heap = FoldLeft(LAMBDA h, field : Restored(field, h), @, s.fields)]

\* A variable is a field and a name.
InputsOf(s) ==
  [k \in UNION {{i} \X get_inputs(s.fields[i]) : i \in 1..Len(s.fields)} |->
     Top(s.fields[k[1]]).inputs[k[2]].value]

OutputsOf(s) ==
  [k \in UNION {{i} \X get_outputs(s.fields[i], s.heap) : i \in 1..Len(s.fields)} |->
     LET o == Top(s.fields[k[1]]).attributes[k[2]] IN [obj |-> o, value |-> s.heap[o]]]

\* A variable gets the value: the Object is revised, then given to its attribute.
PutBack(s, k, o, v) ==
  LET heap == [s.heap EXCEPT ![o] = v] IN
  [s EXCEPT !.heap = heap, !.fields[k[1]] = revise(@, heap, k[2], o)]

-----------------------------------------------------------------------------
RECURSIVE veval_ast(_, _, _, _), veval_list(_, _, _, _), veval_body(_, _, _, _)

\* Several expressions from left to right.
RECURSIVE veval_each(_, _, _, _)
veval_each(p, es, s, f) ==
  IF es = <<>> THEN [s |-> s, os |-> <<>>]
  ELSE Then(veval_ast(p, Head(es), s, f), LAMBDA first :
       Then(veval_each(p, Tail(es), first.s, f), LAMBDA rest :
         [s |-> rest.s, os |-> << first.o >> \o rest.os]))

veval_ast_name(e, s, f) ==
  IF ~has_attribute(s.fields[f], e.x) THEN Gives(Failed(s), 0)
  ELSE Gives([s EXCEPT !.fields[f] = try_get_attribute(@, s.heap, e.x)], ObjectOf(s.fields[f], e.x))

\* A literal: a new Object with a constant value.
veval_ast_constant(e, s) ==
  Then(NewValue(s, Value(e.c.t, e.c)), LAMBDA r :
  Then(NewObject(r.s, r.v), LAMBDA b : Gives(b.s, b.o)))

(***************************************************************************)
(* UserDefinedFunction.vcall: a field of its own, which also has a         *)
(* collection for every history in progress; the parameters are the        *)
(* Objects of the caller; the field is disposed of when the call returns.  *)
(***************************************************************************)
NewField(s) ==
  [i \in 1..(IF s.fields = <<>> THEN 1 ELSE Len(s.fields[1])) |-> EmptyCollection]

Bound(fun, s, os) ==
  FoldLeft(LAMBDA field, i : revise(field, s.heap, fun.params[i], os[i]), NewField(s), [i \in 1..Len(os) |-> i])

vcall(p, fun, s, os) ==
  Then(veval_list(p, fun.body, [s EXCEPT !.fields = Append(@, Bound(fun, s, os))], Len(s.fields) + 1),
       LAMBDA r : Gives([r.s EXCEPT !.fields = Front(@)], r.o))

Operands(e) ==
  CASE e.k \in {"bin", "cmp"} -> << e.l, e.r >>
    [] e.k = "bool" -> e.es
    [] e.k = "call" -> e.args
    [] e.k \in {"not", "range"} -> << e.e >>
    [] OTHER -> <<>>

\* An operation on values that are known by now.
Operation(e, s, vs) ==
  CASE e.k = "bin"   -> Computed(s, "bin_op", e.op, vs, veval_bin(s, vs[1], vs[2]))
    [] e.k = "cmp"   -> Computed(s, "compare", e.op, vs, veval_compare(s, e.op, vs[1], vs[2]))
    [] e.k = "not"   -> Computed(s, "unary_op", "not", vs, veval_unary_not(s, vs[1]))
    [] e.k = "bool"  -> Computed(s, "multiary_op", e.op, vs, veval_multiary(s, e.op, vs))
    [] e.k = "range" -> Computed(s, "generate", "range", vs, Value("range", NoConstant))

veval_ast(p, e, s, f) ==
  CASE e.k = "const" -> veval_ast_constant(e, s)
    [] e.k = "name"  -> veval_ast_name(e, s, f)
    [] OTHER ->
         Then(veval_each(p, Operands(e), s, f), LAMBDA each :
           IF ~each.s.ok THEN Gives(each.s, 0)
           ELSE IF e.k = "call" THEN vcall(p, p[e.f], each.s, each.os)
           ELSE Operation(e, each.s, [i \in 1..Len(each.os) |-> each.s.heap[each.os[i]]]))

veval_ast_assign(p, a, s, f) ==
  Then(veval_ast(p, a.e, s, f), LAMBDA value :
    IF ~value.s.ok THEN value.s
    ELSE Then(return_value_or_obj(value.s, value.o), LAMBDA own :
           [own.s EXCEPT !.fields[f] = revise(@, own.s.heap, a.x, own.o)]))

veval_ast_aug_assign(p, a, s, f) ==
  Then(veval_ast_name(Name(a.x), s, f), LAMBDA target :
  Then(veval_ast(p, a.e, target.s, f), LAMBDA value :
    IF ~value.s.ok THEN value.s
    ELSE Then(generate_value_with_same_type(value.s, value.s.heap[target.o], FALSE), LAMBDA r :
           [add_node(r.s, Node("aug_assign", "+", << r.s.heap[target.o], r.s.heap[value.o] >>, << r.v >>))
              EXCEPT !.heap[target.o] = r.v])))

(***************************************************************************)
(* A body of an if: evaluated in a history and a graph of its own, or not  *)
(* at all when the test is known to be the other way.                      *)
(***************************************************************************)
Decided(s, test, b) ==
  has_constant_value(s, test) /\ s.vals[test].ty \in {"bool", "num"} /\ s.vals[test].c.v = Bool(b).v

veval_body(p, statements, s, f) ==
  Then(veval_list(p, statements, [push_histories(s) EXCEPT !.nodes = <<>>], f).s, LAMBDA r :
    [s |-> [pop_histories(r) EXCEPT !.nodes = s.nodes],
     nodes |-> r.nodes, ins |-> InputsOf(r), outs |-> OutputsOf(r)])

(***************************************************************************)
(* The inputs of an if: one per value that a variable looked up by a body  *)
(* had outside; the body that looked it up knows it by the same value, the *)
(* other one gets a new value.  `entries' pairs a value with the two.      *)
(***************************************************************************)
Side(body, k, r) == IF k \in DOMAIN body.ins THEN body.ins[k] ELSE r.v

IfInputs(s, true, false) ==
  LET Outer(k)  == IF k \in DOMAIN true.ins THEN true.ins[k] ELSE false.ins[k]
      FirstKey(v) == IF \E k \in DOMAIN true.ins : true.ins[k] = v
                     THEN CHOOSE k \in DOMAIN true.ins : true.ins[k] = v
                     ELSE CHOOSE k \in DOMAIN false.ins : Outer(k) = v
      AddEntry(v, acc) ==
        Then(generate_value_with_same_type(acc.s, v, FALSE), LAMBDA t :
        Then(generate_value_with_same_type(t.s, v, FALSE), LAMBDA u :
          [s |-> u.s,
           entries |-> Append(acc.entries, [v |-> v, t |-> Side(true, FirstKey(v), t), f |-> Side(false, FirstKey(v), u)])]))
  IN FoldSet(AddEntry, [s |-> s, entries |-> <<>>], {Outer(k) : k \in DOMAIN true.ins \cup DOMAIN false.ins})

(***************************************************************************)
(* The outputs of an if: one per variable that a body leaves changed.  The *)
(* body that does not change it passes its input on, or a dummy when the   *)
(* variable does not exist outside.  The variable then holds the output of *)
(* the node: in the Object of the one body that changed it, or, when both  *)
(* did, in the Object it has outside, or a new one.                        *)
(***************************************************************************)
PassedOn(s, body, k, entry, other) ==
  IF k \in DOMAIN body.outs THEN [s |-> s, v |-> body.outs[k].value]
  ELSE IF entry # 0 THEN [s |-> s, v |-> entry]
  ELSE generate_value_with_same_type(s, other, TRUE)

AfterIf(s, k, true, false, v) ==
  CASE k \notin DOMAIN false.outs -> PutBack(s, k, true.outs[k].obj, v)
    [] k \notin DOMAIN true.outs  -> PutBack(s, k, false.outs[k].obj, v)
    [] has_attribute(s.fields[k[1]], k[2]) ->
         [s EXCEPT !.fields[k[1]] = try_get_attribute(@, s.heap, k[2]),
                   !.heap[ObjectOf(s.fields[k[1]], k[2])] = v]
    [] OTHER ->
         Then(NewObject(s, v), LAMBDA new : [new.s EXCEPT !.fields[k[1]] = revise(@, new.s.heap, k[2], new.o)])

\* The entry of a variable, if a body looked it up.
EntryOf(k, true, false, entries) ==
  IF k \notin DOMAIN true.ins \cup DOMAIN false.ins THEN [t |-> 0, f |-> 0]
  ELSE LET outer == IF k \in DOMAIN true.ins THEN true.ins[k] ELSE false.ins[k]
       IN entries[CHOOSE i \in 1..Len(entries) : entries[i].v = outer]

IfOutput(acc, k, true, false, entries) ==
  Then(EntryOf(k, true, false, entries), LAMBDA entry :
  Then(PassedOn(acc.s, true, k, entry.t, IF k \in DOMAIN true.outs THEN 0 ELSE false.outs[k].value), LAMBDA t :
  Then(PassedOn(t.s, false, k, entry.f, t.v), LAMBDA u :
  Then(generate_value_with_same_type(u.s, IF ~is_not_none_or_any_value(u.s, t.v) /\ is_not_none_or_any_value(u.s, u.v)
                                          THEN u.v ELSE t.v, FALSE), LAMBDA out :
    [s |-> AfterIf(out.s, k, true, false, out.v),
     outs |-> Append(acc.outs, out.v), touts |-> Append(acc.touts, t.v), fouts |-> Append(acc.fouts, u.v)]))))

Subgraph(ins, nodes, outs) == [ins |-> ins, nodes |-> nodes, outs |-> outs]

IfNode(cond, entries, true, false, res) ==
  [Node("if", "if", << cond >> \o [i \in 1..Len(entries) |-> entries[i].v], res.outs) EXCEPT
     !.subs = << Subgraph([i \in 1..Len(entries) |-> entries[i].t], true.nodes, res.touts),
                 Subgraph([i \in 1..Len(entries) |-> entries[i].f], false.nodes, res.fouts) >>]

veval_ast_if(p, a, s, f) ==
  Then(veval_ast(p, a.test, s, f), LAMBDA test :
  IF ~test.s.ok THEN test.s ELSE
  Then(test.s.heap[test.o], LAMBDA cond :
  Then(veval_body(p, IF Decided(test.s, cond, FALSE) THEN <<>> ELSE a.body, test.s, f), LAMBDA true :
  Then(veval_body(p, IF Decided(test.s, cond, TRUE) THEN <<>> ELSE a.orelse, true.s, f), LAMBDA false :
  IF ~false.s.ok THEN false.s ELSE
  Then(IfInputs(false.s, true, false), LAMBDA ins :
  Then(FoldSet(LAMBDA k, acc : IfOutput(acc, k, true, false, ins.entries),
               [s |-> ins.s, outs |-> <<>>, touts |-> <<>>, fouts |-> <<>>],
               DOMAIN true.outs \cup DOMAIN false.outs), LAMBDA res :
    add_node(res.s, IfNode(cond, ins.entries, true, false, res))))))))

(***************************************************************************)
(* A for: the body is evaluated once, from the values the variables have   *)
(* before the loop.  Each variable the body looks up or changes is carried *)
(* from trip to trip; one that does not exist outside starts as a dummy.   *)
(* The variable #keepgoing, if the body knows it, is the condition.        *)
(***************************************************************************)
Taken(s, k, ins, outs) ==
  IF k \in DOMAIN ins THEN [s |-> s, outer |-> ins[k], inner |-> ins[k]]
  ELSE Then(generate_value_with_same_type(s, outs[k].value, TRUE), LAMBDA dummy :
       Then(generate_value_with_same_type(dummy.s, outs[k].value, FALSE), LAMBDA first :
         [s |-> [first.s EXCEPT !.generated = @ \cup {first.v}], outer |-> dummy.v, inner |-> first.v]))

ForEntry(acc, k, ins, outs) ==
  Then(IF k \in DOMAIN outs THEN outs[k].value ELSE ins[k], LAMBDA left :
  Then(Taken(acc.s, k, ins, outs), LAMBDA taken :
  Then(generate_value_with_same_type(taken.s, left, FALSE), LAMBDA out :
    [s |-> IF k \in DOMAIN outs THEN PutBack(out.s, k, outs[k].obj, out.v) ELSE out.s,
     inputs |-> Append(acc.inputs, taken.outer), bins |-> Append(acc.bins, taken.inner),
     bouts |-> Append(acc.bouts, left), outs |-> Append(acc.outs, out.v)])))

KeepGoing_never_looked_up(s, f, body_cond) == body_cond
KeepGoing(s, f, body_cond) ==
  IF has_attribute(s.fields[f], keepgoing) THEN ValueOf(s.fields[f], s.heap, keepgoing) ELSE body_cond

\* The body's own values: the trip counter, the condition, the sequence, and
\* the item that the loop's variable holds.
ForHead(s, f, x, iter) ==
  Then(generate_value_with_same_type(s, iter, FALSE), LAMBDA binner :
  Then(NewValue([push_histories(binner.s) EXCEPT !.nodes = <<>>], Value("num", NoConstant)), LAMBDA counter :
  Then(NewValue(counter.s, Value("bool", NoConstant)), LAMBDA bcond :
  Then(NewValue(bcond.s, Value("num", NoConstant)), LAMBDA target :
  Then(NewObject(target.s, target.v), LAMBDA obj :
    [s |-> [add_node(obj.s, Node("for_generator", "at", << binner.v, counter.v >>, << target.v >>))
              EXCEPT !.fields[f] = revise(@, obj.s.heap, x, obj.o)],
     counter |-> counter.v, cond |-> bcond.v, sequence |-> binner.v])))))

ForNode(iter, head, nodes, res) ==
  [Node("for", "for", << iter >> \o res.inputs, res.outs) EXCEPT
     !.subs = << Subgraph(res.bins, nodes, res.bouts) >>, !.exit_cond = head.cond]

veval_ast_for(p, a, s, f) ==
  Then(veval_ast(p, a.iter, s, f), LAMBDA it :
  IF ~it.s.ok THEN it.s ELSE
  Then(it.s.heap[it.o], LAMBDA iter :
  Then(ForHead(it.s, f, a.x, iter), LAMBDA head :
  Then(veval_list(p, a.body, head.s, f).s, LAMBDA r :
  IF ~r.ok THEN r ELSE
  Then(generate_value_with_same_type([pop_histories(r) EXCEPT !.nodes = it.s.nodes], iter, FALSE), LAMBDA iterout :
  Then(InputsOf(r), LAMBDA ins :
  Then(OutputsOf(r), LAMBDA outs :
  Then(FoldSet(LAMBDA k, acc : ForEntry(acc, k, ins, outs),
               [s |-> iterout.s, inputs |-> <<>>,
                bins |-> << head.counter, head.cond, head.sequence >>,
                bouts |-> << KeepGoing(r, f, head.cond), head.sequence >>, outs |-> << iterout.v >>],
               DOMAIN ins \cup DOMAIN outs), LAMBDA res :
    add_node(res.s, ForNode(iter, head, r.nodes, res))))))))))

\* Statements in order, until one of them returns an Object.
veval_list(p, ss, s, f) ==
  IF ss = <<>> \/ ~s.ok THEN Gives(s, 0)
  ELSE LET a == Head(ss) IN
       CASE a.k = "return" -> veval_ast(p, a.e, s, f)
         [] a.k = "assign" -> veval_list(p, Tail(ss), veval_ast_assign(p, a, s, f), f)
         [] a.k = "aug"    -> veval_list(p, Tail(ss), veval_ast_aug_assign(p, a, s, f), f)
         [] a.k = "if"     -> veval_list(p, Tail(ss), veval_ast_if(p, a, s, f), f)
         [] a.k = "for"    -> veval_list(p, Tail(ss), veval_ast_for(p, a, s, f), f)
         [] a.k \in {"break", "continue"} -> veval_list(p, Tail(ss), s, f)

(***************************************************************************)
(* convert_model: the arguments become values of their types of which      *)
(* nothing is known, forward is called on them, and the value of the       *)
(* Object it returns is the output of the graph.                           *)
(***************************************************************************)
Arguments(args) ==
  [Start EXCEPT !.vals = [i \in 1..Len(args) |-> Value(args[i].t, NoConstant)],
                !.heap = [i \in 1..Len(args) |-> i], !.generated = 1..Len(args)]

convert_model(p, args) ==
  Then(vcall(p, p["forward"], Arguments(args), [i \in 1..Len(args) |-> i]), LAMBDA r :
    [s |-> r.s, ok |-> r.s.ok /\ r.o # 0,
     graph |-> Subgraph([i \in 1..Len(args) |-> i], r.s.nodes, IF r.o = 0 THEN <<>> ELSE << r.s.heap[r.o] >>)])

=============================================================================
