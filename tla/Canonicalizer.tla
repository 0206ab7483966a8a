---------------------------- MODULE Canonicalizer ----------------------------
(***************************************************************************)
(* The canonicalizer of elichika (parser/canonicalizer.py): a function     *)
(* with break, continue and return becomes one whose control flow is       *)
(* carried by flags.  After a statement that may leave the block, every    *)
(* statement is guarded by the flags that may be set; a loop that may stop *)
(* ends with the break of an if on the flags, and leaves in #keepgoing     *)
(* whether it goes on; the function returns #returned_value at its end.    *)
(*                                                                         *)
(* The transformer walks the statements in order and remembers, for each   *)
(* enclosing loop and function, whether a continue, a break or a return    *)
(* was met so far: `st' is those three stacks, threaded through the walk.  *)
(***************************************************************************)
EXTENDS PythonProgram, SequencesExt

keepgoing       == "#keepgoing"
breaked(id)     == "#breaked_" \o ToString(id)
continued(id)   == "#continued_" \o ToString(id)
returned(id)    == "#returned_" \o ToString(id)
returned_value  == "#returned_value"

NoStacks == [for_continued |-> <<>>, for_breaked |-> <<>>, func_returned |-> <<>>]

stack_has_flags(stack) == stack # <<>> /\ Last(stack)
SetFlag(stack)         == [stack EXCEPT ![Len(stack)] = TRUE]

\* The condition of the guard of a statement: no flag that may be set is set.
Guards(st) ==
  (IF stack_has_flags(st.for_continued) THEN << Not(Name(continued(Len(st.for_continued)))) >> ELSE <<>>)
  \o (IF stack_has_flags(st.for_breaked) THEN << Not(Name(breaked(Len(st.for_breaked)))) >> ELSE <<>>)
  \o (IF stack_has_flags(st.func_returned) THEN << Not(Name(returned(Len(st.func_returned)))) >> ELSE <<>>)

\* One condition as it is, several under a boolean operator.
Joined(Op(_), conds) == IF Len(conds) = 1 THEN conds[1] ELSE Op(conds)

\* generic_visit puts the guard that held before the statement around what becomes of it.
Guarded(st, statement) ==
  IF Guards(st) = <<>> THEN statement ELSE If(Joined(And, Guards(st)), << statement >>, <<>>)

\* What a statement becomes, and the stacks after it.
Visited(statements, st) == [out |-> statements, st |-> st]

RECURSIVE VisitBlock(_, _), visit_For(_, _)

visit_If(s, st) ==
  LET body   == VisitBlock(s.body, st)
      orelse == VisitBlock(s.orelse, body.st)
  IN Visited(<< Guarded(st, If(s.test, body.out, orelse.out)) >>, orelse.st)

(***************************************************************************)
(* The body of a loop starts by clearing the flags that the body may set   *)
(* and ends, when the body may break or a return was met in the function,  *)
(* by setting #keepgoing and breaking.                                     *)
(***************************************************************************)
LoopFlags_breaks_only(st) ==
  IF Last(st.for_breaked) THEN << Name(breaked(Len(st.for_breaked))) >> ELSE <<>>
LoopFlags(st) ==
  (IF Last(st.for_breaked) THEN << Name(breaked(Len(st.for_breaked))) >> ELSE <<>>)
  \o (IF stack_has_flags(st.func_returned) THEN << Name(returned(Len(st.func_returned))) >> ELSE <<>>)

LoopHead(st) ==
  (IF Last(st.for_breaked)
   THEN << Assign(breaked(Len(st.for_breaked)), Const(Bool(FALSE))) >> ELSE <<>>)
  \o (IF Last(st.for_continued)
      THEN << Assign(continued(Len(st.for_continued)), Const(Bool(FALSE))) >> ELSE <<>>)

LoopTail(st) ==
  IF LoopFlags(st) = <<>> THEN <<>>
  ELSE LET cond == Joined(Or, LoopFlags(st)) IN
       << Assign(keepgoing, Not(cond)), If(cond, << Break >>, <<>>) >>

visit_For(s, st) ==
  LET inside == [st EXCEPT !.for_continued = Append(@, FALSE), !.for_breaked = Append(@, FALSE)]
      body   == VisitBlock(s.body, inside)
      loop   == For(s.x, s.iter, LoopHead(body.st) \o body.out \o LoopTail(body.st))
  IN Visited(<< Guarded(st, loop) >>,
             [body.st EXCEPT !.for_continued = Front(@), !.for_breaked = Front(@)])

\* A return keeps its guard; its two assignments take the place of the statement.
visit_Return(s, st) ==
  LET set == << Assign(returned(Len(st.func_returned)), Const(Bool(TRUE))), Assign(returned_value, s.e) >>
  IN Visited(IF Guards(st) = <<>> THEN set ELSE << If(Joined(And, Guards(st)), set, <<>>) >>,
             [st EXCEPT !.func_returned = SetFlag(@)])

\* A continue and a break lose the guard that generic_visit made: the
\* replacement is returned in its place.
visit_Continue(s, st) ==
  Visited(<< Assign(continued(Len(st.for_continued)), Const(Bool(TRUE))) >>,
          [st EXCEPT !.for_continued = SetFlag(@)])

visit_Break(s, st) ==
  Visited(<< Assign(breaked(Len(st.for_breaked)), Const(Bool(TRUE))) >>,
          [st EXCEPT !.for_breaked = SetFlag(@)])

Visit(s, st) ==
  CASE s.k = "if"       -> visit_If(s, st)
    [] s.k = "for"      -> visit_For(s, st)
    [] s.k = "return"   -> visit_Return(s, st)
    [] s.k = "continue" -> visit_Continue(s, st)
    [] s.k = "break"    -> visit_Break(s, st)
    [] s.k \in {"assign", "aug"} -> Visited(<< Guarded(st, s) >>, st)

VisitBlock(ss, st) ==
  IF ss = <<>> THEN Visited(<<>>, st)
  ELSE LET first == Visit(Head(ss), st)
           rest  == VisitBlock(Tail(ss), first.st)
       IN Visited(first.out \o rest.out, rest.st)

\* The function starts with no value to return and returns it at its end.
visit_FunctionDef(fun) ==
  LET body == VisitBlock(fun.body, [NoStacks EXCEPT !.func_returned = << FALSE >>])
      head == << Assign(returned_value, Const(None)) >>
              \o (IF Last(body.st.func_returned)
                  THEN << Assign(returned(1), Const(Bool(FALSE))) >> ELSE <<>>)
  IN Function(fun.params, head \o body.out \o << Return(Name(returned_value)) >>)

\* Every user function is canonicalized on its own when it is first called.
Canonicalize(p) == [f \in DOMAIN p |-> visit_FunctionDef(p[f])]

=============================================================================
