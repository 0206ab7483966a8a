----------------------------- MODULE TypeTerms -----------------------------
(***************************************************************************)
(* The types of elichika's type inference (typing/types.py): what they     *)
(* are, how variables are solved (unify), when one type is part of another *)
(* (is_subtype) and what the two sides of an if have in common (join).     *)
(*                                                                         *)
(* A type is a term.  A number that is known and a dimension that is known *)
(* are a set of one integer, an unknown one is the empty set.  Strings,    *)
(* dtypes and user classes behave like None here, dictionaries like a pair *)
(* of lists.  A Python type object changes only by TyVar.set: `vars` holds *)
(* the variables that are set.                                             *)
(***************************************************************************)
EXTENDS Integers, Sequences, FiniteSets
LOCAL INSTANCE SequencesExt
LOCAL INSTANCE TLC

BoolKind == 0    \* NumKind
IntKind  == 1
FloatKind == 2

Unknown  == {}
Known(n) == {n}

TyNone         == [k |-> "none"]
TyNum(kind, v) == [k |-> "num", kind |-> kind, value |-> v]
TyInt(v)       == TyNum(IntKind, v)
TyBool         == TyNum(BoolKind, Unknown)
TyList(t)      == [k |-> "list", ty |-> t]
TyTuple(ts)    == [k |-> "tuple", tys |-> ts]     \* of fixed length
TyTuples(t)    == [k |-> "tuples", ty |-> t]      \* of any length
TyOptional(t)  == [k |-> "optional", ty |-> t]
TyTensor(dims) == [k |-> "tensor", shape |-> dims]
TyVar(i)       == [k |-> "var", i |-> i]

IsVar(t) == t.k = "var"
OfKinds(s, t, a, b) == s.k = a /\ t.k = b
-----------------------------------------------------------------------------
RECURSIVE Deref(_, _)
\* deref, of all classes; TyOptional has none.  What copy_ty copies is the
\* same term.
Deref(vars, t) ==
    CASE t.k = "var"   -> IF t.i \in DOMAIN vars THEN Deref(vars, vars[t.i]) ELSE t
      [] t.k \in {"list", "tuples"} -> [t EXCEPT !.ty = Deref(vars, @)]
      [] t.k = "tuple" -> [t EXCEPT !.tys = [i \in DOMAIN t.tys |-> Deref(vars, t.tys[i])]]
      [] OTHER         -> t

RECURSIVE Resolve(_, _)
\* The type with all its variables replaced, also inside a TyOptional.
Resolve(vars, t) ==
    LET d == Deref(vars, t)
    IN  CASE d.k \in {"list", "tuples", "optional"} -> [d EXCEPT !.ty = Resolve(vars, @)]
          [] d.k = "tuple" -> [d EXCEPT !.tys = [i \in DOMAIN d.tys |-> Resolve(vars, d.tys[i])]]
          [] OTHER -> d

RECURSIVE VarsIn(_)
\* The variables written in a type.
VarsIn(t) ==
    CASE t.k = "var"   -> {t.i}
      [] t.k \in {"list", "tuples", "optional"} -> VarsIn(t.ty)
      [] t.k = "tuple" -> UNION {VarsIn(t.tys[i]) : i \in DOMAIN t.tys}
      [] OTHER         -> {}

RECURSIVE Occur(_, _, _)
\* occur: a TyOptional is not looked into.
Occur(vars, v, t) ==
    CASE t.k = "var"   -> t = v \/ (t.i \in DOMAIN vars /\ Occur(vars, v, vars[t.i]))
      [] t.k \in {"list", "tuples"} -> Occur(vars, v, t.ty)
      [] t.k = "tuple" -> \E i \in DOMAIN t.tys : Occur(vars, v, t.tys[i])
      [] OTHER         -> FALSE
-----------------------------------------------------------------------------
RECURSIVE IsSubtype(_, _)
\* is_subtype.
IsSubtype(s, t) ==
    CASE s.k = "none"                     -> t.k \in {"none", "optional"}
      [] OfKinds(s, t, "optional", "optional") -> IsSubtype(s.ty, t.ty)
      [] IsVar(s)                         -> s = t
      [] OfKinds(s, t, "num", "num")      -> s.kind <= t.kind
      [] OfKinds(s, t, "list", "list")    -> IsSubtype(s.ty, t.ty) /\ IsSubtype(t.ty, s.ty)
      [] OfKinds(s, t, "tuple", "tuple") /\ Len(s.tys) = Len(t.tys) ->
             \A i \in DOMAIN s.tys : IsSubtype(s.tys[i], t.tys[i])
      [] OfKinds(s, t, "tuple", "tuples") -> \A i \in DOMAIN s.tys : IsSubtype(s.tys[i], t.ty)
      [] OfKinds(s, t, "tuples", "tuples") -> IsSubtype(s.ty, t.ty)
      [] OfKinds(s, t, "tensor", "tensor") ->
             /\ Len(s.shape) = Len(t.shape)
             /\ \A i \in DOMAIN s.shape : t.shape[i] \in {Unknown, s.shape[i]}
      [] OTHER -> FALSE

\* A result of Join: `exact` is a history variable, FALSE if what the types
\* say of a value was thrown away without saying so in the result.
Joined(t)  == [ok |-> TRUE, ty |-> t, exact |-> TRUE]
JoinError  == [ok |-> FALSE, ty |-> TyNone, exact |-> TRUE]
Wrap(r, F(_)) == [r EXCEPT !.ty = F(@)]

RECURSIVE Join(_, _, _), Joins(_, _), TupleGet(_, _)

\* joins starts from a new variable, seen later if there is no type, or only
\* None.  It is 0 here: the caller gives it a number.
Joins(vars, ts) ==
    FoldLeft(LAMBDA r, t :
                 IF ~r.ok THEN r
                 ELSE LET j == Join(vars, r.ty, t)
                      IN  [j EXCEPT !.exact = @ /\ r.exact],
             Joined(TyVar(0)), ts)

\* TyTuple.get: one type for all elements.
TupleGet(vars, t) ==
    IF t.k = "tuples" THEN Joined(t.ty)
    ELSE Wrap(Joins(vars, t.tys), LAMBDA u : Deref(vars, u))

JoinTuples(vars, s, t) ==
    LET js == [i \in DOMAIN s.tys |-> Join(vars, s.tys[i], t.tys[i])]
    IN  IF \A i \in DOMAIN js : js[i].ok
        THEN [ok |-> TRUE, ty |-> TyTuple([i \in DOMAIN js |-> js[i].ty]),
              exact |-> \A i \in DOMAIN js : js[i].exact]
        ELSE JoinError

JoinNums(s, t) ==
    TyNum(IF s.kind >= t.kind THEN s.kind ELSE t.kind,
          IF s.value = t.value THEN s.value ELSE Unknown)

\* join.
Join(vars, a, b) ==
    LET s == Deref(vars, a)
        t == Deref(vars, b)
        Inner(u) == IF u.k = "optional" THEN u.ty ELSE u
        Opt(u)   == IF u.k = "optional" THEN u ELSE TyOptional(u)
    IN  CASE OfKinds(s, t, "none", "none") -> Joined(TyNone)
          [] s.k = "none" /\ t.k # "none"  -> Joined(Opt(t))
          [] s.k # "none" /\ t.k = "none"  -> Joined(Opt(s))
          [] "none" \notin {s.k, t.k} /\ "optional" \in {s.k, t.k} ->
                 Wrap(Join(vars, Inner(s), Inner(t)), TyOptional)
          [] IsVar(s) /\ t.k \notin {"none", "optional"} -> Joined(t)
          [] IsVar(t) /\ s.k \notin {"none", "optional", "var"} -> Joined(s)
          [] OfKinds(s, t, "num", "num") -> Joined(JoinNums(s, t))
          [] OfKinds(s, t, "list", "list") /\ IsSubtype(s, t) ->
                 [Joined(s) EXCEPT !.exact = Resolve(vars, s) = Resolve(vars, t)]
          [] OfKinds(s, t, "tuple", "tuple") /\ Len(s.tys) = Len(t.tys) ->
                 JoinTuples(vars, s, t)
          [] {s.k, t.k} \subseteq {"tuple", "tuples"}
             /\ ~(OfKinds(s, t, "tuple", "tuple") /\ Len(s.tys) = Len(t.tys)) ->
                 LET x == TupleGet(vars, s)
                     y == TupleGet(vars, t)
                 IN  IF x.ok /\ y.ok
                     THEN LET j == Join(vars, x.ty, y.ty)
                          IN  Wrap([j EXCEPT !.exact = @ /\ x.exact /\ y.exact], TyTuples)
                     ELSE JoinError
          [] OfKinds(s, t, "tensor", "tensor") /\ Len(s.shape) = Len(t.shape) ->
                 Joined(TyTensor([i \in DOMAIN s.shape |->
                     IF s.shape[i] = t.shape[i] THEN s.shape[i] ELSE Unknown]))
          [] OTHER -> JoinError
-----------------------------------------------------------------------------
Solved(vars) == [ok |-> TRUE, vars |-> vars]
UnifyError(vars) == [ok |-> FALSE, vars |-> vars]
SetVar(vars, v, t) == (v.i :> t) @@ vars

RECURSIVE Unify(_, _, _)

\* Mutation of UnifyAll: what earlier elements set is not seen by later ones.
UnifyAllApart(vars, ss, ts) ==
    FoldLeft(LAMBDA r, i : IF r.ok THEN Unify(vars, ss[i], ts[i]) ELSE r,
             Solved(vars), [i \in DOMAIN ss |-> i])

\* unify, for the elements of two tuples: one after the other, and what was
\* set before an error stays set.
UnifyAll(vars, ss, ts) ==
    FoldLeft(LAMBDA r, i : IF r.ok THEN Unify(r.vars, ss[i], ts[i]) ELSE r,
             Solved(vars), [i \in DOMAIN ss |-> i])

\* Mutation of UnifyVar: no occurs check.
UnifyVarBlindly(vars, v, t) ==
    IF v = t THEN Solved(vars) ELSE Solved(SetVar(vars, v, t))

UnifyVar(vars, v, t) ==
    CASE v = t                          -> Solved(vars)
      [] v # t /\ Occur(vars, v, t)     -> UnifyError(vars)
      [] v # t /\ ~Occur(vars, v, t)    -> Solved(SetVar(vars, v, t))

\* unify.  The value of a number and the dimensions of a tensor are not
\* compared.
Unify(vars, a, b) ==
    LET s == Deref(vars, a)
        t == Deref(vars, b)
    IN  CASE IsVar(s)               -> UnifyVar(vars, s, t)
          [] IsVar(t) /\ ~IsVar(s)  -> UnifyVar(vars, t, s)
          [] OfKinds(s, t, "none", "none") -> Solved(vars)
          [] OfKinds(s, t, "optional", "optional") -> Unify(vars, s.ty, t.ty)
          [] OfKinds(s, t, "num", "num") /\ s.kind = t.kind -> Solved(vars)
          [] OfKinds(s, t, "list", "list") -> Unify(vars, s.ty, t.ty)
          [] OfKinds(s, t, "tuple", "tuple") /\ Len(s.tys) = Len(t.tys) ->
                 UnifyAll(vars, s.tys, t.tys)
          [] {s.k, t.k} \subseteq {"tuple", "tuples"}
             /\ ~(OfKinds(s, t, "tuple", "tuple") /\ Len(s.tys) = Len(t.tys)) ->
                 LET x == TupleGet(vars, s)
                     y == TupleGet(vars, t)
                 IN  IF x.ok /\ y.ok THEN Unify(vars, x.ty, y.ty) ELSE UnifyError(vars)
          [] OfKinds(s, t, "tensor", "tensor") /\ Len(s.shape) = Len(t.shape) -> Solved(vars)
          [] OfKinds(s, t, "tensor", "num") /\ s.shape = <<>> -> Solved(vars)
          [] OfKinds(s, t, "num", "tensor") /\ t.shape = <<>> -> Solved(vars)
          [] OTHER -> UnifyError(vars)
=============================================================================
