--------------------------------- MODULE Types ---------------------------------
(***************************************************************************)
(* The type checker of La3 (src/src/ty.rs, src/src/typeck/): the relations *)
(* between types, the type it infers for every expression, and what it     *)
(* reports.  Integers of several widths, nil, tuples, lists, ranges,       *)
(* Option and Result, structs, references, functions and unions.           *)
(*                                                                         *)
(* The type table is kept in the tree: Infer leaves in st.out the node     *)
(* with the type of every expression in it.  st.ok says that nothing has   *)
(* been reported.                                                          *)
(***************************************************************************)
EXTENDS Syntax

Ty(k, name, args) == [k |-> k, name |-> name, args |-> args]

TIntLit == Ty("intlit", "", <<>>)
TInt(kind) == Ty("int", kind, <<>>)
TBool == Ty("bool", "", <<>>)
TStr == Ty("str", "", <<>>)
TNil == Ty("nil", "", <<>>)
TUnit == Ty("unit", "", <<>>)
TNever == Ty("never", "", <<>>)
Unknown == Ty("unknown", "", <<>>)
TTuple(ts) == Ty("tuple", "", ts)
TList(t) == Ty("list", "", <<t>>)
TRange(t) == Ty("range", "", <<t>>)
TOption(t) == Ty("enum", "Option", <<t>>)
TResult(t) == Ty("enum", "Result", <<t>>)
TStruct(n) == Ty("struct", n, <<>>)
TRef(t) == Ty("ref", "", <<t>>)
TFn(ps, r) == Ty("fn", "", Append(ps, r))

IntKinds == {"i8", "i16", "i32", "i64", "u8", "u16", "u32", "u64", "isize", "usize"}

IsOption(t) == t.k = "enum" /\ t.name = "Option"
IsInt(t) == t.k \in {"int", "intlit"}

\* Does the type include nil?
IsOptional(t) == \/ t \in {TNil, Unknown}
                 \/ IsOption(t)
                 \/ t.k = "union" /\ TNil \in ToSet(t.args)

StripNil(t) ==
  LET rest == SelectSeq(t.args, LAMBDA m : m # TNil)
  IN CASE IsOption(t) -> t.args[1]
       [] t.k = "union" -> IF Len(rest) = 1 THEN rest[1] ELSE Ty("union", "", rest)
       [] OTHER -> IF t = TNil THEN Unknown ELSE t

WrapOptional(t, optional) == IF optional /\ ~ IsOptional(t) THEN TOption(t) ELSE t

RECURSIVE ElemTy(_)
ElemTy(t) == CASE t.k \in {"list", "array", "range"} -> t.args[1]
               [] t.k = "ref" -> ElemTy(t.args[1])
               [] OTHER -> Unknown

-----------------------------------------------------------------------------
(* Relations.                                                              *)

\* May a value of type a go where b is expected?
RECURSIVE Assignable(_, _)
Assignable(a, b) ==
  LET Each(x, y) == Len(x) = Len(y) /\ \A i \in DOMAIN x : Assignable(x[i], y[i])
      Either(x, y) == Assignable(x, y) \/ Assignable(y, x)
      option == IF IsOption(a) THEN a ELSE b
      other == IF IsOption(a) THEN b ELSE a
      inner == option.args[1]
  IN CASE a = b \/ Unknown \in {a, b} \/ a = TNever -> TRUE
       [] {a.k, b.k} = {"intlit", "int"} -> TRUE
       [] TNil \in {a, b} -> IsOptional(IF a = TNil THEN b ELSE a)
       [] IsOption(a) \/ IsOption(b) ->                \* `T | nil` and Option<T>
            CASE IsOption(other) -> Assignable(inner, other.args[1])
              [] other.k = "union" -> \A m \in ToSet(other.args) : m = TNil \/ Either(m, inner)
              [] OTHER -> Either(other, inner)
       [] a.k = b.k /\ a.k \in {"enum", "struct"} -> a.name = b.name /\ Each(a.args, b.args)
       [] a.k \in {"list", "array"} /\ b.k \in {"list", "array"} -> Each(a.args, b.args)
       [] a.k = b.k /\ a.k \in {"range", "tuple", "ref"} -> Each(a.args, b.args)
       [] a.k = "ref" -> Assignable(a.args[1], b)
       [] b.k = "ref" -> Assignable(a, b.args[1])
       [] a.k = "union" -> \A m \in ToSet(a.args) : Assignable(m, b)
       [] b.k = "union" -> \E m \in ToSet(b.args) : Assignable(a, m)
       [] OTHER -> a.k = "fn" /\ b.k = "fn" /\ Each(a.args, b.args)

Unifies(a, b) == Assignable(a, b) \/ Assignable(b, a)

\* The type of two branches, or of two elements.
RECURSIVE JoinTy(_, _)
JoinTy(a, b) ==
  LET other == IF TNil = a THEN b ELSE a
  IN CASE a \in {Unknown, TNever} -> b
       [] b \in {Unknown, TNever} -> a
       [] {a.k, b.k} = {"intlit", "int"} -> IF a = TIntLit THEN b ELSE a
       [] a # b /\ TNil \in {a, b} -> WrapOptional(other, TRUE)
       [] a.k = b.k /\ a.k \in {"enum", "list"} /\ a.name = b.name ->
            Ty(a.k, a.name, [i \in DOMAIN a.args |-> JoinTy(a.args[i], b.args[i])])
       [] OTHER -> a

\* The operands of arithmetic share a type, or one of them is a literal.
NumJoins(a, b) == \/ Unknown \in {a, b}
                  \/ IsInt(a) /\ a = b
                  \/ {a.k, b.k} = {"intlit", "int"}
NumJoin(a, b) == CASE a = Unknown -> IF IsInt(b) THEN b ELSE Unknown
                   [] b = Unknown -> IF IsInt(a) THEN a ELSE Unknown
                   [] OTHER -> JoinTy(a, b)

\* Unions are flat.
NormalizeUnion(ts) ==
  LET flat == FlattenSeq([i \in DOMAIN ts |-> IF ts[i].k = "union" THEN ts[i].args ELSE <<ts[i]>>])
  IN IF Len(flat) = 1 THEN flat[1] ELSE Ty("union", "", flat)

\* The type an annotation stands for; decls are the structs and aliases.
RECURSIVE ResolveType(_, _)
ResolveType(t, decls) ==
  LET args == [i \in DOMAIN t.args |-> ResolveType(t.args[i], decls)]
      first == IF args = <<>> THEN Unknown ELSE args[1]
  IN CASE t.op = "t_union" -> NormalizeUnion(args)
       [] t.op = "t_ref" -> TRef(first)
       [] t.op = "t_array" -> Ty("array", "", <<first>>)
       [] t.op = "t_tuple" -> IF args = <<>> THEN TUnit ELSE TTuple(args)
       [] t.op = "t_fn" -> Ty("fn", "", args)
       [] t.op = "t_never" -> TNever
       [] t.name \in IntKinds -> TInt(t.name)
       [] t.name \in {"bool", "str", "nil"} -> Ty(t.name, "", <<>>)
       [] t.name \in {"List", "Vec"} -> TList(first)
       [] t.name = "Option" -> TOption(first)
       [] t.name = "Result" -> TResult(first)
       [] \E d \in decls : d.name = t.name ->
            LET d == CHOOSE c \in decls : c.name = t.name
            IN CASE d.op = "struct_decl" -> TStruct(t.name)
                 [] d.op = "enum_decl" -> Ty("enum", t.name, <<>>)
                 [] OTHER -> ResolveType(d.args[1], decls)
       [] OTHER -> Unknown

-----------------------------------------------------------------------------
(* The checker.                                                            *)

Say(st, ty, node) == [st EXCEPT !.ty = ty, !.out = [op |-> node.op, name |-> node.name,
                                                    args |-> node.args, ty |-> ty]]
\* Report unless it holds.
Require(st, holds) == [st EXCEPT !.ok = @ /\ holds]
Expects(st, got, want) == Require(st, Assignable(got, want))
ExpectBool(st, t) == Require(st, t \in {TBool, Unknown})

PushTypes(st) == [st EXCEPT !.scopes = Append(@, <<>>)]
PopTypes(st) == [st EXCEPT !.scopes = Front(@)]
DeclareType(n, t, st) == [st EXCEPT !.scopes[Len(st.scopes)] = (n :> t) @@ @]
InScopes(n, st) == {i \in DOMAIN st.scopes : n \in DOMAIN st.scopes[i]}

Annotated(ts, st) == ResolveType(ts[1], st.decls)

\* The parameters and the result of a function, and what of it has a type.
ParamType(p, st) == IF p.args = <<>> THEN Unknown ELSE Annotated(p.args, st)
RetType(f, st) == LET n == Len(f.args)
                  IN IF n = Len(Params(f)) + 1 THEN TUnit ELSE ResolveType(f.args[n - 1], st.decls)
FnSig(f, st) == TFn([i \in DOMAIN Params(f) |-> ParamType(Params(f)[i], st)], RetType(f, st))

FieldTy(base, n, st) ==
  LET t == IF base.k = "ref" THEN base.args[1] ELSE base
      fields == {f \in UNION {ToSet(d.args) : d \in {c \in st.decls : c.op = "struct_decl" /\ c.name = t.name}} :
                   f.name = n}
      at == CHOOSE i \in 1..3 : ToString(i - 1) = n
  IN CASE t.k = "struct" /\ fields # {} -> Annotated((CHOOSE f \in fields : TRUE).args, st)
       [] t.k = "tuple" /\ \E i \in DOMAIN t.args : ToString(i - 1) = n -> t.args[at]
       [] OTHER -> Unknown
HasField(t, n, st) ==
  CASE t.k = "struct" -> \E d \in st.decls : d.op = "struct_decl" /\ d.name = t.name
                                            /\ \E f \in ToSet(d.args) : f.name = n
    [] t.k = "tuple" -> \E i \in DOMAIN t.args : ToString(i - 1) = n
    [] OTHER -> TRUE

\* The payload types of a variant's pattern.
VariantPayloads(variant, t) ==
  CASE variant = "Err" -> <<TStr>>
    [] variant \in {"Some", "Ok"} -> <<IF t.k = "enum" THEN t.args[1] ELSE Unknown>>
    [] OTHER -> <<>>

RECURSIVE BindTypes(_, _, _)
BindTypesAll(ps, ts, st) ==
  FoldLeftDomain(LAMBDA a, i : IF i <= Len(ts) THEN BindTypes(ps[i], ts[i], a) ELSE a, st, ps)
BindTypes(p, t, st) ==
  LET n == Len(p.args)
      rest == p.op = "p_list" /\ p.name = "rest"
      each == [i \in 1..n |-> IF rest /\ i = n THEN TList(ElemTy(t)) ELSE ElemTy(t)]
  IN CASE p.op = "p_bind" -> DeclareType(p.name, t, st)
       [] p.op = "p_typed" -> DeclareType(p.name, Annotated(p.args, st), st)
       [] p.op = "p_at" -> BindTypes(p.args[1], t, DeclareType(p.name, t, st))
       [] p.op = "p_tuple" ->
            BindTypesAll(p.args, IF t.k = "tuple" /\ Len(t.args) = n THEN t.args
                                 ELSE [i \in 1..n |-> Unknown], st)
       [] p.op = "p_list" -> BindTypesAll(p.args, each, st)
       [] p.op = "p_variant" -> BindTypesAll(p.args, VariantPayloads(p.name, t), st)
       [] p.op = "p_or" -> BindTypesAll(p.args, [i \in 1..n |-> t], st)
       [] p.op = "p_struct" ->
            FoldLeft(LAMBDA a, f : DeclareType(f.name, FieldTy(TStruct(p.name), f.name, a), a), st, p.args)
       [] OTHER -> st

-----------------------------------------------------------------------------
(* Exhaustiveness.                                                         *)

\* The variants a pattern names; what it asks of their payloads is not looked at.
RECURSIVE CoveredVariants(_)
CoveredVariants(p) ==
  CASE p.op = "p_variant" -> {p.name}
    [] p.op = "p_nil" -> {"None"}
    [] p.op \in {"p_or", "p_at"} -> UNION {CoveredVariants(p.args[i]) : i \in DOMAIN p.args}
    [] OTHER -> {}

EnumVariants == [Option |-> {"Some", "None"}, Result |-> {"Ok", "Err"}]

\* The members of a union that a pattern narrows to.
Narrowed(p, decls) == CASE p.op = "p_typed" -> {ResolveType(p.args[1], decls)}
                        [] p.op = "p_nil" -> {TNil}
                        [] OTHER -> {}

Cover(patterns, t, decls) ==
  \/ t = Unknown
  \/ \E p \in patterns : p.op \in {"p_wild", "p_bind"}
  \/ t.k = "enum" /\ EnumVariants[t.name] \subseteq UNION {CoveredVariants(p) : p \in patterns}
  \/ t = TBool /\ {PBool("true"), PBool("false")} \subseteq patterns
  \/ t.k = "union" /\ ToSet(t.args) \subseteq UNION {Narrowed(p, decls) : p \in patterns}

ExhaustiveDespiteGuards(t, arms, decls) == Cover({a.args[1] : a \in ToSet(arms)}, t, decls)
\* Only arms without a guard count.
Exhaustive(t, arms, decls) ==
  Cover({a.args[1] : a \in {b \in ToSet(arms) : Len(b.args) = 2}}, t, decls)

-----------------------------------------------------------------------------
(* Inference.                                                              *)

RECURSIVE Infer(_, _)

\* The rest of a program with an error is not looked at.
Untyped(e) == [op |-> e.op, name |-> e.name, args |-> e.args, ty |-> Unknown]

Before(node, rest) == [rest EXCEPT !.out = <<node>> \o @]

RECURSIVE InferAll(_, _)
InferAll(es, st) ==
  IF ~ st.ok \/ es = <<>> THEN [st |-> st, out |-> [i \in DOMAIN es |-> Untyped(es[i])]]
  ELSE LET Then(h) == Before(h.out, InferAll(Tail(es), h)) IN Then(Infer(Head(es), st))
TypesOf(nodes) == [i \in DOMAIN nodes |-> nodes[i].ty]
With(e, nodes) == Node(e.op, e.name, nodes)
Joined(ts) == FoldLeft(JoinTy, Unknown, ts)

\* A block, as deep as its last expression.
InferBlock(b, st) ==
  LET Close(r) == Say(PopTypes(r.st), IF b.op = "value" THEN r.st.ty ELSE TUnit, With(b, r.out))
  IN Close(InferAll(b.args, PushTypes(st)))

InferBinary(o, l, r, st) ==
  CASE o \in {"+", "-", "*", "/"} ->
         [Require(st, NumJoins(l, r)) EXCEPT !.ty = IF NumJoins(l, r) THEN NumJoin(l, r) ELSE Unknown]
    [] o \in {"&&", "||"} -> [ExpectBool(ExpectBool(st, l), r) EXCEPT !.ty = TBool]
    [] OTHER -> [st EXCEPT !.ty = TBool]

InferUnary(o, t, st) ==
  CASE o = "!" -> [ExpectBool(st, t) EXCEPT !.ty = TBool]
    [] o = "-" -> [Require(st, IsInt(t) \/ t = Unknown) EXCEPT !.ty = t]
    [] o = "*" -> [st EXCEPT !.ty = IF t.k = "ref" THEN t.args[1] ELSE t]
    [] OTHER -> [st EXCEPT !.ty = TRef(t)]

InferIf(e, st) ==
  LET c == Infer(e.args[1], st)
      then == InferBlock(e.args[2], ExpectBool(c, c.ty))
      els == Infer(e.args[3], then)
  IN IF Len(e.args) = 2 THEN Say(then, TUnit, With(e, <<c.out, then.out>>))
     ELSE Say(Require(els, Unifies(then.ty, els.ty)), JoinTy(then.ty, els.ty),
              With(e, <<c.out, then.out, els.out>>))

\* An arm, or the pattern and body of a loop, for a value of type t.
InferArm(arm, t, st) ==
  LET bound == BindTypes(arm.args[1], t, PushTypes(st))
      Close(body, guards) == Say(PopTypes(body), body.ty,
                                 With(arm, <<arm.args[1]>> \o guards \o <<body.out>>))
      Guarding(g) == Close(Infer(Last(arm.args), ExpectBool(g, g.ty)), <<g.out>>)
  IN IF Len(arm.args) = 3 THEN Guarding(Infer(arm.args[2], bound))
     ELSE Close(Infer(Last(arm.args), bound), <<>>)

RECURSIVE InferArms(_, _, _)
InferArms(arms, t, st) ==
  IF ~ st.ok \/ arms = <<>> THEN [st |-> st, out |-> [i \in DOMAIN arms |-> Untyped(arms[i])]]
  ELSE LET Then(h) == Before(h.out, InferArms(Tail(arms), t, h))
       IN Then(InferArm(Head(arms), t, st))

\* Neighbouring arms agree on a type.
InferMatch(e, st) ==
  LET scrut == Infer(e.args[1], st)
      Close(arms, ts) ==
        Say(Require(arms.st, /\ Exhaustive(scrut.ty, Tail(e.args), st.decls)
                             /\ \A i \in DOMAIN Tail(ts) : Unifies(ts[i], ts[i + 1])),
            Joined(ts), With(e, <<scrut.out>> \o arms.out))
      Agree(arms) == Close(arms, TypesOf(arms.out))
  IN Agree(InferArms(Tail(e.args), scrut.ty, scrut))

InferLoopAsUnit(e, st) ==
  LET body == InferBlock(e.args[1], [st EXCEPT !.breaks = Append(@, <<>>)])
  IN Say([body EXCEPT !.breaks = Front(@)], TUnit, With(e, <<body.out>>))
InferLoop(e, st) ==
  LET body == InferBlock(e.args[1], [st EXCEPT !.breaks = Append(@, <<>>)])
  IN Say([body EXCEPT !.breaks = Front(@)],
         IF Last(body.breaks) = <<>> THEN TUnit ELSE Joined(Last(body.breaks)), With(e, <<body.out>>))

InferWhile(e, st) ==
  LET c == Infer(e.args[1], st)
      body == InferBlock(e.args[2], ExpectBool(c, c.ty))
  IN Say(body, TUnit, With(e, <<c.out, body.out>>))

InferEach(e, st) ==                                          \* while let, for
  LET over == Infer(e.args[1], st)
      Close(arm) == Say(arm, TUnit, With(e, <<over.out, arm.out>>))
  IN Close(InferArm(e.args[2], IF e.op = "for" THEN ElemTy(over.ty) ELSE over.ty, over))

\* expected are the parameter types the context asks for.
InferClosure(e, expected, st) ==
  LET ps == Params(e)
      ts == [i \in DOMAIN ps |->
               IF ps[i].args = <<>> /\ i <= Len(expected)
               THEN IF expected[i].k = "ref" THEN expected[i].args[1] ELSE expected[i]
               ELSE ParamType(ps[i], st)]
      inner == FoldLeftDomain(LAMBDA a, i : DeclareType(ps[i].name, ts[i], a), PushTypes(st), ps)
      Close(body) == Say(PopTypes(body), TFn(ts, body.ty), With(e, Append(ps, body.out)))
  IN Close(Infer(Last(e.args), inner))

RECURSIVE InferArgs(_, _, _)
InferArgs(es, params, st) ==
  IF ~ st.ok \/ es = <<>> THEN [st |-> st, out |-> [i \in DOMAIN es |-> Untyped(es[i])]]
  ELSE LET want == IF params # <<>> /\ params[1].k = "fn" THEN Front(params[1].args) ELSE <<>>
           Then(h) == Before(h.out, InferArgs(Tail(es), IF params = <<>> THEN <<>> ELSE Tail(params), h))
       IN Then(IF Head(es).op = "closure" THEN InferClosure(Head(es), want, st) ELSE Infer(Head(es), st))

\* Two arguments borrow from one variable, one of them exclusively.
RECURSIVE RootOf(_)
RootOf(e) == CASE e.op = "ident" -> e.name
               [] e.op \in {"index", "field", "field?"} -> RootOf(e.args[1])
               [] OTHER -> ""
BorrowsOf(es, os) == {i \in DOMAIN es : es[i].op = "unary" /\ es[i].name \in os}
BorrowConflict(es) ==
  \E i \in BorrowsOf(es, {"&mut"}), j \in BorrowsOf(es, {"&", "&mut"}) :
    /\ i # j
    /\ RootOf(es[i].args[1]) = RootOf(es[j].args[1]) /\ RootOf(es[i].args[1]) # ""

\* A function of the program goes before a local of its name.
InferCall(e, st) ==
  LET n == e.args[1].name
      known == e.args[1].op = "ident" /\ n \in DOMAIN st.fns
      variant == e.args[1].op = "ident" /\ n \in {"Some", "Ok", "Err"}
      Wrapped(t) == CASE n = "Some" -> TOption(t) [] n = "Ok" -> TResult(t) [] OTHER -> TResult(Unknown)
      Result(sig, args) ==
        CASE variant -> Wrapped(IF args = <<>> THEN Unknown ELSE args[1].ty)
          [] sig.k = "fn" -> Last(sig.args)
          [] OTHER -> Unknown
      Close(callee, sig, args) ==
        Say(Require(args.st, ~ BorrowConflict(Tail(e.args))), Result(sig, args.out),
            With(e, <<callee.out>> \o args.out))
      Apply(callee, sig) ==
        Close(callee, sig, InferArgs(Tail(e.args), IF known THEN Front(sig.args) ELSE <<>>, callee))
      Called(callee) == Apply(callee, IF known THEN st.fns[n] ELSE callee.ty)
  IN Called(IF known \/ variant THEN Say(st, Unknown, e.args[1]) ELSE Infer(e.args[1], st))

\* What the methods of a list, and those of every type, return.
MethodRet(t, m) ==
  CASE m = "len" -> TInt("usize")
    [] m = "is_empty" -> TBool
    [] t.k \in {"list", "array"} /\ m = "push" -> TUnit
    [] t.k \in {"list", "array"} /\ m = "pop" -> TOption(t.args[1])
    [] OTHER -> Ty("none", "", <<>>)

InferMethod(e, st) ==
  LET recv == Infer(e.args[1], st)
      base == IF e.op = "method?" THEN StripNil(recv.ty) ELSE recv.ty
      args == InferAll(Tail(e.args), recv)
      ret == MethodRet(base, e.name)
      strict == base.k \in {"struct", "enum", "str", "list", "array"}
  IN Say(Require(args.st, (ret.k # "none" \/ ~ strict) /\ ~ BorrowConflict(Tail(e.args))),
         WrapOptional(IF ret.k = "none" THEN Unknown ELSE ret, e.op = "method?"),
         With(e, <<recv.out>> \o args.out))

InferField(e, st) ==
  LET recv == Infer(e.args[1], st)
      base == IF e.op = "field?" THEN StripNil(recv.ty) ELSE recv.ty
  IN Say(Require(recv, HasField(base, e.name, st)),
         WrapOptional(FieldTy(base, e.name, st), e.op = "field?"), With(e, <<recv.out>>))

InferStructLit(e, st) ==
  LET inits == InferAll([i \in DOMAIN e.args |-> e.args[i].args[1]], st)
      names == {e.args[i].name : i \in DOMAIN e.args}
      decls == {d \in st.decls : d.op = "struct_decl" /\ d.name = e.name}
      fits(i) == Assignable(inits.out[i].ty, FieldTy(TStruct(e.name), e.args[i].name, st))
  IN Say(Require(inits.st, \A d \in decls : /\ names = {f.name : f \in ToSet(d.args)}
                                            /\ \A i \in DOMAIN e.args : fits(i)),
         TStruct(e.name),
         With(e, [i \in DOMAIN e.args |-> With(e.args[i], <<inits.out[i]>>)]))

\* `?` needs a function that returns an Option or a Result.
InferTry(e, st) ==
  LET r == Infer(e.args[1], st)
      failing == r.ty.k = "enum"
  IN Say(Require(r, r.rets = <<>> \/ Last(r.rets) = Unknown \/ Last(r.rets).k = "enum"),
         IF failing THEN r.ty.args[1] ELSE r.ty,
         Node("try", IF failing THEN r.ty.name ELSE "", <<r.out>>))

\* Worth what its body is worth.
InferTryCatch(e, st) ==
  LET body == InferBlock(e.args[1], st)
      c == e.args[2]
      handler == PopTypes(InferBlock(c.args[1], DeclareType(c.name, Unknown, PushTypes(body))))
      last == IF Len(e.args) = 3 THEN InferBlock(e.args[3], handler) ELSE handler
  IN Say(last, body.ty, With(e, <<body.out, With(c, <<handler.out>>)>>
                                \o (IF Len(e.args) = 3 THEN <<last.out>> ELSE <<>>)))

InferLet(e, st) ==
  LET v == Infer(e.args[1], st)
      typed == Len(e.args) = 3
      t == IF typed THEN ResolveType(e.args[3], st.decls) ELSE v.ty
      checked == IF typed THEN Expects(v, v.ty, t) ELSE v
  IN Say(BindTypes(e.args[2], t, checked), TUnit, With(e, <<v.out>> \o Tail(e.args)))

\* return and break: only an enclosing `loop` takes note of a break's value.
InferLeave(e, st) ==
  LET v == IF e.args = <<>> THEN [st EXCEPT !.ty = TUnit] ELSE Infer(e.args[1], st)
      kept == IF e.op = "return" THEN Expects(v, v.ty, Last(v.rets))
              ELSE IF v.breaks = <<>> THEN v
              ELSE [v EXCEPT !.breaks[Len(v.breaks)] = Append(@, v.ty)]
  IN Say(kept, TUnit, With(e, IF e.args = <<>> THEN <<>> ELSE <<v.out>>))

\* A body must have the type its function declares.
InferFn(f, st) ==
  LET sig == FnSig(f, st)
      ret == Last(sig.args)
      ps == Params(f)
      inner == FoldLeftDomain(LAMBDA a, i : DeclareType(ps[i].name, sig.args[i], a),
                              PushTypes([st EXCEPT !.rets = Append(@, ret)]), ps)
      Close(body) == Say([PopTypes(body) EXCEPT !.rets = Front(@)], sig,
                         With(f, Append(Front(f.args), body.out)))
      Checked(body) == IF ret = TUnit THEN body ELSE Expects(body, body.ty, ret)
  IN Close(Checked(InferBlock(Last(f.args), inner)))

InferConst(e, st) ==
  LET v == Infer(e.args[1], st)
      want == ResolveType(e.args[2], st.decls)
  IN Say(IF Len(e.args) = 2 THEN Expects(v, v.ty, want) ELSE v, TUnit,
         With(e, <<v.out>> \o Tail(e.args)))

InferIdent(n, st) ==
  CASE InScopes(n, st) # {} -> st.scopes[Max(InScopes(n, st))][n]
    [] n \in DOMAIN st.consts -> st.consts[n]
    [] n = "None" -> TOption(Unknown)
    [] n \in DOMAIN st.fns -> st.fns[n]
    [] OTHER -> Unknown

Infer(e, st) ==
  LET parts == InferAll(e.args, st)
      ts == TypesOf(parts.out)
      Made(s, t) == Say(s, t, With(e, parts.out))
  IN CASE ~ st.ok -> Say(st, Unknown, e)
       [] e.op = "int" -> Say(st, TIntLit, e)
       [] e.op = "bool" -> Say(st, TBool, e)
       [] e.op = "nil" -> Say(st, TNil, e)
       [] e.op = "ident" -> Say(st, InferIdent(e.name, st), e)
       [] e.op = "unary" -> LET r == InferUnary(e.name, ts[1], parts.st) IN Made(r, r.ty)
       [] e.op = "binary" -> LET r == InferBinary(e.name, ts[1], ts[2], parts.st) IN Made(r, r.ty)
       [] e.op = "coalesce" -> Made(Require(parts.st, IsOptional(ts[1])), JoinTy(StripNil(ts[1]), ts[2]))
       [] e.op = "assign" -> Made(parts.st, TUnit)
       [] e.op = "tuple" -> Made(parts.st, IF ts = <<>> THEN TUnit ELSE TTuple(ts))
       [] e.op = "list" -> Made(parts.st, TList(Joined(ts)))
       [] e.op = "range" -> Made(parts.st, TRange(IF NumJoins(ts[1], ts[2]) THEN NumJoin(ts[1], ts[2])
                                                  ELSE TIntLit))
       [] e.op = "index" -> Made(parts.st, IF ts[1].k \in {"list", "array"} THEN ts[1].args[1] ELSE Unknown)
       [] e.op = "struct" -> InferStructLit(e, st)
       [] e.op \in Blocks -> InferBlock(e, st)
       [] e.op = "if" -> InferIf(e, st)
       [] e.op = "match" -> InferMatch(e, st)
       [] e.op = "loop" -> InferLoop(e, st)
       [] e.op = "while" -> InferWhile(e, st)
       [] e.op \in {"whilelet", "for"} -> InferEach(e, st)
       [] e.op = "closure" -> InferClosure(e, <<>>, st)
       [] e.op = "call" -> InferCall(e, st)
       [] e.op \in {"method", "method?"} -> InferMethod(e, st)
       [] e.op \in {"field", "field?"} -> InferField(e, st)
       [] e.op = "try" -> InferTry(e, st)
       [] e.op = "trycatch" -> InferTryCatch(e, st)
       [] e.op = "let" -> InferLet(e, st)
       [] e.op \in {"return", "break"} -> InferLeave(e, st)
       [] e.op = "fn" -> InferFn(e, [st EXCEPT !.fns = (e.name :> FnSig(e, st)) @@ @])
       [] e.op = "const" /\ st.scopes = <<>> -> InferConst(e, st)
       [] OTHER -> Say(st, TUnit, e)         \* continue, declarations, a nested const

\* The items: declarations first, then signatures, then the bodies.
CheckTypes(prog) ==
  LET items == ToSet(prog.args)
      named(op) == {i \in items : i.op = op}
      st == [decls |-> named("struct_decl") \cup named("enum_decl") \cup named("alias_decl"),
             fns |-> <<>>, consts |-> <<>>,
             scopes |-> <<>>, rets |-> <<>>, breaks |-> <<>>, ok |-> TRUE, ty |-> TUnit, out |-> prog]
      \* the last declaration of a name counts
      at(op, n) == Last(SelectSeq(prog.args, LAMBDA i : i.op = op /\ i.name = n))
      names(op) == {i.name : i \in named(op)}
      collected == [st EXCEPT
        !.fns = [n \in names("fn") |-> FnSig(at("fn", n), st)],
        !.consts = [n \in names("const") |->
                      IF Len(at("const", n).args) = 1 THEN Unknown
                      ELSE ResolveType(at("const", n).args[2], st.decls)]]
      Close(all) == Say(all.st, TUnit, Node("program", "", all.out))
  IN Close(InferAll(prog.args, collected))
=============================================================================
