---------------------------------- MODULE Hir ----------------------------------
(***************************************************************************)
(* Lowering of the resolved syntax to HIR (src/src/hir.rs): the walk that  *)
(* allocates the binding ids a second time, the desugarings, and the       *)
(* capture sets of closures.                                               *)
(*                                                                         *)
(* HIR has the nodes of the syntax without its sugar, and every name of a  *)
(* local is a binding id.  A try needs the type of its operand: the family *)
(* it belongs to is the name "Result" or "Option" of the node.             *)
(***************************************************************************)
EXTENDS Resolver

\* names are the resolver's bindings, next and synth the next ids to hand out,
\* drift says that a binding site was met whose name the resolver recorded for
\* another, closures what each closure captures, uses, and binds itself.
Lower(res) ==
  [names |-> res.bindings, next |-> 0, synth |-> Len(res.bindings),
   drift |-> FALSE, closures |-> <<>>, out |-> res.out]

Fresh(st) == [st EXCEPT !.synth = @ + 1]
FreshId(st) == BindingId(st.synth)

\* declare(), with the assertion that ties the two walks together.
DeclareNext(n, st) ==
  [st EXCEPT !.next = @ + 1,
             !.drift = @ \/ st.next >= Len(st.names) \/ st.names[st.next + 1] # n]
NextId(st) == BindingId(st.next)

Emit(st, node) == [st EXCEPT !.out = node]
\* A made node, of a type.
Mk(node, ty) == node @@ [ty |-> ty]

-----------------------------------------------------------------------------
(* The captures of a closure: the locals used in its body that nothing     *)
(* inside it binds.  A nested function or constant is passed over: neither *)
(* what it uses nor its own name is seen.                                  *)

RECURSIVE Inside(_)
Inside(e) == IF e.op \in {"fn", "const"} THEN {} ELSE {e} \cup UNION {Inside(e.args[i]) : i \in DOMAIN e.args}

Locals(st) == {BindingId(i) : i \in 0..st.synth - 1}

Used(e) == {n.name : n \in {d \in Inside(e) : d.op = "ident"}}
BoundByPatterns(e) == {n.name : n \in {d \in Inside(e) : d.op \in {"p_bind", "p_at", "p_typed", "param"}}}
Bound(e) == {n.name : n \in {d \in Inside(e) : d.op \in {"p_bind", "p_at", "p_typed", "param", "catch"}}}

CaptureSet(closure, st) == (Used(closure) \cap Locals(st)) \ Bound(closure)

-----------------------------------------------------------------------------
RECURSIVE LowerExpr(_, _)

Preceded(node, st) == Emit(st, <<node>> \o st.out)
Rebuilt(e, st) == Emit(st, [e EXCEPT !.args = st.out])

RECURSIVE LowerAll(_, _)
LowerAll(es, st) ==
  IF st.drift \/ es = <<>> THEN Emit(st, es)
  ELSE LET Then(h) == Preceded(h.out, LowerAll(Tail(es), h)) IN Then(LowerExpr(Head(es), st))

LowerParts(e, st) == Rebuilt(e, LowerAll(e.args, st))

\* `a ?? b`: match a { nil => b, t => t }
DesugarCoalesce(e, st) ==
  LET l == LowerExpr(e.args[1], st)
      r == LowerExpr(e.args[2], l)
      t == FreshId(r)
  IN Emit(Fresh(r), Mk(Match(l.out, <<Arm(PNil, r.out), Arm(PBind(t), Mk(Ident(t), l.out.ty))>>), e.ty))

\* `a?.m`: match a { nil => nil, t => t.m }
MkOptionalMatch(scrut, t, access) ==
  Match(scrut, <<Arm(PNil, Nil), Arm(PBind(t), access)>>)

DesugarOptionalField(e, st) ==
  LET r == LowerExpr(e.args[1], st)
      t == FreshId(r)
  IN Emit(Fresh(r), Mk(MkOptionalMatch(r.out, t, Field(Ident(t), e.name)), e.ty))

DesugarOptionalMethod(e, st) ==
  LET r == LowerExpr(e.args[1], st)
      t == FreshId(r)
      as == LowerAll(Tail(e.args), Fresh(r))
  IN Emit(as, Mk(MkOptionalMatch(r.out, t, Method(Ident(t), e.name, as.out)), e.ty))

\* `x op= e`: x = x op e, lowering the place twice.
DesugarCompound(e, st) ==
  LET place == LowerExpr(e.args[1], st)
      operand == LowerExpr(e.args[1], place)
      rhs == LowerExpr(e.args[2], operand)
        combined == Mk(Binary(e.name, operand.out, rhs.out), operand.out.ty)
  IN Emit(rhs, Mk(Assign("=", place.out, combined), e.ty))

ReturnBlock(e) == Block(<<Return(<<e>>)>>)

\* `e?`: unwrap the payload or return the failure.
DesugarTry(e, st) ==
  LET r == LowerExpr(e.args[1], st)
      v == FreshId(r)
      x == FreshId(Fresh(r))
      Unwrap(variant) == Arm(PVariant(variant, <<PBind(v)>>), Ident(v))
  IN IF e.name = "Result"
     THEN Emit(Fresh(Fresh(r)),
               Mk(Match(r.out, <<Unwrap("Ok"),
                                 Arm(PVariant("Err", <<PBind(x)>>),
                                     ReturnBlock(Call(Ident("Err"), <<Ident(x)>>)))>>), e.ty))
     ELSE Emit(Fresh(r), Mk(Match(r.out, <<Unwrap("Some"), Arm(PVariant("None", <<>>), ReturnBlock(Nil))>>), e.ty))

\* `while let p = e { b }`: loop { match e { p => b, _ => break } }
DesugarWhileLetOnce(e, st) ==
  LET scrut == LowerExpr(e.args[1], st)
      arm == LowerParts(e.args[2], scrut)
  IN Emit(arm, Mk(Match(scrut.out, <<arm.out, Arm(PWild, Block(<<>>))>>), e.ty))
DesugarWhileLet(e, st) ==
  LET scrut == LowerExpr(e.args[1], st)
      arm == LowerParts(e.args[2], scrut)
      test == Mk(Match(scrut.out, <<arm.out, Arm(PWild, Block(<<Break(<<>>)>>))>>), e.ty)
  IN Emit(arm, Mk(Loop(Value(<<test>>)), e.ty))

LowerClosure(e, st) ==
  LET r == LowerParts(e, st)
      own == {BindingId(i) : i \in (st.next..r.next - 1) \cup (st.synth..r.synth - 1)}
  IN [r EXCEPT !.closures = Append(@, [captures |-> CaptureSet(r.out, r), own |-> own,
                                       used |-> Used(r.out) \cap Locals(r)])]

\* A constant: its value, then its id.
LowerConst(e, st) ==
  LET r == LowerParts(e, st)
  IN Emit(DeclareNext(e.name, r), [r.out EXCEPT !.name = NextId(r)])

\* Mutation of LowerSite: the parts first.
LowerSiteAfterParts(e, st) ==
  LET r == LowerParts(e, st)
  IN Emit(DeclareNext(e.name, r), [r.out EXCEPT !.name = NextId(r)])
\* A binding site: its id, then its parts.
LowerSite(e, st) ==
  LET r == LowerParts(e, DeclareNext(e.name, st))
  IN Emit(r, [r.out EXCEPT !.name = NextId(st)])

LowerExpr(e, st) ==
  CASE e.op = "local" -> Emit(st, [e EXCEPT !.op = "ident"])
    [] e.op \in {"p_bind", "p_at", "p_typed", "param", "catch", "fn"} -> LowerSite(e, st)
    [] e.op = "const" -> LowerConst(e, st)
    [] e.op = "coalesce" -> DesugarCoalesce(e, st)
    [] e.op = "try" -> DesugarTry(e, st)
    [] e.op = "whilelet" -> DesugarWhileLet(e, st)
    [] e.op = "assign" /\ e.name # "=" -> DesugarCompound(e, st)
    [] e.op = "method?" -> DesugarOptionalMethod(e, st)
    [] e.op = "field?" -> DesugarOptionalField(e, st)
    [] e.op = "closure" -> LowerClosure(e, st)
    [] OTHER -> LowerParts(e, st)

\* lower(): the functions keep their names, their parameters and bodies do not.
RECURSIVE LowerItems(_, _)
LowerItems(items, st) ==
  IF st.drift \/ items = <<>> THEN Emit(st, items)
  ELSE LET Then(h) == Preceded(h.out, LowerItems(Tail(items), h)) IN Then(LowerParts(Head(items), st))

Lowered(res) == Rebuilt(Node("program", "", <<>>), LowerItems(res.out.args, Lower(res)))
=============================================================================
