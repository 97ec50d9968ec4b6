--------------------------------- MODULE Codegen ---------------------------------
(***************************************************************************)
(* The native back end (src/src/codegen.rs, src/src/codegen/): which       *)
(* functions of a MIR program it takes, when it gives up the whole build,  *)
(* and what the binary it makes does: the MIR as it stands, with integers  *)
(* that wrap, tuples and structs that are copied, and nothing checked.     *)
(* Integers have one width here (Bits), as in the interpreter.             *)
(***************************************************************************)
EXTENDS Mirgen, Skipping

-----------------------------------------------------------------------------
(* The types of the locals.                                                *)

\* The type of an operand, Unknown unless it is plain.
OperandTy(o, tys) ==
  CASE o.k = "copy" -> IF o.proj = <<>> THEN tys[o.local] ELSE Unknown
    [] o.val.k = "int" -> TInt("i32")
    [] o.val.k = "bool" -> TBool
    [] OTHER -> Unknown

Comparisons == {"==", "<", "<=", ">="}

RvalueTy(rv, tys) ==
  LET ts == [i \in DOMAIN rv.args |-> OperandTy(rv.args[i], tys)]
  IN CASE rv.k = "struct" -> TStruct(rv.op)
       [] rv.k = "tuple" -> IF Unknown \in ToSet(ts) THEN Unknown ELSE TTuple(ts)
       [] rv.op \in Comparisons \cup {"&&", "||", "!"} -> TBool
       [] OTHER -> IF ts[1] # Unknown THEN ts[1] ELSE Last(ts)

\* A local of unknown type has the type of what is first assigned to it.
ResolveLocal(tys, s) ==
  IF s.to.proj = <<>> /\ tys[s.to.local] = Unknown THEN [tys EXCEPT ![s.to.local] = RvalueTy(s.rv, tys)] ELSE tys

StmtsOf(f) == FlattenSeq([b \in DOMAIN f.blocks |-> f.blocks[b].stmts])
RECURSIVE InferLocalTypes(_, _)
InferLocalTypes(tys, ss) ==
  LET next == FoldLeft(ResolveLocal, tys, ss) IN IF next = tys THEN tys ELSE InferLocalTypes(next, ss)

-----------------------------------------------------------------------------
(* What is left out.                                                       *)

IsScalar(t) == t.k \in {"bool", "int", "intlit"}

\* The fields of a tuple or a struct.
AggFields(t, decls) ==
  IF t.k = "tuple" THEN t.args
  ELSE LET fields == FieldsOf(t.name, [decls |-> decls])
       IN [i \in DOMAIN fields |-> ResolveType(fields[i].args[1], decls)]

TyUnsupported(t, decls) ==
  ~ \/ IsScalar(t) \/ t = TUnit
    \/ t.k \in {"tuple", "struct"} /\ \A i \in DOMAIN AggFields(t, decls) : IsScalar(AggFields(t, decls)[i])
    \/ IsOption(t) /\ IsScalar(t.args[1])

IsFnConst(o) == o.k = "const" /\ o.val.k = "fn"

UnsupportedReason(f, tys) ==
  \/ \E i \in DOMAIN tys : TyUnsupported(tys[i], f.decls)
  \/ \E s \in ToSet(StmtsOf(f)) :
       \/ DerefProj \in ToSet(s.to.proj)
       \/ \E i \in DOMAIN s.rv.args : IsFnConst(s.rv.args[i])
  \/ \E b \in ToSet(f.blocks) : b.term.k = "call" /\ \E i \in DOMAIN b.term.args : IsFnConst(b.term.args[i])

CallTargets(f) == {b.term.fn : b \in {c \in ToSet(f.blocks) : c.term.k = "call"}}

-----------------------------------------------------------------------------
(* What fails the build: an operand that is not what its place asks for.   *)

\* The type at a place; "none" where there is no such place.
RECURSIVE LeafTy(_, _, _)
LeafTy(t, proj, decls) ==
  CASE proj = <<>> -> t
    [] t.k \in {"tuple", "struct"} /\ Head(proj) \in DOMAIN AggFields(t, decls) ->
         LeafTy(AggFields(t, decls)[Head(proj)], Tail(proj), decls)
    [] OTHER -> Ty("none", "", <<>>)
PlaceTy(p, tys, decls) == LeafTy(tys[p.local], p.proj, decls)

\* "bool" and "int" are types of LLVM that do not mix.
Class(o, tys, decls) ==
  LET k == IF o.k = "const" THEN o.val.k ELSE PlaceTy(o, tys, decls).k
  IN IF k = "intlit" THEN "int" ELSE k
Scalars(os, tys, decls) == \A i \in DOMAIN os : Class(os[i], tys, decls) \in {"bool", "int"}

AssignFails(s, tys, decls) ==
  LET d == PlaceTy(s.to, tys, decls)
      os == s.rv.args
  IN ~ CASE d.k = "none" -> FALSE
         [] d = TUnit /\ s.to.proj = <<>> -> TRUE                \* nothing is generated
         [] s.rv.k = "use" /\ ~ IsScalar(d) ->
              os[1].k = "copy" /\ Class(os[1], tys, decls) \notin {"unit", "none"}
         [] s.rv.k = "binary" -> Scalars(os, tys, decls) /\ Class(os[1], tys, decls) = Class(os[2], tys, decls)
         [] OTHER -> Scalars(os, tys, decls)

TermFails(term, tys, f, fns) ==
  ~ CASE term.k \in {"if", "switch"} -> Scalars(<<term.args[1]>>, tys, f.decls)
      [] term.k = "call" ->
           LET g == fns[term.fn]
           IN /\ Len(term.args) = g.params
              /\ \A i \in DOMAIN term.args :
                   IF IsScalar(g.types[i + 1]) \/ g.types[i + 1] = TUnit
                   THEN Scalars(<<term.args[i]>>, tys, f.decls)
                   ELSE term.args[i].k = "copy" /\ Class(term.args[i], tys, f.decls) \notin {"unit", "none"}
      [] OTHER -> TRUE

GenFails(f, tys, fns) ==
  \/ \E s \in ToSet(StmtsOf(f)) : AssignFails(s, tys, f.decls)
  \/ \E b \in ToSet(f.blocks) : TermFails(b.term, tys, f, fns)

\* A binary, no binary because main was left out, or an error.
Built(kind, fns) == [kind |-> kind, fns |-> fns]
Build(fns) ==
  LET tys == [n \in DOMAIN fns |-> InferLocalTypes(fns[n].types, StmtsOf(fns[n]))]
      calls == [n \in DOMAIN fns |-> CallTargets(fns[n])]
      kept == Remaining(calls, Skipped(calls, {n \in DOMAIN fns : UnsupportedReason(fns[n], tys[n])}))
  IN IF \E n \in kept : GenFails(fns[n], tys[n], fns) THEN Built("failed", <<>>)
     ELSE IF "main" \notin kept THEN Built("pending", <<>>)
     ELSE Built("binary", [n \in kept |-> [blocks |-> fns[n].blocks, types |-> tys[n]]])

-----------------------------------------------------------------------------
(* The binary.  A machine is the locals of a function, how far it has got  *)
(* ("ok", "undefined") and the blocks it may still run.            *)

VUndef == V("undef", 0, "", <<>>)
VBeyond == V("beyond", 0, "", <<>>)       \* there is no behaviour beyond this

ReadField(v, i) == IF v.k = "undef" THEN v ELSE v.vs[i]
ReadOperand(o, locals) ==
  IF o.k = "const" THEN o.val ELSE FoldLeft(ReadField, locals[o.local], o.proj)

IsUndef(v) == v.k = "undef"

\* Nothing is checked: what the machine does on these is its own matter.
Sdiv(a, b) == IF b = 0 \/ (a = MinInt /\ b = -1) THEN VBeyond ELSE VInt(Quot(a, b))

\* && and || take both operands as they are.
BinaryOf(o, a, b) ==
  CASE IsUndef(a) \/ IsUndef(b) -> VUndef
    [] o = "==" -> VBool(a = b)
    [] o = "<" -> VBool(a.n < b.n)
    [] o = "<=" -> VBool(a.n <= b.n)
    [] o = ">=" -> VBool(a.n >= b.n)
    [] o = "&&" -> VBool(a = VBool(TRUE) /\ b = VBool(TRUE))
    [] o = "||" -> VBool(a = VBool(TRUE) \/ b = VBool(TRUE))
    [] o = "/" -> Sdiv(a.n, b.n)
    [] OTHER -> VInt(Wrap(CASE o = "+" -> a.n + b.n [] o = "-" -> a.n - b.n [] OTHER -> a.n * b.n))

ValueOf(rv, vs) ==
  CASE rv.k = "use" -> vs[1]
    [] rv.k = "tuple" -> V("tuple", 0, "", vs)
    [] rv.k = "struct" -> V("struct", 0, rv.op, vs)
    [] rv.k = "binary" -> BinaryOf(rv.op, vs[1], vs[2])
    [] IsUndef(vs[1]) -> VUndef
    [] rv.op = "!" -> VBool(vs[1] = VBool(FALSE))
    [] OTHER -> VInt(Wrap(-vs[1].n))

\* Aggregates are flat: a place is a local or a field of one.
WriteTo(m, place, v) ==
  CASE v.k = "beyond" -> [m EXCEPT !.sig = "undefined"]
    [] place.proj = <<>> -> [m EXCEPT !.locals[place.local] = v]
    [] OTHER -> [m EXCEPT !.locals[place.local].vs[place.proj[1]] = v]

Exec(m, s) ==
  IF m.sig # "ok" THEN m
  ELSE WriteTo(m, s.to, ValueOf(s.rv, [i \in DOMAIN s.rv.args |-> ReadOperand(s.rv.args[i], m.locals)]))

Entered(f, vs, steps) ==
  [sig |-> "ok", steps |-> steps,
   locals |-> [l \in DOMAIN f.types |-> IF l \in 2..Len(vs) + 1 THEN vs[l - 1] ELSE VUndef]]

RECURSIVE RunBlock(_, _, _, _)

\* Where a block goes next, 0 for nowhere.
NextBlock(term, v) ==
  CASE term.k = "goto" -> term.to[1]
    [] IsUndef(v) -> 0
    [] term.k = "if" -> IF v = VBool(TRUE) THEN term.to[1] ELSE term.to[2]
    [] OTHER -> IF v = term.args[2].val THEN term.to[1] ELSE term.to[2]

CallFn(f, term, m, fns) ==
  LET g == fns[term.fn]
      vs == [i \in DOMAIN term.args |-> ReadOperand(term.args[i], m.locals)]
      Back(r) == IF r.sig # "ok" THEN [m EXCEPT !.sig = r.sig]
                 ELSE RunBlock(f, term.to[1], [m EXCEPT !.locals[term.dest] = r.locals[1], !.steps = r.steps], fns)
  IN Back(RunBlock(g, 1, Entered(g, vs, m.steps), fns))

EndOfBlock(f, term, m, fns) ==
  LET v == ReadOperand(term.args[1], m.locals)
      next == NextBlock(term, v)
  IN CASE m.sig # "ok" \/ term.k = "return" -> m
       [] term.k = "call" -> CallFn(f, term, m, fns)
       [] term.k = "unreachable" -> [m EXCEPT !.sig = "undefined"]
       [] next = 0 -> [m EXCEPT !.sig = "undefined"]
       [] OTHER -> RunBlock(f, next, m, fns)

RunBlock(f, b, m, fns) ==
  IF m.steps = 0 THEN [m EXCEPT !.sig = "steps"]
  ELSE EndOfBlock(f, f.blocks[b].term, FoldLeft(Exec, [m EXCEPT !.steps = @ - 1], f.blocks[b].stmts), fns)

\* Enough blocks for a program that the interpreter runs within Fuel.
BlockLimit == 40 * Fuel

\* The exit code: what main returns if it is an integer, 0 otherwise.
Execute(fns) ==
  LET r == RunBlock(fns["main"], 1, Entered(fns["main"], <<>>, BlockLimit), fns)
  IN [sig |-> r.sig, val |-> IF IsInt(fns["main"].types[1]) THEN r.locals[1] ELSE VInt(0)]
=============================================================================
