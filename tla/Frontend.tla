------------------------------- MODULE Frontend -------------------------------
(***************************************************************************)
(* The front end from end to end (src/src/main.rs, src/src/checker.rs):    *)
(* the text of a program is parsed, its names are resolved, its types are  *)
(* inferred, its borrows are checked; a program without errors is          *)
(* interpreted, and lowered to HIR, to MIR and to a binary.                *)
(*                                                                         *)
(* The moves of the borrow checker are in module Moves.                    *)
(***************************************************************************)
EXTENDS Parser, Printer, Borrows, Codegen, TypeLayout

CONSTANT Sources   (* the programs, each with a layout of its text and whether
                      it is to be run once it has been parsed *)

VARIABLES
  source,    \* the program meant
  stage,     \* what has been done with it
  tree,      \* the program as parsed
  typed,     \* what the type checker leaves
  ran,       \* what interpreting the program leaves
  res,       \* what name resolution leaves
  hir,       \* what lowering leaves
  built      \* what the back end leaves

vars == <<source, stage, tree, typed, ran, res, hir, built>>

Nothing == Node("", "", <<>>)

Init ==
  /\ source \in Sources
  /\ stage = "text"
  /\ tree = Nothing /\ typed = Nothing /\ ran = Nothing /\ res = Nothing /\ hir = Nothing
  /\ built = Nothing

ParseSource ==
  /\ stage = "text"
  /\ \E p \in {Parse(Render(ProgramText(source.prog), source.layout))} :
       /\ tree' = IF p.ok THEN p.out ELSE Nothing
       /\ stage' = IF ~ p.ok THEN "error" ELSE IF source.runs THEN "parsed" ELSE "done"
  /\ UNCHANGED <<source, typed, ran, res, hir, built>>

ResolveNames ==
  /\ stage = "parsed"
  /\ stage' = IF Resolved(tree).ok THEN "resolved" ELSE "error"
  /\ UNCHANGED <<source, tree, typed, ran, res, hir, built>>

InferTypesUnheeded ==
  /\ stage = "resolved"
  /\ typed' = CheckTypes(tree)
  /\ stage' = "typed"
  /\ UNCHANGED <<source, tree, ran, res, hir, built>>
InferTypes ==
  /\ stage = "resolved"
  /\ typed' = CheckTypes(tree)
  /\ stage' = IF typed'.ok THEN "typed" ELSE "error"
  /\ UNCHANGED <<source, tree, ran, res, hir, built>>

CheckOwnership ==
  /\ stage = "typed"
  /\ stage' = IF BorrowsChecked(tree).ok THEN "checked" ELSE "error"
  /\ UNCHANGED <<source, tree, typed, ran, res, hir, built>>

Interpret ==
  /\ stage = "checked"
  /\ ran' = Run(tree)
  /\ stage' = "interpreted"
  /\ UNCHANGED <<source, tree, typed, res, hir, built>>

\* The compiler resolves the checked program once more.
LowerToHir ==
  /\ stage = "interpreted"
  /\ res' = Resolved(typed.out)
  /\ hir' = Lowered(res')
  /\ stage' = "lowered"
  /\ UNCHANGED <<source, tree, typed, ran, built>>

\* The compiler goes on to MIR, and to a binary if it can.
Compile ==
  /\ stage = "lowered"
  /\ built' = Build(MirOf(hir.out))
  /\ stage' = "compiled"
  /\ UNCHANGED <<source, tree, typed, ran, res, hir>>

Next == \/ ParseSource \/ ResolveNames \/ InferTypes \/ CheckOwnership
        \/ Interpret \/ LowerToHir \/ Compile
Spec == Init /\ [][Next]_vars

TypeOK ==
  /\ source \in Sources
  /\ stage \in {"text", "parsed", "resolved", "typed", "checked", "interpreted", "lowered",
                "compiled", "done", "error"}
  /\ stage = "text" => tree = Nothing
  /\ stage \in {"typed", "checked", "interpreted", "lowered", "compiled"} => typed.ok
  /\ (ran # Nothing) = (stage \in {"interpreted", "lowered", "compiled"})
  /\ (hir # Nothing) = (stage \in {"lowered", "compiled"})
  /\ (built # Nothing) = (stage = "compiled")

-----------------------------------------------------------------------------
(* Parsing.                                                                *)

\* The texts that the grammar leaves open and the code settles otherwise than
\* they are meant.
Ops(prog) == {n.op : n \in Nodes(prog)}
OpNames(prog, op) == {n.name : n \in {d \in Nodes(prog) : d.op = op}}

\* `|a: T| e`: the type reads on over the bar.
TypedLastParam(prog) ==
  \E n \in Nodes(prog) : n.op = "closure" /\ Params(n) # <<>> /\ Last(Params(n)).args # <<>>
\* `e as T < x`, `e as T | x`: so does the type of a cast.
RECURSIVE EndsInCast(_)
EndsInCast(e) == \/ e.op = "cast"
                 \/ e.op \in {"unary", "binary", "coalesce", "range", "assign", "await"}
                    /\ EndsInCast(Last(e.args))
CastBefore(prog) ==
  \E n \in Nodes(prog) : n.op = "binary" /\ n.name \in {"<", "|"} /\ EndsInCast(n.args[1])
\* `t.0.1`, `1.0`: a float.
NestedTupleIndex(prog) ==
  \E n \in Nodes(prog) : /\ n.op \in {"field", "field?"} /\ n.name \in Digits
                         /\ n.args[1].op \in {"int", "field", "field?"} /\ n.args[1].name \in Digits
\* `if P { f: x } == p { ... }`, within parentheses too.
RECURSIVE OutsideBlocks(_)
OutsideBlocks(e) ==
  IF e.op \in Blocks THEN {} ELSE {e} \cup UNION {OutsideBlocks(e.args[i]) : i \in DOMAIN e.args}
Heads(n) == CASE n.op \in {"if", "while", "whilelet", "for", "match"} -> {n.args[1]}
              [] n.op = "arm" -> {n.args[i] : i \in 2..Len(n.args) - 1}
              [] OTHER -> {}
StructInHead(prog) ==
  \E h \in UNION {Heads(n) : n \in Nodes(prog)} :
    \E n \in OutsideBlocks(h) : n.op \in {"struct", "p_struct"}
\* `a < b > (c)`: a call with type arguments.
LikeTurbofish(prog) == {"<", ">"} \subseteq OpNames(prog, "binary")
\* `{ f(x, y); z }` and the like, where no keyword asks for a block: a set or a map.
BareBlocks(n) ==
  {e \in CASE n.op \in {"if", "while"} -> {n.args[1]}
           [] n.op = "match" -> {Last(n.args[i].args) : i \in 2..Len(n.args)}
           [] n.op \in {"loop", "trycatch", "catch", "fn", "spawn", "unsafe", "closure", "arm"} -> {}
           [] OTHER -> ToSet(n.args) : e.op \in Blocks}
LikeCollection(prog) ==
  \E b \in UNION {BareBlocks(n) : n \in Nodes(prog)} :
    /\ b.args # <<>> /\ b.args[1].op \notin {"let", "return", "break", "continue", "const", "fn"}
    /\ {",", ":"} \cap ToSet(BlockText(b)) # {}
\* `&mut [T]`: a shared slice.
MutSlice(prog) ==
  \E n \in Nodes(prog) : n.op = "t_ref" /\ n.name = "&mut" /\ n.args[1].op = "t_array"
\* A newline before a statement that starts like the rest of an expression, or after return.
LostIn(text) == \E i \in 2..Len(text) - 1 :
  text[i] = "SEP" /\ (text[i + 1] \in {"-", "|", "||"} \/ text[i - 1] = "return")
LostNewline(prog, layout) == layout = "lines" /\ LostIn(ProgramText(prog))

Ambiguous(src) ==
  \/ TypedLastParam(src.prog) \/ CastBefore(src.prog) \/ NestedTupleIndex(src.prog)
  \/ StructInHead(src.prog) \/ LikeTurbofish(src.prog) \/ LikeCollection(src.prog)
  \/ MutSlice(src.prog)
  \/ LostNewline(src.prog, src.layout)

\* Whatever is nested in whatever, written with no more parentheses than the
\* precedence of the language asks for, on one line, on several or between
\* comments, is read as the program that was meant: binding powers, newline
\* filtering and the lookaheads for blocks, struct literals and type arguments
\* agree.
ParsesBack == stage # "text" /\ ~ Ambiguous(source) => tree = source.prog

-----------------------------------------------------------------------------
(* Types.                                                                  *)

\* Where the type checker knows less than it accepts.

\* An expression whose type it does not know is accepted everywhere.
TypedNodes == {n \in Nodes(typed.out) : "ty" \in DOMAIN n}
Guessed(prog) ==
  \E n \in TypedNodes :
    /\ n.ty = Unknown
    /\ ~ (n.op = "ident" /\ n.name \in Builtins \cup OpNames(prog, "fn"))
    /\ ~ (n.op = "call" /\ n \in UNION {ToSet(b.args) : b \in {c \in Nodes(typed.out) : c.op \in Blocks}})
\* Nor does it look at the operands of comparisons and ranges, at the elements
\* of a list beyond the first, at references among the arguments of a call, or
\* at what has a length; and only nil is no value for `??`.
Unchecked ==
  \E n \in TypedNodes :
    \/ (n.op = "range" \/ (n.op = "binary" /\ n.name = "<")) /\ ~ \A e \in ToSet(n.args) : IsInt(e.ty)
    \/ n.op = "list" /\ \E e \in ToSet(n.args) : ~ Assignable(e.ty, n.ty.args[1])
    \/ n.op = "call" /\ \E e \in ToSet(Tail(n.args)) : e.ty.k = "ref"
    \/ n.op = "method" /\ n.args[1].ty.k # "list"
    \/ n.op = "coalesce" /\ IsOption(n.args[1].ty)
\* Option<T> and T are taken for each other.
Wants(n) ==                                       \* <<type there is, type asked for>>
  CASE n.op = "let" /\ Len(n.args) = 3 -> {<<n.args[1].ty, ResolveType(n.args[3], {})>>}
    [] n.op = "fn" /\ Len(n.args) > Len(Params(n)) + 1 ->
         LET want == ResolveType(n.args[Len(n.args) - 1], {})
         IN {<<Last(n.args).ty, want>>}
            \cup {<<r.args[1].ty, want>> : r \in {d \in Nodes(Last(n.args)) : d.op = "return" /\ d.args # <<>>}}
    [] n.op = "init" -> {<<n.args[1].ty, TInt("i32")>>}
    [] OTHER -> {}
Bridged == \E n \in TypedNodes : \E w \in Wants(n) :
             w[1] \notin {Unknown, TNever} /\ IsOptional(w[1]) # IsOptional(w[2])
\* A function is looked up before a local of its name.
Binders == {"p_bind", "p_at", "p_typed", "param", "catch", "const"}
ShadowsFn(prog) ==
  \/ {n.name : n \in {d \in Nodes(prog) : d.op \in Binders}} \cap OpNames(prog, "fn") # {}
  \/ \E f \in Nodes(prog) : f.op = "fn" /\ f \notin ToSet(prog.args) /\ f.name \in {i.name : i \in ToSet(prog.args)}
\* return and ? in a closure count for the function around it.
LeavesClosure(prog) ==
  \E c \in Nodes(prog) : c.op = "closure" /\ {"return", "try"} \cap Ops(c) # {}
\* What is called a unit has a value: an `if` without else, a body without a type.
UnitWithValue(prog) ==
  \E n \in Nodes(prog) :
    \/ n.op = "if" /\ Len(n.args) = 2 /\ n.args[2].op = "value"
    \/ n.op = "fn" /\ Len(n.args) = Len(Params(n)) + 1 /\ Last(n.args).op = "value" /\ n.name # "main"
\* A break with a value belongs to the `loop` around it, whatever is between.
BreaksOther(prog) ==
  \E n \in Nodes(prog) : /\ n.op \in {"while", "whilelet", "for"}
                         /\ \E b \in Nodes(n) : b.op = "break" /\ b.args # <<>>
\* The handler of a try need not have the type of its body.
TryBlock(prog) == "trycatch" \in Ops(prog)
\* A closure sees a variable bound after it was made.
Uses(e) == {n.name : n \in {d \in Nodes(e) : d.op = "ident"}}
Binds(e) == {n.name : n \in {d \in Nodes(e) : d.op \in Binders}}
LateLet(prog) ==
  \E b \in Nodes(prog) : b.op \in Blocks /\
    \E i \in DOMAIN b.args, j \in DOMAIN b.args :
      /\ i < j /\ b.args[j].op = "let"
      /\ \E c \in Nodes(b.args[i]) : c.op = "closure" /\ Uses(c) \cap Binds(b.args[j].args[2]) # {}
\* A nested function refers to a local of the function around it.
OuterLocal(prog) ==
  \E f \in ToSet(prog.args) : \E g \in Nodes(f) :
    g.op = "fn" /\ g # f /\ (Uses(g) \ Binds(g)) \cap Binds(f) # {}

Lenient(prog) ==
  \/ Guessed(prog) \/ Unchecked \/ Bridged \/ ShadowsFn(prog) \/ LeavesClosure(prog) \/ UnitWithValue(prog) \/ BreaksOther(prog)
  \/ TryBlock(prog) \/ LateLet(prog) \/ OuterLocal(prog)

\* The values of a type.
RECURSIVE HasType(_, _, _)
HasType(v, t, m) ==
  CASE t = Unknown \/ t.k = "union" -> TRUE
    [] IsInt(t) -> v.k = "int"
    [] t.k = "ref" -> IF v.k = "ref" THEN HasType(m.cells[v.n], t.args[1], m) ELSE HasType(v, t.args[1], m)
    [] t.k = "tuple" -> /\ v.k = "tuple" /\ Len(v.vs) = Len(t.args)
                        /\ \A i \in DOMAIN v.vs : HasType(v.vs[i], t.args[i], m)
    [] t.k = "list" -> v.k = "list" /\ \A x \in ToSet(m.heap[v.n]) : HasType(x, t.args[1], m)
    [] IsOption(t) -> \/ v.k = "nil"
                      \/ v = VEnum("None", <<>>)
                      \/ v.k = "enum" /\ v.s = "Some" /\ HasType(v.vs[1], t.args[1], m)
                      \/ HasType(v, t.args[1], m)
    [] t.k = "enum" -> \/ v.k = "enum" /\ v.s = "Err"
                       \/ v.k = "enum" /\ v.s = "Ok" /\ HasType(v.vs[1], t.args[1], m)
    [] t.k = "fn" -> v.k = "closure"
    [] OTHER -> v.k = t.k

\* A program the checker has accepted does not come to a name without a
\* value, a value of the wrong kind, or a match without an arm.
NeverStuck ==
  stage = "interpreted" /\ ~ Lenient(tree) =>
    ~ (ran.sig = "error" /\ ran.val.s \in {"type", "name", "nomatch"})

\* What a program prints has the type that was inferred for it, and what main
\* returns the type it declares, through all that leads there: branches,
\* loops, early returns, closures, patterns.
InferredTypeHolds ==
  stage = "interpreted" /\ ran.sig = "ok" /\ ~ Lenient(tree) =>
    LET said == {n.args[2] : n \in {d \in Nodes(typed.out) : d.op = "call" /\ d.args[1].name = "println"}}
        main == Last(tree.args)
    IN /\ \A v \in ToSet(ran.out) : \E e \in said : HasType(v, e.ty, ran)
       /\ main.args[1].op = "t_named" => HasType(ran.val, ResolveType(main.args[1], {}), ran)

-----------------------------------------------------------------------------
(* Layout.                                                                 *)

\* The scalars of a value of any type that a program declares or uses, for which
\* there is a layout, are apart and aligned.
ScalarsApart ==
  stage = "typed" =>
    LET declared == {ResolveType(Named(d.name, <<>>), typed.decls) : d \in typed.decls}
        used == {n.ty : n \in {m \in Nodes(typed.out) : "ty" \in DOMAIN m}}
    IN \A t \in declared \cup used :
         HasShape(t, typed.decls) => LaidOut(t, typed.decls)

-----------------------------------------------------------------------------
(* Borrows.                                                                *)

\* References made other than by a let of a name are not followed, nor are
\* assignments by a closure, and a copy written back at the end of a block
\* stands for a reference only if the block ends there.
Untracked(prog) ==
  LET lets == {n \in Nodes(prog) : n.op = "let" /\ n.args[2].op = "p_bind" /\ IsBorrow(n.args[1])}
  IN \/ \E n \in Nodes(prog) : IsBorrow(n) /\ n \notin {l.args[1] : l \in lets}
     \/ \E n \in Nodes(prog) : IsBorrow(n) /\ n.args[1].op # "ident"
     \/ \E c \in Nodes(prog) : c.op = "closure" /\ "assign" \in Ops(c)
     \/ \E b \in Nodes(prog) : /\ b.op \in Blocks
                                /\ ToSet(b.args) \cap lets # {}
                                /\ {"return", "break", "continue", "try"} \cap Ops(b) # {}

SameRun(r, s) == r.sig = s.sig /\ r.out = s.out

\* In a program the borrow checker accepts, nothing changes behind a shared
\* reference, and nobody but the holder of an exclusive one sees the
\* variable: the program does what it does with copies in their place.
BorrowsExclusive ==
  stage = "interpreted" /\ ~ Untracked(tree) =>
    SameRun(ran, Run(ByCopy(tree)))

-----------------------------------------------------------------------------
(* Lowering.                                                               *)

\* The walk of name resolution and the walk of lowering meet the same binding
\* sites in the same order, so that the ids they hand out agree.  The place
\* of a compound assignment is lowered twice, and may hold a binding site.
TwiceLowered(prog) ==
  \E n \in Nodes(prog) : n.op = "assign" /\ n.name # "=" /\ Binds(n.args[1]) # {}

SameIds == stage = "lowered" /\ ~ TwiceLowered(tree) => ~ hir.drift /\ hir.next = Len(res.bindings)

\* A closure captures the variables that it uses and that were bound outside
\* it, and no other.  What a nested function or constant uses is not seen, and
\* its name is taken for a variable of the outside where the closure uses it.
OwnItem(prog) ==
  \E c \in Nodes(prog) : c.op = "closure" /\ {"fn", "const"} \cap Ops(c) # {}

CapturesAreOuter ==
  stage = "lowered" /\ ~ OwnItem(tree) =>
    \A i \in DOMAIN hir.closures :
      LET c == hir.closures[i] IN c.captures = c.used \ c.own

\* An assignment `place op= value` is evaluated value first, its desugaring
\* place first; and divides with a check.
Simple(e) == e.op \in {"ident", "int"}
OrderedCompound(prog) ==
  \E n \in Nodes(prog) :
    /\ n.op = "assign" /\ n.name # "="
    /\ \/ n.name = "/" \/ ~ Simple(n.args[2])
       \/ \E i \in DOMAIN n.args[1].args : ~ Simple(n.args[1].args[i])

\* Every alternative of a pattern binds a variable of its own, of which what
\* follows sees the last.
BindingAlternatives(prog) == \E n \in Nodes(prog) : n.op = "p_or" /\ Binds(n) # {}

SameEnd(r, s) == SameRun(r, s) /\ (r.sig = "ok" => r.val = s.val)

\* What HIR makes of ??, ?., ?, while let and compound assignment does the same
\* as the constructs themselves: the interpreter runs both.
DesugaringAgrees ==
  stage = "lowered" /\ ~ hir.drift
    /\ ~ OrderedCompound(tree) /\ ~ BindingAlternatives(tree) /\ ~ LateLet(tree) /\ ~ BreaksOther(tree) =>
    SameEnd(ran, Run(hir.out))

-----------------------------------------------------------------------------
(* The binary.                                                             *)

\* What the back end does otherwise than the interpreter.

Effectful == {"assign", "call", "return", "break", "continue", "loop", "while", "for"}
\* && and || take both operands.
EagerLogic(prog) ==
  \E n \in Nodes(prog) : /\ n.op = "binary" /\ n.name \in {"&&", "||"}
                         /\ \/ Effectful \cap Ops(n.args[2]) # {} \/ "/" \in OpNames(n.args[2], "binary")
\* A variable is read after the operands that follow it have been evaluated.
RECURSIVE ReadLate(_)
ReadLate(e) == CASE e.op = "ident" -> TRUE
                 [] e.op \in {"field", "value", "unsafe"} -> ReadLate(Last(e.args))
                 [] OTHER -> FALSE
LateRead(prog) ==
  \E n \in Nodes(prog) : /\ n.op \in {"binary", "call", "tuple"}
                         /\ \E i \in DOMAIN n.args, j \in DOMAIN n.args :
                              i < j /\ ReadLate(n.args[i]) /\ "assign" \in Ops(n.args[j])
\* The fields of a struct are evaluated in the order of its declaration.
Reordered(prog) ==
  \E n \in Nodes(prog) : n.op = "struct" /\ \E i \in DOMAIN n.args : ~ Simple(n.args[i].args[1])
\* A struct is copied where the interpreter shares it.
SharedStruct(prog) ==
  /\ \E n \in Nodes(prog) : n.op = "assign" /\ n.args[1].op = "field"
  /\ \E n \in Nodes(typed.out) : n.op # "field" /\ \E e \in ToSet(n.args) : e.op = "ident" /\ e.ty.k = "struct"
\* A function with a comparison of tuples or structs, or with `*` of a value,
\* is not left out as others are: the build fails.
FailsBuild ==
  \E n \in TypedNodes :
    \/ n.op = "binary" /\ n.name = "==" /\ n.args[1].ty.k \in {"tuple", "struct", "unit"}
    \/ n.op = "unary" /\ n.name = "*" /\ n.args[1].ty.k # "ref"

\* Only the interpreter refuses to assign to a binding that is not mutable.
Immutable == ran.sig = "error" /\ ran.val.s = "immutable"

\* The binary ends as the interpreter does: with what main returns, through
\* every jump, loop, test of a pattern and early return; where the interpreter
\* reports an error the binary does not end well.  A program the back end
\* cannot take yet is left out, and never makes the build fail.
CompiledAgrees ==
  stage = "compiled" /\ ~ hir.drift
    /\ ~ EagerLogic(tree) /\ ~ LateRead(tree) /\ ~ Reordered(tree)
    /\ ~ SharedStruct(tree) /\ ~ BindingAlternatives(tree) /\ ~ FailsBuild =>
    /\ built.kind # "failed"
    /\ built.kind = "binary" /\ ran.sig \in {"ok", "error"} /\ ~ Immutable =>
         LET end == Execute(built.fns)
         IN IF ran.sig = "ok" THEN end.sig = "ok" /\ end.val = ran.val ELSE end.sig = "undefined"
=============================================================================
