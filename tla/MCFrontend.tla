------------------------------ MODULE MCFrontend ------------------------------
(***************************************************************************)
(* Small programs for Frontend: families made by putting every member of a *)
(* set into every place of a few frames.                                   *)
(***************************************************************************)
EXTENDS Frontend

x == Ident("x")
y == Ident("y")
z == Ident("z")
zero == Num("0")
one == Num("1")
two == Num("2")
three == Num("3")
true == Bool("true")
false == Bool("false")
i32 == Named("i32", <<>>)
OptInt == Named("Option", <<i32>>)
ResInt == Named("Result", <<i32>>)
T == Named("T", <<>>)

Set(place, e) == Assign("=", place, e)
CallOf(n, es) == Call(Ident(n), es)
SayIt(e) == CallOf("println", <<e>>)
SomeP(n) == PVariant("Some", <<PBind(n)>>)
NoneP == PVariant("None", <<>>)
OkP(n) == PVariant("Ok", <<PBind(n)>>)
ErrP(n) == PVariant("Err", <<PBind(n)>>)
Program(items) == Node("program", "", items)

-----------------------------------------------------------------------------
(* Syntax: every construct in every place of every construct.              *)

InfixOps == {"||", "&&", "==", "<", ">", "|", "^", "&", "<<", "+", "-", "*", "**"}
Infixes(l, r) == {Binary(o, l, r) : o \in InfixOps}
                 \cup {Coalesce(l, r), Span("..", l, r), Span("..=", l, r)}
Prefixed(e) == {Unary(o, e) : o \in {"-", "!", "*", "&", "&mut"}} \cup {Task("await", e)}
Postfixes(e) ==
  {Call(e, <<x>>), Method(e, "m", <<>>), OptMethod(e, "m", <<x>>), Field(e, "f"), Field(e, "0"),
   OptField(e, "f"), Index(e, one), Try(e), Cast(e, T)}
Holders(e) ==
  {Call(x, <<e, y>>), Call(x, <<y, e>>), Index(x, e), List(<<e, y>>), Repeat(e, one), Tuple(<<e>>),
   Tuple(<<y, e>>), SetLit(<<e>>), SetLit(<<e, y>>), MapLit(<<Pair(e, e)>>),
   StructLit(<<FieldInit("f", e), FieldInit("x", x)>>), StructLit(<<FieldInit("f", x), Spread(e)>>),
   Assign("=", x, e), Assign("+", x, e), Assign("=", e, y), Closure(<<>>, e),
   Closure(<<Param("a")>>, e), MoveClosure(<<Param("a"), TypedParam("b", T)>>, e),
   Value(<<e>>), Block(<<e>>), Value(<<Let(PBind("z"), e), x>>), Value(<<x, e>>),
   If(e, Block(<<>>)), IfElse(x, Value(<<e>>), Value(<<y>>)), IfElse(x, Block(<<e>>), If(e, Value(<<y>>))),
   Match(e, <<Arm(PWild, y)>>), Match(x, <<Arm(PInt("1"), e), Arm(PBind("z"), e)>>),
   Match(x, <<Guarded(PWild, e, y), Arm(PWild, x)>>), While(e, Block(<<x>>)),
   WhileLet(SomeP("z"), e, Block(<<x>>)), For(PBind("i"), e, Block(<<Continue>>)),
   Loop(Block(<<Break(<<e>>)>>)), TryCatch(Value(<<e>>), Catch("z", Value(<<e>>)), Value(<<x>>)),
   Task("spawn", Value(<<e>>))}
Around(e) == UNION {Infixes(e, y), Infixes(x, e), Prefixed(e), Postfixes(e), Holders(e)}
Expr1 == Around(x)
Expr2 == UNION {Around(e) : e \in Expr1 \cup {Nil, Tuple(<<>>), List(<<>>), MapLit(<<>>), StructLit(<<>>),
                                             Path(<<Segment("A"), Segment("B")>>)}}

Pat0 == {PWild, PBind("a"), PInt("1"), PNeg("1"), PRange("..", "1", "3"), PBool("true"), PNil, NoneP}
Pat1 == Pat0 \cup UNION {{PAt("b", p), PTuple(<<p, PBind("b")>>), PList(<<p>>), PListAnd(<<p>>), PListRest(<<p, PWild>>, "b"),
                          PVariant("Some", <<p>>), POr(<<p, PInt("2")>>), PStruct(<<PField("f"), PField("g")>>)} : p \in Pat0}
Pats == Pat1 \cup UNION {{PVariant("V", <<PWild, p>>), PTuple(<<p>>), PList(<<p, PWild>>)} : p \in Pat1}
InPattern(p) == Match(x, <<Arm(p, y), Guarded(p, x, one)>>)
Narrowing == {PTyped("a", T), PTuple(<<PTyped("a", T), PTyped("b", Named("List", <<T>>))>>), PVariant("Some", <<PTyped("a", T)>>),
              PList(<<PTyped("a", T)>>), PListAnd(<<>>), POr(<<PBind("a"), PAt("a", PTyped("b", T))>>)}
InWhileLet(p) == WhileLet(p, x, Block(<<y>>))

Type1(t) == {Named("List", <<t>>), RefType("&", t), RefType("&mut", t), ArrayType(t), TupleType(<<t, T>>),
             FnType(<<t>>, T), FnType(<<>>, t), Named("M", <<T, t>>)}
Types1 == {T, Never, TupleType(<<>>)} \cup Type1(T)
Typings == Types1 \cup UNION {Type1(t) : t \in Types1}
             \cup {Union(<<t, Named("nil", <<>>)>>) : t \in Types1 \ Type1(T)}

Statements == {Let(PBind("z"), x), LetMut(PTuple(<<PBind("z"), PWild>>), Tuple(<<x, y>>)), Const("z", one),
               Return(<<>>), Return(<<x>>), Break(<<>>), Continue, x, Unary("-", x), Unary("*", x), List(<<x>>),
               Tuple(<<x, y>>), Closure(<<Param("a")>>, x), Block(<<x>>), If(x, Block(<<>>)), Set(x, y),
               Loop(Block(<<>>)), Fn("k", <<Param("a")>>, Value(<<x>>)), Match(x, <<Arm(PWild, y)>>), MapLit(<<>>)}

Declarations == {Declaration("struct_decl", "P", <<Declared("f", <<t>>), Declared("g", <<T>>)>>) : t \in Types1}
  \cup {Declaration("enum_decl", "E", <<Declared("A", <<>>), Declared("B", <<t, T>>)>>) : t \in Types1}
  \cup {Declaration("alias_decl", "A", <<t>>) : t \in Types1}
  \cup {Declaration("impl_decl", "P", <<Fn("m", <<Param("a")>>, Value(<<x>>)), Fn("k", <<>>, Block(<<>>))>>),
        Const("c", one), TypedFn("k", <<TypedParam("a", T)>>, T, Value(<<x>>))}

Written(s) == Program(<<Fn("main", <<>>, Value(<<s, x>>))>>)
Texts(ps, layouts) == [prog : ps, layout : layouts, runs : {FALSE}]

SyntaxSources ==
  UNION {Texts({Written(e) : e \in Expr2}, {"line"}),
         Texts({Written(e) : e \in Expr1}, {"lines", "comments"}),
         Texts({Written(InPattern(p)) : p \in Pats} \cup {Written(InWhileLet(p)) : p \in Narrowing}, {"lines"}),
         Texts({Written(TypedLet(PBind("z"), t, x)) : t \in Typings}, {"line"}),
         Texts({Program(<<Fn("main", <<>>, Block(<<s, t>>))>>) : s \in Statements, t \in Statements},
               {"line", "lines"}),
         Texts({Program(<<d, Fn("main", <<>>, Block(<<>>))>>) : d \in Declarations}, {"line", "lines", "comments"})}

-----------------------------------------------------------------------------
(* Programs to run.  A program holds the helpers it uses.                  *)

Point == Declaration("struct_decl", "P", <<Declared("f", <<i32>>), Declared("g", <<i32>>)>>)
Add == TypedFn("add", <<TypedParam("a", i32), TypedParam("c", i32)>>, i32, Value(<<Binary("+", Ident("a"), Ident("c"))>>))
Half == TypedFn("half", <<TypedParam("a", i32)>>, OptInt,
  Value(<<IfElse(Binary("==", Ident("a"), two), Value(<<CallOf("Some", <<one>>)>>), Value(<<Ident("None")>>))>>))
Check == TypedFn("check", <<TypedParam("a", i32)>>, ResInt,
  Value(<<IfElse(Binary("<", Ident("a"), two), Value(<<CallOf("Ok", <<Ident("a")>>)>>), Value(<<CallOf("Err", <<Ident("a")>>)>>))>>))

Whole(ss, items) ==
  LET names == {n.name : n \in Nodes(Value(ss))}
  IN Program(SelectSeq(<<Point, Add, Half, Check>>, LAMBDA h : h.name \in names) \o items)
Main(ss) == Whole(ss, <<TypedFn("main", <<>>, i32, Value(ss))>>)
Go(t, ss) == Whole(ss, <<TypedFn("go", <<>>, t, Value(ss)),
                         TypedFn("main", <<>>, i32, Value(<<SayIt(CallOf("go", <<>>)), zero>>))>>)
X1 == LetMut(PBind("x"), one)

\* 1. Effects in every operand: x is 1 until it is set to 3.
Bump3 == Value(<<Set(x, three), x>>)
Operands == {x, two, Bump3}
Truths == {true, Binary("==", x, one), Value(<<Set(x, three), false>>)}
IntExprs ==
  UNION {{Binary("+", p, q), Binary("*", p, q), Binary("/", p, q), CallOf("add", <<p, q>>),
          Field(StructLit(<<FieldInit("f", p), FieldInit("g", q)>>), "g"),
          Field(StructLit(<<FieldInit("g", p), FieldInit("f", q)>>), "g"),
          Field(Tuple(<<p, q>>), "0"), Index(List(<<p, q>>), zero), Index(List(<<p, q>>), one),
          Index(List(<<p, q>>), two), Index(List(<<p, q>>), Value(<<Set(x, three), zero>>)),
          Match(CallOf("half", <<p>>), <<Arm(SomeP("v"), Ident("v")), Arm(NoneP, q)>>),
          Match(CallOf("check", <<p>>), <<Arm(OkP("v"), Ident("v")), Arm(ErrP("v"), q)>>)}
         : p \in Operands, q \in Operands}
  \cup {IfElse(c, Value(<<p>>), Value(<<q>>)) : c \in Truths, p \in Operands, q \in Operands}
  \cup {Binary("/", p, zero) : p \in Operands}
  \cup {Coalesce(p, q) : p \in {CallOf("half", <<x>>), CallOf("half", <<two>>), Nil, CallOf("Some", <<Bump3>>)},
                         q \in Operands}
  \cup {Unary(o, p) : o \in {"-", "*"}, p \in Operands}
BoolExprs == {Binary(o, p, q) : o \in {"&&", "||", "=="}, p \in Truths, q \in Truths}
  \cup {Binary(o, p, q) : o \in {"<", "=="}, p \in Operands, q \in Operands} \cup {Unary("!", p) : p \in Truths}
Effects == {Main(<<X1, Let(PBind("z"), e), SayIt(x), z>>) : e \in IntExprs}
  \cup {Main(<<X1, Let(PBind("z"), e), SayIt(z), x>>) : e \in BoolExprs}

\* 2. Loops: two steps in the body of every kind of loop.
Steps == {Assign("+", x, one), If(Binary("==", x, three), Block(<<Break(<<>>)>>)),
          If(Binary("==", x, two), Block(<<Assign("+", x, two), Continue>>)), SayIt(x),
          Let(PBind("x"), Binary("+", x, one)), Return(<<x>>)}
Bodies == {Block(<<p, q>>) : p \in Steps, q \in Steps}
LoopStatements ==
  UNION {{Loop(Block(Append(b.args, Break(<<>>)))), While(Binary("<", x, three), b),
          For(PBind("i"), Span("..", zero, two), b), For(PBind("x"), List(<<x, two>>), b),
          WhileLet(SomeP("v"), CallOf("half", <<x>>), b)} : b \in Bodies}
  \cup {For(PWild, Span("..=", x, Num("7")), Block(<<q>>)) : q \in Steps}
  \cup {For(PBind("i"), Span("..=", zero, two), Block(<<p>>)) : p \in Steps}
  \cup {WhileLet(PTyped("v", t), x, Block(<<Set(x, two), SayIt(Ident("v")), p>>)) :
           t \in {i32, Named("bool", <<>>)}, p \in {Break(<<>>), Return(<<x>>)}}
LoopValues == {Loop(Block(<<If(c, Block(<<Break(<<p>>)>>)), Set(x, two), Break(<<q>>)>>)) :
                 c \in Truths, p \in Operands, q \in Operands}
   \cup {Loop(Block(<<Loop(Block(<<Break(<<p>>)>>)), Break(<<q>>)>>)) : p \in Operands, q \in Operands}
   \cup {WhileLet(SomeP("v"), CallOf("half", <<two>>), Block(<<Break(<<p>>)>>)) : p \in Operands}
Loops == {Main(<<X1, l, x>>) : l \in LoopStatements}
         \cup {Main(<<X1, Let(PBind("z"), l), SayIt(z), x>>) : l \in LoopValues}

\* 3. Places: a variable, an element, a field, a target of a reference.
Elem(i) == Index(Ident("l"), i)
Indices == {zero, Value(<<Assign("+", x, one), zero>>), Value(<<Let(PBind("i"), zero), Ident("i")>>)}
NewValues == {two, Value(<<Set(x, three), two>>), Value(<<Set(Elem(zero), three), two>>)}
Stores ==
  {Assign(o, Elem(i), v) : o \in {"=", "+"}, i \in Indices, v \in NewValues}
  \cup UNION {{Assign(o, Field(Ident("p"), "f"), v), Assign(o, x, v)} : o \in {"=", "+"}, v \in NewValues}
  \cup {Set(y, two), Method(Ident("l"), "push", <<x>>), Set(x, Method(Ident("l"), "len", <<>>)),
        Let(PBind("k"), Method(Ident("l"), "pop", <<>>)), Set(Elem(two), one)}
Places == {Main(<<X1, Let(PBind("y"), x), LetMut(PBind("l"), List(<<one, two>>)),
                  LetMut(PBind("p"), StructLit(<<FieldInit("f", one), FieldInit("g", two)>>)),
                  s, SayIt(x), SayIt(Ident("l")), SayIt(Field(Ident("p"), "f")), x>>) : s \in Stores}

\* 4. Borrows: a reference, and what happens while it lives and after.
R == Ident("r")
Meanwhile == {SayIt(x), Set(x, two), Assign("+", x, one), SayIt(Unary("*", R)), Set(Unary("*", R), three),
              Assign("+", Unary("*", R), one), Let(PBind("s"), Unary("&", x)), Let(PBind("s"), Unary("&mut", x)),
              Set(y, Unary("*", R)), Block(<<LetMut(PBind("x"), y), Set(x, one)>>),
              Let(PBind("c"), Closure(<<>>, Block(<<SayIt(x)>>))), SayIt(Binary("+", Unary("*", R), y))}
Borrowing == {Main(<<X1, LetMut(PBind("y"), two),
                     Block(<<Let(PBind("r"), Unary(o, x)), p, q, SayIt(Unary("*", R))>>), Set(y, x), SayIt(y), x>>) :
                o \in {"&", "&mut"}, p \in Meanwhile, q \in Meanwhile}
  \cup {Main(<<X1, LetMut(PBind("y"), two), Block(<<p, q>>), SayIt(y), x>>) :
          p \in {Let(PBind("c"), Closure(<<>>, Block(<<Set(x, three)>>))), Let(PBind("r"), Unary("&", x))},
          q \in {Block(<<Let(PBind("r"), Unary("&", y)), Set(y, one)>>), Set(x, two)}}
  \cup {Main(<<Let(PBind("p"), StructLit(<<FieldInit("f", one), FieldInit("g", two)>>)),
               Block(<<Let(PBind("r"), Unary("&mut", Field(Ident("p"), "f"))), s>>), zero>>) :
          s \in {SayIt(Field(Ident("p"), f)) : f \in {"f", "g"}}}
  \cup {Whole(<<>>, <<TypedFn("go", <<TypedParam("a", i32)>>, RefType("&", i32), Value(<<e>>)),
                      TypedFn("main", <<>>, i32, Value(<<SayIt(Unary("*", CallOf("go", <<one>>))), zero>>))>>) :
          e \in {Unary("&", Ident("a")), Value(<<Unary("&", Ident("a"))>>),
                 IfElse(true, Value(<<Unary("&", Ident("a"))>>), Value(<<Unary("&", Ident("a"))>>)),
                 Match(one, <<Arm(PWild, Unary("&", Ident("a")))>>)}}
  \cup {Main(<<X1, CallOf("add", <<Unary(o, x), Unary("&", x)>>), x>>) : o \in {"&", "&mut"}}

\* 5. Closures and scopes.
A == Ident("a")
ClosureBodies ==
  {Binary("+", A, x), Value(<<Assign("+", x, A), x>>), Value(<<Let(PBind("x"), A), Binary("+", x, x)>>),
   Match(CallOf("half", <<A>>), <<Arm(SomeP("v"), Binary("+", Ident("v"), x)), Arm(PWild, x)>>),
   Value(<<For(PBind("i"), Span("..", zero, x), Block(<<SayIt(Ident("i"))>>)), x>>),
   Value(<<WhileLet(SomeP("v"), CallOf("half", <<x>>), Block(<<Set(x, Ident("v"))>>)), x>>),
   TryCatch(Value(<<Binary("/", x, zero)>>), Catch("e", Value(<<Let(PBind("k"), Ident("e")), Set(y, x), y>>)), Value(<<SayIt(y)>>)),
   Value(<<Fn("k", <<Param("a")>>, Value(<<A>>)), CallOf("k", <<x>>)>>),
   Value(<<Fn("k", <<>>, Value(<<y>>)), CallOf("k", <<>>)>>),
   Call(Closure(<<Param("v")>>, Binary("+", Ident("v"), y)), <<x>>),
   Value(<<Return(<<x>>), y>>), Coalesce(CallOf("half", <<x>>), y), OptField(Nil, "f"),
   OptMethod(IfElse(true, Value(<<Nil>>), Value(<<List(<<x>>)>>)), "len", <<>>),
   Match(x, <<Arm(PAt("n", PInt("1")), Ident("n")), Arm(POr(<<PInt("2"), PInt("3")>>), y), Arm(PBind("m"), Ident("m"))>>),
   Match(List(<<x, y>>), <<Arm(PListAnd(<<PRange("..=", "1", "2")>>), y), Arm(PWild, x)>>),
   Value(<<WhileLet(PTyped("v", i32), x, Block(<<Break(<<>>)>>)), x>>),
   Match(Tuple(<<x, y>>), <<Arm(PTuple(<<PBind("m"), PInt("2")>>), Ident("m")), Arm(PWild, x)>>),
   Match(List(<<x, y>>), <<Arm(PListRest(<<PBind("m")>>, "rest"), Ident("m")), Arm(PWild, x)>>),
   Value(<<Const("k", Value(<<Let(PBind("m"), x), Ident("m")>>)), Binary("+", A, Ident("k"))>>),
   Value(<<Const("k", two), Let(PTuple(<<PBind("m"), PWild>>), Tuple(<<x, y>>)), Ident("m")>>),
   Value(<<Let(PStruct(<<PField("f"), PField("g")>>), StructLit(<<FieldInit("f", x), FieldInit("g", y)>>)), Ident("g")>>)}
Closures == {Main(<<X1, LetMut(PBind("y"), two), Let(PBind("c"), Closure(<<Param("a")>>, b))>> \o between
                  \o <<Let(PBind("z"), CallOf("c", <<two>>)), SayIt(z), x>>) :
  b \in ClosureBodies,
  between \in {<<>>, <<Let(PBind("x"), three)>>, <<Set(x, two)>>, <<Block(<<Let(PBind("x"), three), SayIt(CallOf("c", <<one>>))>>)>>}}

\* 6. `?`.
Halves == {CallOf("half", <<p>>) : p \in Operands}
Checks == {CallOf("check", <<p>>) : p \in Operands}
Tries ==
  {Go(OptInt, <<X1, Let(PBind("z"), e), SayIt(x), CallOf("Some", <<z>>)>>) :
     e \in {Try(h) : h \in Halves} \cup {Binary("+", Try(h), q) : h \in Halves, q \in Operands}
           \cup {Try(Match(x, <<Arm(PInt("1"), CallOf("half", <<two>>)), Arm(PWild, Ident("None"))>>))}}
  \cup {Go(ResInt, <<X1, Let(PBind("z"), e), SayIt(x), CallOf("Ok", <<z>>)>>) :
          e \in {Try(c) : c \in Checks} \cup {Binary("+", q, Try(c)) : c \in Checks, q \in Operands}}
  \cup {Go(OptInt, <<X1, For(PBind("i"), Span("..", one, three), Block(<<SayIt(Try(CallOf("half", <<Ident("i")>>)))>>)), Nil>>),
        Go(i32, <<X1, Try(CallOf("half", <<x>>))>>)}

\* 7. Matches, with arms missing, repeated and guarded.
ArmsOf(ps) == {Arm(p, two) : p \in ps} \cup {Guarded(p, false, three) : p \in ps}
Matches ==
  UNION {{Main(<<X1, Let(PBind("z"), Match(k[1], <<a, b>>)), SayIt(z), x>>) : a \in ArmsOf(k[2]), b \in ArmsOf(k[2])}
         : k \in {<<CallOf("half", <<x>>), {SomeP("v"), NoneP, PNil, PWild}>>,
                  <<CallOf("check", <<x>>), {OkP("v"), ErrP("v"), PBind("v"), POr(<<OkP("v"), ErrP("v")>>)}>>,
                  <<Binary("==", x, two), {PBool("true"), PBool("false"), PWild}>>,
                  <<x, {PInt("1"), PNeg("1"), PRange("..", "0", "1"), PRange("..=", "0", "1"), PBind("v"), PAt("v", PWild)}>>}}
  \cup {Main(<<X1, TypedLet(PBind("u"), Union(<<i32, Named("nil", <<>>)>>), CallOf("half", <<x>>)),
               Let(PBind("z"), Match(Ident("u"), <<a, b>>)), SayIt(z), x>>) :
          a \in ArmsOf({PNil, PInt("1")}), b \in ArmsOf({PNil, PBind("v"), PWild})}

\* 8. Programs with an error of some kind, and a few that look like it.
Mixed == {one, true, Nil, Tuple(<<one, two>>), List(<<one>>), CallOf("Some", <<one>>), CallOf("Ok", <<one>>), Ident("q"),
          Closure(<<>>, one), SayIt(one), StructLit(<<FieldInit("f", one), FieldInit("g", two)>>), Unary("&", x)}
Frames(e) ==
  {Main(<<X1, e>>), Main(<<X1, Let(PBind("z"), Binary("+", e, one)), z>>), Main(<<X1, If(e, Block(<<>>)), x>>),
   Main(<<X1, SayIt(IfElse(true, Value(<<e>>), Value(<<one>>))), x>>), Main(<<X1, SayIt(List(<<e, one>>)), x>>),
   Main(<<X1, SayIt(Coalesce(e, one)), x>>), Main(<<X1, SayIt(Field(e, "f")), x>>), Main(<<X1, SayIt(Field(e, "1")), x>>),
   Main(<<X1, For(PBind("i"), e, Block(<<SayIt(Ident("i"))>>)), x>>), Main(<<X1, SayIt(Unary("-", e)), x>>),
   Main(<<X1, SayIt(Unary("!", e)), x>>), Main(<<X1, TypedLet(PBind("z"), i32, e), SayIt(z), x>>),
   Main(<<X1, TypedLet(PBind("z"), OptInt, e), SayIt(Match(z, <<Arm(SomeP("v"), Ident("v")), Arm(PNil, x)>>)), x>>),
   Main(<<X1, SayIt(Method(e, "len", <<>>)), x>>), Main(<<X1, SayIt(Call(e, <<>>)), x>>), Main(<<X1, Return(<<e>>), x>>),
   Main(<<X1, Let(PBind("k"), Closure(<<Param("a")>>, Binary("+", A, one))), SayIt(CallOf("k", <<e>>)), x>>),
   Main(<<X1, SayIt(Binary("<", e, one)), x>>), Main(<<X1, SayIt(Index(e, zero)), x>>),
   Main(<<X1, SayIt(StructLit(<<FieldInit("f", e), FieldInit("g", one)>>)), x>>),
   Main(<<X1, SayIt(Span("..", e, two)), x>>), Main(<<X1, SayIt(OptField(e, "f")), x>>)}
IllTyped == UNION {Frames(e) : e \in Mixed}

\* 9. Programs that compile: those of 1, 2 and 7 without what is printed, and
\* tuples, structs, calls and matches on integers.
S == Ident("s")
PF == Field(Ident("p"), "f")
PG == Field(Ident("p"), "g")
Pair2 == Let(PBind("s"), Tuple(<<one, two>>))
IntPats == {PInt("1"), PNeg("1"), PRange("..", "0", "1"), PRange("..=", "0", "1"), PBind("v"), PAt("v", PInt("1")),
            POr(<<PInt("2"), PInt("1")>>), PWild}
IntArms == {Arm(p, two) : p \in IntPats} \cup {Guarded(p, Binary("<", x, one), three) : p \in IntPats}
           \cup {Arm(PBind("v"), Value(<<Set(x, three), Ident("v")>>))}
PairPats == {PTuple(<<p, q>>) : p \in {PInt("1"), PWild, PBind("v")}, q \in {PInt("3"), PRange("..", "1", "3"), PBind("w")}}
Compiled ==
  {Main(<<X1, Let(PBind("z"), e), t>>) : e \in IntExprs \cup LoopValues, t \in {x, z}}
  \cup {Main(<<X1, Let(PBind("z"), e), IfElse(z, Value(<<x>>), Value(<<Unary("-", x)>>))>>) : e \in BoolExprs}
  \cup {Main(<<X1, l, x>>) : l \in LoopStatements}
  \cup {Main(<<X1, Let(PBind("z"), Match(k, <<a, Arm(p, one), Arm(PWild, x)>>)), z>>) :
           k \in {x, Unary("-", x)}, a \in IntArms, p \in IntPats}
  \cup {Main(<<X1, Pair2, Match(S, <<Arm(p, x), Guarded(q, Binary("==", x, one), two), Arm(PWild, three)>>)>>) :
           p \in PairPats, q \in PairPats}
  \cup {Main(<<X1, Pair2, Match(S, <<Arm(POr(<<p, PTuple(<<PBind("v"), PInt("2")>>)>>), Ident("v")), Arm(PWild, three)>>)>>) :
           p \in {PTuple(<<PInt("1"), PBind("v")>>), PTuple(<<PInt("2"), PBind("v")>>)}}
  \cup {Main(<<X1, Pair2, IfElse(Binary("==", S, Tuple(<<one, x>>)), Value(<<two>>), Value(<<x>>))>>)}
  \cup UNION {{Main(<<X1, LetMut(PBind("p"), StructLit(<<FieldInit("f", one), FieldInit("g", two)>>)), s, w,
                       Binary("+", PF, Binary("*", x, PG))>>) :
                  s \in {Let(PBind("q"), Ident("p")), Let(PBind("q"), PF), Let(PBind("q"), two)},
                  w \in {Assign(o, PF, v), Assign(o, x, v), Set(PG, Binary("-", PF, v)), Set(Ident("p"), StructLit(<<FieldInit("f", v), FieldInit("g", x)>>)),
                         Set(Ident("p"), StructLit(<<FieldInit("g", v), FieldInit("f", PG)>>))}}
               : v \in Operands, o \in {"=", "+", "/"}}
  \cup {Main(<<X1, LetMut(PBind("p"), StructLit(<<FieldInit("f", one), FieldInit("g", x)>>)), Let(PBind("q"), e), Set(PF, three),
               Field(Ident("q"), "f")>>) : e \in {Ident("p"), Value(<<Ident("p")>>), StructLit(<<FieldInit("f", PF), FieldInit("g", PG)>>)}}
  \cup {Main(<<X1, LetMut(PBind("p"), StructLit(<<FieldInit(k[1], p), FieldInit(k[2], q)>>)), Binary("+", PF, x)>>) :
           k \in {<<"f", "g">>, <<"g", "f">>}, p \in Operands, q \in Operands}
  \cup {Whole(<<>>, <<TypedFn("go", <<TypedParam("a", i32)>>, i32,
                               Value(<<IfElse(Binary("<", Ident("a"), k), Value(<<e>>), Value(<<Binary(o, CallOf("go", <<Binary("-", Ident("a"), one)>>), Ident("a"))>>))>>)),
                       TypedFn("main", <<>>, i32, Value(<<CallOf("go", <<three>>)>>))>>) :
           k \in {zero, two}, e \in {one, Value(<<Return(<<two>>), one>>), Method(List(<<one>>), "len", <<>>)}, o \in {"+", "*", "-"}}

-----------------------------------------------------------------------------
(* Types to lay out: structs of three fields and an enum. *)

Parts0 == {Named(n, <<>>) : n \in {"u8", "i64", "bool", "E"}}
  \cup {Union(<<Named("i16", <<>>), Named("nil", <<>>)>>), Named("Result", <<i32>>)}
Parts1 == Parts0 \cup {TupleType(<<Named("u8", <<>>), t>>) : t \in Parts0}
Declared3(t, u, v) == Declaration("struct_decl", "P", <<Declared("f", <<t>>), Declared("g", <<u>>), Declared("h", <<v>>)>>)
LaidTypes ==
  {Program(<<Declaration("enum_decl", "E", <<Declared("A", <<>>), Declared("B", <<t, u>>)>>),
             Declared3(t, u, v), TypedFn("main", <<>>, i32, Value(<<one>>))>>) :
     t \in Parts0 \ {Named("E", <<>>)}, u \in {Named("u8", <<>>), Named("i64", <<>>)}, v \in Parts1}

Programs == UNION {Effects, Loops, Places, Borrowing, Closures, Tries, Matches, IllTyped, Compiled, LaidTypes}

MCSources == SyntaxSources \cup [prog : Programs, layout : {"line"}, runs : {TRUE}]
=============================================================================
