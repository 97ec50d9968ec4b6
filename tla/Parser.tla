-------------------------------- MODULE Parser --------------------------------
(***************************************************************************)
(* The recursive-descent parser (src/src/parser.rs and src/src/parser/):   *)
(* operator precedence by binding powers, the lookahead that tells a       *)
(* struct literal, a block, a map and a turbofish apart, optional          *)
(* semicolons.                                                             *)
(*                                                                         *)
(* Every operator takes the parser p and returns it with what it parsed in *)
(* p.out; an error is final (p.ok is FALSE).                               *)
(***************************************************************************)
EXTENDS Lexer

MkParser(tokens) ==
  [toks |-> tokens, i |-> 1, noStruct |-> FALSE, ok |-> TRUE, out |-> Nil]

PeekAt(p, n) == IF p.i + n <= Len(p.toks) THEN p.toks[p.i + n] ELSE "EOF"
Peek(p) == PeekAt(p, 0)
Bump(p) == IF p.i < Len(p.toks) THEN [p EXCEPT !.i = @ + 1] ELSE p
At(p, t) == p.ok /\ Peek(p) = t
Eat(p, t) == IF At(p, t) THEN Bump(p) ELSE p
Fail(p) == [p EXCEPT !.ok = FALSE]
Expect(p, t) == IF At(p, t) THEN Bump(p) ELSE Fail(p)
Out(p, x) == IF p.ok THEN [p EXCEPT !.out = x] ELSE p

RECURSIVE SkipTerminators(_)
SkipTerminators(p) == IF Peek(p) \in {"NL", ";"} THEN SkipTerminators(Bump(p)) ELSE p

Name(p) == IF IsIdent(Peek(p)) THEN Out(Bump(p), Peek(p)) ELSE Fail(p)

StmtEnd(p) == Peek(p) \in {"NL", ";", "}", "EOF"}

-----------------------------------------------------------------------------
\* What of the grammar refers to what parses it; the rules follow below.
RECURSIVE ParseOne(_, _)
ParseType(p) == ParseOne(p, "type")
ParsePattern(p, typed) == ParseOne(p, IF typed THEN "typed pattern" ELSE "pattern")
ParseExpr(p) == ParseOne(p, "expr")
ParseBlock(p) == ParseOne(p, "block")
ParseFn(p) == ParseOne(p, "fn")

\* p.out once q has parsed what comes after it, and both in one sequence.
Kept(p, q) == [q EXCEPT !.out = p.out]
Singly(p) == Out(p, <<p.out>>)
Prepend(x, p) == Out(p, <<x>> \o p.out)

\* The elements of that kind up to close, each but the last followed by a
\* comma; p.out is their sequence.
RECURSIVE CommaList(_, _, _)
CommaList(p, close, kind) ==
  IF ~ p.ok \/ At(p, close) THEN Out(p, <<>>)
  ELSE LET e == ParseOne(p, kind)
       IN IF ~ At(e, ",") THEN Out(e, <<e.out>>) ELSE Prepend(e.out, CommaList(Bump(e), close, kind))

\* open elements close
Enclosed(p, open, close, kind) == Expect(CommaList(Expect(p, open), close, kind), close)

\* Elements up to the brace, with optional commas and terminators after each.
RECURSIVE BraceList(_, _)
BraceList(p, kind) ==
  IF ~ p.ok \/ At(p, "}") THEN Out(p, <<>>)
  ELSE LET e == ParseOne(p, kind)
       IN Prepend(e.out, BraceList(SkipTerminators(Eat(e, ",")), kind))

Braced(p, kind) == Expect(BraceList(SkipTerminators(Expect(p, "{")), kind), "}")

-----------------------------------------------------------------------------
(* Types.                                                                  *)

RECURSIVE ParseTypeAtom(_)
RECURSIVE UnionTail(_)
UnionTail(p) ==
  IF ~ At(p, "|") THEN Out(p, <<>>)
  ELSE LET Then(t) == Prepend(t.out, UnionTail(t)) IN Then(ParseTypeAtom(Bump(p)))

UnionOf(ts) == Out(ts, Union(ts.out))
UnionType(p) ==
  LET Then(t) == IF At(t, "|") THEN UnionOf(Prepend(t.out, UnionTail(t))) ELSE t
  IN Then(ParseTypeAtom(p))

ParseTypeAtom(p) ==
  LET t == Peek(p)
      q == Bump(p)
  IN CASE ~ p.ok -> p
       [] t = "&" ->                       \* of a slice the `mut` is dropped
            LET s == Eat(q, "mut")
                r == ParseTypeAtom(s)
            IN Out(r, RefType(IF At(q, "mut") /\ ~ At(s, "[") THEN "&mut" ELSE "&", r.out))
       [] t = "[" -> LET r == ParseType(q) IN Out(Expect(r, "]"), ArrayType(r.out))
       [] t = "(" ->
            LET r == Enclosed(p, "(", ")", "type")
            IN Out(r, IF Len(r.out) = 1 THEN r.out[1] ELSE TupleType(r.out))
       [] t = "!" -> Out(q, Never)
       [] t = "fn" ->
            LET Returning(r, ret) == Out(ret, FnType(r.out, ret.out))
                Taking(r) == Returning(r, IF At(r, "->") THEN ParseType(Bump(r)) ELSE Out(r, TupleType(<<>>)))
            IN Taking(Enclosed(q, "(", ")", "type"))
       [] t = "nil" -> Out(q, Named("nil", <<>>))
       [] t = "self" -> Out(q, Named("Self", <<>>))
       [] IsIdent(t) /\ At(q, "<") ->
            LET r == Enclosed(q, "<", ">", "type") IN Out(r, Named(t, r.out))
       [] IsIdent(t) -> Out(q, Named(t, <<>>))
       [] OTHER -> Fail(p)

\* `: type` if there is one; p.out is the type in a sequence.
Annotation(p) ==
  IF At(p, ":") THEN LET t == ParseType(Bump(p)) IN Out(t, <<t.out>>) ELSE Out(p, <<>>)

-----------------------------------------------------------------------------
(* Patterns.                                                               *)

RECURSIVE ParsePatternAtom(_, _)
RECURSIVE OrTail(_, _)
OrTail(p, typed) ==
  IF ~ At(p, "|") THEN Out(p, <<>>)
  ELSE LET Then(a) == Prepend(a.out, OrTail(a, typed)) IN Then(ParsePatternAtom(Bump(p), typed))

\* typed: whether `name: type` may stand for a pattern.
OrOf(ps) == Out(ps, POr(ps.out))
OrPattern(p, typed) ==
  LET Then(a) == IF At(a, "|") THEN OrOf(Prepend(a.out, OrTail(a, typed))) ELSE a
  IN Then(ParsePatternAtom(p, typed))

\* The items of a list pattern, which a rest ends; p.out is a p_list.
RECURSIVE ListPattern(_, _)
ListPattern(p, typed) ==
  IF ~ p.ok \/ At(p, "]") THEN Out(p, PList(<<>>))
  ELSE IF At(p, "..")
  THEN LET n == Name(Bump(p))
       IN IF n.ok THEN Out(n, PListRest(<<>>, n.out)) ELSE Out(Bump(p), PListAnd(<<>>))
  ELSE LET a == ParsePattern(p, typed)
           Then(rest) == Out(rest, Node("p_list", rest.out.name, <<a.out>> \o rest.out.args))
       IN IF ~ At(a, ",") THEN Out(a, PList(<<a.out>>)) ELSE Then(ListPattern(Bump(a), typed))

\* The last segment of a variant's path names it.
RECURSIVE PatternPath(_)
PatternPath(p) ==
  LET n == Name(p)
  IN IF At(n, ".") \/ At(n, "::") THEN PatternPath(Bump(n)) ELSE n

SubPatterns(typed) == IF typed THEN "typed pattern" ELSE "pattern"

\* What follows a name, or the path n, that begins a pattern at p.
NamedPattern(p, n, typed) ==
  LET Fields(r) == Out(r, Node("p_struct", n.out, r.out))
      Payload(r) == Out(r, PVariant(n.out, r.out))
      Narrowed(r) == Out(r, PTyped(Peek(p), r.out))
      Entire(r) == Out(r, PAt(Peek(p), r.out))
  IN CASE ~ n.ok -> n
       [] Peek(n) = "(" -> Payload(Enclosed(n, "(", ")", SubPatterns(typed)))
       [] Peek(n) = "{" /\ ~ n.noStruct -> Fields(Enclosed(n, "{", "}", "fieldname"))
       [] Peek(n) = ":" /\ typed -> Narrowed(ParseType(Bump(n)))
       [] Peek(n) = "@" -> Entire(ParsePatternAtom(Bump(n), typed))
       [] n.i > p.i + 1 -> Out(n, PVariant(n.out, <<>>))
       [] OTHER -> Out(n, PBind(n.out))
ParseNamePattern(p, typed) == NamedPattern(p, PatternPath(p), typed)

ExpectInt(p) == IF p.ok /\ Peek(p) \in Digits THEN Out(Bump(p), Peek(p)) ELSE Fail(p)

\* An integer, or the first of a range of them.
ParseIntPattern(p) ==
  LET lo == ExpectInt(p)
      hi == ExpectInt(Bump(lo))
  IN IF Peek(lo) \in {"..", "..="} THEN Out(hi, PRange(Peek(lo), lo.out, hi.out))
     ELSE Out(lo, PInt(lo.out))

ParsePatternAtom(p, typed) ==
  LET t == Peek(p)
      q == Bump(p)
  IN CASE ~ p.ok -> p
       [] t = "_" -> Out(q, PWild)
       [] t = "nil" -> Out(q, PNil)
       [] t \in {"true", "false"} -> Out(q, PBool(t))
       [] t \in Digits -> ParseIntPattern(p)
       [] t = "-" -> LET n == ExpectInt(q) IN Out(n, PNeg(n.out))
       [] t = "(" -> LET r == Enclosed(p, "(", ")", SubPatterns(typed)) IN Out(r, PTuple(r.out))
       [] t = "[" -> LET r == ListPattern(q, typed) IN Out(Expect(r, "]"), r.out)
       [] IsIdent(t) -> ParseNamePattern(p, typed)
       [] OTHER -> Fail(p)

-----------------------------------------------------------------------------
(* Expressions: the Pratt core.                                            *)

RECURSIVE ParseBp(_, _)

ParseExprNoStructForever(p) == IF ~ p.ok THEN p ELSE ParseExpr([p EXCEPT !.noStruct = TRUE])
ParseExprNoStruct(p) ==
  IF ~ p.ok THEN p ELSE [ParseExpr([p EXCEPT !.noStruct = TRUE]) EXCEPT !.noStruct = p.noStruct]

AssignOp == ("=" :> "=") @@ ("+=" :> "+") @@ ("-=" :> "-") @@ ("*=" :> "*") @@ ("/=" :> "/")
            @@ ("%=" :> "%")

InfixBp ==
  [t \in {"??"} |-> <<5, 6>>] @@ [t \in {"||"} |-> <<7, 8>>] @@ [t \in {"&&"} |-> <<9, 10>>]
  @@ [t \in {"==", "!=", "<", ">", "<=", ">="} |-> <<11, 12>>]
  @@ [t \in {"..", "..="} |-> <<13, 14>>]
  @@ [t \in {"|"} |-> <<15, 16>>] @@ [t \in {"^"} |-> <<17, 18>>] @@ [t \in {"&"} |-> <<19, 20>>]
  @@ [t \in {"<<", ">>"} |-> <<21, 22>>] @@ [t \in {"+", "-"} |-> <<23, 24>>]
  @@ [t \in {"*", "/", "%"} |-> <<25, 26>>] @@ [t \in {"**"} |-> <<28, 27>>]
CastBp == 26
PrefixBp == 29

Infix(t, l, r) == CASE t = "??" -> Coalesce(l, r)
                    [] t \in {"..", "..="} -> Span(t, l, r)
                    [] OTHER -> Binary(t, l, r)

\* Whether `<types>(` is ahead: the only shape that commits to a turbofish.
Turbofish(p) ==
  LET r == Enclosed(p, "<", ">", "type") IN Peek(p) = "<" /\ PeekAt(p, 1) # ">" /\ At(r, "(")

\* The type arguments of `::<...>`, which are dropped, like its caller's p.out is kept.
TypeArgs(p) ==
  IF At(p, "::") /\ PeekAt(p, 1) = "<"
  THEN Kept(p, Enclosed(Bump(p), "<", ">", "type"))
  ELSE p

ParseArgs(p) == Enclosed(p, "(", ")", "arg")

\* A field, tuple index or method after a dot.
ParseAccess(p) ==
  LET dot == Peek(p)
      q == Bump(p)
      Called(n, args) == Out(args, IF dot = "?." THEN OptMethod(p.out, n.out, args.out)
                                   ELSE Method(p.out, n.out, args.out))
      Member(n) == IF At(n, "(") THEN Called(n, ParseArgs(n))
                   ELSE Out(n, IF dot = "?." THEN OptField(p.out, n.out) ELSE Field(p.out, n.out))
  IN IF Peek(q) \in Digits
     THEN Out(Bump(q), Node(IF dot = "?." THEN "field?" ELSE "field", Peek(q), <<p.out>>))
     ELSE Member(TypeArgs(Name(q)))

\* A::b after A, or after another path.
ParseSegment(p) ==
  LET n == Name(Bump(p))
  IN IF ~ n.ok \/ p.out.op \notin {"ident", "path"} THEN Fail(p)
     ELSE Out(n, Path((IF p.out.op = "path" THEN p.out.args ELSE <<Segment(p.out.name)>>)
                      \o <<Segment(n.out)>>))

\* p past one more postfix operator, or p itself if there is none.
PostfixStep(p) ==
  LET t == Peek(p)
      Called(args) == Out(args, Call(p.out, args.out))
      Indexed(i) == Out(Expect(i, "]"), Index(p.out, i.out))
  IN CASE t \in {".", "?."} -> ParseAccess(p)
       [] t = "(" -> Called(ParseArgs(p))
       [] t = "[" -> Indexed(ParseExpr(Bump(p)))
       [] t = "?" -> Out(Bump(p), Try(p.out))
       [] t = "::" /\ PeekAt(p, 1) = "<" -> TypeArgs(p)
       [] t = "::" -> ParseSegment(p)
       [] t = "<" /\ p.out.op \in {"ident", "path"} /\ Turbofish(p) ->
            Kept(p, Enclosed(p, "<", ">", "type"))
       [] OTHER -> p
RECURSIVE ParsePostfix(_)
ParsePostfix(p) ==
  LET Then(q) == IF q.i = p.i THEN q ELSE ParsePostfix(q)
  IN IF ~ p.ok THEN p ELSE Then(PostfixStep(p))

\* p past one more infix operator that binds at least as tightly as min.
InfixStep(p, min) ==
  LET t == Peek(p)
      Assigned(e) == Out(e, Assign(AssignOp[t], p.out, e.out))
      Typed(type) == Out(type, Cast(p.out, type.out))
      Right(e) == Out(e, Infix(t, p.out, e.out))
  IN CASE t \in DOMAIN AssignOp /\ min <= 1 -> Assigned(ParseBp(Bump(p), 1))
       [] t = "as" /\ CastBp >= min -> Typed(ParseType(Bump(p)))
       [] t \in DOMAIN InfixBp /\ InfixBp[t][1] >= min -> Right(ParseBp(Bump(p), InfixBp[t][2]))
       [] OTHER -> p
RECURSIVE ParseInfix(_, _)
ParseInfix(p, min) ==
  LET Then(q, r) == IF r.i = q.i THEN r ELSE ParseInfix(r, min)
      Operated(q) == IF ~ q.ok THEN q ELSE Then(q, InfixStep(q, min))
  IN IF ~ p.ok THEN p ELSE Operated(ParsePostfix(p))

RECURSIVE ParseAtom(_)
ParsePrefix(p) ==
  LET t == Peek(p)
      o == IF t = "&" /\ PeekAt(p, 1) = "mut" THEN "&mut" ELSE t
      e == ParseBp(IF t = "&" THEN Eat(Bump(p), "mut") ELSE Bump(p), PrefixBp)
  IN IF p.ok /\ t \in {"-", "!", "~", "*", "&"} THEN Out(e, Unary(o, e.out)) ELSE ParseAtom(p)

ParseBp(p, min) == IF ~ p.ok THEN p ELSE ParseInfix(ParsePrefix(p), min)

-----------------------------------------------------------------------------
(* Atoms.                                                                  *)

\* What follows the name makes `{` a struct literal rather than a block.
LooksLikeStruct(p) ==
  \/ PeekAt(p, 1) \in {"}", ".."}
  \/ IsIdent(PeekAt(p, 1)) /\ PeekAt(p, 2) \in {":", ",", "}"}

\* The fields of a struct literal; a spread is the last.
RECURSIVE StructFields(_)
StructFields(p) ==
  LET e == ParseExpr(Bump(p))
      f == ParseOne(p, "fieldinit")
      rest == StructFields(SkipTerminators(Eat(f, ",")))
  IN IF ~ p.ok \/ At(p, "}") THEN Out(p, <<>>)
     ELSE IF At(p, "..") THEN Out(SkipTerminators(e), <<Spread(e.out)>>)
     ELSE IF ~ At(f, ",") THEN Out(f, <<f.out>>)
     ELSE Out(rest, <<f.out>> \o rest.out)

ParseStructLit(p, n) ==
  LET r == StructFields(SkipTerminators(Bump(p)))
  IN Out(Expect(r, "}"), Node("struct", n, r.out))

ParseIdent(p) ==
  LET q == Bump(p)
  IN IF /\ Peek(q) = "." /\ ~ p.noStruct
        /\ IsIdent(PeekAt(q, 1)) /\ PeekAt(q, 2) = "{"
     THEN ParseStructLit(Bump(Bump(q)), PeekAt(q, 1))
     ELSE IF At(q, "{") /\ ~ p.noStruct /\ LooksLikeStruct(q) THEN ParseStructLit(q, Peek(p))
     ELSE Out(q, Ident(Peek(p)))

ParseParen(p) ==
  LET first == ParseExpr(Bump(p))
      more == CommaList(Eat(first, ","), ")", "expr")
  IN IF PeekAt(p, 1) = ")" THEN Out(Bump(Bump(p)), Tuple(<<>>))
     ELSE IF At(first, ",") THEN Out(Expect(more, ")"), Tuple(<<first.out>> \o more.out))
     ELSE Expect(first, ")")

ParseList(p) ==
  LET first == ParseExpr(Bump(p))
      count == ParseExpr(Bump(first))
      more == CommaList(Eat(first, ","), "]", "expr")
  IN IF PeekAt(p, 1) = "]" THEN Out(Bump(Bump(p)), List(<<>>))
     ELSE IF At(first, ";") THEN Out(Expect(count, "]"), Repeat(first.out, count.out))
     ELSE IF At(first, ",") THEN Out(Expect(more, "]"), List(<<first.out>> \o more.out))
     ELSE Out(Expect(first, "]"), List(<<first.out>>))

\* `{}` and `{a: b, ...}` are maps, `{a, b}` is a set.
ParseBraceCollection(p) ==
  LET first == ParseExpr(Bump(p))
      pairs == CommaList(Bump(p), "}", "pair")
      items == CommaList(Bump(p), "}", "expr")
  IN IF PeekAt(p, 1) = "}" THEN Out(Bump(Bump(p)), MapLit(<<>>))
     ELSE IF At(first, ":") THEN Out(Expect(pairs, "}"), MapLit(pairs.out))
     ELSE Out(Expect(items, "}"), SetLit(items.out))

\* Which of the separators occur between p and its closing brace, outside
\* nested brackets.
RECURSIVE Separators(_, _, _, _)
Separators(p, j, depth, paren) ==
  LET t == PeekAt(p, j)
      found == IF depth = 0 /\ paren = 0 /\ t \in {":", ",", ";"} THEN {t} ELSE {}
  IN IF t = "EOF" \/ (t = "}" /\ depth = 0) THEN {}
     ELSE found \cup
          Separators(p, j + 1,
                     IF t = "{" THEN depth + 1 ELSE IF t = "}" THEN depth - 1 ELSE depth,
                     IF t \in {"(", "["} THEN paren + 1
                     ELSE IF t \in {")", "]"} THEN paren - 1 ELSE paren)

BraceIsBlock(p) ==
  LET found == Separators(p, 1, 0, 0)
  IN CASE PeekAt(p, 1) = "}" -> FALSE
       [] PeekAt(p, 1) \in {"let", "return", "break", "continue", "const", "fn"} -> TRUE
       [] ":" \in found -> FALSE
       [] ";" \in found -> TRUE
       [] OTHER -> "," \notin found

RECURSIVE ParseIf(_)
ParseIf(p) ==
  LET c == ParseExprNoStruct(Bump(p))
      then == ParseBlock(c)
      els == IF PeekAt(then, 1) = "if" THEN ParseIf(Bump(then)) ELSE ParseBlock(Bump(then))
  IN IF At(then, "else") THEN Out(els, IfElse(c.out, then.out, els.out))
     ELSE Out(then, If(c.out, then.out))

ParseWhile(p) ==
  LET pat == ParsePattern(Bump(Bump(p)), TRUE)
      e == ParseExprNoStruct(Expect(pat, "="))
      c == ParseExprNoStruct(Bump(p))
      body == ParseBlock(IF PeekAt(p, 1) = "let" THEN e ELSE c)
  IN Out(body, IF PeekAt(p, 1) = "let" THEN WhileLet(pat.out, e.out, body.out)
               ELSE While(c.out, body.out))

ParseFor(p) ==
  LET pat == ParsePattern(Bump(p), FALSE)
      e == ParseExprNoStruct(Expect(pat, "in"))
      body == ParseBlock(e)
  IN Out(body, For(pat.out, e.out, body.out))

ParseMatch(p) ==
  LET e == ParseExprNoStruct(Bump(p))
      arms == Braced(e, "arm")
  IN Out(arms, Match(e.out, arms.out))

ParseClosure(p, kind) ==
  LET params == IF At(p, "||") THEN Out(Bump(p), <<>>) ELSE Enclosed(p, "|", "|", "param")
      ret == IF At(params, "->") THEN ParseType(Bump(params)) ELSE params
      Then(body) == Out(body, Node("closure", kind, params.out \o <<body.out>>))
  IN Then(IF At(ret, "{") THEN ParseBlock(ret) ELSE ParseExpr(ret))

\* The catch arms and the finally block after a try.
RECURSIVE Handlers(_)
CatchBlock(p, named) ==
  LET q == IF named THEN Bump(Bump(p)) ELSE Bump(p)
  IN ParseBlock(IF At(q, ":") THEN Name(Bump(q)) ELSE q)
Handlers(p) ==
  LET named == IsIdent(PeekAt(p, 1))
      Caught(b) == Prepend(Catch(IF named THEN PeekAt(p, 1) ELSE "", b.out), Handlers(b))
  IN CASE At(p, "catch") -> Caught(CatchBlock(p, named))
       [] At(p, "finally") -> Singly(ParseBlock(Bump(p)))
       [] OTHER -> Out(p, <<>>)

ParseTryCatch(p) ==
  LET Made(parts) == Out(parts, Node("trycatch", "", parts.out))
      Then(body) == Made(Prepend(body.out, Handlers(body)))
  IN Then(ParseBlock(Bump(p)))

ParseTask(p) ==
  LET e == IF Peek(p) = "await" THEN ParseBp(Bump(p), PrefixBp) ELSE ParseBlock(Bump(p))
  IN Out(e, Task(Peek(p), e.out))

ParseAtom(p) ==
  LET t == Peek(p)
      q == Bump(p)
      body == ParseBlock(q)
  IN CASE ~ p.ok -> p
       [] t \in Digits -> Out(q, Num(t))
       [] t \in {"true", "false"} -> Out(q, Bool(t))
       [] t = "nil" -> Out(q, Nil)
       [] t = "self" -> Out(q, Ident("self"))
       [] t = "(" -> ParseParen(p)
       [] t = "[" -> ParseList(p)
       [] t = "{" -> IF BraceIsBlock(p) THEN ParseBlock(p) ELSE ParseBraceCollection(p)
       [] t = "if" -> ParseIf(p)
       [] t = "match" -> ParseMatch(p)
       [] t = "loop" -> Out(body, Loop(body.out))
       [] t = "while" -> ParseWhile(p)
       [] t = "for" -> ParseFor(p)
       [] t \in {"|", "||"} -> ParseClosure(p, "")
       [] t = "move" -> ParseClosure(q, "move")
       [] t \in {"await", "spawn", "unsafe"} -> ParseTask(p)
       [] t = "try" -> ParseTryCatch(p)
       [] IsIdent(t) -> ParseIdent(p)
       [] OTHER -> Fail(p)

-----------------------------------------------------------------------------
(* Blocks and statements.                                                  *)

ParseLet(p) ==
  LET mutable == PeekAt(p, 1) = "mut"
      pat == ParsePattern(Eat(Bump(p), "mut"), FALSE)
      Then(e, type) == Out(e, Node("let", IF mutable THEN "mut" ELSE "", <<e.out, pat.out>> \o type))
      Typed(t) == Then(ParseExpr(Expect(t, "=")), t.out)
  IN Typed(Annotation(pat))

ParseConst(p) ==
  LET n == Name(Bump(p))
      Then(e, type) == Out(e, Node("const", n.out, <<e.out>> \o type))
      Typed(t) == Then(ParseExpr(Expect(t, "=")), t.out)
  IN Typed(Annotation(n))

\* return and break, with their value if the statement does not end.
ParseLeave(p) ==
  LET e == ParseExpr(Bump(p))
  IN IF StmtEnd(Bump(p)) THEN Out(Bump(p), Node(Peek(p), "", <<>>))
     ELSE Out(e, Node(Peek(p), "", <<e.out>>))

ParseStmt(p) ==
  LET t == Peek(p)
  IN CASE t = "let" -> ParseLet(p)
       [] t \in {"return", "break"} -> ParseLeave(p)
       [] t = "continue" -> Out(Bump(p), Continue)
       [] t = "const" -> ParseConst(p)
       [] t = "fn" -> ParseFn(p)
       [] OTHER -> ParseExpr(p)

Items == {"let", "return", "break", "continue", "const", "fn"}

\* An expression right before the brace is the block's value.
RECURSIVE ParseStmts(_)
ParseStmts(p) ==
  LET Before(s, rest) == Out(rest, Node(rest.out.op, "", <<s.out>> \o rest.out.args))
      Then(s) == CASE ~ s.ok -> s
                   [] Peek(p) \notin Items /\ At(s, "}") -> Out(s, Value(<<s.out>>))
                   [] OTHER -> Before(s, ParseStmts(SkipTerminators(s)))
  IN CASE ~ p.ok -> p
       [] Peek(p) \in {"}", "EOF"} -> Out(p, Block(<<>>))
       [] OTHER -> Then(ParseStmt(p))

BlockOf(p) ==
  LET inside == SkipTerminators([Expect(p, "{") EXCEPT !.noStruct = FALSE])
  IN [Expect(ParseStmts(inside), "}") EXCEPT !.noStruct = p.noStruct]

-----------------------------------------------------------------------------
(* Items.                                                                  *)

\* Generic parameters are dropped with their bounds.
Generics(p) ==
  IF At(p, "<") THEN Kept(p, Enclosed(p, "<", ">", "param")) ELSE p

\* The parts of a function that follow those already in p.out.
WithBody(p) == LET body == ParseBlock(p) IN Out(body, Append(p.out, body.out))
WithResult(p) ==
  IF ~ At(p, "->") THEN p ELSE LET type == ParseType(Bump(p)) IN Out(type, Append(p.out, type.out))
Function(n, parts) == Out(parts, Node("fn", n, parts.out))
FnOf(p) ==
  LET n == Generics(Name(Expect(Eat(p, "async"), "fn")))
  IN Function(n.out, WithBody(WithResult(Enclosed(n, "(", ")", "param"))))

ParseDeclaration(p, kind, part) ==
  LET n == Generics(Name(Bump(p)))
      Then(parts) == Out(parts, Declaration(kind, n.out, parts.out))
  IN Then(Braced(n, part))

ParseTypeAlias(p) ==
  LET n == Name(Bump(p))
      type == ParseType(Expect(n, "="))
  IN Out(type, Declaration("alias_decl", n.out, <<type.out>>))

ParseImpl(p) ==
  LET first == Name(Bump(p))
      target == IF At(first, "for") THEN Name(Bump(first)) ELSE first
      Then(methods) == Out(methods, Declaration("impl_decl", target.out, methods.out))
  IN Then(Braced(target, "method"))

\* p.out is the sequence of items; a mod's are hoisted.
RECURSIVE ParseItems(_)
ModOf(p) == Expect(ParseItems(SkipTerminators(Expect(Name(Bump(p)), "{"))), "}")
ItemOf(p) ==
  LET t == Peek(p)
  IN CASE t \in {"fn", "async"} -> FnOf(p)
       [] t = "struct" -> ParseDeclaration(p, "struct_decl", "fielddecl")
       [] t = "enum" -> ParseDeclaration(p, "enum_decl", "variant")
       [] t = "impl" -> ParseImpl(p)
       [] t = "const" -> ParseConst(p)
       [] t = "type" -> ParseTypeAlias(p)
       [] OTHER -> Fail(p)
ParseItem(p) == IF Peek(p) = "mod" THEN ModOf(p) ELSE Singly(ParseOne(p, "item"))

ParseItems(p) ==
  LET Then(item) == IF ~ item.ok THEN item
                    ELSE LET rest == ParseItems(SkipTerminators(item)) IN Out(rest, item.out \o rest.out)
  IN IF ~ p.ok \/ Peek(p) \in {"}", "EOF"} THEN Out(p, <<>>) ELSE Then(ParseItem(Eat(p, "pub")))

ToEnd(r) == IF r.ok /\ Peek(r) # "EOF" THEN Fail(r) ELSE Out(r, Node("program", "", r.out))
ParseProgram(tokens) == ToEnd(ParseItems(SkipTerminators(MkParser(tokens))))

-----------------------------------------------------------------------------
(* The elements of lists.                                                  *)

\* `a: e` of a call is e.
ArgOf(p) == ParseExpr(IF IsIdent(Peek(p)) /\ PeekAt(p, 1) = ":" THEN Bump(Bump(p)) ELSE p)

PairOf(p) ==
  LET key == ParseExpr(p)
      Then(value) == Out(value, Pair(key.out, value.out))
  IN Then(ParseExpr(Expect(key, ":")))

ParamOf(p) ==
  LET n == Name(p)
      Then(type) == Out(type, Node("param", n.out, type.out))
  IN Then(Annotation(n))

FieldInitOf(p) ==
  LET n == Name(p)
      Then(e) == Out(e, FieldInit(n.out, e.out))
  IN IF At(n, ":") THEN Then(ParseExpr(Bump(n))) ELSE Out(n, FieldInit(n.out, Ident(n.out)))

ArmOf(p) ==
  LET pat == ParsePattern(p, FALSE)
      Then(parts, body) == Out(body, Node("arm", "", Append(parts, body.out)))
      Guarding(g) == Then(<<pat.out, g.out>>, ParseExpr(Expect(g, "=>")))
  IN IF At(pat, "if") THEN Guarding(ParseExprNoStruct(Bump(pat)))
     ELSE Then(<<pat.out>>, ParseExpr(Expect(pat, "=>")))

FieldDeclOf(p) ==
  LET n == Name(p)
      Then(type) == Out(type, Declared(n.out, <<type.out>>))
  IN Then(ParseType(Expect(n, ":")))

VariantOf(p) ==
  LET n == Name(p)
      Then(types) == Out(types, Declared(n.out, types.out))
  IN Then(IF At(n, "(") THEN Enclosed(n, "(", ")", "type") ELSE Out(n, <<>>))

ParseOne(p, kind) ==
  CASE ~ p.ok -> p
    [] kind = "expr" -> ParseBp(p, 0)
    [] kind = "type" -> UnionType(p)
    [] kind \in {"pattern", "typed pattern"} -> OrPattern(p, kind = "typed pattern")
    [] kind = "block" -> BlockOf(p)
    [] kind = "fn" -> FnOf(p)
    [] kind = "item" -> ItemOf(p)
    [] kind = "arg" -> ArgOf(p)
    [] kind = "pair" -> PairOf(p)
    [] kind = "param" -> ParamOf(p)
    [] kind = "fieldname" -> LET n == Name(p) IN Out(n, PField(n.out))
    [] kind = "fieldinit" -> FieldInitOf(p)
    [] kind = "arm" -> ArmOf(p)
    [] kind = "fielddecl" -> FieldDeclOf(p)
    [] kind = "variant" -> VariantOf(p)
    [] OTHER -> FnOf(Eat(p, "pub"))                          \* method

Parse(text) == ParseProgram(FilterNewlines(Tokenize(text)))
=============================================================================
