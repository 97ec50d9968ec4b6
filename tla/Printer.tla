-------------------------------- MODULE Printer --------------------------------
(***************************************************************************)
(* The reference the parser is checked against: the text of a program,     *)
(* with parentheses only where the language's precedence needs them, in    *)
(* any of three layouts.                                                   *)
(***************************************************************************)
EXTENDS Lexer

\* From the loosest to the tightest.
Ladder == << {"="}, {"??"}, {"||"}, {"&&"}, {"==", "!=", "<", ">", "<=", ">="}, {"..", "..="},
             {"|"}, {"^"}, {"&"}, {"<<", ">>"}, {"+", "-"}, {"*", "/", "%"}, {"as"}, {"**"},
             {"prefix"}, {"postfix"}, {"atom"} >>
Rank == [o \in UNION {Ladder[i] : i \in DOMAIN Ladder} |-> CHOOSE i \in DOMAIN Ladder : o \in Ladder[i]]

Operator(e) == CASE e.op = "assign" -> "="
                 [] e.op = "coalesce" -> "??"
                 [] e.op \in {"binary", "range"} -> e.name
                 [] e.op = "cast" -> "as"
                 [] e.op \in {"unary", "await"} -> "prefix"
                 [] e.op \in {"call", "method", "method?", "field", "field?", "index", "try"} -> "postfix"
                 [] OTHER -> "atom"

\* A closure reaches as far right as it can.
RankOf(e) == IF e.op = "closure" THEN 0 ELSE Rank[Operator(e)]

Flat(seqs) == FlattenSeq(seqs)
Commas(seqs) == Flat([i \in DOMAIN seqs |-> IF i = 1 THEN seqs[i] ELSE <<",">> \o seqs[i]])

RECURSIVE TypeText(_)
TypeTexts(ts) == Commas([i \in DOMAIN ts |-> TypeText(ts[i])])
TypeText(t) ==
  CASE t.op = "t_named" -> <<t.name>> \o (IF t.args = <<>> THEN <<>> ELSE <<"<">> \o TypeTexts(t.args) \o <<">">>)
    [] t.op = "t_union" -> TypeText(t.args[1]) \o Flat([i \in DOMAIN Tail(t.args) |-> <<"|">> \o TypeText(t.args[i + 1])])
    [] t.op = "t_ref" -> <<"&">> \o (IF t.name = "&mut" THEN <<"mut">> ELSE <<>>) \o TypeText(t.args[1])
    [] t.op = "t_array" -> <<"[">> \o TypeText(t.args[1]) \o <<"]">>
    [] t.op = "t_tuple" -> <<"(">> \o TypeTexts(t.args) \o <<")">>
    [] t.op = "t_fn" -> <<"fn", "(">> \o TypeTexts(Front(t.args)) \o <<")", "->">> \o TypeText(Last(t.args))
    [] OTHER -> <<"!">>
Typed(ts) == IF ts = <<>> THEN <<>> ELSE <<":">> \o TypeText(ts[1])

RECURSIVE PatText(_)
PatTexts(ps) == Commas([i \in DOMAIN ps |-> PatText(ps[i])])
PatText(p) ==
  CASE p.op = "p_wild" -> <<"_">>
    [] p.op = "p_nil" -> <<"nil">>
    [] p.op \in {"p_bind", "p_int", "p_bool"} -> <<p.name>>
    [] p.op = "p_neg" -> <<"-", p.name>>
    [] p.op = "p_range" -> <<p.args[1].name, p.name, p.args[2].name>>
    [] p.op = "p_typed" -> <<p.name, ":">> \o TypeText(p.args[1])
    [] p.op = "p_at" -> <<p.name, "@">> \o PatText(p.args[1])
    [] p.op = "p_or" -> Flat([i \in DOMAIN p.args |-> (IF i = 1 THEN <<>> ELSE <<"|">>) \o PatText(p.args[i])])
    [] p.op = "p_tuple" -> <<"(">> \o PatTexts(p.args) \o <<")">>
    [] p.op = "p_list" ->
         <<"[">> \o Commas([i \in DOMAIN p.args |->
                              (IF p.name = "rest" /\ i = Len(p.args) THEN <<"..">> ELSE <<>>) \o PatText(p.args[i])])
         \o (IF p.name # "any" THEN <<>> ELSE IF p.args = <<>> THEN <<"..">> ELSE <<",", "..">>) \o <<"]">>
    [] p.op = "p_variant" -> IF p.args = <<>> THEN <<"Option", ".", p.name>>
                             ELSE <<p.name, "(">> \o PatTexts(p.args) \o <<")">>
    [] p.op = "p_field" -> <<p.name>>
    [] OTHER -> <<p.name, "{">> \o PatTexts(p.args) \o <<"}">>

-----------------------------------------------------------------------------
RECURSIVE ExprText(_)
RECURSIVE StmtText(_)

Parens(e, min) == IF RankOf(e) < min THEN <<"(">> \o ExprText(e) \o <<")">> ELSE ExprText(e)
Exprs(es) == Commas([i \in DOMAIN es |-> ExprText(es[i])])

\* The operands of the right-associative "=" and "**" swap sides.
Infixed(e, tokens) ==
  LET r == Rank[Operator(e)]
      right == Operator(e) \in {"=", "**"}
  IN Parens(e.args[1], IF right THEN r + 1 ELSE r) \o tokens
     \o Parens(e.args[2], IF right THEN r ELSE r + 1)

\* Statements end in ";", but for a tail; an empty block holds one.
BlockText(b) ==
  LET n == Len(b.args)
  IN <<"{">> \o (IF n = 0 THEN <<";">> ELSE <<>>)
     \o Flat([i \in 1..n |-> StmtText(b.args[i]) \o (IF b.op = "value" /\ i = n THEN <<>>
                                                    ELSE IF i = n THEN <<";">> ELSE <<"SEP">>)])
     \o <<"}">>

Dot(e) == IF e.op \in {"method?", "field?"} THEN <<"?.">> ELSE <<".">>
Receiver(e) == Parens(e.args[1], Rank["postfix"])

ParamTexts(ps) == Commas([i \in DOMAIN ps |-> <<ps[i].name>> \o Typed(ps[i].args)])

InitText(f) == IF f.op = "spread" THEN <<"..">> \o ExprText(f.args[1])
               ELSE IF f.args[1] = Ident(f.name) THEN <<f.name>>
               ELSE <<f.name, ":">> \o ExprText(f.args[1])

ArmText(a) == PatText(a.args[1])
              \o (IF Len(a.args) = 3 THEN <<"if">> \o ExprText(a.args[2]) ELSE <<>>)
              \o <<"=>">> \o ExprText(Last(a.args)) \o <<",">>

HandlerText(h) == IF h.op = "catch" THEN <<"catch", h.name>> \o BlockText(h.args[1])
                  ELSE <<"finally">> \o BlockText(h)

ExprText(e) ==
  CASE e.op \in {"int", "bool", "ident", "segment"} -> <<e.name>>
    [] e.op = "nil" -> <<"nil">>
    [] e.op = "unary" -> (IF e.name = "&mut" THEN <<"&", "mut">> ELSE <<e.name>>)
                         \o Parens(e.args[1], Rank["prefix"])
    [] e.op = "await" -> <<"await">> \o Parens(e.args[1], Rank["prefix"])
    [] e.op \in {"binary", "range"} -> Infixed(e, <<e.name>>)
    [] e.op = "coalesce" -> Infixed(e, <<"??">>)
    [] e.op = "assign" -> Infixed(e, IF e.name = "=" THEN <<"=">> ELSE <<e.name \o "=">>)
    [] e.op = "cast" -> Parens(e.args[1], Rank["as"]) \o <<"as">> \o TypeText(e.args[2])
    [] e.op = "tuple" -> <<"(">> \o Exprs(e.args) \o (IF Len(e.args) = 1 THEN <<",", ")">> ELSE <<")">>)
    [] e.op = "list" -> <<"[">> \o Exprs(e.args) \o <<"]">>
    [] e.op = "set" -> <<"{">> \o Exprs(e.args) \o (IF Len(e.args) = 1 THEN <<",", "}">> ELSE <<"}">>)
    [] e.op = "map" -> <<"{">> \o Commas([i \in DOMAIN e.args |-> ExprText(e.args[i].args[1]) \o <<":">>
                                                           \o ExprText(e.args[i].args[2])]) \o <<"}">>
    [] e.op = "repeat" -> <<"[">> \o ExprText(e.args[1]) \o <<";">> \o ExprText(e.args[2]) \o <<"]">>
    [] e.op = "struct" -> <<e.name, "{">> \o Commas([i \in DOMAIN e.args |-> InitText(e.args[i])]) \o <<"}">>
    [] e.op = "path" -> <<e.args[1].name>> \o Flat([i \in DOMAIN Tail(e.args) |-> <<"::", e.args[i + 1].name>>])
    [] e.op = "call" -> (IF e.args[1].op \in {"field", "field?"}
                         THEN <<"(">> \o ExprText(e.args[1]) \o <<")">> ELSE Receiver(e)) \o <<"(">> \o Exprs(Tail(e.args)) \o <<")">>
    [] e.op \in {"method", "method?"} -> Receiver(e) \o Dot(e) \o <<e.name, "(">> \o Exprs(Tail(e.args)) \o <<")">>
    [] e.op \in {"field", "field?"} -> Receiver(e) \o Dot(e) \o <<e.name>>
    [] e.op = "index" -> Receiver(e) \o <<"[">> \o ExprText(e.args[2]) \o <<"]">>
    [] e.op = "try" -> Receiver(e) \o <<"?">>
    [] e.op = "closure" -> (IF e.name = "move" THEN <<"move">> ELSE <<>>)
                           \o (IF Len(e.args) = 1 THEN <<"||">> ELSE <<"|">> \o ParamTexts(Params(e)) \o <<"|">>)
                           \o (IF Last(e.args).op \in {"map", "set"}
                               THEN <<"(">> \o ExprText(Last(e.args)) \o <<")">> ELSE ExprText(Last(e.args)))
    [] e.op \in Blocks -> BlockText(e)
    [] e.op = "if" -> <<"if">> \o ExprText(e.args[1]) \o BlockText(e.args[2])
                      \o (IF Len(e.args) = 3 THEN <<"else">> \o ExprText(e.args[3]) ELSE <<>>)
    [] e.op = "match" -> <<"match">> \o ExprText(e.args[1]) \o <<"{">>
                         \o Flat([i \in DOMAIN Tail(e.args) |-> ArmText(e.args[i + 1])]) \o <<"}">>
    [] e.op = "while" -> <<"while">> \o ExprText(e.args[1]) \o BlockText(e.args[2])
    [] e.op = "whilelet" -> <<"while", "let">> \o PatText(e.args[2].args[1]) \o <<"=">>
                            \o ExprText(e.args[1]) \o BlockText(e.args[2].args[2])
    [] e.op = "for" -> <<"for">> \o PatText(e.args[2].args[1]) \o <<"in">>
                       \o ExprText(e.args[1]) \o BlockText(e.args[2].args[2])
    [] e.op = "trycatch" -> <<"try">> \o BlockText(e.args[1])
                            \o Flat([i \in DOMAIN Tail(e.args) |-> HandlerText(e.args[i + 1])])
    [] OTHER -> <<e.op>> \o BlockText(e.args[1])               \* loop, spawn, unsafe

DeclText(d) == <<d.name>> \o (IF d.args = <<>> THEN <<>> ELSE <<"(">> \o TypeTexts(d.args) \o <<")">>)

StmtText(s) ==
  CASE s.op = "let" -> <<"let">> \o (IF s.name = "mut" THEN <<"mut">> ELSE <<>>) \o PatText(s.args[2])
                       \o Typed(SubSeq(s.args, 3, Len(s.args))) \o <<"=">> \o ExprText(s.args[1])
    [] s.op = "const" -> <<"const", s.name>> \o Typed(Tail(s.args)) \o <<"=">> \o ExprText(s.args[1])
    [] s.op \in {"return", "break", "continue"} ->
         <<s.op>> \o Flat([i \in DOMAIN s.args |-> ExprText(s.args[i])])
    [] s.op = "fn" -> <<"fn", s.name, "(">> \o ParamTexts(Params(s)) \o <<")">>
                      \o (IF Len(s.args) > Len(Params(s)) + 1
                          THEN <<"->">> \o TypeText(s.args[Len(s.args) - 1]) ELSE <<>>)
                      \o BlockText(Last(s.args))
    [] s.op = "struct_decl" -> <<"struct", s.name, "{">>
                               \o Flat([i \in DOMAIN s.args |-> <<s.args[i].name>> \o Typed(s.args[i].args) \o <<",">>])
                               \o <<"}">>
    [] s.op = "enum_decl" -> <<"enum", s.name, "{">>
                             \o Flat([i \in DOMAIN s.args |-> DeclText(s.args[i]) \o <<",">>]) \o <<"}">>
    [] s.op = "impl_decl" -> <<"impl", s.name, "{">> \o Flat([i \in DOMAIN s.args |-> StmtText(s.args[i]) \o <<"SEP">>])
                             \o <<"}">>
    [] s.op = "alias_decl" -> <<"type", s.name, "=">> \o TypeText(s.args[1])
    [] OTHER -> ExprText(s)

ProgramText(prog) == Flat([i \in DOMAIN prog.args |-> StmtText(prog.args[i]) \o <<"SEP">>])

-----------------------------------------------------------------------------
(* Layouts: statements ended by semicolons on one line, or by newlines, or *)
(* with a comment between any two tokens.                                  *)

Layouts == {"line", "lines", "comments"}

Characters ==
  [t \in Double |-> CHOOSE c \in Single \X Single : c[1] \o c[2] = t]
  @@ [t \in {"..="} |-> <<".", ".", "=">>]
Spelled(t) == IF t \in DOMAIN Characters THEN Characters[t] ELSE <<t>>

\* Two tokens that would run together.
Clash(t, u) ==
  LET a == Last(Spelled(t))
      b == Head(Spelled(u))
  IN IF a \in Single /\ b \in Single THEN a \o b \in Double \cup {"//", "/*", "*/"}
     ELSE a \notin Single \cup {"NL"} /\ b \notin Single \cup {"NL"}

Gap(t, u, layout) ==
  IF layout = "comments" THEN <<"/", "*", "/", "*", "x", "*", "/", "*", "/">>
  ELSE IF Clash(t, u) THEN <<" ">> ELSE <<>>

Render(tokens, layout) ==
  LET ts == [i \in DOMAIN tokens |-> IF tokens[i] # "SEP" THEN tokens[i]
                                     ELSE IF layout = "lines" THEN "NL" ELSE ";"]
  IN Flat([i \in DOMAIN ts |->
             Spelled(ts[i]) \o (IF i < Len(ts) THEN Gap(ts[i], ts[i + 1], layout) ELSE <<>>)])
=============================================================================
