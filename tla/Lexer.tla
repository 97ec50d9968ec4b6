-------------------------------- MODULE Lexer --------------------------------
(***************************************************************************)
(* The lexer of La3 (src/src/lexer.rs) over a text of words (identifiers,  *)
(* keywords, the digits of a number) and single characters: maximal munch, *)
(* comments, numbers that turn into floats.                                *)
(*                                                                         *)
(* A token is the word or operator itself; "NL" is a newline and "EOF" the *)
(* end.  An error is the token "?lex", which nothing parses.               *)
(***************************************************************************)
EXTENDS Syntax

Digits == {"0", "1", "2", "3", "7"}

Keywords ==
  {"let", "mut", "const", "fn", "return", "if", "else", "match", "loop", "while", "for",
   "in", "break", "continue", "struct", "enum", "interface", "impl", "type", "mod", "use",
   "pub", "async", "await", "move", "spawn", "unsafe", "try", "as", "self", "true",
   "false", "nil"}

Single == {"+", "-", "*", "/", "%", "&", "|", "^", "~", "!", "=", "<", ">", ".", "?", ":",
           "@", ",", ";", "(", ")", "{", "}", "[", "]"}
Double == {"+=", "->", "-=", "**", "*=", "/=", "%=", "&&", "||", "!=", "==", "=>", "<<",
           "<=", ">>", ">=", "..", "?.", "??", "::"}

IsIdent(t) == t \notin Keywords \cup Digits \cup Single \cup Double
                        \cup {"..=", "NL", "EOF", "float", "?lex"}

CharAt(text, i) == IF i <= Len(text) THEN text[i] ELSE "EOF"
Pick(c, next) == IF c \o next \in Double THEN c \o next ELSE c

\* The position after a block comment whose body starts at i, 0 if it does not
\* end; comments nest.
RECURSIVE SkipComment(_, _, _)
SkipComment(text, i, depth) ==
  LET pair == <<CharAt(text, i), CharAt(text, i + 1)>>
  IN IF depth = 0 THEN i
     ELSE IF i > Len(text) THEN 0
     ELSE IF pair = <<"*", "/">> THEN SkipComment(text, i + 2, depth - 1)
     ELSE IF pair = <<"/", "*">> THEN SkipComment(text, i + 2, depth + 1)
     ELSE SkipComment(text, i + 1, depth)

RECURSIVE SkipLine(_, _)
SkipLine(text, i) ==
  IF i > Len(text) \/ text[i] = "NL" THEN i ELSE SkipLine(text, i + 1)

\* The position after a number: a dot belongs to it if a digit follows.
RECURSIVE ScanNumber(_, _)
ScanNumber(text, i) ==
  IF CharAt(text, i) \in Digits THEN ScanNumber(text, i + 1)
  ELSE IF CharAt(text, i) = "." /\ CharAt(text, i + 1) \in Digits THEN ScanNumber(text, i + 1)
  ELSE i

RECURSIVE LexFrom(_, _)
LexFrom(text, i) ==
  LET c == CharAt(text, i)
      d == CharAt(text, i + 1)
      two == Pick(c, d)
      body == SkipComment(text, i + 2, 1)
      number == ScanNumber(text, i)
  IN CASE i > Len(text) -> <<"EOF">>
       [] c = " " -> LexFrom(text, i + 1)
       [] c = "/" /\ d = "/" -> LexFrom(text, SkipLine(text, i + 2))
       [] c = "/" /\ d = "*" -> IF body = 0 THEN <<"?lex">> ELSE LexFrom(text, body)
       [] c \in Digits /\ number > i + 1 -> <<"float">> \o LexFrom(text, number)
       [] c \notin Single \/ two = c -> <<c>> \o LexFrom(text, i + 1)
       [] two = ".." /\ CharAt(text, i + 2) = "=" -> <<"..=">> \o LexFrom(text, i + 3)
       [] OTHER -> <<two>> \o LexFrom(text, i + 2)

Tokenize(text) == LexFrom(text, 1)

-----------------------------------------------------------------------------
(* Newlines that cannot end a statement are dropped before parsing.        *)

EndsExpr(t) ==
  \/ IsIdent(t) \/ t \in Digits
  \/ t \in {"float", "self", "true", "false", "nil", ")", "]", "}", "?", "break", "continue",
            "return"}

ContinuesAfter ==
  {".", "?.", "+", "-", "**", "/", "%", "&&", "||", "|", "^", "<<", ">>", "==", "!=", "<",
   ">", "<=", ">=", "..", "..=", "??", "=>", "->", ",", ":", "::", "as", "else", ")", "]",
   "=", "+=", "-=", "*=", "/=", "%="}

OpenBefore ==
  {"+", "-", "*", "**", "/", "%", "&", "&&", "|", "||", "^", "~", "<<", ">>", "=", "==",
   "!=", "<", ">", "<=", ">=", "+=", "-=", "*=", "/=", "%=", "..", "..=", "??", "?.", "->",
   "=>", ".", ",", ":", "::", "@", "(", "{", "[", "as", "let", "return", "in", "match",
   "else", "!"}

KeepNewline(prev, next) ==
  /\ prev \notin OpenBefore \cup {"", "NL"}
  /\ next \notin ContinuesAfter \cup {"}"}
  /\ EndsExpr(prev) \/ prev = ";"

\* prev is the last token kept.
RECURSIVE Filter(_, _, _)
Filter(tokens, i, prev) ==
  IF i > Len(tokens) THEN <<>>
  ELSE IF tokens[i] = "NL" /\ ~ KeepNewline(prev, CharAt(tokens, i + 1))
  THEN Filter(tokens, i + 1, prev)
  ELSE <<tokens[i]>> \o Filter(tokens, i + 1, tokens[i])

FilterNewlines(tokens) == Filter(tokens, 1, "")
=============================================================================
