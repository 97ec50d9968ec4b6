----------------------------- MODULE Interpreter -----------------------------
(***************************************************************************)
(* The tree-walking interpreter (src/src/interp.rs and src/src/interp/):   *)
(* what an expression does to scopes, storage cells, shared lists and      *)
(* structs, and to the output, and how return, break, continue and runtime *)
(* errors travel.                                                          *)
(*                                                                         *)
(* Every operator takes the whole machine m and returns it with the value  *)
(* of the expression in m.val; m.sig is "ok" as long as evaluation goes    *)
(* on, so that the `?` of the code is the first test of each operator.     *)
(* Integers have Bits bits; an operation that overflows where the code     *)
(* uses plain operators panics in one build and wraps in another, and ends *)
(* the evaluation here as "overflow"; what panics in every build ends it   *)
(* as "panic".  Fuel bounds loops and calls.                               *)
(***************************************************************************)
EXTENDS Syntax, Folds

CONSTANTS Bits, Fuel

ASSUME WidthAssumption == Bits \in Nat \ {0, 1} /\ Fuel \in Nat \ {0}

MaxInt == 2^(Bits - 1) - 1
MinInt == -(2^(Bits - 1))
Fits(n) == n \in MinInt..MaxInt
Wrap(n) == ((n - MinInt) % 2^Bits) + MinInt
\* Division toward zero.
Quot(a, b) == LET q == (IF a < 0 THEN -a ELSE a) \div (IF b < 0 THEN -b ELSE b)
              IN IF (a < 0) = (b < 0) THEN q ELSE -q

Number == [d \in {"0", "1", "2", "3", "7"} |->
             CASE d = "0" -> 0 [] d = "1" -> 1 [] d = "2" -> 2 [] d = "3" -> 3 [] OTHER -> 7]

-----------------------------------------------------------------------------
(* Values: kind, integer or storage index, word, parts.                    *)

V(k, n, s, vs) == [k |-> k, n |-> n, s |-> s, vs |-> vs]
VNil == V("nil", 0, "", <<>>)
VUnit == V("unit", 0, "", <<>>)
VInt(n) == V("int", n, "", <<>>)
VBool(b) == V("bool", 0, IF b THEN "true" ELSE "false", <<>>)
VTuple(vs) == IF vs = <<>> THEN VUnit ELSE V("tuple", 0, "", vs)
VEnum(variant, vs) == V("enum", 0, variant, vs)
VRef(cell, mutable) == V("ref", cell, mutable, <<>>)
VRange(o, a, b) == V("range", 0, o, <<a, b>>)

FieldIx == [f |-> 1, g |-> 2]               \* the fields of struct P

RECURSIVE ValueEq(_, _, _)
AllEq(xs, ys, m) == /\ Len(xs) = Len(ys)
                    /\ \A i \in DOMAIN xs : ValueEq(xs[i], ys[i], m)
ValueEq(a, b, m) ==
  CASE {a.k, b.k} = {"nil", "enum"} -> "None" \in {a.s, b.s}
    [] a.k # b.k \/ a.k \in {"closure", "ref", "range"} -> FALSE
    [] a.k \in {"list", "struct"} -> AllEq(m.heap[a.n], m.heap[b.n], m)
    [] OTHER -> a.n = b.n /\ a.s = b.s /\ AllEq(a.vs, b.vs, m)

-----------------------------------------------------------------------------
(* The machine.                                                            *)

Machine == [sig |-> "ok", val |-> VUnit, out |-> <<>>, cells |-> <<>>, heap |-> <<>>,
            clos |-> <<>>, fuel |-> Fuel,
            scopes |-> <<[vars |-> <<>>, parent |-> 0]>>]
Globals == 1

Ok(m, v) == [m EXCEPT !.val = v]
Raise(m, kind) == [m EXCEPT !.sig = "error", !.val = V("error", 0, kind, <<>>)]
Signal(m, sig) == IF m.sig # "ok" THEN m ELSE [m EXCEPT !.sig = sig]
\* A round of a loop or a call.
Burn(m) == IF m.fuel = 0 THEN [m EXCEPT !.sig = "fuel"] ELSE [m EXCEPT !.fuel = @ - 1]

NewScope(m, parent) ==
  [m EXCEPT !.scopes = Append(@, [vars |-> <<>>, parent |-> parent])]
Top(m) == Len(m.scopes)

Define(m, env, n, v, mutable) ==
  [m EXCEPT !.cells = Append(@, v),
            !.scopes[env].vars = (n :> [cell |-> Len(m.cells) + 1, mutable |-> mutable]) @@ @]

\* The variable of that name, searching outward; cell 0 if there is none.
RECURSIVE Lookup(_, _, _)
Lookup(m, env, n) ==
  IF env = 0 THEN [cell |-> 0, mutable |-> FALSE]
  ELSE IF n \in DOMAIN m.scopes[env].vars THEN m.scopes[env].vars[n]
  ELSE Lookup(m, m.scopes[env].parent, n)

\* m with its value in a new list or struct.
Alloc(m, k, s, vs) == Ok([m EXCEPT !.heap = Append(@, vs)], V(k, Len(m.heap) + 1, s, <<>>))

RECURSIVE Deref(_, _)                        \* through every reference
Deref(m, v) == IF v.k = "ref" THEN Deref(m, m.cells[v.n]) ELSE v

\* m.val as a bool or an integer, through references, or a type error.
As(m, k) ==
  IF m.sig # "ok" THEN m
  ELSE LET v == Deref(m, m.val) IN IF v.k = k THEN Ok(m, v) ELSE Raise(m, "type")

\* The ends of an evaluation that no handler sees.
Fatal == {"panic", "overflow", "fuel"}

IsTrue(m) == m.sig = "ok" /\ m.val = VBool(TRUE)
IsFalse(m) == m.sig = "ok" /\ m.val = VBool(FALSE)

\* "a op b" of two integers; checked says whether the code tests for a zero
\* divisor and wraps the rest.
Arith(m, o, a, b, checked) ==
  LET n == CASE o = "+" -> a + b [] o = "-" -> a - b
             [] o = "*" -> a * b [] b = 0 -> 0 [] OTHER -> Quot(a, b)
  IN CASE o = "/" /\ b = 0 -> IF checked THEN Raise(m, "zero") ELSE Signal(m, "panic")
       [] Fits(n) -> Ok(m, VInt(n))
       [] o = "/" -> Signal(m, "panic")
       [] OTHER -> IF checked THEN Ok(m, VInt(Wrap(n))) ELSE Signal(m, "overflow")

\* A compound assignment's new value; an operator "=" is none.
Compound(m, o, cur, new) ==
  IF o = "=" THEN Ok(m, new)
  ELSE IF cur.k = "int" /\ new.k = "int" THEN Arith(m, o, cur.n, new.n, FALSE)
  ELSE Raise(m, "type")

Operate(m, o, l, r) ==
  CASE o = "==" -> Ok(m, VBool(ValueEq(l, r, m)))
    [] l.k # "int" \/ r.k # "int" -> Raise(m, "type")
    [] o = "<" -> Ok(m, VBool(l.n < r.n))
    [] OTHER -> Arith(m, o, l.n, r.n, TRUE)

-----------------------------------------------------------------------------
(* Patterns: refutable ones leave whether they matched, and what they have *)
(* bound so far, behind.                                                   *)

RECURSIVE TryMatch(_, _, _, _)
RECURSIVE TryAll(_, _, _, _)
TryAll(ps, vs, env, m) ==                    \* as far as both go
  IF m.sig # "ok" \/ IsFalse(m) \/ ps = <<>> \/ vs = <<>> THEN m
  ELSE TryAll(Tail(ps), Tail(vs), env, TryMatch(Head(ps), Head(vs), env, m))
RECURSIVE TryAny(_, _, _, _)
TryAny(ps, v, env, m) ==
  IF m.sig # "ok" \/ ps = <<>> THEN Ok(m, VBool(FALSE))
  ELSE LET r == TryMatch(Head(ps), v, env, m)
       IN IF IsTrue(r) THEN r ELSE TryAny(Tail(ps), v, env, r)

\* Only a plain name tells values apart.
TypeMatches(v, type) ==
  \/ type.op # "t_named"
  \/ v.k = "int" /\ type.name \in {"i8", "i16", "i32", "i64", "u8", "u16", "u32", "u64", "isize", "usize"}
  \/ v.k = "bool" /\ type.name = "bool"
  \/ v.k = "struct" /\ type.name = v.s
  \/ v.k = "enum" /\ type.name = IF v.s \in {"Some", "None"} THEN "Option" ELSE "Result"

Yes(m) == Ok(m, VBool(TRUE))
No(m) == Ok(m, VBool(FALSE))

\* A list pattern's items, and whether it names the rest.
Elements(p) == IF p.name = "rest" THEN Front(p.args) ELSE p.args

\* A fresh list of the elements past the items, in the name of the rest.
BindRest(p, seq, env, m, mutable) ==
  IF p.name # "rest" THEN m
  ELSE LET l == Alloc(m, "list", "", SubSeq(seq, Len(Elements(p)) + 1, Len(seq)))
       IN Define(l, env, Last(p.args).name, l.val, mutable)

BindFields(p, fields, env, m, mutable) ==
  FoldLeft(LAMBDA a, f : Define(a, env, f.args[1].name, fields[FieldIx[f.name]],
                                   mutable), m, p.args)

TryMatch(p, v, env, m) ==
  CASE p.op = "p_wild" -> Yes(m)
    [] p.op = "p_bind" -> Yes(Define(m, env, p.name, v, FALSE))
    [] p.op = "p_int" -> Ok(m, VBool(v = VInt(Number[p.name])))
    [] p.op = "p_neg" -> Ok(m, VBool(v = VInt(-Number[p.name])))
    [] p.op = "p_range" ->
         LET lo == Number[p.args[1].name]
             hi == Number[p.args[2].name]
         IN Ok(m, VBool(v.k = "int" /\ v.n \in lo..(IF p.name = "..=" THEN hi ELSE hi - 1)))
    [] p.op = "p_typed" ->
         IF TypeMatches(v, p.args[1]) THEN Yes(Define(m, env, p.name, v, FALSE)) ELSE No(m)
    [] p.op = "p_bool" -> Ok(m, VBool(v.k = "bool" /\ v.s = p.name))
    [] p.op = "p_nil" -> Ok(m, VBool(v.k = "nil"))
    [] p.op = "p_at" -> LET r == TryMatch(p.args[1], v, env, m)
                        IN IF IsTrue(r) THEN Yes(Define(r, env, p.name, v, FALSE)) ELSE r
    [] p.op = "p_or" -> TryAny(p.args, v, env, m)
    [] p.op = "p_tuple" ->
         LET seq == IF v.k = "list" THEN m.heap[v.n] ELSE v.vs
         IN IF v.k \in {"tuple", "list"} /\ Len(seq) = Len(p.args)
            THEN TryAll(p.args, seq, env, Yes(m)) ELSE No(m)
    [] p.op = "p_list" ->
         IF v.k # "list" THEN No(m)
         ELSE LET seq == m.heap[v.n]
                  n == Len(Elements(p))
              IN IF Len(seq) < n \/ (p.name = "" /\ Len(seq) # n) THEN No(m)
                 ELSE LET r == TryAll(Elements(p), seq, env, Yes(m))
                      IN IF IsTrue(r) THEN Yes(BindRest(p, seq, env, r, FALSE)) ELSE r
    [] p.op = "p_variant" ->
         IF p.name = "None" THEN Ok(m, VBool(v.k = "nil"))
         ELSE IF v.k = "enum" /\ v.s = p.name /\ Len(v.vs) >= Len(p.args)
         THEN TryAll(p.args, v.vs, env, Yes(m)) ELSE No(m)
    [] OTHER -> IF v.k # "struct" THEN No(m)
                ELSE Yes(BindFields(p, m.heap[v.n], env, m, FALSE))

\* The irrefutable patterns of let, for and parameters.
RECURSIVE BindPattern(_, _, _, _, _)
\* Position by position, nil where the value is shorter.
BindAll(ps, vs, env, m, mutable) ==
  FoldLeftDomain(LAMBDA a, i : BindPattern(ps[i], IF i <= Len(vs) THEN vs[i] ELSE VNil,
                                           env, a, mutable), m, ps)
BindPattern(p, v, env, m, mutable) ==
  LET seq == IF v.k = "list" THEN m.heap[v.n] ELSE v.vs
  IN CASE m.sig # "ok" -> m
       [] p.op = "p_bind" -> Define(m, env, p.name, v, mutable)
       [] p.op = "p_wild" -> m
       [] p.op = "p_tuple" ->
            IF v.k \in {"tuple", "list"} /\ Len(seq) = Len(p.args)
            THEN BindAll(p.args, seq, env, m, mutable) ELSE Raise(m, "type")
       [] p.op = "p_list" ->
            IF v.k \notin {"tuple", "list"} THEN Raise(m, "type")
            ELSE BindRest(p, seq, env, BindAll(Elements(p), seq, env, m, mutable), mutable)
       [] p.op = "p_struct" ->
            IF v.k # "struct" THEN Raise(m, "type")
            ELSE BindFields(p, m.heap[v.n], env, m, mutable)
       [] p.op = "p_variant" ->
            IF v.k # "enum" THEN Raise(m, "type") ELSE BindAll(p.args, v.vs, env, m, mutable)
       [] OTHER -> Raise(m, "type")

-----------------------------------------------------------------------------
(* Expressions.                                                            *)

RECURSIVE Eval(_, _, _)
RECURSIVE EvalAll(_, _, _)

\* The values of es, from left to right, as one tuple.
EvalAll(es, env, m) ==
  IF m.sig # "ok" THEN m
  ELSE IF es = <<>> THEN Ok(m, V("args", 0, "", <<>>))
  ELSE LET h == Eval(Head(es), env, m)
           t == EvalAll(Tail(es), env, h)
       IN IF t.sig # "ok" THEN t ELSE Ok(t, V("args", 0, "", <<h.val>> \o t.val.vs))

RECURSIVE EvalStmts(_, _, _)
EvalStmts(ss, env, m) ==
  IF m.sig # "ok" \/ ss = <<>> THEN m ELSE EvalStmts(Tail(ss), env, Eval(Head(ss), env, m))

\* eval_block_in: in the scope env itself.
EvalBlockIn(b, env, m) ==
  LET r == EvalStmts(b.args, env, m)
  IN IF r.sig = "ok" /\ b.op = "block" THEN Ok(r, VUnit) ELSE r
EvalBlock(b, env, m) ==
  IF m.sig # "ok" THEN m ELSE LET s == NewScope(m, env) IN EvalBlockIn(b, Top(s), s)

\* What a loop makes of the end of one round of its body.
Again(r) == r.sig \in {"ok", "continue"}
Resume(r) == [r EXCEPT !.sig = "ok"]
Leave(r) == IF r.sig = "break" THEN Resume(r) ELSE r

RECURSIVE EvalLoop(_, _, _)
EvalLoop(body, env, m) ==
  IF m.sig # "ok" THEN m
  ELSE LET r == EvalBlock(body, env, Burn(m))
       IN IF Again(r) THEN EvalLoop(body, env, Resume(r)) ELSE Leave(r)

\* Loops other than `loop` are worth (), however they end.
AsUnit(r) == IF r.sig = "ok" THEN Ok(r, VUnit) ELSE r

RECURSIVE EvalWhile(_, _, _, _)
EvalWhile(c, body, env, m) ==
  IF m.sig # "ok" THEN m
  ELSE LET t == As(Eval(c, env, Burn(m)), "bool")
       IN IF ~ IsTrue(t) THEN AsUnit(t)
          ELSE LET r == EvalBlock(body, env, t)
               IN IF Again(r) THEN EvalWhile(c, body, env, Resume(r)) ELSE AsUnit(Leave(r))

\* The body of a loop with a pattern, in a scope within that of the pattern, env.
EvalBody(body, env, m) ==
  IF m.sig # "ok" THEN m ELSE LET b == NewScope(m, env) IN EvalBlockIn(body, Top(b), b)

RECURSIVE EvalWhileLet(_, _, _, _)
RECURSIVE EvalItems(_, _, _, _)
\* What is left to do after a round.
NextWhileLet(e, arm, env, r) ==
  IF Again(r) THEN EvalWhileLet(e, arm, env, Resume(r)) ELSE AsUnit(Leave(r))
NextItems(items, arm, env, r) ==
  IF Again(r) THEN EvalItems(items, arm, env, Resume(r)) ELSE AsUnit(Leave(r))

RoundWhileLet(e, arm, env, inner, t) ==
  IF ~ IsTrue(t) THEN AsUnit(t) ELSE NextWhileLet(e, arm, env, EvalBody(arm.args[2], inner, t))
TestWhileLet(p, v, env) == IF v.sig # "ok" THEN v ELSE TryMatch(p, v.val, env, v)
EvalWhileLet(e, arm, env, m) ==
  IF m.sig # "ok" THEN m
  ELSE LET s == NewScope(Eval(e, env, Burn(m)), env)
       IN RoundWhileLet(e, arm, env, Top(s), TestWhileLet(arm.args[1], s, Top(s)))

EvalItems(items, arm, env, m) ==
  IF m.sig # "ok" \/ items = <<>> THEN AsUnit(m)
  ELSE LET s == NewScope(Burn(m), env)
       IN NextItems(Tail(items), arm, env,
                    EvalBody(arm.args[2], Top(s), BindPattern(arm.args[1], Head(items), Top(s), s, FALSE)))

\* The items are collected up front; an inclusive range up to its end plus one.
EvalOver(v, arm, env, m) ==
  CASE m.sig # "ok" -> m
    [] v.k = "range" ->
         LET hi == IF v.s = "..=" THEN v.vs[2] + 1 ELSE v.vs[2]
         IN IF ~ Fits(hi) THEN Signal(m, "overflow")
            ELSE EvalItems([i \in 1..(hi - v.vs[1]) |-> VInt(v.vs[1] + i - 1)], arm, env, m)
    [] v.k = "list" -> EvalItems(m.heap[v.n], arm, env, m)
    [] OTHER -> Raise(m, "type")
EvalFor(e, arm, env, m) ==
  LET it == Eval(e, env, m) IN EvalOver(it.val, arm, env, it)

EvalGuard(arm, env, m) ==
  IF IsTrue(m) /\ Len(arm.args) = 3 THEN As(Eval(arm.args[2], env, m), "bool") ELSE m

RECURSIVE EvalArms(_, _, _, _)
\* A guard that is false goes on to the next arm.
TakeArm(v, arms, env, inner, g) ==
  IF IsTrue(g) THEN Eval(Last(Head(arms).args), inner, g)
  ELSE IF IsFalse(g) THEN EvalArms(v, Tail(arms), env, g) ELSE g
EvalArms(v, arms, env, m) ==
  IF m.sig # "ok" THEN m
  ELSE IF arms = <<>> THEN Raise(m, "nomatch")
  ELSE LET s == NewScope(m, env)
       IN TakeArm(v, arms, env, Top(s),
                  EvalGuard(Head(arms), Top(s), TryMatch(Head(arms).args[1], v, Top(s), s)))

-----------------------------------------------------------------------------
(* Calls.                                                                  *)

\* A parameter without an argument is nil.
BindParams(params, vs, env, m) ==
  FoldLeftDomain(LAMBDA a, i : Define(a, env, params[i].name,
                                      IF i <= Len(vs) THEN vs[i] ELSE VNil, TRUE), m, params)

Returned(r) == IF r.sig = "return" THEN Resume(r) ELSE r
\* A function runs in the global scope, a closure in the scope it was made in.
CallValue(f, vs, m) ==
  IF m.sig # "ok" THEN m
  ELSE IF f.k # "closure" THEN Raise(m, "type")
  ELSE LET c == m.clos[f.n]
           s == NewScope(Burn(m), c.env)
       IN Returned(Eval(c.body, Top(s), BindParams(c.params, vs, Top(s), s)))

MakeClosure(e, env, m) ==
  Ok([m EXCEPT !.clos = Append(@, [params |-> Params(e), body |-> Last(e.args), env |-> env])],
     V("closure", Len(m.clos) + 1, "", <<>>))

Variants == {"Some", "None", "Ok", "Err"}

\* A name that is not a variable may be a builtin, whose arguments are already
\* evaluated when it turns out to be a variant, and are evaluated again.
EvalCall(callee, es, env, m) ==
  LET n == callee.name
  IN IF callee.op = "ident" /\ Lookup(m, env, n).cell = 0 /\ n \in Variants \cup {"println"}
     THEN LET once == EvalAll(es, env, m)
          IN IF n = "println"
             THEN IF once.sig # "ok" THEN once
                  ELSE Ok([once EXCEPT !.out = Append(@, Deref(once, once.val.vs[1]))], VUnit)
             ELSE LET twice == EvalAll(es, env, once)
                  IN IF twice.sig # "ok" THEN twice
                     ELSE Ok(twice, IF n = "None" THEN VNil ELSE VEnum(n, twice.val.vs))
     ELSE LET f == Eval(callee, env, m)
              vs == EvalAll(es, env, f)
          IN CallValue(f.val, vs.val.vs, vs)

ListMethod(m, l, name, vs) ==
  LET seq == m.heap[l]
  IN CASE name = "push" ->
            Ok([m EXCEPT !.heap[l] = Append(@, IF vs = <<>> THEN VNil ELSE vs[1])], VUnit)
       [] name = "pop" ->
            IF seq = <<>> THEN Ok(m, VNil)
            ELSE Ok([m EXCEPT !.heap[l] = Front(@)], VEnum("Some", <<Last(seq)>>))
       [] name = "len" -> Ok(m, VInt(Len(seq)))
       [] OTHER -> Raise(m, "type")

EvalMethod(e, env, m) ==
  LET obj == Eval(e.args[1], env, m)
  IN IF obj.sig = "ok" /\ e.op = "method?" /\ obj.val.k = "nil" THEN obj
     ELSE LET vs == EvalAll(Tail(e.args), env, obj)
          IN IF vs.sig # "ok" THEN vs
             ELSE IF obj.val.k = "list" THEN ListMethod(vs, obj.val.n, e.name, vs.val.vs)
             ELSE Raise(vs, "type")

EvalField(e, env, m) ==
  LET r == Eval(e.args[1], env, m)
      obj == Deref(r, r.val)
  IN IF r.sig # "ok" THEN r
     ELSE IF e.op = "field?" /\ obj.k = "nil" THEN Ok(r, VNil)
     ELSE IF obj.k = "struct" THEN Ok(r, r.heap[obj.n][FieldIx[e.name]])
     ELSE IF obj.k = "tuple" /\ e.name \in DOMAIN Number
     THEN Ok(r, IF Number[e.name] < Len(obj.vs) THEN obj.vs[Number[e.name] + 1] ELSE VNil)
     ELSE Raise(r, "type")

\* The list element an index stands for, 0 if out of bounds.
Slot(m, c, i) == IF i.n \in 0..Len(m.heap[c.n]) - 1 THEN i.n + 1 ELSE 0

EvalIndex(e, env, m) ==
  LET c == Eval(e.args[1], env, m)
      i == As(Eval(e.args[2], env, c), "int")
  IN IF i.sig # "ok" THEN i
     ELSE IF c.val.k # "list" THEN Raise(i, "type")
     ELSE IF Slot(i, c.val, i.val) = 0 THEN Raise(i, "bounds")
     ELSE Ok(i, i.heap[c.val.n][Slot(i, c.val, i.val)])

-----------------------------------------------------------------------------
(* Assignment: the value first, then the place, once.                      *)

PutCell(n, x) == IF n.sig # "ok" THEN n ELSE [n EXCEPT !.cells[x] = n.val]
PutElem(n, l, i) == IF n.sig # "ok" THEN n ELSE [n EXCEPT !.heap[l][i] = n.val]

StoreVar(m, x, o, value) ==
  IF x.cell = 0 THEN Raise(m, "name")
  ELSE IF ~ x.mutable THEN Raise(m, "immutable")
  ELSE PutCell(Compound(m, o, m.cells[x.cell], value), x.cell)

StoreElem(m, c, o, value) ==                 \* m.val is the index
  LET s == Slot(m, c, m.val)
  IN IF m.sig # "ok" THEN m
     ELSE IF c.k # "list" THEN Raise(m, "type")
     ELSE IF s = 0 THEN Raise(m, "bounds")
     ELSE PutElem(Compound(m, o, m.heap[c.n][s], value), c.n, s)

StoreField(m, f, o, value) ==
  IF m.sig # "ok" THEN m
  ELSE IF m.val.k # "struct" THEN Raise(m, "type")
  ELSE PutElem(Compound(m, o, m.heap[m.val.n][f], value), m.val.n, f)

StoreTarget(m, o, value) ==                  \* *m.val
  IF m.sig # "ok" THEN m
  ELSE IF m.val.k # "ref" THEN Raise(m, "type")
  ELSE LET n == Compound(m, o, m.cells[m.val.n], value)
       IN IF n.sig = "ok" /\ m.val.s # "&mut" THEN Raise(n, "shared") ELSE PutCell(n, m.val.n)

Store(m, target, o, value, env) ==
  CASE target.op = "ident" -> StoreVar(m, Lookup(m, env, target.name), o, value)
    [] target.op = "index" ->
         LET c == Eval(target.args[1], env, m)
         IN StoreElem(As(Eval(target.args[2], env, c), "int"), c.val, o, value)
    [] target.op = "field" -> StoreField(Eval(target.args[1], env, m), FieldIx[target.name], o, value)
    [] OTHER -> StoreTarget(Eval(target.args[1], env, m), o, value)

EvalAssign(e, env, m) ==
  LET rhs == Eval(e.args[2], env, m)
  IN IF rhs.sig # "ok" THEN rhs ELSE AsUnit(Store(rhs, e.args[1], e.name, rhs.val, env))

EvalUnary(o, e, env, m) ==
  LET x == IF e.op = "ident" THEN Lookup(m, env, e.name).cell ELSE 0
      r == Eval(e, env, m)
  IN CASE o \in {"&", "&mut"} ->
            IF x # 0 THEN Ok(m, VRef(x, o))
            ELSE IF r.sig # "ok" THEN r
            ELSE Ok([r EXCEPT !.cells = Append(@, r.val)], VRef(Len(r.cells) + 1, o))
       [] r.sig # "ok" -> r
       [] o = "*" -> Ok(r, IF r.val.k = "ref" THEN r.cells[r.val.n] ELSE r.val)
       [] o = "!" -> LET b == As(r, "bool")
                     IN IF b.sig # "ok" THEN b ELSE Ok(b, VBool(b.val.s = "false"))
       [] r.val.k # "int" -> Raise(r, "type")
       [] OTHER -> IF Fits(-r.val.n) THEN Ok(r, VInt(-r.val.n)) ELSE Signal(r, "overflow")

EvalBinary(o, l, r, env, m) ==
  LET a == Eval(l, env, m)
  IN IF o \in {"&&", "||"}
     THEN LET t == As(a, "bool")
          IN IF t.sig # "ok" \/ IsTrue(t) = (o = "||") THEN t
             ELSE As(Eval(r, env, t), "bool")
     ELSE LET b == Eval(r, env, a)
          IN IF b.sig # "ok" THEN b ELSE Operate(b, o, a.val, b.val)

\* `e?`: the payload, or an early return of the failure.
EvalTry(m) ==
  CASE m.sig # "ok" -> m
    [] m.val.k = "nil" -> Signal(m, "return")
    [] m.val.k = "enum" /\ m.val.s \in {"Ok", "Some"} ->
         Ok(m, IF m.val.vs = <<>> THEN VUnit ELSE m.val.vs[1])
    [] m.val.k = "enum" -> Signal(IF m.val.s = "None" THEN Ok(m, VNil) ELSE m, "return")
    [] OTHER -> Raise(m, "type")

\* Only a runtime error goes to the catch arm; finally runs in any case, and
\* what it raises replaces the outcome.
EvalCatch(c, env, r) ==
  LET s == NewScope([r EXCEPT !.sig = "ok"], env)
  IN IF r.sig # "error" THEN r
     ELSE EvalBlock(c.args[1], Top(s), Define(s, Top(s), c.name, VUnit, FALSE))
EvalFinally(finally, env, out) ==
  LET f == EvalBlock(finally, env, Resume(out))
  IN IF out.sig \in Fatal THEN out
     ELSE IF f.sig # "ok" THEN f ELSE [f EXCEPT !.sig = out.sig, !.val = out.val]
EvalTryCatch(e, env, m) ==
  LET out == EvalCatch(e.args[2], env, EvalBlock(e.args[1], env, m))
  IN IF Len(e.args) = 2 THEN out ELSE EvalFinally(e.args[3], env, out)

EvalIdent(n, env, m) ==
  LET x == Lookup(m, env, n)
  IN IF x.cell # 0 THEN Ok(m, m.cells[x.cell])
     ELSE IF n = "None" THEN Ok(m, VNil)
     ELSE Raise(m, "name")

Eval(e, env, m) ==
  CASE m.sig # "ok" -> m
    [] e.op = "int" -> Ok(m, VInt(Number[e.name]))
    [] e.op = "bool" -> Ok(m, V("bool", 0, e.name, <<>>))
    [] e.op = "nil" -> Ok(m, VNil)
    [] e.op = "ident" -> EvalIdent(e.name, env, m)
    [] e.op = "unary" -> EvalUnary(e.name, e.args[1], env, m)
    [] e.op = "binary" -> EvalBinary(e.name, e.args[1], e.args[2], env, m)
    [] e.op = "coalesce" -> LET l == Eval(e.args[1], env, m)
                            IN IF l.sig = "ok" /\ l.val.k = "nil" THEN Eval(e.args[2], env, l) ELSE l
    [] e.op = "assign" -> EvalAssign(e, env, m)
    [] e.op = "tuple" -> LET r == EvalAll(e.args, env, m)
                         IN IF r.sig # "ok" THEN r ELSE Ok(r, VTuple(r.val.vs))
    [] e.op = "list" -> LET r == EvalAll(e.args, env, m)
                        IN IF r.sig # "ok" THEN r ELSE Alloc(r, "list", "", r.val.vs)
    [] e.op = "range" -> LET a == Eval(e.args[1], env, m)
                             b == As(Eval(e.args[2], env, a), "int")
                             c == As(Ok(b, a.val), "int")
                         IN IF b.sig # "ok" THEN b ELSE IF c.sig # "ok" THEN c
                            ELSE Ok(c, VRange(e.name, c.val.n, b.val.n))
    [] e.op = "init" -> Eval(e.args[1], env, m)
    [] e.op = "struct" ->
         LET r == EvalAll(e.args, env, m)
             at(f) == {i \in DOMAIN e.args : FieldIx[e.args[i].name] = f}
         IN IF r.sig # "ok" THEN r
            ELSE Alloc(r, "struct", e.name,
                       [f \in 1..2 |-> IF at(f) = {} THEN VNil
                                       ELSE r.val.vs[CHOOSE i \in at(f) : TRUE]])
    [] e.op \in Blocks -> EvalBlock(e, env, m)
    [] e.op = "if" -> LET c == As(Eval(e.args[1], env, m), "bool")
                      IN IF IsTrue(c) THEN EvalBlock(e.args[2], env, c)
                         ELSE IF IsFalse(c) /\ Len(e.args) = 3 THEN Eval(e.args[3], env, c)
                         ELSE AsUnit(c)
    [] e.op = "match" -> LET v == Eval(e.args[1], env, m) IN EvalArms(v.val, Tail(e.args), env, v)
    [] e.op = "loop" -> EvalLoop(e.args[1], env, m)
    [] e.op = "while" -> EvalWhile(e.args[1], e.args[2], env, m)
    [] e.op = "whilelet" -> EvalWhileLet(e.args[1], e.args[2], env, m)
    [] e.op = "for" -> EvalFor(e.args[1], e.args[2], env, m)
    [] e.op = "closure" -> MakeClosure(e, env, m)
    [] e.op = "call" -> EvalCall(e.args[1], Tail(e.args), env, m)
    [] e.op \in {"method", "method?"} -> EvalMethod(e, env, m)
    [] e.op \in {"field", "field?"} -> EvalField(e, env, m)
    [] e.op = "index" -> EvalIndex(e, env, m)
    [] e.op = "try" -> EvalTry(Eval(e.args[1], env, m))
    [] e.op = "trycatch" -> EvalTryCatch(e, env, m)
    [] e.op = "let" -> LET v == Eval(e.args[1], env, m)
                       IN IF v.sig # "ok" THEN v
                          ELSE BindPattern(e.args[2], v.val, env, v, e.name = "mut")
    [] e.op \in {"return", "break"} ->
         Signal(IF e.args = <<>> THEN Ok(m, VUnit) ELSE Eval(e.args[1], env, m), e.op)
    [] e.op = "continue" -> Signal(m, "continue")
    [] e.op = "const" -> LET v == Eval(e.args[1], env, m)
                         IN IF v.sig # "ok" THEN v ELSE Define(v, env, e.name, v.val, FALSE)
    [] OTHER ->                                             \* fn
         LET f == MakeClosure(e, Globals, m)
         IN Define(f, env, e.name, f.val, FALSE)

\* The items in order; a const whose value fails is left undefined.
LoadItem(item, m) == IF item.op \in {"fn", "const"} THEN Eval(item, Globals, m) ELSE m
Loaded(r) == IF r.sig \in Fatal THEN r ELSE Resume(r)
RECURSIVE Load(_, _)
Load(items, m) ==
  IF items = <<>> \/ m.sig \in Fatal THEN m ELSE Load(Tail(items), Loaded(LoadItem(Head(items), m)))

\* Load the items of a program, then call its main; a signal other than an
\* error that leaves main is dropped.
CallMain(m) == CallValue(Eval(Ident("main"), Globals, m).val, <<>>, m)
Ended(r) == IF r.sig \in {"break", "continue"} THEN Ok(Resume(r), VNil) ELSE r
Run(prog) == Ended(CallMain(Load(prog.args, Machine)))
=============================================================================
