--------------------------------- MODULE Mirgen ---------------------------------
(***************************************************************************)
(* Lowering of HIR to MIR (src/src/mirgen.rs, src/src/mir.rs): a function  *)
(* becomes a graph of basic blocks over typed locals.  Which operand is    *)
(* read when is decided here: a variable is not read where it stands but   *)
(* where the operation that uses it is emitted.                            *)
(*                                                                         *)
(* A construct that is not lowered leaves the function out (st.bail).      *)
(* Drops are the matter of module Drops; the types here own nothing.       *)
(***************************************************************************)
EXTENDS Hir, Types, Interpreter

\* An operand is a constant or a place: a local and the fields from it.
Imm(v) == [k |-> "const", val |-> v, local |-> 1, proj |-> <<>>]
Copy(l) == [k |-> "copy", val |-> VUnit, local |-> l, proj |-> <<>>]
FnConst(n) == Imm(V("fn", 0, n, <<>>))
UnitConst == Imm(VUnit)
DerefProj == 0                            \* fields are counted from 1
Proj(place, i) == [place EXCEPT !.proj = Append(@, i)]

Rvalue(k, o, operands) == [k |-> k, op |-> o, args |-> operands]
Use(operand) == Rvalue("use", "", <<operand>>)

Term(k, operands, to) == [k |-> k, args |-> operands, to |-> to, fn |-> "", dest |-> 1]
GotoTerm(b) == Term("goto", <<>>, <<b>>)
Branch(c, b1, b2) == Term("if", <<c>>, <<b1, b2>>)
Switch(discr, v, b, default) == Term("switch", <<discr, Imm(v)>>, <<b, default>>)
Calling(n, operands, dest, next) ==
  [Term("call", operands, <<next>>) EXCEPT !.fn = n, !.dest = dest]
Leaving == Term("return", <<>>, <<>>)
Unreachable == Term("unreachable", <<>>, <<>>)

EmptyBlock == [stmts |-> <<>>, term |-> Unreachable]

-----------------------------------------------------------------------------
(* The builder: the blocks and the types of the locals so far, the block   *)
(* that is being filled, the local of every binding, the loops around.     *)
(* Local 1 is the result, the parameters follow.                           *)

Gives(operand, st) == [st EXCEPT !.out = operand]
Bail(st) == [st EXCEPT !.bail = TRUE, !.out = UnitConst]

NewLocal(t, st) == [st EXCEPT !.types = Append(@, t)]
LastLocal(st) == Len(st.types)
NewBlocks(n, st) == [st EXCEPT !.blocks = @ \o [i \in 1..n |-> EmptyBlock]]
InBlock(b, st) == [st EXCEPT !.cur = b]
SetTerm(term, st) == [st EXCEPT !.blocks[st.cur].term = term]
Goto(b, st) == SetTerm(GotoTerm(b), st)
Put(place, rv, st) ==
  [st EXCEPT !.blocks[st.cur].stmts = Append(@, [to |-> place, rv |-> rv])]

\* The value of st into a local; into a fresh one.
Into(l, st) == Put(Copy(l), Use(st.out), st)
IntoLocal(t, st) == LET l == LastLocal(st) + 1 IN Gives(Copy(l), Into(l, NewLocal(t, st)))
\* The rvalue of st into a temporary.
IntoTemp(t, st) ==
  LET l == LastLocal(st) + 1 IN Gives(Copy(l), Put(Copy(l), st.out, NewLocal(t, st)))
Bind(n, l, st) == [st EXCEPT !.env = (n :> l) @@ @]

\* What follows a jump is put into a block of its own.
Diverge(term, st) == InBlock(Len(st.blocks) + 1, NewBlocks(1, SetTerm(term, st)))

-----------------------------------------------------------------------------
RECURSIVE LowerOperand(_, _)
RECURSIVE LowerPlace(_, _)

\* In order; st.out is the sequence of the operands.
RECURSIVE LowerOperands(_, _, _)
LowerOperands(es, done, st) ==
  IF st.bail \/ es = <<>> THEN Gives(done, st)
  ELSE LET Then(h) == LowerOperands(Tail(es), Append(done, h.out), h)
       IN Then(LowerOperand(Head(es), st))

\* The fields of a struct, in the order of its declaration.
FieldsOf(n, st) ==
  LET d == {c \in st.decls : c.op = "struct_decl" /\ c.name = n}
  IN IF d = {} THEN <<>> ELSE (CHOOSE c \in d : TRUE).args
InitOf(e, f) == SelectSeq(e.args, LAMBDA i : i.op = "init" /\ i.name = f.name)

Aggregate(k, n, st) == Gives(Rvalue(k, n, st.out), st)
LowerStructAsWritten(e, st) ==
  Aggregate("struct", e.name, LowerOperands([i \in DOMAIN e.args |-> e.args[i].args[1]], <<>>, st))
LowerStruct(e, st) ==
  LET fields == FieldsOf(e.name, st)
  IN IF (\E i \in DOMAIN e.args : e.args[i].op = "spread")
        \/ (\E i \in DOMAIN fields : InitOf(e, fields[i]) = <<>>)
     THEN Bail(st)
     ELSE Aggregate("struct", e.name,
                    LowerOperands([i \in DOMAIN fields |-> InitOf(e, fields[i])[1].args[1]], <<>>, st))

\* st.out is an rvalue.
LowerRvalue(e, st) ==
  LET Made(k, o, s) == Gives(Rvalue(k, o, s.out), s)
      Just(s) == Gives(Use(s.out), s)
  IN CASE e.op = "struct" -> LowerStruct(e, st)
       [] e.op \in {"binary", "tuple"} \/ (e.op = "unary" /\ e.name \in {"-", "!"}) ->
            Made(e.op, e.name, LowerOperands(e.args, <<>>, st))
       [] e.op = "unary" -> Just(IF e.name = "*" THEN LowerPlace(e, st) ELSE Bail(st))
       [] OTHER -> Just(LowerOperand(e, st))

FieldIndex(t, n, st) ==
  IF n \in DOMAIN Number THEN Number[n] + 1
  ELSE IF t.k # "struct" THEN 0
  ELSE LET fields == FieldsOf(t.name, st)
           at == {i \in DOMAIN fields : fields[i].name = n}
       IN IF at = {} THEN 0 ELSE CHOOSE i \in at : TRUE

\* Elements of a list are left out with the lists.
LowerPlace(e, st) ==
  LET Within(s, i) == Gives(Proj(s.out, i), s)
  IN CASE st.bail -> st
       [] e.op = "ident" /\ e.name \in DOMAIN st.env -> Gives(Copy(st.env[e.name]), st)
       [] e.op = "field" ->
            LET i == FieldIndex(e.args[1].ty, e.name, st)
            IN IF i = 0 THEN Bail(st) ELSE Within(LowerPlace(e.args[1], st), i)
       [] e.op = "unary" /\ e.name = "*" -> Within(LowerPlace(e.args[1], st), DerefProj)
       [] OTHER -> Bail(st)

-----------------------------------------------------------------------------
(* Statements and blocks.                                                  *)

LetType(s, st) == IF Len(s.args) = 3 THEN ResolveType(s.args[3], st.decls) ELSE s.args[1].ty
\* The local is there before its value is lowered, its name only afterward.
LowerLet(s, st) ==
  LET p == s.args[2]
      l == LastLocal(st) + 1
      Filled(r) == Bind(p.name, l, Put(Copy(l), r.out, r))
  IN CASE p.op = "p_bind" -> Filled(LowerRvalue(s.args[1], NewLocal(LetType(s, st), st)))
       [] p.op = "p_wild" -> LowerOperand(s.args[1], st)
       [] OTHER -> Bail(st)

LowerReturn(s, st) ==
  Diverge(Leaving, Into(1, IF s.args = <<>> THEN Gives(UnitConst, st) ELSE LowerOperand(s.args[1], st)))

\* Only a `loop` has a local for the value of a break.
LowerBreak(s, st) ==
  IF st.loops = <<>> \/ (s.args # <<>> /\ Last(st.loops).val = 0) THEN Bail(st)
  ELSE LET ctx == Last(st.loops)
       IN Diverge(GotoTerm(ctx.exit),
                  IF s.args = <<>> THEN st ELSE Into(ctx.val, LowerOperand(s.args[1], st)))
LowerContinue(st) ==
  IF st.loops = <<>> THEN Bail(st) ELSE Diverge(GotoTerm(Last(st.loops).next), st)

LowerStmt(s, st) ==
  CASE s.op = "let" -> LowerLet(s, st)
    [] s.op = "return" -> LowerReturn(s, st)
    [] s.op = "break" -> LowerBreak(s, st)
    [] s.op = "continue" -> LowerContinue(st)
    [] s.op \in {"fn", "const"} -> Bail(st)
    [] OTHER -> LowerOperand(s, st)

RECURSIVE LowerStmts(_, _)
LowerStmts(ss, st) ==
  IF st.bail \/ ss = <<>> THEN st ELSE LowerStmts(Tail(ss), LowerStmt(Head(ss), st))
LowerBlock(b, st) ==
  LET r == LowerStmts(b.args, st) IN IF b.op = "value" THEN r ELSE Gives(UnitConst, r)

-----------------------------------------------------------------------------
(* Calls and control flow.                                                 *)

\* Calls of a name.  A method call is one of a name no function has here.
LowerCall(e, st) ==
  LET Called(s) ==
        LET l == LastLocal(s) + 1
            next == Len(s.blocks) + 1
        IN Gives(Copy(l), InBlock(next, SetTerm(Calling(e.args[1].name, s.out, l, next),
                                           NewBlocks(1, NewLocal(e.ty, s)))))
  IN IF e.args[1].op # "ident" \/ e.args[1].name \in DOMAIN st.env THEN Bail(st)
     ELSE Called(LowerOperands(Tail(e.args), <<>>, st))

LowerIf(e, st) ==
  LET From(c) ==
        LET n == Len(c.blocks)                \* then, else, join
            l == LastLocal(c) + 1
            Ends(s) == Goto(n + 3, Into(l, s))
            start == SetTerm(Branch(c.out, n + 1, n + 2), NewBlocks(3, NewLocal(e.ty, c)))
            Else(s) == IF Len(e.args) = 3 THEN LowerOperand(e.args[3], s) ELSE Gives(UnitConst, s)
        IN Gives(Copy(l), InBlock(n + 3, Ends(Else(InBlock(n + 2, Ends(LowerBlock(e.args[2], InBlock(n + 1, start))))))))
  IN From(LowerOperand(e.args[1], st))

\* A body, from which continue goes to next, break to exit, and the end to next.
LowerBody(b, next, exit, val, st) ==
  LET Close(r) == InBlock(exit, [Goto(next, r) EXCEPT !.loops = st.loops])
  IN Close(LowerBlock(b, [st EXCEPT !.loops = Append(@, [next |-> next, exit |-> exit, val |-> val])]))

LowerLoop(e, st) ==
  LET n == Len(st.blocks)                     \* header, join
      l == LastLocal(st) + 1
      header == InBlock(n + 1, Goto(n + 1, NewLocal(e.ty, NewBlocks(2, st))))
  IN Gives(Copy(l), LowerBody(e.args[1], n + 1, n + 2, l, header))

LowerWhile(e, st) ==
  LET n == Len(st.blocks)                     \* header, body, join
      header == InBlock(n + 1, Goto(n + 1, NewBlocks(3, st)))
      Round(c) == LowerBody(e.args[2], n + 1, n + 3, 0, InBlock(n + 2, SetTerm(Branch(c.out, n + 2, n + 3), c)))
  IN Gives(UnitConst, Round(LowerOperand(e.args[1], header)))

\* A counter that runs over a range; continue goes on to its increment.
CountToHeader(i, n, s) ==
  Goto(n + 1, Put(Copy(i), Rvalue("binary", "+", <<Copy(i), Imm(VInt(1))>>), InBlock(n + 3, s)))
LowerFor(e, st) ==
  LET over == e.args[1]
      arm == e.args[2]
      t == over.args[1].ty
      i == LastLocal(st) + 1
      Count(s) ==                             \* s.out is where the counter ends
        LET n == Len(s.blocks)                \* header, body, increment, join
            cmp == LastLocal(s) + 1
            header == InBlock(n + 1, Goto(n + 1, NewBlocks(4, s)))
            test == Put(Copy(cmp), Rvalue("binary", IF over.name = "..=" THEN "<=" ELSE "<",
                                          <<Copy(i), s.out>>), NewLocal(TBool, header))
            body == LowerBody(arm.args[2], n + 3, n + 4, 0,
                              InBlock(n + 2, SetTerm(Branch(Copy(cmp), n + 2, n + 4), test)))
        IN Gives(UnitConst, InBlock(n + 4, CountToHeader(i, n, body)))
      From(s) == Count(IntoLocal(t, LowerOperand(over.args[2], Into(i, s))))
  IN IF over.op # "range" \/ arm.args[1].op # "p_bind" THEN Bail(st)
     ELSE From(LowerOperand(over.args[1], Bind(arm.args[1].name, i, NewLocal(t, st))))

-----------------------------------------------------------------------------
(* Matches: the arms in turn, the tests of an arm in turn.  Every test goes *)
(* to yes or to no; place is the value tested, of type t.                  *)

BindPlace(n, place, t, st) ==
  LET l == LastLocal(st) + 1 IN Bind(n, l, Put(Copy(l), Use(place), NewLocal(t, st)))

Compare(o, place, v, b1, b2, st) ==
  LET r == IntoTemp(TBool, Gives(Rvalue("binary", o, <<place, Imm(v)>>), st))
  IN SetTerm(Branch(r.out, b1, b2), r)

RECURSIVE TestPattern(_, _, _, _, _, _)

\* The parts of a tuple from the i-th.
RECURSIVE TestSeq(_, _, _, _, _, _, _)
TestSeq(ps, i, place, t, yes, no, st) ==
  LET part(next, s) ==
        TestPattern(ps[i], Proj(place, i), IF i <= Len(t.args) THEN t.args[i] ELSE Unknown, next, no, s)
      more == Len(st.blocks) + 1
  IN CASE st.bail -> st
       [] ps = <<>> -> Goto(yes, st)
       [] i = Len(ps) -> part(yes, st)
       [] OTHER -> TestSeq(ps, i + 1, place, t, yes, no, InBlock(more, part(more, NewBlocks(1, st))))

\* Alternatives, the last of which fails to no.
RECURSIVE TestOr(_, _, _, _, _, _)
TestOr(ps, place, t, yes, no, st) ==
  LET next == Len(st.blocks) + 1
  IN CASE st.bail -> st
       [] Len(ps) = 1 -> TestPattern(ps[1], place, t, yes, no, st)
       [] OTHER -> TestOr(Tail(ps), place, t, yes, no,
                          InBlock(next, TestPattern(ps[1], place, t, yes, next, NewBlocks(1, st))))

\* Variants of Option and Result are left out with the values.
TestPattern(p, place, t, yes, no, st) ==
  LET n == Len(st.blocks) + 1
  IN CASE st.bail -> st
       [] p.op = "p_wild" -> Goto(yes, st)
       [] p.op = "p_bind" -> Goto(yes, BindPlace(p.name, place, t, st))
       [] p.op = "p_at" ->
            Goto(yes, BindPlace(p.name, place, t, InBlock(n, TestPattern(p.args[1], place, t, n, no, NewBlocks(1, st)))))
       [] p.op = "p_int" -> SetTerm(Switch(place, VInt(Number[p.name]), yes, no), st)
       [] p.op = "p_neg" -> SetTerm(Switch(place, VInt(-Number[p.name]), yes, no), st)
       [] p.op = "p_bool" ->
            SetTerm(IF p.name = "true" THEN Branch(place, yes, no) ELSE Branch(place, no, yes), st)
       [] p.op = "p_range" ->
            Compare(IF p.name = "..=" THEN "<=" ELSE "<", place, VInt(Number[p.args[2].name]), yes, no,
                    InBlock(n, Compare(">=", place, VInt(Number[p.args[1].name]), n, no, NewBlocks(1, st))))
       [] p.op = "p_tuple" /\ t.k = "tuple" -> TestSeq(p.args, 1, place, t, yes, no, st)
       [] p.op = "p_or" -> TestOr(p.args, place, t, yes, no, st)
       [] OTHER -> Bail(st)

GuardTo(arm, no, st) ==
  LET On(g) == LET b == Len(g.blocks) + 1 IN InBlock(b, SetTerm(Branch(g.out, b, no), NewBlocks(1, g)))
  IN IF Len(arm.args) = 3 THEN On(LowerOperand(arm.args[2], st)) ELSE st

\* The value of every arm goes to local l, and on to join.
RECURSIVE LowerArms(_, _, _, _, _, _)
LowerArms(arms, place, t, l, join, st) ==
  LET n == Len(st.blocks)                     \* body, next arm
      Taken(s) == GuardTo(Head(arms), n + 2, InBlock(n + 1, s))
      Arrived(s) == InBlock(n + 2, Goto(join, Into(l, s)))
  IN IF st.bail THEN st
     ELSE IF arms = <<>> THEN SetTerm(Unreachable, st)
     ELSE LowerArms(Tail(arms), place, t, l, join,
                    Arrived(LowerOperand(Last(Head(arms).args),
                                         Taken(TestPattern(Head(arms).args[1], place, t, n + 1, n + 2,
                                                           NewBlocks(2, st))))))

LowerMatch(e, st) ==
  LET t == e.args[1].ty
      From(s) ==                              \* s.out is the local with the value
        LET l == LastLocal(s) + 1
            join == Len(s.blocks) + 1
        IN Gives(Copy(l), InBlock(join, LowerArms(Tail(e.args), s.out, t, l, join, NewBlocks(1, NewLocal(e.ty, s)))))
  IN From(IntoLocal(t, LowerOperand(e.args[1], st)))

-----------------------------------------------------------------------------
\* st.out is the operand that holds the value of e once the statements that
\* were put have run.
LowerOperand(e, st) ==
  LET Assigned(rv, s) == Gives(UnitConst, Put(s.out, rv, s))
      Stored(s) == Assigned(s.out, LowerPlace(e.args[1], s))
  IN CASE st.bail -> st
       [] e.op = "int" -> Gives(Imm(VInt(Number[e.name])), st)
       [] e.op = "bool" -> Gives(Imm(VBool(e.name = "true")), st)
       [] e.op = "nil" -> Gives(Imm(VNil), st)
       [] e.op = "ident" /\ e.name \notin DOMAIN st.env -> Gives(FnConst(e.name), st)
       [] e.op \in {"ident", "field"} -> LowerPlace(e, st)
       [] e.op \in {"binary", "unary", "tuple", "struct"} -> IntoTemp(e.ty, LowerRvalue(e, st))
       [] e.op = "call" -> LowerCall(e, st)
       [] e.op = "assign" -> Stored(LowerRvalue(e.args[2], st))
       [] e.op \in Blocks -> LowerBlock(e, st)
       [] e.op = "unsafe" -> LowerBlock(e.args[1], st)
       [] e.op = "if" -> LowerIf(e, st)
       [] e.op = "loop" -> LowerLoop(e, st)
       [] e.op = "while" -> LowerWhile(e, st)
       [] e.op = "for" -> LowerFor(e, st)
       [] e.op = "match" -> LowerMatch(e, st)
       [] OTHER -> Bail(st)

\* run(): the value of the body is the result.
LowerFn(f, decls) ==
  LET ps == Params(f)
      d == [decls |-> decls]
      st == [blocks |-> <<EmptyBlock>>, cur |-> 1, loops |-> <<>>, bail |-> FALSE, out |-> UnitConst,
             types |-> <<RetType(f, d)>> \o [i \in DOMAIN ps |-> ParamType(ps[i], d)],
             env |-> [n \in {ps[i].name : i \in DOMAIN ps} |->
                        1 + CHOOSE i \in DOMAIN ps : ps[i].name = n],
             decls |-> decls]
      Close(r) == [SetTerm(Leaving, Into(1, r)) EXCEPT !.loops = <<>>]
  IN Close(LowerBlock(Last(f.args), st))

\* The functions of a program that could be lowered.
MirOf(prog) ==
  LET decls == {i \in ToSet(prog.args) : i.op \in {"struct_decl", "enum_decl", "alias_decl"}}
      fns == {i \in ToSet(prog.args) : i.op = "fn"}
      all == [n \in {f.name : f \in fns} |-> LowerFn(CHOOSE f \in fns : f.name = n, decls)]
      body(n) == [blocks |-> all[n].blocks, types |-> all[n].types,
                  params |-> Len(Params(CHOOSE f \in fns : f.name = n)), decls |-> decls]
  IN [n \in {m \in DOMAIN all : ~ all[m].bail} |-> body(n)]
=============================================================================
