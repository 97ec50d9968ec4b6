------------------------------ MODULE Lowering -------------------------------
(***************************************************************************)
(* The lowering of a function to basic blocks with explicit moves and      *)
(* drops (FnLower, src/src/mirgen.rs; the builder of src/src/mir.rs).      *)
(*                                                                         *)
(* The state st of the lowering:                                           *)
(*   blocks, cur     the blocks so far and the one code is emitted into    *)
(*   locals          how many locals there are besides the return slot     *)
(*   env             binding_local, over the names the resolver found      *)
(*   scopes          the owned locals of each open scope, innermost last   *)
(*   moved           the locals moved out of                               *)
(*   loops           the enclosing loops, innermost last                   *)
(*   owned           history: every local registered as owned              *)
(*   failed          the lowering ended in an error                        *)
(*   val, vals, rv   the operand(s) or rvalue the last call returned       *)
(*                                                                         *)
(* An operand reads a place: a local (0 is the return slot) or, with part, *)
(* the payload of the Option in it.                                        *)
(***************************************************************************)
EXTENDS Program

Operand(how, l, part) == [how |-> how, local |-> l, part |-> part]
Unit == Operand("unit", 0, FALSE)            \* any constant of a Copy type
Str == Operand("str", 0, FALSE)              \* a constant that owns
Copy(l) == Operand("copy", l, FALSE)
CopyPayload(l) == Operand("copy", l, TRUE)
Move(l) == Operand("move", l, FALSE)

\* Statements "use", "aggregate" and "drop"; let marks an initialisation.
Stmt(op, dest, args, let) ==
  [op |-> op, dest |-> dest, args |-> args, let |-> let]
Use(l, v) == Stmt("use", l, <<v>>, FALSE)
Drop(l) == Stmt("drop", l, <<>>, FALSE)

Term(op, dest, args, to) == [op |-> op, dest |-> dest, args |-> args, to |-> to]

Goto(b) == Term("goto", 0, <<>>, <<b>>)
ReturnTerm == Term("return", 0, <<>>, <<>>)
Unreachable == Term("unreachable", 0, <<>>, <<>>)

\* new_block: the new block is the last one.
NewBlock(st) ==
  [st EXCEPT !.blocks = Append(@, [stmts |-> <<>>, term |-> Unreachable])]
LastBlock(st) == Len(st.blocks)
At(b, st) == [st EXCEPT !.cur = b]

NewLocal(st) == [st EXCEPT !.locals = @ + 1]

Emit(s, st) == [st EXCEPT !.blocks[st.cur].stmts = Append(@, s)]
SetTerm(t, st) == [st EXCEPT !.blocks[st.cur].term = t]

\* Mutation of Diverge: the block control leaves stays open.
DivergeOpen(t, st) == LET s == NewBlock(st) IN At(LastBlock(s), s)

\* diverge: what follows a jump goes into a block of its own.
Diverge(t, st) == LET s == NewBlock(SetTerm(t, st)) IN At(LastBlock(s), s)

Yield(v, st) == [st EXCEPT !.val = v]
-----------------------------------------------------------------------------
(* Scopes, drops and moves. *)

EnterScope(st) == [st EXCEPT !.scopes = Append(@, <<>>)]

RegisterOwned(l, st) ==
  [st EXCEPT !.scopes[Len(st.scopes)] = Append(@, l), !.owned = @ \cup {l}]

\* Mutation of DropLocals: in order of declaration.
DropInOrder(ls, st) ==
  FoldLeft(LAMBDA s, l : IF l \in s.moved THEN s ELSE Emit(Drop(l), s), st, ls)

\* Reverse declaration order, but not what was moved out.
DropLocals(ls, st) ==
  FoldLeft(LAMBDA s, l : IF l \in s.moved THEN s ELSE Emit(Drop(l), s),
           st, Reverse(ls))

ExitScope(st) ==
  DropLocals(Last(st.scopes), [st EXCEPT !.scopes = Front(@)])

\* Mutation of DropScopesTo: a jump drops the innermost scope only.
DropInnermost(depth, st) ==
  IF Len(st.scopes) > depth THEN DropLocals(Last(st.scopes), st) ELSE st

\* drop_scopes_to, and with depth 0 drop_all_open_scopes: the scopes stay open.
DropScopesTo(depth, st) ==
  FoldLeft(LAMBDA s, ls : DropLocals(ls, s), st,
           Reverse(SubSeq(st.scopes, depth + 1, Len(st.scopes))))

\* Mutation of Consume: the root is not retired.
ConsumeOnly(l, st) == Yield(Move(l), st)

Consume(l, st) == Yield(Move(l), [st EXCEPT !.moved = @ \cup {l}])
-----------------------------------------------------------------------------
(* Expressions.  Lower is lower_operand and lower_stmt.                     *)

RECURSIVE Lower(_, _)

\* lower_operand_consuming: a binding is moved, anything else is a fresh temp.
LowerConsuming(e, st) ==
  IF e.op = "var" THEN Consume(st.env[e.name], st) ELSE Lower(e, st)

\* The operands of es in st.vals; consume says whether bindings are moved.
LowerArgs(consume, es, st) ==
  FoldLeft(LAMBDA s, e : LET t == IF consume THEN LowerConsuming(e, s) ELSE Lower(e, s)
                         IN [t EXCEPT !.vals = Append(s.vals, t.val)],
           [st EXCEPT !.vals = <<>>], es)

\* lower_rvalue: an aggregate moves its fields in, anything else is consumed.
LowerRvalue(e, st) ==
  IF e.op = "tuple"
  THEN LET s == LowerArgs(TRUE, e.args, st)
       IN [s EXCEPT !.rv = [op |-> "aggregate", args |-> s.vals]]
  ELSE LET s == LowerConsuming(e, st)
       IN [s EXCEPT !.rv = [op |-> "use", args |-> <<s.val>>]]

AssignRvalue(l, let, st) == Emit(Stmt(st.rv.op, l, st.rv.args, let), st)

\* Mutation of LowerLet: the binding is not registered as owned.
LetUnregistered(n, e, st) ==
  LET s == NewLocal(st)
      t == AssignRvalue(s.locals, TRUE, LowerRvalue(e, s))
  IN [t EXCEPT !.env[n] = s.locals]

\* let: the local is made first, bound after its value was lowered.
LowerLet(n, e, st) ==
  LET s == NewLocal(st)
      l == s.locals
      t == AssignRvalue(l, TRUE, LowerRvalue(e, s))
  IN RegisterOwned(l, [t EXCEPT !.env[n] = l])

\* lower_block: a scope; its tail is consumed and its locals dropped after it.
LowerBlock(e, st) ==
  LET n    == IF e.op = "value" THEN Len(e.args) - 1 ELSE Len(e.args)
      body == FoldLeft(LAMBDA s, x : Lower(x, s), EnterScope(st),
                       SubSeq(e.args, 1, n))
      tail == IF e.op = "value" THEN LowerConsuming(e.args[n + 1], body)
                                ELSE Yield(Unit, body)
  IN [ExitScope(tail) EXCEPT !.env = st.env]

\* return: everything owned goes, then control leaves.
LowerReturn(es, st) ==
  LET v == IF es = <<>> THEN Yield(Unit, st) ELSE LowerConsuming(es[1], st)
  IN Diverge(ReturnTerm, DropScopesTo(0, Emit(Use(0, v.val), v)))

\* break: its value goes to the loop's slot, if the loop has one.
LowerBreak(es, st) ==
  LET ctx == Last(st.loops)
      v   == IF es = <<>> THEN st
             ELSE LET s == LowerConsuming(es[1], st)
                  IN IF ctx.slot = 0 THEN [s EXCEPT !.failed = TRUE]
                     ELSE Emit(Use(ctx.slot, s.val), s)
  IN Diverge(Goto(ctx.break), DropScopesTo(ctx.depth, v))

\* Mutation of LowerContinue: only break and return drop anything.
ContinueKeepsLocals(st) == Diverge(Goto(Last(st.loops).continue), st)

\* continue: what the round declared goes, then the next one starts.
LowerContinue(st) ==
  LET ctx == Last(st.loops)
  IN Diverge(Goto(ctx.continue), DropScopesTo(ctx.depth, st))

\* A call ends its block; user functions take their arguments by value,
\* anything else borrows them.
LowerCall(e, st) ==
  LET s    == LowerArgs(e.op = "call", e.args, st)
      next == NewBlock(NewLocal(s))
      dest == next.locals
  IN Yield(Copy(dest),
           At(LastBlock(next),
              SetTerm(Term(e.op, dest, s.vals, <<LastBlock(next)>>), next)))

\* lower_if: the result of either arm is threaded through a temp.
LowerIf(e, st) ==
  LET c    == Lower(e.args[1], st)
      s    == NewBlock(NewBlock(NewBlock(NewLocal(c))))
      tmp  == s.locals
      join == LastBlock(s)
      Arm(arm, b, t) ==
        LET a == Lower(arm, At(b, t)) IN SetTerm(Goto(join), Emit(Use(tmp, a.val), a))
      fork == SetTerm(Term("if", 0, <<c.val>>, <<join - 2, join - 1>>), s)
  IN Yield(Copy(tmp),
           At(join, Arm(e.args[3], join - 1, Arm(e.args[2], join - 2, fork))))

\* What the loops share: the body, then on to the next round.
LoopBody(body, continue, break, slot, st) ==
  LET in  == [st EXCEPT !.loops = Append(@,
               [continue |-> continue, break |-> break, slot |-> slot,
                depth |-> Len(st.scopes)])]
      out == SetTerm(Goto(continue), Lower(body, in))
  IN [out EXCEPT !.loops = st.loops]

LowerLoop(e, st) ==
  LET s      == NewLocal(NewBlock(NewBlock(st)))
      join   == LastBlock(s)
      header == join - 1
      entry  == At(header, SetTerm(Goto(header), s))
  IN Yield(Copy(s.locals),
           At(join, LoopBody(e.args[1], header, join, s.locals, entry)))

\* The condition is lowered in the header, so that it runs every time.
LowerWhile(e, st) ==
  LET s      == NewBlock(NewBlock(NewBlock(st)))
      join   == LastBlock(s)
      body   == join - 1
      header == join - 2
      c      == Lower(e.args[1], At(header, SetTerm(Goto(header), s)))
      fork   == SetTerm(Term("if", 0, <<c.val>>, <<body, join>>), c)
  IN Yield(Unit, At(join, LoopBody(e.args[2], header, join, 0, At(body, fork))))

\* A counter loop; continue goes to the step.  The counter is of a Copy type,
\* so how it counts is left out.
LowerFor(e, st) ==
  LET s      == NewBlock(NewBlock(NewBlock(NewBlock(st))))
      join   == LastBlock(s)
      step   == join - 1
      head   == SetTerm(Term("if", 0, <<Unit>>, <<join - 2, join>>),
                        At(join - 3, SetTerm(Goto(join - 3), s)))
      body   == LoopBody(e.args[1], step, join, 0, At(join - 2, head))
  IN Yield(Unit, At(join, SetTerm(Goto(join - 3), At(step, body))))

\* One arm of a match: test the variant, bind, run the body, go to join.  The
\* test falls to the block after the arm.  bind_place copies the payload out.
LowerArm(variant, n, body, scrut, tmp, join, st) ==
  LET s    == NewBlock(NewBlock(NewBlock(st)))
      hit  == LastBlock(s)         \* matched by switch_variant
      next == hit - 1
      run  == hit - 2
      test == At(hit, SetTerm(Term("switch", 0, <<Copy(scrut)>>,
                                   IF variant = "Some" THEN <<hit, next>>
                                                       ELSE <<next, hit>>), s))
      bind == IF variant = "None" THEN test
              ELSE LET t == NewLocal(test)
                   IN [Emit(Use(t.locals, CopyPayload(scrut)), t)
                         EXCEPT !.env[n] = t.locals]
      done == Lower(body, At(run, SetTerm(Goto(run), bind)))
      out  == SetTerm(Goto(join), Emit(Use(tmp, done.val), done))
  IN [At(next, out) EXCEPT !.env = st.env]

\* lower_match: arms top to bottom; falling past the last is unreachable.
LowerMatch(e, st) ==
  LET v     == Lower(e.args[1], st)
      s     == NewLocal(v)
      scrut == s.locals
      t     == NewBlock(NewLocal(Emit(Use(scrut, v.val), s)))
      tmp   == t.locals
      join  == LastBlock(t)
      some  == LowerArm("Some", e.name, e.args[2], scrut, tmp, join, t)
      none  == LowerArm("None", e.name, e.args[3], scrut, tmp, join, some)
  IN Yield(Copy(tmp), At(join, SetTerm(Unreachable, none)))

\* desugar_while_let: loop { match e { Some(n) => body, _ => break } }
DesugarWhileLet(e) ==
  Loop(Value(<<Match(e.args[1], e.name, e.args[2], Block(<<Break(<<>>)>>))>>))

\* desugar_try: match e { Some(v) => v, None => return nil }
DesugarTry(e) == Match(e.args[1], "?", Var("?"), Block(<<Return(<<>>)>>))

\* A jump outside of a loop is an error, and nothing is handed on.
Lower(e, st) ==
  CASE st.loops = <<>> /\ e.op \in {"break", "continue"} ->
         [st EXCEPT !.failed = TRUE]
    [] e.op = "new" -> Yield(Str, st)
    [] e.op = "var" -> Yield(Copy(st.env[e.name]), st)
    [] e.op = "tuple" ->
         LET s == LowerRvalue(e, st)
             t == NewLocal(s)
         IN Yield(Copy(t.locals), AssignRvalue(t.locals, FALSE, t))
    [] e.op \in {"call", "read", "opt"} -> LowerCall(e, st)
    [] e.op = "set" ->
         LET s == LowerRvalue(e.args[1], st)
         IN Yield(Unit, AssignRvalue(s.env[e.name], FALSE, s))
    [] e.op \in {"block", "value"} -> LowerBlock(e, st)
    [] e.op = "if" -> LowerIf(e, st)
    [] e.op = "loop" -> LowerLoop(e, st)
    [] e.op = "while" -> LowerWhile(e, st)
    [] e.op = "for" -> LowerFor(e, st)
    [] e.op = "match" -> LowerMatch(e, st)
    [] e.op = "whilelet" -> Lower(DesugarWhileLet(e), st)
    [] e.op = "try" -> Lower(DesugarTry(e), st)
    [] e.op = "let" -> LowerLet(e.name, e.args[1], st)
    [] e.op = "return" -> LowerReturn(e.args, st)
    [] st.loops # <<>> /\ e.op = "break" -> LowerBreak(e.args, st)
    [] st.loops # <<>> /\ e.op = "continue" -> LowerContinue(st)

\* FnLower::new: parameter "x" is local 1, owned by the function's root scope.
NewFn ==
  RegisterOwned(1,
    NewBlock([blocks |-> <<>>, cur |-> 1, locals |-> 1,
              env |-> [n \in Names |-> IF n = "x" THEN 1 ELSE 0],
              scopes |-> << <<>> >>, moved |-> {}, loops |-> <<>>,
              owned |-> {}, failed |-> FALSE, val |-> Unit, vals |-> <<>>,
              rv |-> [op |-> "use", args |-> <<>>]]))

\* run: the body's value is the result, the parameters are dropped last.
Run(body) ==
  LET s == Lower(body, NewFn)
  IN SetTerm(ReturnTerm, ExitScope(Emit(Use(0, s.val), s)))

\* The function the lowering hands on, with the sets it decided drops by.
Lowered(body) ==
  LET s == Run(body)
  IN [blocks |-> s.blocks, locals |-> s.locals, owned |-> s.owned,
      moved |-> s.moved, failed |-> s.failed]
=============================================================================
