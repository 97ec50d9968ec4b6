-------------------------------- MODULE Moves --------------------------------
(***************************************************************************)
(* The move checker (src/src/borrowck/moves.rs): one walk over a function  *)
(* that threads the set of moved-out names and reports every use of one.   *)
(*                                                                         *)
(* st.moved is that set, st.ok is false once an error was reported.        *)
(***************************************************************************)
EXTENDS Program

RECURSIVE WalkExpr(_, _)

WalkAll(es, st) == FoldLeft(LAMBDA s, e : WalkExpr(e, s), st, es)

\* A bare binding of a type that is not Copy is moved out.
TryMove(e, st) ==
  IF e.op = "var" THEN [st EXCEPT !.moved = @ \cup {e.name}] ELSE st

\* move_by_value_args: every parameter here is by value.
MoveArgs(es, st) == FoldLeft(LAMBDA s, e : TryMove(e, s), st, es)

\* bind_fresh, and the re-initialisation by a plain assignment.
BindFresh(n, st) == [st EXCEPT !.moved = @ \ {n}]

\* A value moved in either branch is moved afterward.
Join(a, b) == [moved |-> a.moved \cup b.moved, ok |-> a.ok /\ b.ok]

\* Mutation of WalkLoop: the body is walked once.
WalkLoopOnce(n, body, st) == WalkExpr(body, BindFresh(n, st))

\* walk_loop: what the body moves is found out first, errors discarded, and
\* the body is walked again as if it had been moved already.  The name n that
\* every round binds ("" if none) is never carried over.
WalkLoop(n, body, st) ==
  LET entry   == BindFresh(n, st)
      probe   == WalkExpr(body, entry)
      carried == [entry EXCEPT !.moved = @ \cup (probe.moved \ st.moved)]
      out     == WalkExpr(body, BindFresh(n, carried))
  IN [moved |-> st.moved \cup out.moved, ok |-> out.ok]

WalkExpr(e, st) ==
  CASE e.op = "var" -> [st EXCEPT !.ok = @ /\ e.name \notin st.moved]
    [] e.op \in {"let", "set"} ->
         BindFresh(e.name, TryMove(e.args[1], WalkExpr(e.args[1], st)))
    [] e.op \in {"call", "return", "break"} ->
         MoveArgs(e.args, WalkAll(e.args, st))
    [] e.op = "if" ->
         LET cond == WalkExpr(e.args[1], st)
         IN Join(WalkExpr(e.args[2], cond), WalkExpr(e.args[3], cond))
    [] e.op = "match" ->
         LET scrut == WalkExpr(e.args[1], st)
         IN Join(WalkExpr(e.args[2], BindFresh(e.name, scrut)),
                 WalkExpr(e.args[3], scrut))
    [] e.op \in {"loop", "for"} -> WalkLoop(e.name, e.args[1], st)
    [] e.op \in {"while", "whilelet"} ->
         WalkLoop(e.name, e.args[2], WalkExpr(e.args[1], st))
    [] OTHER -> WalkAll(e.args, st)

\* check_fn reports no use of a moved value.
Accepted(body) == WalkExpr(body, [moved |-> {}, ok |-> TRUE]).ok
=============================================================================
