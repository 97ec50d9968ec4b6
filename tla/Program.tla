------------------------------- MODULE Program -------------------------------
(***************************************************************************)
(* The programs the ownership passes are modelled on: the body of one      *)
(* function with an owned parameter "x", over the statements and           *)
(* expressions that bind, move, borrow, re-initialise and jump             *)
(* (src/src/ast.rs), and the name resolution that runs before those passes *)
(* (src/src/checker.rs).                                                   *)
(*                                                                         *)
(* A node is a record of one shape: what it is, the name it binds or       *)
(* mentions ("" if none) and its parts in the order they are evaluated.    *)
(* Every binding holds a value of a type that is not Copy and needs drop;  *)
(* conditions are opaque.                                                  *)
(***************************************************************************)
EXTENDS Integers, Sequences, SequencesExt, FiniteSets

Node(op, name, args) == [op |-> op, name |-> name, args |-> args]

(* Expressions.  A block ends in its tail if it has one: "value", "block".  *)
New == Node("new", "", <<>>)               \* a fresh owned value, "..."
Opt == Node("opt", "", <<>>)               \* an owned Option from a call
Var(n) == Node("var", n, <<>>)
Tuple(es) == Node("tuple", "", es)
Read(es) == Node("read", "", es)           \* a call that borrows
Call(es) == Node("call", "", es)           \* a user function, by value
Assign(n, e) == Node("set", n, <<e>>)
Block(ss) == Node("block", "", ss)
Value(ss) == Node("value", "", ss)
If(c, a, b) == Node("if", "", <<c, a, b>>)
Loop(b) == Node("loop", "", <<b>>)
While(c, b) == Node("while", "", <<c, b>>)
For(b) == Node("for", "", <<b>>)           \* over a range, of a Copy type
WhileLet(n, e, b) == Node("whilelet", n, <<e, b>>)   \* while let Some(n) = e
Try(e) == Node("try", "", <<e>>)           \* e?, of an Option
\* match e { Some(n) => a, None => b }
Match(e, n, a, b) == Node("match", n, <<e, a, b>>)

(* Statements. *)
Let(n, e) == Node("let", n, <<e>>)
Return(es) == Node("return", "", es)
Break(es) == Node("break", "", es)
Continue == Node("continue", "", <<>>)

\* The names a program may bind, and the one the desugaring of e? binds.
Names == {"x", "y", "z", "?"}

\* Every node of e, e included.
RECURSIVE Nodes(_)
Nodes(e) == {e} \cup UNION {Nodes(e.args[i]) : i \in DOMAIN e.args}

-----------------------------------------------------------------------------
(* Name resolution: bound is what the open scopes declare.                 *)

RECURSIVE Resolve(_, _)

ResolveAll(es, st) == FoldLeft(LAMBDA s, e : Resolve(e, s), st, es)

Declare(n, st) == [st EXCEPT !.bound = @ \cup {n}]

\* push, the walk f of what is inside, pop.
Scoped(inside, st) == [bound |-> st.bound, ok |-> inside.ok]

UseName(n, st) == [st EXCEPT !.ok = @ /\ n \in st.bound]

Resolve(e, st) ==
  CASE e.op = "var" -> UseName(e.name, st)
    [] e.op = "let" -> Declare(e.name, ResolveAll(e.args, st))
    [] e.op = "set" -> ResolveAll(e.args, UseName(e.name, st))
    [] e.op \in {"block", "value"} -> Scoped(ResolveAll(e.args, st), st)
    [] e.op = "match" ->
         LET scrut == Resolve(e.args[1], st)
             some  == Resolve(e.args[2], Declare(e.name, scrut))
         IN Scoped(Resolve(e.args[3], Scoped(some, st)), st)
    [] e.op = "whilelet" ->
         LET expr == Resolve(e.args[1], st)
         IN Scoped(Resolve(e.args[2], Declare(e.name, expr)), st)
    [] OTHER -> ResolveAll(e.args, st)

\* No name error in a function with the parameter "x" and this body.
Resolved(body) == Resolve(body, [bound |-> {"x"}, ok |-> TRUE]).ok
=============================================================================
