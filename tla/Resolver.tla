------------------------------- MODULE Resolver -------------------------------
(***************************************************************************)
(* Name resolution (src/src/checker.rs): every value binding site gets the *)
(* next binding id in one walk over the program, and every use of a local  *)
(* is tied to the binding it refers to.  The walk keeps the code's order;  *)
(* nodes list their parts in it (module Syntax).                           *)
(*                                                                         *)
(* The table of uses is kept in the tree: a use of a local comes out as a  *)
(* "local" node that holds the id, a use of a global stays an "ident".     *)
(***************************************************************************)
EXTENDS Syntax

BindingId(n) == ToString(n)

Builtins == {"println", "len", "Some", "None", "Ok", "Err"}

\* globals, the open scopes (innermost last), the names of the bindings made
\* so far, whether every name was found, and the tree rewritten so far.
Resolver(prog) ==
  [globals |-> Builtins \cup {prog.args[i].name : i \in DOMAIN prog.args},
   scopes |-> <<>>, bindings |-> <<>>, ok |-> TRUE, out |-> prog]

Push(st) == [st EXCEPT !.scopes = Append(@, <<>>)]
Pop(st) == [st EXCEPT !.scopes = Front(@)]

Declare(n, st) ==
  LET id == BindingId(Len(st.bindings))
  IN [st EXCEPT !.bindings = Append(@, n),
                !.scopes[Len(st.scopes)] = (n :> id) @@ @]

\* The scopes that declare n; a use refers to the innermost.
Declaring(n, st) == {i \in DOMAIN st.scopes : n \in DOMAIN st.scopes[i]}
LookupName(n, st) == st.scopes[Max(Declaring(n, st))][n]

UseName(e, st) ==
  IF Declaring(e.name, st) # {}
  THEN [st EXCEPT !.out = [e EXCEPT !.op = "local", !.name = LookupName(e.name, st)]]
  ELSE [st EXCEPT !.out = e, !.ok = @ /\ e.name \in st.globals]

RECURSIVE Resolve(_, _)

\* In order; what follows an undefined name is not looked at.
RECURSIVE ResolveAll(_, _)
ResolveAll(es, st) ==
  IF ~ st.ok \/ es = <<>> THEN [st EXCEPT !.out = es]
  ELSE LET h == Resolve(Head(es), st)
           t == ResolveAll(Tail(es), h)
       IN [t EXCEPT !.out = <<h.out>> \o @]

\* The node made of what its parts became.
ResolveParts(e, st) ==
  LET r == ResolveAll(e.args, st) IN [r EXCEPT !.out = [e EXCEPT !.args = r.out]]

InScope(e, st) == Pop(ResolveParts(e, Push(st)))

Resolve(e, st) ==
  CASE e.op = "ident" -> UseName(e, st)
    [] e.op \in {"block", "value", "arm", "closure"} -> InScope(e, st)
    [] e.op = "catch" -> Pop(ResolveParts(e, Declare(e.name, Push(st))))
    [] e.op = "fn" -> InScope(e, Declare(e.name, st))
    [] e.op = "const" -> Declare(e.name, ResolveParts(e, st))
    [] e.op \in {"p_bind", "p_at", "p_typed", "param"} -> ResolveParts(e, Declare(e.name, st))
    [] OTHER -> ResolveParts(e, st)

\* resolve(): the items, whose own names are global.
RECURSIVE ResolveItems(_, _)
ResolveItems(items, st) ==
  IF ~ st.ok \/ items = <<>> THEN [st EXCEPT !.out = items]
  ELSE LET h == InScope(Head(items), st)
           t == ResolveItems(Tail(items), h)
       IN [t EXCEPT !.out = <<h.out>> \o @]

Resolved(prog) ==
  LET r == ResolveItems(prog.args, Resolver(prog)) IN [r EXCEPT !.out = Node("program", "", @)]
=============================================================================
