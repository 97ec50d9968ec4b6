-------------------------------- MODULE Borrows --------------------------------
(***************************************************************************)
(* The lexical borrows of the borrow checker (src/src/borrowck/borrows.rs, *)
(* src/src/borrowck.rs): which places a `let r = &x` or `let r = &mut x`   *)
(* holds until the end of its block, and which accesses that forbids.      *)
(*                                                                         *)
(* At the end stands the reference the checks are measured by: the program *)
(* with its references replaced by copies, which a program whose borrows   *)
(* are exclusive cannot tell from itself.                                  *)
(***************************************************************************)
EXTENDS Syntax

\* A place: a root variable and the fields and indices that lead from it.
RECURSIVE IsPlace(_)
IsPlace(e) == \/ e.op = "ident"
              \/ e.op \in {"field", "field?", "index"} /\ IsPlace(e.args[1])
              \/ e.op = "unary" /\ e.name = "*" /\ IsPlace(e.args[1])

RECURSIVE PlaceOf(_)
PlaceOf(e) ==
  LET p == PlaceOf(e.args[1])
  IN CASE e.op = "ident" -> [root |-> e.name, proj |-> <<>>]
       [] e.op = "unary" -> p
       [] e.op = "index" -> [p EXCEPT !.proj = Append(@, "[..]")]
       [] OTHER -> [p EXCEPT !.proj = Append(@, e.name)]

\* One place is a part of the other; no index is told from another.
Overlaps(a, b) ==
  a.root = b.root /\ \A i \in DOMAIN a.proj \cap DOMAIN b.proj : a.proj[i] = b.proj[i]

Borrow(e) == [place |-> PlaceOf(e.args[1]), mutable |-> e.name = "&mut"]

\* active are the borrows alive, ok says that nothing has been reported.
BorrowCk == [active |-> <<>>, ok |-> TRUE]

CheckAccessOfExclusive(e, exclusive, st) ==
  [st EXCEPT !.ok = @ /\ \A b \in ToSet(st.active) : Overlaps(b.place, PlaceOf(e)) => ~ b.mutable]
CheckAccess(e, exclusive, st) ==
  [st EXCEPT !.ok = @ /\ \A b \in ToSet(st.active) :
                           Overlaps(b.place, PlaceOf(e)) => ~ b.mutable /\ ~ exclusive]

MethodMutates(m) == m \in {"push", "pop", "insert", "remove", "extend", "clear", "append", "sort"}

References == {"&", "&mut"}
IsBorrow(e) == e.op = "unary" /\ e.name \in References

-----------------------------------------------------------------------------
RECURSIVE CheckBorrows(_, _)
RECURSIVE CheckAll(_, _)
CheckAll(es, st) ==
  IF ~ st.ok \/ es = <<>> THEN st ELSE CheckAll(Tail(es), CheckBorrows(Head(es), st))

\* The indices a place is reached through are read.
RECURSIVE CheckPlaceIndices(_, _)
CheckPlaceIndices(e, st) ==
  CASE e.op = "ident" -> st
    [] e.op = "index" -> CheckBorrows(e.args[2], CheckPlaceIndices(e.args[1], st))
    [] OTHER -> CheckPlaceIndices(e.args[1], st)

\* What has the shape of a place but no root is its parts.
Access(e, exclusive, st) ==
  IF IsPlace(e) THEN CheckAccess(e, exclusive, CheckPlaceIndices(e, st))
  ELSE IF e.op \in {"field", "field?", "unary", "index"} THEN CheckAll(e.args, st)
  ELSE CheckBorrows(e, st)

\* Does e, returned, refer to a variable of the function?
RECURSIVE Escapes(_)
Escapes(e) ==
  CASE e.op = "unary" -> e.name \in References /\ e.args[1].op = "ident"
    [] e.op = "value" -> Escapes(Last(e.args))
    [] e.op = "if" -> \E i \in 2..Len(e.args) : Escapes(e.args[i])
    [] e.op = "match" -> \E i \in 2..Len(e.args) : Escapes(Last(e.args[i].args))
    [] OTHER -> FALSE
CheckEscape(e, st) == [st EXCEPT !.ok = @ /\ ~ Escapes(e)]

\* A function is checked by itself; its result must not refer into its frame.
CheckFn(f, st) ==
  LET body == CheckBorrows(Last(f.args), [st EXCEPT !.active = <<>>])
  IN [CheckEscape(Last(f.args), body) EXCEPT !.active = st.active]

\* The value, then the borrow it makes if the pattern is a name.
CheckLet(e, st) ==
  LET v == e.args[1]
      r == CheckBorrows(v, st)
  IN IF e.args[2].op = "p_bind" /\ IsBorrow(v) /\ IsPlace(v.args[1])
     THEN [r EXCEPT !.active = Append(@, Borrow(v))] ELSE r

CheckBorrows(e, st) ==
  CASE ~ st.ok -> st
    [] IsBorrow(e) -> Access(e.args[1], e.name = "&mut", st)
    [] e.op \in {"ident", "field", "field?", "index"} -> Access(e, FALSE, st)
    [] e.op = "assign" -> Access(e.args[1], TRUE, CheckBorrows(e.args[2], st))
    [] e.op \in {"method", "method?"} ->
         CheckAll(Tail(e.args), Access(e.args[1], MethodMutates(e.name), st))
    [] e.op \in Blocks -> [CheckAll(e.args, st) EXCEPT !.active = st.active]
    [] e.op = "let" -> CheckLet(e, st)
    [] e.op = "return" /\ e.args # <<>> -> CheckBorrows(e.args[1], CheckEscape(e.args[1], st))
    [] e.op = "fn" -> CheckFn(e, st)
    [] e.op = "const" -> st
    [] OTHER -> CheckAll(e.args, st)

BorrowsChecked(prog) ==
  CheckAll(SelectSeq(prog.args, LAMBDA i : i.op = "fn"), BorrowCk)

-----------------------------------------------------------------------------
(* The reference: a shared borrow of x as a copy of x, an exclusive one as *)
(* a variable of its own whose value goes back to x when its block ends.   *)

RECURSIVE ByCopy(_)
RECURSIVE Underef(_, _)
Underef(e, r) ==
  IF e = Unary("*", Ident(r)) THEN Ident(r)
  ELSE [e EXCEPT !.args = [i \in DOMAIN e.args |-> Underef(e.args[i], r)]]

RECURSIVE CopyStmts(_)
CopyStmts(ss) ==
  LET s == Head(ss)
      x == s.args[1].args[1]
      r == s.args[2]
      rest == CopyStmts(Tail(ss))
  IN IF ss = <<>> THEN <<>>
     ELSE IF s.op # "let" \/ ~ IsBorrow(s.args[1]) THEN <<ByCopy(s)>> \o rest
     ELSE LET uses == [i \in DOMAIN rest |-> Underef(rest[i], r.name)]
          IN IF s.args[1].name = "&" THEN <<Let(r, x)>> \o uses
             ELSE <<LetMut(r, x)>> \o uses \o <<Assign("=", x, Ident(r.name))>>

ByCopy(e) ==
  [e EXCEPT !.args = IF e.op = "block" THEN CopyStmts(@)
                     ELSE [i \in DOMAIN @ |-> ByCopy(@[i])]]
=============================================================================
