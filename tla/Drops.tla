-------------------------------- MODULE Drops --------------------------------
(***************************************************************************)
(* What the move checker and the drop insertion promise together, about    *)
(* the executions of every function that is accepted and lowered.          *)
(***************************************************************************)
EXTENDS Moves, Lowering, Ownership, FiniteSetsExt

\* Names are resolved, then moves are checked; only what passes is lowered, and
\* only what the lowering finishes is handed on.
Compiled(programs) ==
  {c \in {[body |-> p, code |-> Lowered(p)] :
           p \in {p \in programs : Resolved(p) /\ Accepted(p)}} : ~c.code.failed}
-----------------------------------------------------------------------------
(* The programs of the run ownership. *)

\* e gives n away.
Gives(e, n) ==
  /\ e.op \in {"let", "set", "call", "return", "break", "tuple", "value"}
  /\ \E i \in DOMAIN e.args : e.args[i] = Var(n)

\* e gives a binding away where the move checker does not look: the field of a
\* tuple, the tail of a block, the arm of a match; or the payload of a binding.
GivesUnseen(e) ==
  CASE e.op = "tuple" -> \E i \in DOMAIN e.args : e.args[i].op = "var"
    [] e.op = "value" -> Last(e.args).op = "var"
    [] e.op = "match" ->
         \/ e.args[2].op = "var" /\ (e.args[2].name # e.name \/ e.args[1].op = "var")
         \/ e.args[3].op = "var"
         \/ e.args[1].op = "var" /\ \E m \in Nodes(e.args[2]) : Gives(m, e.name)
    [] e.op = "whilelet" ->
         e.args[1].op = "var" /\ \E m \in Nodes(e.args[2]) : Gives(m, e.name)
    [] e.op = "try" -> e.args[1].op = "var"
    [] OTHER -> FALSE

\* A let or a match in e binds a name that is bound around it.
RECURSIVE Shadows(_, _)
Shadows(e, outer) ==
  LET own == IF e.op \in {"block", "value"}
             THEN {e.args[i].name : i \in {j \in DOMAIN e.args : e.args[j].op = "let"}}
             ELSE IF e.op \in {"match", "whilelet"} THEN {e.name} ELSE {}
  IN \/ own \cap outer # {}
     \/ \E i \in DOMAIN e.args : Shadows(e.args[i], outer \cup own)

\* No loop that jumps re-initialises a binding, none that tests consumes one.
LoopsPlain(e) ==
  /\ e.op \in {"loop", "while", "for", "whilelet"} =>
       ~(/\ \E m \in Nodes(e) : m.op \in {"break", "continue"}
         /\ \E m \in Nodes(e) : m.op = "set")
  /\ e.op \in {"while", "whilelet"} =>
       \A m \in Nodes(e.args[1]), n \in Names : ~Gives(m, n)

\* The programs whose moves the two passes see alike.  The tail of the function
\* may give a binding away: nothing runs after it.
Plain(body) ==
  /\ \A e \in Nodes(body) \ {body} : ~GivesUnseen(e)
  /\ ~Shadows(body, {"x"})
  /\ \A e \in Nodes(body) : LoopsPlain(e)
=============================================================================
