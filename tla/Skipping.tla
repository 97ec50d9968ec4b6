------------------------------- MODULE Skipping -------------------------------
(***************************************************************************)
(* Which functions of a program the back end leaves out                    *)
(* (src/src/codegen/module.rs): those it cannot translate and, until       *)
(* nothing changes any more, those that call one that is left out or that  *)
(* nobody defined.                                                         *)
(*                                                                         *)
(* calls[f] are the functions that f calls, for the functions that are     *)
(* defined; out are those that cannot be translated.                       *)
(***************************************************************************)
EXTENDS Integers, FiniteSets

Remaining(calls, out) == DOMAIN calls \ out

\* The functions that call what is not kept.
Callers(calls, out) == {f \in DOMAIN calls : ~ calls[f] \subseteq Remaining(calls, out)}

\* A pass over all functions adds some; after as many passes as there are
\* functions nothing changes.
Skipped(calls, out) ==
  LET n == Cardinality(DOMAIN calls)
      after[i \in 0..n] ==
        IF i = 0 THEN out
        ELSE LET skipped == after[i - 1] IN skipped \cup Callers(calls, skipped)
  IN after[n]

\* One turn of the loop inside a pass: it sees what earlier turns of the same
\* pass have added.
Skips(calls, out, more) ==
  \E f \in Callers(calls, out) \ out : more = out \cup {f}
=============================================================================
