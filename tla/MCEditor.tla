------------------------------ MODULE MCEditor -------------------------------
(***************************************************************************)
(* Instances of Editor for TLC: documents whose URIs agree in their first  *)
(* twelve bytes, like any two files under file:///home, or one document.   *)
(***************************************************************************)
EXTENDS Editor

CONSTANT p1

SamePrefix == [d \in Docs |-> p1]
=============================================================================
