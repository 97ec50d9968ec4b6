------------------------------ MODULE Dictionary -----------------------------
(***************************************************************************)
(* What a collection of the runtime promises its caller                    *)
(* (src/runtime/src/collections.rs).  A Set or a Map has one entry per     *)
(* class of equal keys: the key of the first insertion, the value of the   *)
(* last one.  A List has one entry per position.                           *)
(*                                                                         *)
(* Values are numbered in the order they are moved in.                     *)
(***************************************************************************)
EXTENDS Naturals

CONSTANT Classes   (* the equality classes of the keys *)

VARIABLES
  dict,    \* class or position -> [key, val]; val is 0 but in a Map
  size,    \* how many entries there are
  count    \* how many values have been moved in

Empty == dict = [k \in {} |-> 0] /\ size = 0

Init == Empty /\ count = 0

\* The entry of k after an insertion: a key that is there stays.
Stored(k, key, val) ==
  [c \in DOMAIN dict \cup {k} |->
     IF c # k THEN dict[c]
              ELSE [key |-> IF k \in DOMAIN dict THEN dict[k].key ELSE key,
                    val |-> val]]

Insert(k, key, val) ==
  /\ dict' = Stored(k, key, val)
  /\ size' = IF k \in DOMAIN dict THEN size ELSE size + 1

\* Map: key and value are moved in.
Put(k) == Insert(k, count + 1, count + 2) /\ count' = count + 2

\* Set: an element is moved in.
Add(k) == Insert(k, count + 1, 0) /\ count' = count + 1

\* List: an element is moved in behind the others.
Extend == Insert(size + 1, count + 1, 0) /\ count' = count + 1

\* The collection is dropped; its slot holds an empty one.
Clear == Empty' /\ UNCHANGED count

Next == (\E k \in Classes : Put(k) \/ Add(k)) \/ Extend \/ Clear

Spec == Init /\ [][Next]_<<dict, size, count>>
=============================================================================
