----------------------------- MODULE Collections -----------------------------
(***************************************************************************)
(* The owned heap collections of the compiled program's runtime            *)
(* (src/runtime/src/collections.rs): one List, Set or Map from its         *)
(* creation on, with the growable buffers (Raw) under it and the drop glue *)
(* it runs on its elements.                                                *)
(*                                                                         *)
(* Every value moved into the collection is numbered; a slot of a buffer   *)
(* holds such a number.  What the glue does is one count per value.        *)
(***************************************************************************)
EXTENDS Integers, Sequences, FiniteSets

CONSTANTS
  Classes,     (* the equality classes of elements and keys                *)
  MaxInserts   (* bound: values moved in per collection (pairs for a Map)  *)

ASSUME CollectionsAssumption == MaxInserts \in Nat

VARIABLES
  kind,     \* "list", "set" or "map"
  glue,     \* which drop_elem are there: [keys, vals]
  keys,     \* La3List.raw, La3Set.raw or La3Map.keys
  vals,     \* La3Map.vals
  eq,       \* history: eq[v] is the class of v, for a Map's value that of its key
  dropped   \* history: how often drop glue ran on each value

vars == <<kind, glue, keys, vals, eq, dropped>>

Values == 1..(2 * MaxInserts)

\* Raw::new: nothing is allocated before the first push.
EmptyRaw == [elems |-> <<>>, cap |-> 0]

Init ==
  /\ kind \in {"list", "set", "map"}
  /\ glue \in [keys : BOOLEAN, vals : BOOLEAN]
  /\ keys = EmptyRaw
  /\ vals = EmptyRaw
  /\ eq = <<>>
  /\ dropped = [v \in Values |-> 0]
-----------------------------------------------------------------------------
(* Raw, the buffer the three collections share. *)

\* Mutation of ReserveOne: grows one push too late.
ReserveOneLate(r) ==
  IF Len(r.elems) <= r.cap THEN r.cap ELSE IF r.cap = 0 THEN 4 ELSE 2 * r.cap

\* The capacity after reserve_one: 4, then twice as much.
ReserveOne(r) ==
  IF Len(r.elems) < r.cap THEN r.cap ELSE IF r.cap = 0 THEN 4 ELSE 2 * r.cap

\* Mutation of Push: the copy goes one slot too far, past an uninitialized one.
PushPastEnd(r, v) == [elems |-> r.elems \o <<0, v>>, cap |-> ReserveOne(r)]

Push(r, v) == [elems |-> Append(r.elems, v), cap |-> ReserveOne(r)]

\* copy_nonoverlapping over slot i.
Overwrite(r, i, v) == [elems |-> [r.elems EXCEPT ![i] = v], cap |-> r.cap]

\* drop_one_at: the glue, if there is one, on the value v.
DropOne(g, v) == [u \in Values |-> IF g /\ u = v THEN 1 ELSE 0]

\* The glue on every element of r.
DropElems(g, r) ==
  [u \in Values |-> IF g THEN Cardinality({i \in 1..Len(r.elems) : r.elems[i] = u})
                         ELSE 0]

\* Adds the calls of glue a and b to the history.
Dropping(a, b) == dropped' = [u \in Values |-> dropped[u] + a[u] + b[u]]
NoDrops == [u \in Values |-> 0]

\* The number of the next value moved in.
Fresh == Len(eq) + 1

\* The linear scan of set_insert, map_insert and map_get: the first slot whose
\* key is equal to one of class k.
Found(k, i) ==
  /\ eq[keys.elems[i]] = k
  /\ \A j \in 1..(i - 1) : eq[keys.elems[j]] # k

Absent(k) == \A i \in 1..Len(keys.elems) : eq[keys.elems[i]] # k
-----------------------------------------------------------------------------
ListPush(k) ==
  /\ kind = "list"
  /\ Len(eq) < MaxInserts
  /\ eq' = Append(eq, k)
  /\ keys' = Push(keys, Fresh)
  /\ UNCHANGED <<kind, glue, vals, dropped>>

\* Mutation of SetInsert: the duplicate is neither stored nor dropped.
SetInsertLeak(k) ==
  /\ kind = "set"
  /\ Len(eq) < MaxInserts
  /\ eq' = Append(eq, k)
  /\ keys' = IF Absent(k) THEN Push(keys, Fresh) ELSE keys
  /\ UNCHANGED <<kind, glue, vals, dropped>>

\* la3_set_insert: the set owns the duplicate it does not store, and drops it.
SetInsert(k) ==
  /\ kind = "set"
  /\ Len(eq) < MaxInserts
  /\ eq' = Append(eq, k)
  /\ \/ /\ Absent(k)
        /\ keys' = Push(keys, Fresh)
        /\ UNCHANGED dropped
     \/ /\ ~Absent(k)
        /\ Dropping(DropOne(glue.keys, Fresh), NoDrops)
        /\ UNCHANGED keys
  /\ UNCHANGED <<kind, glue, vals>>

\* Mutation of MapUpdate: the incoming key replaces the stored one, which is
\* dropped in its place.
MapUpdateKey(k) ==
  \E i \in 1..Len(keys.elems) :
    /\ Found(k, i)
    /\ keys' = Overwrite(keys, i, Fresh)
    /\ vals' = Overwrite(vals, i, Fresh + 1)
    /\ Dropping(DropOne(glue.vals, vals.elems[i]), DropOne(glue.keys, keys.elems[i]))

\* la3_map_insert on a key that is there: the old value is dropped and replaced,
\* the incoming key is dropped.
MapUpdate(k) ==
  \E i \in 1..Len(keys.elems) :
    /\ Found(k, i)
    /\ vals' = Overwrite(vals, i, Fresh + 1)
    /\ Dropping(DropOne(glue.vals, vals.elems[i]), DropOne(glue.keys, Fresh))
    /\ UNCHANGED keys

\* Mutation of MapInsert: keys are not compared.
MapInsertBlind(k) ==
  /\ kind = "map"
  /\ Len(eq) < 2 * MaxInserts
  /\ eq' = eq \o <<k, k>>
  /\ keys' = Push(keys, Fresh)
  /\ vals' = Push(vals, Fresh + 1)
  /\ UNCHANGED <<kind, glue, dropped>>

\* la3_map_insert: key and value are moved in.
MapInsert(k) ==
  /\ kind = "map"
  /\ Len(eq) < 2 * MaxInserts
  /\ eq' = eq \o <<k, k>>
  /\ \/ /\ Absent(k)
        /\ keys' = Push(keys, Fresh)
        /\ vals' = Push(vals, Fresh + 1)
        /\ UNCHANGED dropped
     \/ MapUpdate(k)
  /\ UNCHANGED <<kind, glue>>

\* Mutation of Drop: the values' buffer is left alone.
DropKeysOnly ==
  /\ Dropping(DropElems(glue.keys, keys), NoDrops)
  /\ keys' = EmptyRaw
  /\ UNCHANGED <<kind, glue, vals, eq>>

\* la3_list_drop, la3_set_drop, la3_map_drop: every element is dropped and the
\* slot holds an empty buffer; the slot may be dropped again or filled again.
Drop ==
  /\ Dropping(DropElems(glue.keys, keys), DropElems(glue.vals, vals))
  /\ keys' = EmptyRaw
  /\ vals' = EmptyRaw
  /\ UNCHANGED <<kind, glue, eq>>

Next ==
  \/ \E k \in Classes : ListPush(k) \/ SetInsert(k) \/ MapInsert(k)
  \/ Drop

Spec == Init /\ [][Next]_vars
-----------------------------------------------------------------------------
Raws == [elems : Seq(Values), cap : Nat]

\* The collection is well formed.
TypeOK ==
  /\ kind \in {"list", "set", "map"}
  /\ glue \in [keys : BOOLEAN, vals : BOOLEAN]
  /\ keys \in Raws
  /\ vals \in Raws
  /\ eq \in Seq(Classes)
  /\ dropped \in [Values -> Nat]

\* Where a value is owned.
InKeys(v) == {i \in 1..Len(keys.elems) : keys.elems[i] = v}
InVals(v) == {i \in 1..Len(vals.elems) : vals.elems[i] = v}

\* The glue of a value's buffer: a Map's values have even numbers.
HasGlue(v) == IF kind = "map" /\ v % 2 = 0 THEN glue.vals ELSE glue.keys

\* The ownership contract of the module comment: every value moved in is either
\* in exactly one slot and alive, or in none and dropped exactly once; a value
\* without glue is never dropped, and a value not moved in is nowhere.
OwnedOnce ==
  \A v \in Values :
    \/ /\ Cardinality(InKeys(v)) + Cardinality(InVals(v)) = 1
       /\ v <= Len(eq) /\ dropped[v] = 0
    \/ /\ InKeys(v) = {} /\ InVals(v) = {}
       /\ dropped[v] = IF v <= Len(eq) /\ HasGlue(v) THEN 1 ELSE 0

\* No two stored elements or keys of a Set or Map are equal (set_insert,
\* map_insert), so the linear scans find the only match.
KeysUnique ==
  kind # "list" =>
    \A i, j \in 1..Len(keys.elems) :
      eq[keys.elems[i]] = eq[keys.elems[j]] => i = j

\* The comment on La3Map: the two parallel buffers are kept the same length,
\* and slot i of the values belongs to the key in slot i.
PairsMatch ==
  kind = "map" =>
    /\ Len(keys.elems) = Len(vals.elems)
    /\ \A i \in 1..Len(keys.elems) : eq[keys.elems[i]] = eq[vals.elems[i]]

\* Every element is inside its allocation, and growth by doubling never holds
\* more than twice what was needed (reserve_one, drop_all).
Fits(r) ==
  /\ Len(r.elems) <= r.cap
  /\ r.cap = 0 \/ r.cap = 4 \/ r.cap <= 2 * (Len(r.elems) - 1)
  /\ r.elems = <<>> => r.cap = 0

WithinAllocation == Fits(keys) /\ Fits(vals)

\* What slot i is found by, the slot a key is found in, and what is found there.
Slots     == 1..Len(keys.elems)
KeyAt(i)  == IF kind = "list" THEN i ELSE eq[keys.elems[i]]
SlotOf(k) == CHOOSE i \in Slots : KeyAt(i) = k
Entry(i)  == [key |-> keys.elems[i], val |-> IF kind = "map" THEN vals.elems[i] ELSE 0]

Dict == [k \in {KeyAt(i) : i \in Slots} |-> Entry(SlotOf(k))]

D == INSTANCE Dictionary WITH dict <- Dict, size <- Len(keys.elems), count <- Len(eq)

\* Seen by la3_list_get, la3_set_contains and la3_map_get the collection is a
\* dictionary: the first of equal keys, the last value stored with it.
ImplementsDictionary == D!Spec
=============================================================================
