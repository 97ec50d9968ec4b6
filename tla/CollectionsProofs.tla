-------------------------- MODULE CollectionsProofs --------------------------
(***************************************************************************)
(* Proofs about Collections, for every set of classes and every number of  *)
(* insertions.                                                             *)
(*                                                                         *)
(* OwnedOnce speaks of cardinalities and is not inductive.  OwnInv is: no  *)
(* value is in two slots, keys and values of a Map differ in parity, and   *)
(* the glue ran exactly on the values that were moved in and are in no     *)
(* slot.                                                                   *)
(***************************************************************************)
EXTENDS Collections, FiniteSetTheorems, SequenceTheorems, TLAPS

InRaw(r, v) == \E i \in 1..Len(r.elems) : r.elems[i] = v

Distinct(r) ==
  \A i, j \in 1..Len(r.elems) : r.elems[i] = r.elems[j] => i = j

Sides ==
  /\ \A i \in 1..Len(keys.elems) :
       keys.elems[i] <= Len(eq) /\ (kind = "map" => keys.elems[i] % 2 = 1)
  /\ \A i \in 1..Len(vals.elems) :
       vals.elems[i] <= Len(eq) /\ kind = "map" /\ vals.elems[i] % 2 = 0
  /\ kind = "map" => Len(eq) % 2 = 0

Counts ==
  \A v \in Values :
    dropped[v] = IF v <= Len(eq) /\ HasGlue(v) /\ ~InRaw(keys, v) /\ ~InRaw(vals, v)
                 THEN 1 ELSE 0

OwnInv == Distinct(keys) /\ Distinct(vals) /\ Sides /\ Counts
-----------------------------------------------------------------------------
\* The parity of consecutive numbers.
LEMMA Parity ==
  ASSUME NEW n \in Nat, n % 2 = 0
  PROVE  (n + 1) % 2 = 1 /\ (n + 2) % 2 = 0 /\ n % 2 # 1
OBVIOUS

\* Values are positive numbers.
LEMMA ValuesFacts ==
  /\ Values \subseteq Nat \ {0}
  /\ \A v \in Nat : v >= 1 /\ v <= MaxInserts => v \in Values
  /\ \A n \in Nat : n % 2 = 0 /\ n < 2 * MaxInserts => n + 1 \in Values /\ n + 2 \in Values
<1>1. MaxInserts \in Nat
  BY CollectionsAssumption
<1> QED
  BY <1>1 DEF Values

\* The slots of a buffer hold values.
LEMMA ElemsFacts ==
  ASSUME NEW r \in Raws
  PROVE  /\ Len(r.elems) \in Nat
         /\ \A i \in 1..Len(r.elems) : r.elems[i] \in Values /\ r.elems[i] \in Nat
<1>1. r.elems \in Seq(Values)
  BY DEF Raws
<1>2. \A i \in 1..Len(r.elems) : r.elems[i] \in Values
  BY <1>1
<1>3. Values \subseteq Nat
  BY ValuesFacts
<1>4. Len(r.elems) \in Nat
  BY <1>1
<1> QED
  BY <1>2, <1>3, <1>4

\* A push adds one slot behind the others and keeps the buffer well formed.
LEMMA PushFacts ==
  ASSUME NEW r \in Raws, NEW v \in Values
  PROVE  /\ Push(r, v) \in Raws
         /\ Len(Push(r, v).elems) = Len(r.elems) + 1
         /\ \A i \in 1..Len(r.elems) : Push(r, v).elems[i] = r.elems[i]
         /\ Push(r, v).elems[Len(r.elems) + 1] = v
         /\ \A u : InRaw(Push(r, v), u) <=> InRaw(r, u) \/ u = v
<1>1. r.elems \in Seq(Values) /\ r.cap \in Nat
  BY DEF Raws
<1>2. Append(r.elems, v) \in Seq(Values)
  BY <1>1
<1>3. ReserveOne(r) \in Nat
  BY <1>1 DEF ReserveOne
<1>4. Push(r, v) \in Raws /\ Push(r, v).elems = Append(r.elems, v)
  BY <1>2, <1>3 DEF Push, Raws
<1>5. /\ Len(Append(r.elems, v)) = Len(r.elems) + 1
      /\ \A i \in 1..Len(r.elems) : Append(r.elems, v)[i] = r.elems[i]
      /\ Append(r.elems, v)[Len(r.elems) + 1] = v
  BY <1>1
<1>6. Len(r.elems) \in Nat
  BY <1>1
<1>7. ASSUME NEW u PROVE InRaw(Push(r, v), u) <=> InRaw(r, u) \/ u = v
  <2>1. 1..(Len(r.elems) + 1) = (1..Len(r.elems)) \cup {Len(r.elems) + 1}
    BY <1>6
  <2> QED
    BY <1>4, <1>5, <2>1 DEF InRaw
<1> QED
  BY <1>4, <1>5, <1>7

\* Overwriting a slot leaves the other slots and the capacity alone.
LEMMA OverwriteFacts ==
  ASSUME NEW r \in Raws, NEW i \in 1..Len(r.elems), NEW v \in Values
  PROVE  /\ Overwrite(r, i, v) \in Raws
         /\ Len(Overwrite(r, i, v).elems) = Len(r.elems)
         /\ Overwrite(r, i, v).cap = r.cap
         /\ \A j \in 1..Len(r.elems) :
              Overwrite(r, i, v).elems[j] = IF j = i THEN v ELSE r.elems[j]
<1>1. r.elems \in Seq(Values) /\ r.cap \in Nat
  BY DEF Raws
<1>2. /\ [r.elems EXCEPT ![i] = v] \in Seq(Values)
      /\ Len([r.elems EXCEPT ![i] = v]) = Len(r.elems)
      /\ \A j \in 1..Len(r.elems) :
           [r.elems EXCEPT ![i] = v][j] = IF j = i THEN v ELSE r.elems[j]
  BY <1>1, ExceptSeq
<1> QED
  BY <1>1, <1>2 DEF Overwrite, Raws

\* In a buffer without repetitions the glue runs once on each element.
LEMMA DropElemsFacts ==
  ASSUME NEW r \in Raws, Distinct(r), NEW g \in BOOLEAN, NEW u \in Values
  PROVE  DropElems(g, r)[u] = IF g /\ InRaw(r, u) THEN 1 ELSE 0
<1> DEFINE S == {i \in 1..Len(r.elems) : r.elems[i] = u}
<1>1. DropElems(g, r)[u] = IF g THEN Cardinality(S) ELSE 0
  BY DEF DropElems
<1>2. CASE InRaw(r, u)
  <2>1. PICK i \in 1..Len(r.elems) : r.elems[i] = u
    BY <1>2 DEF InRaw
  <2>2. S = {i}
    BY <2>1 DEF Distinct
  <2>3. Cardinality(S) = 1
    BY <2>2, FS_Singleton
  <2> QED
    BY <1>1, <1>2, <2>3
<1>3. CASE ~InRaw(r, u)
  <2>1. S = {}
    BY <1>3 DEF InRaw
  <2>2. Cardinality(S) = 0
    BY <2>1, FS_EmptySet
  <2> QED
    BY <1>1, <1>3, <2>2
<1> QED
  BY <1>2, <1>3

\* Drop counts are numbers.
LEMMA DropTypes ==
  /\ NoDrops \in [Values -> Nat]
  /\ \A g \in BOOLEAN, v \in Values : DropOne(g, v) \in [Values -> Nat]
  /\ \A g \in BOOLEAN, r \in Raws : DropElems(g, r) \in [Values -> Nat]
<1>1. NoDrops \in [Values -> Nat] /\ \A g \in BOOLEAN, v \in Values : DropOne(g, v) \in [Values -> Nat]
  BY DEF NoDrops, DropOne
<1>2. ASSUME NEW g \in BOOLEAN, NEW r \in Raws, NEW u \in Values
      PROVE  Cardinality({i \in 1..Len(r.elems) : r.elems[i] = u}) \in Nat
  <2>1. Len(r.elems) \in Nat
    BY DEF Raws
  <2>2. IsFiniteSet(1..Len(r.elems))
    BY <2>1, FS_Interval
  <2>3. {i \in 1..Len(r.elems) : r.elems[i] = u} \in SUBSET (1..Len(r.elems))
    OBVIOUS
  <2> QED
    BY <2>2, <2>3, FS_Subset, FS_CardinalityType
<1> QED
  BY <1>1, <1>2 DEF DropElems
-----------------------------------------------------------------------------
(* Types. *)

Shape ==
  /\ kind = "map" => Len(eq) % 2 = 0 /\ Len(keys.elems) = Len(vals.elems)
  /\ kind # "map" => vals = EmptyRaw

TypeInv == TypeOK /\ Shape

\* What a call moves in is a value.
LEMMA FreshFacts ==
  ASSUME TypeInv
  PROVE  /\ Len(eq) \in Nat /\ Fresh = Len(eq) + 1 /\ Fresh + 1 = Len(eq) + 2
         /\ Len(eq) < MaxInserts => Fresh \in Values
         /\ kind = "map" /\ Len(eq) < 2 * MaxInserts => Fresh \in Values /\ Fresh + 1 \in Values
<1>1. Len(eq) \in Nat
  BY DEF TypeInv, TypeOK
<1>2. Len(eq) < MaxInserts => Len(eq) + 1 \in Values
  BY <1>1, ValuesFacts, CollectionsAssumption
<1>3. kind = "map" /\ Len(eq) < 2 * MaxInserts => Len(eq) + 1 \in Values /\ Len(eq) + 2 \in Values
  BY <1>1, ValuesFacts DEF TypeInv, Shape
<1> QED
  BY <1>1, <1>2, <1>3 DEF Fresh

\* Adding drop counts keeps them numbers.
LEMMA DroppingType ==
  ASSUME dropped \in [Values -> Nat], NEW a \in [Values -> Nat], NEW b \in [Values -> Nat],
         Dropping(a, b)
  PROVE  dropped' \in [Values -> Nat]
BY DEF Dropping

\* The classes of the values already moved in do not change.
LEMMA EqFacts ==
  ASSUME NEW s \in Seq(Classes), NEW k \in Classes
  PROVE  /\ Append(s, k) \in Seq(Classes) /\ s \o <<k, k>> \in Seq(Classes)
         /\ Len(Append(s, k)) = Len(s) + 1 /\ Len(s \o <<k, k>>) = Len(s) + 2
         /\ \A v \in 1..Len(s) : Append(s, k)[v] = s[v] /\ (s \o <<k, k>>)[v] = s[v]
         /\ Append(s, k)[Len(s) + 1] = k
         /\ (s \o <<k, k>>)[Len(s) + 1] = k /\ (s \o <<k, k>>)[Len(s) + 2] = k
<1>1. <<k, k>> \in Seq(Classes) /\ Len(<<k, k>>) = 2 /\ <<k, k>>[1] = k /\ <<k, k>>[2] = k
  OBVIOUS
<1>2. s \o <<k, k>> \in Seq(Classes) /\ Len(s \o <<k, k>>) = Len(s) + 2
  BY <1>1
<1>3. ASSUME NEW v \in 1..(Len(s) + 2)
      PROVE  (s \o <<k, k>>)[v] = IF v <= Len(s) THEN s[v] ELSE <<k, k>>[v - Len(s)]
  BY <1>1
<1>4. Len(s) \in Nat
  OBVIOUS
<1>5. (s \o <<k, k>>)[Len(s) + 1] = k /\ (s \o <<k, k>>)[Len(s) + 2] = k
  BY <1>1, <1>3, <1>4
<1> QED
  BY <1>2, <1>3, <1>4, <1>5

\* Init is well formed.
LEMMA InitTypeInv == Init => TypeInv
<1> SUFFICES ASSUME Init PROVE TypeInv
  OBVIOUS
<1>1. EmptyRaw \in Raws /\ Len(<<>>) = 0 /\ <<>> \in Seq(Classes)
  BY DEF EmptyRaw, Raws
<1> QED
  BY <1>1 DEF Init, TypeInv, TypeOK, Shape, EmptyRaw

\* Every step keeps the types, the parity of a Map's numbers and the equal
\* lengths of its buffers.
LEMMA NextTypeInv == TypeInv /\ [Next]_vars => TypeInv'
<1> SUFFICES ASSUME TypeInv, [Next]_vars PROVE TypeInv'
  OBVIOUS
<1> USE DEF TypeInv
<1>0. EmptyRaw \in Raws /\ EmptyRaw.elems = <<>> /\ Len(<<>>) = 0
  BY DEF EmptyRaw, Raws
<1>1. glue.keys \in BOOLEAN /\ glue.vals \in BOOLEAN /\ keys \in Raws /\ vals \in Raws
  BY DEF TypeOK
<1>2. ASSUME NEW k \in Classes, ListPush(k) PROVE TypeInv'
  <2>1. Push(keys, Fresh) \in Raws
    BY <1>1, <1>2, FreshFacts, PushFacts DEF ListPush
  <2> QED
    BY <1>2, <2>1, EqFacts DEF ListPush, TypeOK, Shape
<1>3. ASSUME NEW k \in Classes, SetInsert(k) PROVE TypeInv'
  <2>1. Fresh \in Values /\ Push(keys, Fresh) \in Raws
    BY <1>1, <1>3, FreshFacts, PushFacts DEF SetInsert
  <2>2. dropped' \in [Values -> Nat]
    BY <1>1, <1>3, <2>1, DropTypes, DroppingType DEF SetInsert, TypeOK
  <2> QED
    BY <1>3, <2>1, <2>2, EqFacts DEF SetInsert, TypeOK, Shape
<1>4. ASSUME NEW k \in Classes, MapInsert(k) PROVE TypeInv'
  <2>1. Fresh \in Values /\ Fresh + 1 \in Values
    BY <1>4, FreshFacts DEF MapInsert
  <2>2. eq' \in Seq(Classes) /\ Len(eq') % 2 = 0
    BY <1>4, EqFacts, FreshFacts, Parity DEF MapInsert, TypeOK, Shape
  <2>3. CASE Absent(k) /\ keys' = Push(keys, Fresh) /\ vals' = Push(vals, Fresh + 1) /\ UNCHANGED dropped
    <3>1. Push(keys, Fresh) \in Raws /\ Len(Push(keys, Fresh).elems) = Len(keys.elems) + 1
      BY <1>1, <2>1, PushFacts
    <3>2. Push(vals, Fresh + 1) \in Raws /\ Len(Push(vals, Fresh + 1).elems) = Len(vals.elems) + 1
      BY <1>1, <2>1, PushFacts
    <3> QED
      BY <1>4, <2>2, <2>3, <3>1, <3>2 DEF MapInsert, TypeOK, Shape
  <2>4. CASE MapUpdate(k)
    <3>1. PICK i \in 1..Len(keys.elems) :
            /\ vals' = Overwrite(vals, i, Fresh + 1)
            /\ Dropping(DropOne(glue.vals, vals.elems[i]), DropOne(glue.keys, Fresh))
      BY <2>4 DEF MapUpdate
    <3>2. i \in 1..Len(vals.elems) /\ vals.elems[i] \in Values
      BY <1>1, <1>4, <3>1 DEF Shape, MapInsert, Raws
    <3>3. vals' \in Raws /\ Len(vals'.elems) = Len(vals.elems)
      BY <1>1, <2>1, <3>1, <3>2, OverwriteFacts
    <3>4. dropped' \in [Values -> Nat]
      BY <1>1, <2>1, <3>1, <3>2, DropTypes, DroppingType DEF TypeOK
    <3> QED
      BY <1>4, <2>2, <2>4, <3>3, <3>4 DEF MapInsert, MapUpdate, TypeOK, Shape
  <2> QED
    BY <1>4, <2>3, <2>4 DEF MapInsert
<1>5. CASE Drop
  <2>1. dropped' \in [Values -> Nat]
    BY <1>1, <1>5, DropTypes, DroppingType DEF Drop, TypeOK
  <2> QED
    BY <1>0, <1>5, <2>1 DEF Drop, TypeOK, Shape
<1>6. CASE UNCHANGED vars
  BY <1>6 DEF vars, TypeOK, Shape
<1> QED
  BY <1>2, <1>3, <1>4, <1>5, <1>6 DEF Next

\* The collection is well formed in every reachable state.
THEOREM TypeCorrect == Spec => []TypeOK
<1>1. Spec => []TypeInv
  BY InitTypeInv, NextTypeInv, PTL DEF Spec
<1>2. TypeInv => TypeOK
  BY DEF TypeInv
<1> QED
  BY <1>1, <1>2, PTL
-----------------------------------------------------------------------------
(* Ownership. *)

\* A push of a value newer than every element makes no repetition.
LEMMA PushDistinct ==
  ASSUME NEW r \in Raws, NEW v \in Values, Distinct(r),
         \A i \in 1..Len(r.elems) : r.elems[i] < v
  PROVE  Distinct(Push(r, v))
<1>1. Len(r.elems) \in Nat /\ v \in Nat /\ \A i \in 1..Len(r.elems) : r.elems[i] \in Nat
  BY ElemsFacts, ValuesFacts
<1>2. \A i \in 1..Len(r.elems) : r.elems[i] # v
  BY <1>1
<1> DEFINE q == Push(r, v)
           n == Len(r.elems)
<1>3. /\ Len(q.elems) = n + 1 /\ q.elems[n + 1] = v
      /\ \A i \in 1..n : q.elems[i] = r.elems[i]
  BY PushFacts
<1>4. n \in Nat
  BY <1>1
<1>5. \A i, j \in 1..n : r.elems[i] = r.elems[j] => i = j
  BY DEF Distinct
<1>6. \A i \in 1..n : r.elems[i] # v
  BY <1>2
<1> HIDE DEF q, n
<1>7. \A i \in 1..(n + 1) : i \in 1..n \/ i = n + 1
  BY <1>4
<1>8. Distinct(q)
  BY <1>3, <1>5, <1>6, <1>7 DEF Distinct
<1> QED
  BY <1>8 DEF q

\* An overwritten slot gives up its old value and holds the new one.
LEMMA OverwriteOwns ==
  ASSUME NEW r \in Raws, NEW i \in 1..Len(r.elems), NEW v \in Values, Distinct(r),
         \A j \in 1..Len(r.elems) : r.elems[j] < v
  PROVE  /\ Distinct(Overwrite(r, i, v))
         /\ \A u : InRaw(Overwrite(r, i, v), u) <=> u = v \/ (InRaw(r, u) /\ u # r.elems[i])
<1>1. \A j \in 1..Len(r.elems) : r.elems[j] \in Values
  BY DEF Raws
<1>2. \A j \in 1..Len(r.elems) : r.elems[j] # v
  BY <1>1, ValuesFacts
<1> DEFINE q == Overwrite(r, i, v)
<1>3. /\ Len(q.elems) = Len(r.elems)
      /\ \A j \in 1..Len(r.elems) : q.elems[j] = IF j = i THEN v ELSE r.elems[j]
  BY OverwriteFacts
<1> HIDE DEF q
<1>4. Distinct(q)
  BY <1>2, <1>3 DEF Distinct
<1>5. ASSUME NEW u PROVE InRaw(q, u) <=> u = v \/ (InRaw(r, u) /\ u # r.elems[i])
  BY <1>2, <1>3 DEF Distinct, InRaw
<1> QED
  BY <1>4, <1>5 DEF q

\* Init: nothing was moved in and nothing was dropped.
LEMMA InitOwn == Init => OwnInv
<1> SUFFICES ASSUME Init PROVE OwnInv
  OBVIOUS
<1>1. keys.elems = <<>> /\ vals.elems = <<>> /\ Len(<<>>) = 0 /\ Len(eq) = 0
  BY DEF Init, EmptyRaw
<1>2. \A v \in Values : ~(v <= Len(eq))
  BY <1>1, ValuesFacts
<1> QED
  BY <1>1, <1>2 DEF Init, OwnInv, Distinct, Sides, Counts

\* Elements are older than the value the next call moves in.
LEMMA OlderFacts ==
  ASSUME TypeInv, OwnInv
  PROVE  /\ \A i \in 1..Len(keys.elems) : keys.elems[i] < Fresh /\ keys.elems[i] < Fresh + 1
         /\ \A i \in 1..Len(vals.elems) : vals.elems[i] < Fresh /\ vals.elems[i] < Fresh + 1
         /\ ~InRaw(keys, Fresh) /\ ~InRaw(vals, Fresh)
         /\ ~InRaw(keys, Fresh + 1) /\ ~InRaw(vals, Fresh + 1)
<1>1. keys \in Raws /\ vals \in Raws
  BY DEF TypeInv, TypeOK
<1>2. /\ \A i \in 1..Len(keys.elems) : keys.elems[i] \in Nat
      /\ \A i \in 1..Len(vals.elems) : vals.elems[i] \in Nat
  BY <1>1, ElemsFacts
<1>3. /\ \A i \in 1..Len(keys.elems) : keys.elems[i] <= Len(eq)
      /\ \A i \in 1..Len(vals.elems) : vals.elems[i] <= Len(eq)
  BY DEF OwnInv, Sides
<1>4. Fresh \in Nat /\ Fresh = Len(eq) + 1 /\ Len(eq) \in Nat
  BY FreshFacts
<1>5. /\ \A i \in 1..Len(keys.elems) : keys.elems[i] < Fresh /\ keys.elems[i] < Fresh + 1
      /\ \A i \in 1..Len(vals.elems) : vals.elems[i] < Fresh /\ vals.elems[i] < Fresh + 1
  BY <1>2, <1>3, <1>4
<1> QED
  BY <1>2, <1>4, <1>5 DEF InRaw

\* A List or a Set moves in one value: it is appended, or dropped at once.
LEMMA OneValueOwn ==
  ASSUME TypeInv, OwnInv, kind # "map", NEW k \in Classes, Len(eq) < MaxInserts,
         eq' = Append(eq, k), UNCHANGED <<kind, glue, vals>>,
         \/ keys' = Push(keys, Fresh) /\ UNCHANGED dropped
         \/ Dropping(DropOne(glue.keys, Fresh), NoDrops) /\ UNCHANGED keys
  PROVE  OwnInv'
<1>1. /\ keys \in Raws /\ Fresh \in Values /\ Len(eq) \in Nat /\ Fresh = Len(eq) + 1
      /\ eq \in Seq(Classes) /\ dropped \in [Values -> Nat]
      /\ vals.elems = <<>> /\ glue.keys \in BOOLEAN
  BY FreshFacts DEF TypeInv, TypeOK, Shape, EmptyRaw
<1>2. Len(eq') = Len(eq) + 1
  BY <1>1, EqFacts
<1>3. \A i \in 1..Len(keys.elems) : keys.elems[i] <= Len(eq) /\ keys.elems[i] \in Nat
  BY <1>1, ElemsFacts DEF OwnInv, Sides
<1>4. Distinct(keys)' /\ Distinct(vals)'
  <2>1. Distinct(keys) /\ Distinct(vals)
    BY DEF OwnInv
  <2>2. \A i \in 1..Len(keys.elems) : keys.elems[i] < Fresh
    BY OlderFacts
  <2>3. Distinct(Push(keys, Fresh))
    BY <1>1, <2>1, <2>2, PushDistinct
  <2>4. keys' = Push(keys, Fresh) \/ keys' = keys
    OBVIOUS
  <2> QED
    BY <2>1, <2>3, <2>4 DEF Distinct
<1>5. Sides'
  <2>1. ASSUME NEW i \in 1..Len(keys'.elems) PROVE keys'.elems[i] <= Len(eq')
    <3>1. CASE keys' = Push(keys, Fresh)
      <4>1. Len(keys'.elems) = Len(keys.elems) + 1 /\ keys'.elems[Len(keys.elems) + 1] = Fresh
        BY <1>1, <3>1, PushFacts
      <4>2. \A j \in 1..Len(keys.elems) : keys'.elems[j] = keys.elems[j]
        BY <1>1, <3>1, PushFacts
      <4>3. i \in 1..Len(keys.elems) \/ i = Len(keys.elems) + 1
        BY <1>1, <2>1, <4>1, ElemsFacts
      <4>4. CASE i \in 1..Len(keys.elems)
        <5>1. keys'.elems[i] <= Len(eq) /\ keys'.elems[i] \in Nat
          BY <1>3, <4>2, <4>4
        <5> QED
          BY <1>1, <1>2, <5>1
      <4>5. CASE i = Len(keys.elems) + 1
        BY <1>1, <1>2, <4>1, <4>5
      <4> QED
        BY <4>3, <4>4, <4>5
    <3>2. CASE keys' = keys
      BY <1>1, <1>2, <1>3, <3>2
    <3> QED
      BY <3>1, <3>2
  <2> QED
    BY <1>1, <2>1 DEF Sides
<1>6. Counts'
  <2> SUFFICES ASSUME NEW v \in Values
               PROVE  dropped'[v] = IF v <= Len(eq') /\ HasGlue(v) /\ ~InRaw(keys', v)
                                    THEN 1 ELSE 0
    BY <1>1 DEF Counts, HasGlue, InRaw
  <2>1. dropped[v] = IF v <= Len(eq) /\ HasGlue(v) /\ ~InRaw(keys, v) THEN 1 ELSE 0
    BY <1>1 DEF OwnInv, Counts, InRaw
  <2>2. v \in Nat /\ (v <= Len(eq') <=> v <= Len(eq) \/ v = Fresh) /\ ~(Fresh <= Len(eq))
    BY <1>1, <1>2, ValuesFacts
  <2>3. HasGlue(v) <=> glue.keys
    BY DEF HasGlue
  <2>4. CASE keys' = Push(keys, Fresh) /\ UNCHANGED dropped
    <3>1. InRaw(keys', v) <=> InRaw(keys, v) \/ v = Fresh
      BY <1>1, <2>4, PushFacts
    <3> QED
      BY <2>1, <2>2, <2>4, <3>1
  <2>5. CASE Dropping(DropOne(glue.keys, Fresh), NoDrops) /\ UNCHANGED keys
    <3>1. dropped'[v] = dropped[v] + (IF glue.keys /\ v = Fresh THEN 1 ELSE 0) + 0
      BY <1>1, <2>5 DEF Dropping, DropOne, NoDrops
    <3>2. ~InRaw(keys, Fresh)
      BY OlderFacts
    <3> QED
      BY <2>1, <2>2, <2>3, <2>5, <3>1, <3>2
  <2> QED
    BY <2>4, <2>5
<1> QED
  BY <1>4, <1>5, <1>6 DEF OwnInv

\* What holds of the two values a Map moves in, whatever it does with them.
LEMMA PairFacts ==
  ASSUME TypeInv, OwnInv, kind = "map", NEW k \in Classes, Len(eq) < 2 * MaxInserts,
         eq' = eq \o <<k, k>>, UNCHANGED <<kind, glue>>
  PROVE  /\ keys \in Raws /\ vals \in Raws /\ Fresh \in Values /\ Fresh + 1 \in Values
         /\ Len(eq) \in Nat /\ Fresh = Len(eq) + 1 /\ Len(eq') = Len(eq) + 2
         /\ Fresh % 2 = 1 /\ (Fresh + 1) % 2 = 0 /\ Len(eq') % 2 = 0
         /\ HasGlue(Fresh) = glue.keys /\ HasGlue(Fresh + 1) = glue.vals
         /\ \A v \in Values :
              /\ HasGlue(v)' = HasGlue(v)
              /\ v <= Len(eq') <=> v <= Len(eq) \/ v = Fresh \/ v = Fresh + 1
              /\ v <= Len(eq) => v # Fresh /\ v # Fresh + 1
<1>1. /\ keys \in Raws /\ vals \in Raws /\ Fresh \in Values /\ Fresh + 1 \in Values
      /\ Len(eq) \in Nat /\ Fresh = Len(eq) + 1 /\ eq \in Seq(Classes) /\ Len(eq) % 2 = 0
  BY FreshFacts DEF TypeInv, TypeOK, Shape
<1>2. Len(eq') = Len(eq) + 2
  BY <1>1, EqFacts
<1>3. Fresh % 2 = 1 /\ (Fresh + 1) % 2 = 0 /\ Len(eq') % 2 = 0
  BY <1>1, <1>2, Parity
<1>4. HasGlue(Fresh) = glue.keys /\ HasGlue(Fresh + 1) = glue.vals
  BY <1>3 DEF HasGlue
<1>5. \A v \in Values :
        /\ v <= Len(eq') <=> v <= Len(eq) \/ v = Fresh \/ v = Fresh + 1
        /\ v <= Len(eq) => v # Fresh /\ v # Fresh + 1
  BY <1>1, <1>2, ValuesFacts
<1> QED
  BY <1>1, <1>2, <1>3, <1>4, <1>5 DEF HasGlue

\* A Map appends a new pair.
LEMMA MapNewOwn ==
  ASSUME TypeInv, OwnInv, kind = "map", NEW k \in Classes, Len(eq) < 2 * MaxInserts,
         eq' = eq \o <<k, k>>, UNCHANGED <<kind, glue, dropped>>,
         keys' = Push(keys, Fresh), vals' = Push(vals, Fresh + 1)
  PROVE  OwnInv'
<1>1. /\ keys \in Raws /\ vals \in Raws /\ Fresh \in Values /\ Fresh + 1 \in Values
      /\ Len(eq) \in Nat /\ Fresh = Len(eq) + 1 /\ Len(eq') = Len(eq) + 2
      /\ Fresh % 2 = 1 /\ (Fresh + 1) % 2 = 0 /\ Len(eq') % 2 = 0
  BY PairFacts
<1>2. Distinct(keys)' /\ Distinct(vals)'
  <2> DEFINE w == Fresh + 1
  <2>1. Distinct(keys) /\ Distinct(vals) /\ w \in Values
    BY <1>1 DEF OwnInv
  <2>2. keys' = Push(keys, Fresh) /\ vals' = Push(vals, w)
    OBVIOUS
  <2>3. /\ \A i \in 1..Len(keys.elems) : keys.elems[i] < Fresh
        /\ \A i \in 1..Len(vals.elems) : vals.elems[i] < w
    BY OlderFacts
  <2> HIDE DEF w
  <2>4. Distinct(Push(keys, Fresh))
    BY <1>1, <2>1, <2>3, PushDistinct
  <2>5. Distinct(Push(vals, w))
    BY <1>1, <2>1, <2>3, PushDistinct
  <2> QED
    BY <2>2, <2>4, <2>5 DEF Distinct
<1>3. Sides'
  <2>1. ASSUME NEW i \in 1..Len(keys'.elems)
        PROVE  keys'.elems[i] <= Len(eq') /\ keys'.elems[i] % 2 = 1
    <3>1. Len(keys'.elems) = Len(keys.elems) + 1 /\ keys'.elems[Len(keys.elems) + 1] = Fresh
      BY <1>1, PushFacts
    <3>2. \A j \in 1..Len(keys.elems) : keys'.elems[j] = keys.elems[j]
      BY <1>1, PushFacts
    <3>3. i \in 1..Len(keys.elems) \/ i = Len(keys.elems) + 1
      BY <1>1, <2>1, <3>1, ElemsFacts
    <3>4. CASE i \in 1..Len(keys.elems)
      <4>1. keys'.elems[i] <= Len(eq) /\ keys'.elems[i] \in Nat /\ keys'.elems[i] % 2 = 1
        BY <1>1, <3>2, <3>4, ElemsFacts DEF OwnInv, Sides
      <4> QED
        BY <1>1, <4>1
    <3>5. CASE i = Len(keys.elems) + 1
      BY <1>1, <3>1, <3>5
    <3> QED
      BY <3>3, <3>4, <3>5
  <2>2. ASSUME NEW i \in 1..Len(vals'.elems)
        PROVE  vals'.elems[i] <= Len(eq') /\ vals'.elems[i] % 2 = 0
    <3>1. Len(vals'.elems) = Len(vals.elems) + 1 /\ vals'.elems[Len(vals.elems) + 1] = Fresh + 1
      BY <1>1, PushFacts
    <3>2. \A j \in 1..Len(vals.elems) : vals'.elems[j] = vals.elems[j]
      BY <1>1, PushFacts
    <3>3. i \in 1..Len(vals.elems) \/ i = Len(vals.elems) + 1
      BY <1>1, <2>2, <3>1, ElemsFacts
    <3>4. CASE i \in 1..Len(vals.elems)
      <4>1. vals'.elems[i] <= Len(eq) /\ vals'.elems[i] \in Nat /\ vals'.elems[i] % 2 = 0
        BY <1>1, <3>2, <3>4, ElemsFacts DEF OwnInv, Sides
      <4> QED
        BY <1>1, <4>1
    <3>5. CASE i = Len(vals.elems) + 1
      BY <1>1, <3>1, <3>5
    <3> QED
      BY <3>3, <3>4, <3>5
  <2> QED
    BY <1>1, <2>1, <2>2 DEF Sides
<1>4. Counts'
  <2> SUFFICES ASSUME NEW v \in Values
               PROVE  dropped'[v] = IF v <= Len(eq') /\ HasGlue(v)' /\ ~InRaw(keys', v) /\ ~InRaw(vals', v)
                                    THEN 1 ELSE 0
    BY DEF Counts, InRaw
  <2>1. dropped'[v] = IF v <= Len(eq) /\ HasGlue(v) /\ ~InRaw(keys, v) /\ ~InRaw(vals, v) THEN 1 ELSE 0
    BY DEF OwnInv, Counts
  <2>2. /\ HasGlue(v)' = HasGlue(v)
        /\ v <= Len(eq') <=> v <= Len(eq) \/ v = Fresh \/ v = Fresh + 1
        /\ v <= Len(eq) => v # Fresh /\ v # Fresh + 1
    BY PairFacts
  <2>3. /\ InRaw(keys', v) <=> InRaw(keys, v) \/ v = Fresh
        /\ InRaw(vals', v) <=> InRaw(vals, v) \/ v = Fresh + 1
    BY <1>1, PushFacts
  <2> QED
    BY <2>1, <2>2, <2>3
<1> QED
  BY <1>2, <1>3, <1>4 DEF OwnInv

\* A Map replaces the value in slot i and gives up the incoming key.
LEMMA MapUpdateOwn ==
  ASSUME TypeInv, OwnInv, kind = "map", NEW k \in Classes, Len(eq) < 2 * MaxInserts,
         eq' = eq \o <<k, k>>, UNCHANGED <<kind, glue, keys>>,
         NEW i \in 1..Len(keys.elems), vals' = Overwrite(vals, i, Fresh + 1),
         Dropping(DropOne(glue.vals, vals.elems[i]), DropOne(glue.keys, Fresh))
  PROVE  OwnInv'
<1>1. /\ keys \in Raws /\ vals \in Raws /\ Fresh \in Values /\ Fresh + 1 \in Values
      /\ Len(eq) \in Nat /\ Fresh = Len(eq) + 1 /\ Len(eq') = Len(eq) + 2
      /\ Fresh % 2 = 1 /\ (Fresh + 1) % 2 = 0 /\ Len(eq') % 2 = 0
  BY PairFacts
<1>2. i \in 1..Len(vals.elems)
  BY DEF TypeInv, Shape
<1> DEFINE old == vals.elems[i]
<1>3. old \in Values /\ old <= Len(eq) /\ old % 2 = 0 /\ InRaw(vals, old)
  BY <1>1, <1>2, ElemsFacts DEF OwnInv, Sides, InRaw
<1>4. ~InRaw(keys, old) /\ HasGlue(old) = glue.vals
  <2>1. \A j \in 1..Len(keys.elems) : keys.elems[j] % 2 = 1
    BY DEF OwnInv, Sides
  <2>2. \A j \in 1..Len(keys.elems) : keys.elems[j] # old
    <3> SUFFICES ASSUME NEW j \in 1..Len(keys.elems), keys.elems[j] = old PROVE FALSE
      OBVIOUS
    <3>1. keys.elems[j] % 2 = 1
      BY <2>1
    <3> QED
      BY <1>3, <3>1
  <2>3. HasGlue(old) = glue.vals
    BY <1>3 DEF HasGlue
  <2> QED
    BY <2>2, <2>3 DEF InRaw
<1>5. /\ Distinct(vals')
      /\ \A u : InRaw(vals', u) <=> u = Fresh + 1 \/ (InRaw(vals, u) /\ u # old)
  BY <1>1, <1>2, OlderFacts, OverwriteOwns DEF OwnInv
<1>6. Sides'
  <2>1. ASSUME NEW j \in 1..Len(keys.elems)
        PROVE  keys.elems[j] <= Len(eq') /\ keys.elems[j] % 2 = 1
    <3>1. keys.elems[j] <= Len(eq) /\ keys.elems[j] \in Nat /\ keys.elems[j] % 2 = 1
      BY <1>1, ElemsFacts DEF OwnInv, Sides
    <3> QED
      BY <1>1, <3>1
  <2>2. ASSUME NEW j \in 1..Len(vals'.elems)
        PROVE  vals'.elems[j] <= Len(eq') /\ vals'.elems[j] % 2 = 0
    <3>1. j \in 1..Len(vals.elems) /\ vals'.elems[j] = IF j = i THEN Fresh + 1 ELSE vals.elems[j]
      BY <1>1, <1>2, <2>2, OverwriteFacts
    <3>2. vals.elems[j] <= Len(eq) /\ vals.elems[j] \in Nat /\ vals.elems[j] % 2 = 0
      BY <1>1, <3>1, ElemsFacts DEF OwnInv, Sides
    <3> QED
      BY <1>1, <3>1, <3>2
  <2> QED
    BY <1>1, <2>1, <2>2 DEF Sides
<1>7. Counts'
  <2> SUFFICES ASSUME NEW v \in Values
               PROVE  dropped'[v] = IF v <= Len(eq') /\ HasGlue(v)' /\ ~InRaw(keys, v) /\ ~InRaw(vals', v)
                                    THEN 1 ELSE 0
    BY DEF Counts, InRaw
  <2>1. dropped[v] = IF v <= Len(eq) /\ HasGlue(v) /\ ~InRaw(keys, v) /\ ~InRaw(vals, v) THEN 1 ELSE 0
    BY DEF OwnInv, Counts
  <2>2. /\ HasGlue(v)' = HasGlue(v) /\ HasGlue(Fresh) = glue.keys /\ HasGlue(Fresh + 1) = glue.vals
        /\ v <= Len(eq') <=> v <= Len(eq) \/ v = Fresh \/ v = Fresh + 1
        /\ v <= Len(eq) => v # Fresh /\ v # Fresh + 1
    BY PairFacts
  <2>3. dropped'[v] = dropped[v] + (IF glue.vals /\ v = old THEN 1 ELSE 0)
                                 + (IF glue.keys /\ v = Fresh THEN 1 ELSE 0)
    BY DEF Dropping, DropOne
  <2>4. InRaw(vals', v) <=> v = Fresh + 1 \/ (InRaw(vals, v) /\ v # old)
    BY <1>5
  <2>5. Fresh # Fresh + 1 /\ old # Fresh /\ old # Fresh + 1
    BY <1>1, <1>3, ValuesFacts
  <2>6. ~InRaw(keys, Fresh) /\ ~InRaw(vals, Fresh)
    BY OlderFacts
  <2>7. CASE v = old
    BY <1>3, <1>4, <2>1, <2>2, <2>3, <2>4, <2>5, <2>7
  <2>8. CASE v = Fresh
    BY <2>1, <2>2, <2>3, <2>4, <2>5, <2>6, <2>8
  <2>9. CASE v # old /\ v # Fresh
    BY <2>1, <2>2, <2>3, <2>4, <2>9
  <2> QED
    BY <2>7, <2>8, <2>9
<1> QED
  BY <1>5, <1>6, <1>7 DEF OwnInv, Distinct

\* The drop of a whole collection runs the glue once on each of its elements.
LEMMA DropOwn == TypeInv /\ OwnInv /\ Drop => OwnInv'
<1> SUFFICES ASSUME TypeInv, OwnInv, Drop PROVE OwnInv'
  OBVIOUS
<1>1. /\ keys \in Raws /\ vals \in Raws /\ glue.keys \in BOOLEAN /\ glue.vals \in BOOLEAN
      /\ dropped \in [Values -> Nat]
  BY DEF TypeInv, TypeOK
<1>2. keys'.elems = <<>> /\ vals'.elems = <<>> /\ Len(<<>>) = 0 /\ eq' = eq /\ kind' = kind /\ glue' = glue
  BY DEF Drop, EmptyRaw
<1>3. Distinct(keys)' /\ Distinct(vals)' /\ Sides'
  BY <1>2 DEF OwnInv, Distinct, Sides
<1>4. ASSUME NEW v \in Values
      PROVE  dropped'[v] = IF v <= Len(eq) /\ HasGlue(v) THEN 1 ELSE 0
  <2>1. dropped[v] = IF v <= Len(eq) /\ HasGlue(v) /\ ~InRaw(keys, v) /\ ~InRaw(vals, v) THEN 1 ELSE 0
    BY DEF OwnInv, Counts
  <2>2. dropped'[v] = dropped[v] + DropElems(glue.keys, keys)[v] + DropElems(glue.vals, vals)[v]
    BY DEF Drop, Dropping
  <2>3. /\ DropElems(glue.keys, keys)[v] = IF glue.keys /\ InRaw(keys, v) THEN 1 ELSE 0
        /\ DropElems(glue.vals, vals)[v] = IF glue.vals /\ InRaw(vals, v) THEN 1 ELSE 0
    BY <1>1, DropElemsFacts DEF OwnInv
  <2>4. InRaw(keys, v) => v <= Len(eq) /\ ~InRaw(vals, v) /\ HasGlue(v) = glue.keys
    BY DEF OwnInv, Sides, InRaw, HasGlue
  <2>5. InRaw(vals, v) => v <= Len(eq) /\ ~InRaw(keys, v) /\ HasGlue(v) = glue.vals
    BY DEF OwnInv, Sides, InRaw, HasGlue
  <2> QED
    BY <1>1, <2>1, <2>2, <2>3, <2>4, <2>5
<1>5. Counts'
  BY <1>2, <1>4 DEF Counts, InRaw, HasGlue
<1> QED
  BY <1>3, <1>5 DEF OwnInv

\* Every step keeps the account of who owns what.
LEMMA NextOwn == TypeInv /\ OwnInv /\ [Next]_vars => OwnInv'
<1> SUFFICES ASSUME TypeInv, OwnInv, [Next]_vars PROVE OwnInv'
  OBVIOUS
<1>1. ASSUME NEW k \in Classes, ListPush(k) PROVE OwnInv'
  BY <1>1, OneValueOwn DEF ListPush
<1>2. ASSUME NEW k \in Classes, SetInsert(k) PROVE OwnInv'
  BY <1>2, OneValueOwn DEF SetInsert
<1>3. ASSUME NEW k \in Classes, MapInsert(k) PROVE OwnInv'
  <2>1. CASE keys' = Push(keys, Fresh) /\ vals' = Push(vals, Fresh + 1) /\ UNCHANGED dropped
    BY <1>3, <2>1, MapNewOwn DEF MapInsert
  <2>2. CASE MapUpdate(k)
    <3>1. PICK i \in 1..Len(keys.elems) :
            /\ vals' = Overwrite(vals, i, Fresh + 1)
            /\ Dropping(DropOne(glue.vals, vals.elems[i]), DropOne(glue.keys, Fresh))
            /\ UNCHANGED keys
      BY <2>2 DEF MapUpdate
    <3> QED
      BY <1>3, <3>1, MapUpdateOwn DEF MapInsert
  <2> QED
    BY <1>3, <2>1, <2>2 DEF MapInsert
<1>4. CASE Drop
  BY <1>4, DropOwn
<1>5. CASE UNCHANGED vars
  BY <1>5 DEF vars, OwnInv, Distinct, Sides, Counts, InRaw, HasGlue
<1> QED
  BY <1>1, <1>2, <1>3, <1>4, <1>5 DEF Next

\* A value in a slot of a buffer without repetitions is in exactly one.
LEMMA OneSlot ==
  ASSUME NEW r, Distinct(r), NEW v
  PROVE  LET S == {i \in 1..Len(r.elems) : r.elems[i] = v}
         IN  /\ InRaw(r, v) => Cardinality(S) = 1
             /\ ~InRaw(r, v) => S = {} /\ Cardinality(S) = 0
<1> DEFINE S == {i \in 1..Len(r.elems) : r.elems[i] = v}
<1>1. ASSUME InRaw(r, v) PROVE Cardinality(S) = 1
  <2>1. PICK i \in 1..Len(r.elems) : r.elems[i] = v
    BY <1>1 DEF InRaw
  <2>2. S = {i}
    BY <2>1 DEF Distinct
  <2> QED
    BY <2>2, FS_Singleton
<1>2. ASSUME ~InRaw(r, v) PROVE S = {} /\ Cardinality(S) = 0
  <2>1. S = {}
    BY <1>2 DEF InRaw
  <2> QED
    BY <2>1, FS_EmptySet
<1> QED
  BY <1>1, <1>2

\* Every value handed to a List, Set or Map is alive in exactly one slot or was
\* dropped exactly once: no leak, no double drop, whatever the order of pushes,
\* insertions of equal keys, and drops.
THEOREM OwnershipKept == Spec => []OwnedOnce
<1>1. ASSUME TypeInv, OwnInv PROVE OwnedOnce
  <2> SUFFICES ASSUME NEW v \in Values
               PROVE  \/ /\ Cardinality(InKeys(v)) + Cardinality(InVals(v)) = 1
                         /\ v <= Len(eq) /\ dropped[v] = 0
                      \/ /\ InKeys(v) = {} /\ InVals(v) = {}
                         /\ dropped[v] = IF v <= Len(eq) /\ HasGlue(v) THEN 1 ELSE 0
    BY DEF OwnedOnce
  <2>1. dropped[v] = IF v <= Len(eq) /\ HasGlue(v) /\ ~InRaw(keys, v) /\ ~InRaw(vals, v) THEN 1 ELSE 0
    BY <1>1 DEF OwnInv, Counts
  <2>2. ~(InRaw(keys, v) /\ InRaw(vals, v))
    BY <1>1 DEF OwnInv, Sides, InRaw
  <2>3. /\ InRaw(keys, v) => v <= Len(eq) /\ Cardinality(InKeys(v)) = 1
        /\ ~InRaw(keys, v) => InKeys(v) = {} /\ Cardinality(InKeys(v)) = 0
    <3>1. InRaw(keys, v) => v <= Len(eq)
      BY <1>1 DEF OwnInv, Sides, InRaw
    <3>2. Distinct(keys)
      BY <1>1 DEF OwnInv
    <3>3. /\ InRaw(keys, v) => Cardinality(InKeys(v)) = 1
          /\ ~InRaw(keys, v) => InKeys(v) = {} /\ Cardinality(InKeys(v)) = 0
      BY <3>2, OneSlot DEF InKeys
    <3> QED
      BY <3>1, <3>3
  <2>4. /\ InRaw(vals, v) => v <= Len(eq) /\ Cardinality(InVals(v)) = 1
        /\ ~InRaw(vals, v) => InVals(v) = {} /\ Cardinality(InVals(v)) = 0
    <3>1. InRaw(vals, v) => v <= Len(eq)
      BY <1>1 DEF OwnInv, Sides, InRaw
    <3>2. Distinct(vals)
      BY <1>1 DEF OwnInv
    <3>3. /\ InRaw(vals, v) => Cardinality(InVals(v)) = 1
          /\ ~InRaw(vals, v) => InVals(v) = {} /\ Cardinality(InVals(v)) = 0
      BY <3>2, OneSlot DEF InVals
    <3> QED
      BY <3>1, <3>3
  <2> QED
    BY <2>1, <2>2, <2>3, <2>4
<1>2. Init => TypeInv /\ OwnInv
  BY InitTypeInv, InitOwn
<1>3. TypeInv /\ OwnInv /\ [Next]_vars => (TypeInv /\ OwnInv)'
  BY NextTypeInv, NextOwn
<1> QED
  BY <1>1, <1>2, <1>3, PTL DEF Spec
-----------------------------------------------------------------------------
(* Contents and allocations. *)

Contents == KeysUnique /\ PairsMatch /\ WithinAllocation

\* The doubling of reserve_one makes room, and never too much.
LEMMA PushFits ==
  ASSUME NEW r \in Raws, NEW v \in Values, Fits(r)
  PROVE  Fits(Push(r, v))
<1> DEFINE n == Len(r.elems)
<1>1. n \in Nat /\ r.cap \in Nat
  BY ElemsFacts DEF Raws
<1>2. Len(Push(r, v).elems) = n + 1 /\ Push(r, v).cap = ReserveOne(r)
  BY PushFacts DEF Push
<1>3. ReserveOne(r) = IF n < r.cap THEN r.cap ELSE IF r.cap = 0 THEN 4 ELSE 2 * r.cap
  BY DEF ReserveOne
<1>4. /\ n <= r.cap /\ (r.cap = 0 \/ r.cap = 4 \/ r.cap <= 2 * (n - 1))
  BY DEF Fits
<1>5. Push(r, v).elems # <<>>
  BY <1>1, <1>2
<1> HIDE DEF n
<1>6. /\ n + 1 <= ReserveOne(r)
      /\ ReserveOne(r) = 0 \/ ReserveOne(r) = 4 \/ ReserveOne(r) <= 2 * ((n + 1) - 1)
  BY <1>1, <1>3, <1>4
<1> QED
  BY <1>2, <1>5, <1>6 DEF Fits

\* Appending an element of a class that is not there keeps the classes apart.
LEMMA PushUnique ==
  ASSUME NEW r \in Raws, NEW v \in Values, NEW f, NEW g,
         \A i, j \in 1..Len(r.elems) : f[r.elems[i]] = f[r.elems[j]] => i = j,
         \A i \in 1..Len(r.elems) : g[r.elems[i]] = f[r.elems[i]] /\ f[r.elems[i]] # g[v]
  PROVE  \A i, j \in 1..Len(Push(r, v).elems) :
           g[Push(r, v).elems[i]] = g[Push(r, v).elems[j]] => i = j
<1> DEFINE q == Push(r, v)
           n == Len(r.elems)
<1>1. /\ Len(q.elems) = n + 1 /\ q.elems[n + 1] = v
      /\ \A i \in 1..n : q.elems[i] = r.elems[i]
  BY PushFacts
<1>2. n \in Nat
  BY ElemsFacts
<1>3. /\ \A i, j \in 1..n : f[r.elems[i]] = f[r.elems[j]] => i = j
      /\ \A i \in 1..n : g[r.elems[i]] = f[r.elems[i]] /\ f[r.elems[i]] # g[v]
  OBVIOUS
<1> HIDE DEF q, n
<1>4. \A i \in 1..(n + 1) : i \in 1..n \/ i = n + 1
  BY <1>2
<1>5. \A i, j \in 1..Len(q.elems) : g[q.elems[i]] = g[q.elems[j]] => i = j
  BY <1>1, <1>3, <1>4
<1> QED
  BY <1>5 DEF q

\* Stored values keep their class, and new ones get theirs.
LEMMA ClassFacts ==
  ASSUME TypeInv, OwnInv, NEW k \in Classes,
         eq' = Append(eq, k) \/ eq' = eq \o <<k, k>>
  PROVE  /\ \A i \in 1..Len(keys.elems) : eq'[keys.elems[i]] = eq[keys.elems[i]]
         /\ \A i \in 1..Len(vals.elems) : eq'[vals.elems[i]] = eq[vals.elems[i]]
         /\ eq'[Fresh] = k
         /\ eq' = eq \o <<k, k>> => eq'[Fresh + 1] = k
<1>1. /\ eq \in Seq(Classes) /\ keys \in Raws /\ vals \in Raws
      /\ Fresh = Len(eq) + 1 /\ Fresh + 1 = Len(eq) + 2
  BY FreshFacts DEF TypeInv, TypeOK
<1>2. \A v \in 1..Len(eq) : Append(eq, k)[v] = eq[v] /\ (eq \o <<k, k>>)[v] = eq[v]
  BY <1>1, EqFacts
<1>3. /\ \A i \in 1..Len(keys.elems) : keys.elems[i] \in Values
      /\ \A i \in 1..Len(vals.elems) : vals.elems[i] \in Values
  BY <1>1, ElemsFacts
<1>4. /\ \A i \in 1..Len(keys.elems) : keys.elems[i] <= Len(eq)
      /\ \A i \in 1..Len(vals.elems) : vals.elems[i] <= Len(eq)
  BY DEF OwnInv, Sides
<1>5. \A v \in Values : v <= Len(eq) => v \in 1..Len(eq)
  BY <1>1, ValuesFacts
<1>6. /\ \A i \in 1..Len(keys.elems) : eq'[keys.elems[i]] = eq[keys.elems[i]]
      /\ \A i \in 1..Len(vals.elems) : eq'[vals.elems[i]] = eq[vals.elems[i]]
  BY <1>2, <1>3, <1>4, <1>5
<1>7. /\ Append(eq, k)[Len(eq) + 1] = k
      /\ (eq \o <<k, k>>)[Len(eq) + 1] = k /\ (eq \o <<k, k>>)[Len(eq) + 2] = k
  BY <1>1, EqFacts
<1> QED
  BY <1>1, <1>6, <1>7

\* Init: the buffers are empty.
LEMMA InitContents == Init => Contents
<1> SUFFICES ASSUME Init PROVE Contents
  OBVIOUS
<1>1. /\ keys.elems = <<>> /\ vals.elems = <<>> /\ keys.cap = 0 /\ vals.cap = 0
      /\ Len(<<>>) = 0
  BY DEF Init, EmptyRaw
<1> QED
  BY <1>1 DEF Contents, KeysUnique, PairsMatch, WithinAllocation, Fits

\* Every step keeps keys apart, pairs together and elements inside their
\* allocations.
LEMMA NextContents == TypeInv /\ OwnInv /\ Contents /\ [Next]_vars => Contents'
<1> SUFFICES ASSUME TypeInv, OwnInv, Contents, [Next]_vars PROVE Contents'
  OBVIOUS
<1>1. keys \in Raws /\ vals \in Raws
  BY DEF TypeInv, TypeOK
<1>2. ASSUME NEW k \in Classes, ListPush(k) PROVE Contents'
  <2>1. Fresh \in Values /\ Fits(Push(keys, Fresh))
    BY <1>1, <1>2, FreshFacts, PushFits DEF ListPush, Contents, WithinAllocation
  <2> QED
    BY <1>2, <2>1 DEF ListPush, Contents, KeysUnique, PairsMatch, WithinAllocation, Fits
<1>3. ASSUME NEW k \in Classes, SetInsert(k) PROVE Contents'
  <2>1. Fresh \in Values /\ Fits(Push(keys, Fresh))
    BY <1>1, <1>3, FreshFacts, PushFits DEF SetInsert, Contents, WithinAllocation
  <2>2. /\ \A i \in 1..Len(keys.elems) : eq'[keys.elems[i]] = eq[keys.elems[i]]
        /\ eq'[Fresh] = k
    BY <1>3, ClassFacts DEF SetInsert
  <2>3. \A i, j \in 1..Len(keys.elems) : eq[keys.elems[i]] = eq[keys.elems[j]] => i = j
    BY <1>3 DEF Contents, KeysUnique, SetInsert
  <2>4. KeysUnique'
    <3>1. CASE Absent(k) /\ keys' = Push(keys, Fresh)
      <4>1. \A i \in 1..Len(keys.elems) :
              eq'[keys.elems[i]] = eq[keys.elems[i]] /\ eq[keys.elems[i]] # eq'[Fresh]
        BY <2>2, <3>1 DEF Absent
      <4>2. \A i, j \in 1..Len(Push(keys, Fresh).elems) :
              eq'[Push(keys, Fresh).elems[i]] = eq'[Push(keys, Fresh).elems[j]] => i = j
        BY <1>1, <2>1, <2>3, <4>1, PushUnique
      <4> QED
        BY <3>1, <4>2 DEF KeysUnique
    <3>2. CASE UNCHANGED keys
      BY <2>2, <2>3, <3>2 DEF KeysUnique
    <3> QED
      BY <1>3, <3>1, <3>2 DEF SetInsert
  <2>5. PairsMatch'
    BY <1>3 DEF SetInsert, PairsMatch
  <2>6. Fits(keys)' /\ Fits(vals)'
    BY <1>3, <2>1 DEF SetInsert, Contents, WithinAllocation, Fits
  <2> QED
    BY <2>4, <2>5, <2>6 DEF Contents, WithinAllocation
<1>4. ASSUME NEW k \in Classes, MapInsert(k) PROVE Contents'
  <2>1. /\ Fresh \in Values /\ Fresh + 1 \in Values
        /\ kind = "map" /\ kind' = "map" /\ Len(keys.elems) = Len(vals.elems)
    BY <1>4, FreshFacts DEF MapInsert, TypeInv, Shape
  <2>2. /\ \A i \in 1..Len(keys.elems) : eq'[keys.elems[i]] = eq[keys.elems[i]]
        /\ \A i \in 1..Len(vals.elems) : eq'[vals.elems[i]] = eq[vals.elems[i]]
        /\ eq'[Fresh] = k /\ eq'[Fresh + 1] = k
    BY <1>4, ClassFacts DEF MapInsert
  <2>3. /\ \A i, j \in 1..Len(keys.elems) : eq[keys.elems[i]] = eq[keys.elems[j]] => i = j
        /\ \A i \in 1..Len(keys.elems) : eq[keys.elems[i]] = eq[vals.elems[i]]
        /\ Fits(keys) /\ Fits(vals)
    BY <2>1 DEF Contents, KeysUnique, PairsMatch, WithinAllocation
  <2>4. CASE Absent(k) /\ keys' = Push(keys, Fresh) /\ vals' = Push(vals, Fresh + 1)
    <3>1. KeysUnique'
      <4>1. \A i \in 1..Len(keys.elems) :
              eq'[keys.elems[i]] = eq[keys.elems[i]] /\ eq[keys.elems[i]] # eq'[Fresh]
        BY <2>2, <2>4 DEF Absent
      <4>2. \A i, j \in 1..Len(keys.elems) : eq[keys.elems[i]] = eq[keys.elems[j]] => i = j
        BY <2>3
      <4>3. Fresh \in Values
        BY <2>1
      <4>4. \A i, j \in 1..Len(Push(keys, Fresh).elems) :
              eq'[Push(keys, Fresh).elems[i]] = eq'[Push(keys, Fresh).elems[j]] => i = j
        BY <1>1, <4>1, <4>2, <4>3, PushUnique
      <4> QED
        BY <2>4, <4>4 DEF KeysUnique
    <3>2. Fits(keys') /\ Fits(vals')
      BY <1>1, <2>1, <2>3, <2>4, PushFits
    <3>3. /\ Len(keys'.elems) = Len(keys.elems) + 1 /\ keys'.elems[Len(keys.elems) + 1] = Fresh
          /\ \A i \in 1..Len(keys.elems) : keys'.elems[i] = keys.elems[i]
      BY <1>1, <2>1, <2>4, PushFacts
    <3>4. /\ Len(vals'.elems) = Len(keys.elems) + 1 /\ vals'.elems[Len(keys.elems) + 1] = Fresh + 1
          /\ \A i \in 1..Len(keys.elems) : vals'.elems[i] = vals.elems[i]
      BY <1>1, <2>1, <2>4, PushFacts
    <3>5. ASSUME NEW i \in 1..Len(keys'.elems) PROVE eq'[keys'.elems[i]] = eq'[vals'.elems[i]]
      <4>1. i \in 1..Len(keys.elems) \/ i = Len(keys.elems) + 1
        BY <1>1, <3>3, <3>5, ElemsFacts
      <4>2. CASE i \in 1..Len(keys.elems)
        <5>1. keys'.elems[i] = keys.elems[i] /\ vals'.elems[i] = vals.elems[i]
          BY <3>3, <3>4, <4>2
        <5> QED
          BY <2>1, <2>2, <2>3, <4>2, <5>1
      <4>3. CASE i = Len(keys.elems) + 1
        BY <2>2, <3>3, <3>4, <4>3
      <4> QED
        BY <4>1, <4>2, <4>3
    <3>6. PairsMatch'
      BY <3>3, <3>4, <3>5 DEF PairsMatch
    <3>7. WithinAllocation'
      BY <3>2 DEF WithinAllocation, Fits
    <3> QED
      BY <3>1, <3>6, <3>7 DEF Contents
  <2>5. CASE MapUpdate(k)
    <3>1. PICK i \in 1..Len(keys.elems) :
            Found(k, i) /\ vals' = Overwrite(vals, i, Fresh + 1) /\ UNCHANGED keys
      BY <2>5 DEF MapUpdate
    <3>2. /\ Len(vals'.elems) = Len(vals.elems) /\ vals'.cap = vals.cap
          /\ \A j \in 1..Len(vals.elems) : vals'.elems[j] = IF j = i THEN Fresh + 1 ELSE vals.elems[j]
      <4> DEFINE w == Fresh + 1
      <4>1. vals \in Raws /\ i \in 1..Len(vals.elems) /\ w \in Values
        BY <1>1, <2>1
      <4>2. vals' = Overwrite(vals, i, w)
        BY <3>1
      <4> HIDE DEF w
      <4>3. /\ Len(Overwrite(vals, i, w).elems) = Len(vals.elems)
            /\ Overwrite(vals, i, w).cap = vals.cap
            /\ \A j \in 1..Len(vals.elems) :
                 Overwrite(vals, i, w).elems[j] = IF j = i THEN w ELSE vals.elems[j]
        BY <4>1, OverwriteFacts
      <4>4. /\ Len(vals'.elems) = Len(vals.elems) /\ vals'.cap = vals.cap
            /\ \A j \in 1..Len(vals.elems) : vals'.elems[j] = IF j = i THEN w ELSE vals.elems[j]
        BY <4>2, <4>3
      <4> QED
        BY <4>4 DEF w
    <3>3. \A j \in 1..Len(keys.elems) : eq'[keys.elems[j]] = eq'[vals'.elems[j]]
      BY <2>1, <2>2, <2>3, <3>1, <3>2 DEF Found
    <3>4. vals'.elems # <<>>
      BY <1>1, <2>1, <3>2, ElemsFacts
    <3>5. Fits(vals)'
      BY <2>3, <3>2, <3>4 DEF Fits
    <3>6. KeysUnique'
      BY <2>2, <2>3, <3>1 DEF KeysUnique
    <3>7. PairsMatch'
      BY <2>1, <3>1, <3>2, <3>3 DEF PairsMatch
    <3>8. WithinAllocation'
      BY <2>3, <3>1, <3>5 DEF WithinAllocation, Fits
    <3> QED
      BY <3>6, <3>7, <3>8 DEF Contents
  <2> QED
    BY <1>4, <2>4, <2>5 DEF MapInsert
<1>5. CASE Drop
  <2>1. /\ keys'.elems = <<>> /\ vals'.elems = <<>> /\ keys'.cap = 0 /\ vals'.cap = 0
        /\ Len(<<>>) = 0
    BY <1>5 DEF Drop, EmptyRaw
  <2> QED
    BY <2>1 DEF Contents, KeysUnique, PairsMatch, WithinAllocation, Fits
<1>6. CASE UNCHANGED vars
  BY <1>6 DEF vars, Contents, KeysUnique, PairsMatch, WithinAllocation, Fits
<1> QED
  BY <1>2, <1>3, <1>4, <1>5, <1>6 DEF Next

\* The invariants of the contents and of the allocations hold together.
LEMMA ContentsHold == Spec => [](TypeInv /\ OwnInv /\ Contents)
<1>1. Init => TypeInv /\ OwnInv /\ Contents
  BY InitTypeInv, InitOwn, InitContents
<1>2. TypeInv /\ OwnInv /\ Contents /\ [Next]_vars => (TypeInv /\ OwnInv /\ Contents)'
  BY NextTypeInv, NextOwn, NextContents
<1> QED
  BY <1>1, <1>2, PTL DEF Spec

\* A Set or Map never holds two equal elements or keys.
THEOREM KeysStayUnique == Spec => []KeysUnique
<1>1. Contents => KeysUnique
  BY DEF Contents
<1> QED
  BY <1>1, ContentsHold, PTL

\* The two buffers of a Map stay parallel: same length, key and value of one
\* insertion in one position.
THEOREM BuffersParallel == Spec => []PairsMatch
<1>1. Contents => PairsMatch
  BY DEF Contents
<1> QED
  BY <1>1, ContentsHold, PTL

\* Every element lies inside its buffer's allocation, which is at most twice
\* what was needed.
THEOREM InsideAllocation == Spec => []WithinAllocation
<1>1. Contents => WithinAllocation
  BY DEF Contents
<1> QED
  BY <1>1, ContentsHold, PTL
-----------------------------------------------------------------------------
(* The collection implements the dictionary. *)

Inv == TypeInv /\ OwnInv /\ Contents

DictKeys == {KeyAt(i) : i \in Slots}

\* Two slots are never found by the same key, so a lookup has one answer.
LEMMA DictFacts ==
  ASSUME Inv
  PROVE  /\ \A i, j \in Slots : KeyAt(i) = KeyAt(j) => i = j
         /\ Dict = [k \in DictKeys |-> Dict[k]]
         /\ \A i \in Slots : KeyAt(i) \in DictKeys /\ Dict[KeyAt(i)] = Entry(i)
<1>1. \A i, j \in Slots : KeyAt(i) = KeyAt(j) => i = j
  BY DEF Inv, Contents, KeysUnique, KeyAt, Slots
<1>2. ASSUME NEW i \in Slots PROVE KeyAt(i) \in DictKeys /\ Dict[KeyAt(i)] = Entry(i)
  <2>1. KeyAt(i) \in DictKeys
    BY DEF DictKeys
  <2>2. SlotOf(KeyAt(i)) = i
    BY <1>1 DEF SlotOf
  <2> QED
    BY <2>1, <2>2 DEF Dict, DictKeys
<1> QED
  BY <1>1, <1>2 DEF Dict, DictKeys

\* The same in the next state.
LEMMA DictFactsNext ==
  ASSUME Inv'
  PROVE  /\ Dict' = [k \in DictKeys' |-> Dict'[k]]
         /\ \A i \in Slots' : KeyAt(i)' \in DictKeys' /\ Dict'[KeyAt(i)'] = Entry(i)'
<1>1. \A i, j \in Slots' : KeyAt(i)' = KeyAt(j)' => i = j
  BY DEF Inv, Contents, KeysUnique, KeyAt, Slots
<1>2. ASSUME NEW i \in Slots' PROVE KeyAt(i)' \in DictKeys' /\ Dict'[KeyAt(i)'] = Entry(i)'
  <2>1. KeyAt(i)' \in DictKeys'
    BY DEF DictKeys
  <2>2. (CHOOSE j \in Slots' : KeyAt(j)' = KeyAt(i)') = i
    BY <1>1
  <2> QED
    BY <2>1, <2>2 DEF Dict, DictKeys, SlotOf, Entry
<1> QED
  BY <1>1, <1>2 DEF Dict, DictKeys

\* An appended entry extends the dictionary by one key.
LEMMA DictPush ==
  ASSUME Inv, Inv', NEW k, k \notin DictKeys, UNCHANGED kind,
         Fresh \in Values, keys' = Push(keys, Fresh),
         NEW n \in Nat, n = Len(keys.elems),
         \A i \in 1..n : KeyAt(i)' = KeyAt(i) /\ vals'.elems[i] = vals.elems[i],
         KeyAt(n + 1)' = k,
         kind = "map" => vals'.elems[n + 1] = Fresh + 1
  PROVE  Dict' = D!Stored(k, Fresh, IF kind = "map" THEN Fresh + 1 ELSE 0)
<1> DEFINE e == [key |-> Fresh, val |-> IF kind = "map" THEN Fresh + 1 ELSE 0]
           f == [c \in DictKeys \cup {k} |-> IF c # k THEN Dict[c] ELSE e]
<1>1. keys \in Raws
  BY DEF Inv, TypeInv, TypeOK
<1>2. /\ Len(keys'.elems) = n + 1 /\ keys'.elems[n + 1] = Fresh
      /\ \A i \in 1..n : keys'.elems[i] = keys.elems[i]
  BY <1>1, PushFacts
<1>3. Slots = 1..n /\ Slots' = 1..(n + 1) /\ 1..(n + 1) = (1..n) \cup {n + 1}
  BY <1>1, <1>2 DEF Slots
<1>4. Entry(n + 1)' = e
  BY <1>2 DEF Entry
<1>5. \A i \in 1..n : Entry(i)' = Entry(i)
  BY <1>2 DEF Entry
<1>6. DictKeys' = DictKeys \cup {k}
  BY <1>3 DEF DictKeys
<1>7. ASSUME NEW c \in DictKeys \cup {k} PROVE Dict'[c] = f[c]
  <2>1. CASE c = k
    BY <1>3, <1>4, <2>1, DictFactsNext
  <2>2. CASE c # k
    <3>1. PICK i \in 1..n : c = KeyAt(i)
      BY <1>3, <2>2 DEF DictKeys
    <3>2. Dict'[c] = Entry(i)
      BY <1>3, <1>5, <3>1, DictFactsNext
    <3>3. Dict[c] = Entry(i)
      BY <1>3, <3>1, DictFacts
    <3> QED
      BY <2>2, <3>2, <3>3
  <2> QED
    BY <2>1, <2>2
<1>8. Dict' = f
  BY <1>6, <1>7, DictFactsNext
<1>9. DOMAIN Dict = DictKeys
  BY DictFacts
<1>10. D!Stored(k, Fresh, IF kind = "map" THEN Fresh + 1 ELSE 0) = f
  BY <1>9 DEF D!Stored
<1> QED
  BY <1>8, <1>10

\* A duplicate in a Set, or an update in a Map, keeps the slots' keys; slot i
\* is the one found and its entry may get another value.
LEMMA DictUpdate ==
  ASSUME Inv, Inv', UNCHANGED <<kind, keys>>, NEW i \in Slots, NEW val,
         \A j \in Slots : KeyAt(j)' = KeyAt(j),
         \A j \in Slots : j # i => Entry(j)' = Entry(j),
         Entry(i)' = [key |-> keys.elems[i], val |-> val]
  PROVE  Dict' = D!Stored(KeyAt(i), Fresh, val)
<1> DEFINE k == KeyAt(i)
           e == [key |-> Dict[k].key, val |-> val]
           f == [c \in DictKeys |-> IF c # k THEN Dict[c] ELSE e]
<1>1. Slots' = Slots
  BY DEF Slots
<1>2. DictKeys' = DictKeys
  BY <1>1 DEF DictKeys
<1>3. k \in DictKeys /\ Dict[k] = Entry(i) /\ DOMAIN Dict = DictKeys
  BY DictFacts
<1>4. e = [key |-> keys.elems[i], val |-> val]
  BY <1>3 DEF Entry
<1>5. ASSUME NEW c \in DictKeys PROVE Dict'[c] = f[c]
  <2>1. PICK j \in Slots : c = KeyAt(j)
    BY DEF DictKeys
  <2>2. Dict'[c] = Entry(j)' /\ Dict[c] = Entry(j)
    BY <1>1, <2>1, DictFacts, DictFactsNext
  <2>3. j = i <=> c = k
    BY <2>1, DictFacts
  <2> QED
    BY <1>4, <2>1, <2>2, <2>3
<1>6. Dict' = f
  BY <1>2, <1>5, DictFactsNext
<1>7. D!Stored(k, Fresh, val) = f
  <2>1. DOMAIN Dict \cup {k} = DictKeys
    BY <1>3
  <2> QED
    BY <1>3, <2>1 DEF D!Stored
<1> QED
  BY <1>6, <1>7

\* Every step of the collection is a step of the dictionary.
LEMMA StepImplements ==
  ASSUME Inv, Inv', [Next]_vars
  PROVE  [D!Next]_<<Dict, Len(keys.elems), Len(eq)>>
<1>1. /\ keys \in Raws /\ vals \in Raws /\ eq \in Seq(Classes)
      /\ Len(keys.elems) \in Nat /\ Slots = 1..Len(keys.elems)
      /\ Fresh = Len(eq) + 1 /\ Fresh + 1 = Len(eq) + 2
  BY ElemsFacts, FreshFacts DEF Inv, TypeInv, TypeOK, Slots
<1>2. PICK n \in Nat : n = Len(keys.elems)
  BY <1>1
<1>3. DOMAIN Dict = DictKeys
  BY DictFacts
<1>4. ASSUME NEW k \in Classes, ListPush(k) PROVE D!Extend
  <2>1. Fresh \in Values
    BY <1>4, FreshFacts DEF Inv, ListPush
  <2>2. DictKeys = 1..n
    BY <1>1, <1>2, <1>4 DEF DictKeys, KeyAt, ListPush
  <2>3. Len(keys'.elems) = n + 1
    BY <1>1, <1>2, <1>4, <2>1, PushFacts DEF ListPush
  <2>4. n + 1 \notin DictKeys
    BY <2>2
  <2>5. \A i \in 1..n : KeyAt(i)' = KeyAt(i) /\ vals'.elems[i] = vals.elems[i]
    BY <1>4 DEF ListPush, KeyAt
  <2>6. KeyAt(n + 1)' = n + 1
    BY <1>4 DEF ListPush, KeyAt
  <2>7. kind = "list" /\ UNCHANGED kind /\ keys' = Push(keys, Fresh)
    BY <1>4 DEF ListPush
  <2>8. Dict' = D!Stored(n + 1, Fresh, 0)
    BY <1>2, <2>1, <2>4, <2>5, <2>6, <2>7, DictPush
  <2>9. Len(eq') = Len(eq) + 1
    BY <1>1, <1>4, EqFacts DEF ListPush
  <2> QED
    BY <1>1, <1>2, <1>3, <2>3, <2>4, <2>8, <2>9 DEF D!Extend, D!Insert
<1>5. ASSUME NEW k \in Classes, SetInsert(k) PROVE D!Add(k)
  <2>1. Fresh \in Values /\ kind = "set" /\ UNCHANGED <<kind, vals>>
    BY <1>5, FreshFacts DEF Inv, SetInsert
  <2>2. /\ \A i \in Slots : eq'[keys.elems[i]] = eq[keys.elems[i]]
        /\ eq'[Fresh] = k
    BY <1>1, <1>5, ClassFacts DEF Inv, SetInsert
  <2>3. Len(eq') = Len(eq) + 1
    BY <1>1, <1>5, EqFacts DEF SetInsert
  <2>4. CASE Absent(k) /\ keys' = Push(keys, Fresh)
    <3>1. k \notin DictKeys
      BY <1>1, <2>1, <2>4 DEF DictKeys, KeyAt, Absent
    <3>2. /\ \A i \in 1..n : keys'.elems[i] = keys.elems[i]
          /\ keys'.elems[n + 1] = Fresh
      BY <1>1, <1>2, <2>1, <2>4, PushFacts
    <3>3. \A i \in 1..n : KeyAt(i)' = KeyAt(i) /\ vals'.elems[i] = vals.elems[i]
      BY <1>1, <1>2, <2>1, <2>2, <3>2 DEF KeyAt
    <3>4. KeyAt(n + 1)' = k
      BY <2>1, <2>2, <3>2 DEF KeyAt
    <3>5. Dict' = D!Stored(k, Fresh, 0)
      BY <1>2, <2>1, <2>4, <3>1, <3>3, <3>4, DictPush
    <3>6. Len(keys'.elems) = Len(keys.elems) + 1
      BY <1>1, <2>1, <2>4, PushFacts
    <3> QED
      BY <1>1, <1>3, <2>3, <3>1, <3>5, <3>6 DEF D!Add, D!Insert
  <2>5. CASE ~Absent(k) /\ UNCHANGED keys
    <3>1. PICK i \in Slots : KeyAt(i) = k
      BY <1>1, <2>1, <2>5 DEF Absent, KeyAt
    <3>2. \A j \in Slots : KeyAt(j)' = KeyAt(j) /\ Entry(j)' = Entry(j)
      BY <2>1, <2>2, <2>5 DEF KeyAt, Entry
    <3>3. Entry(i)' = [key |-> keys.elems[i], val |-> 0]
      BY <2>1, <2>5 DEF Entry
    <3>4. Dict' = D!Stored(k, Fresh, 0)
      BY <2>1, <2>5, <3>1, <3>2, <3>3, DictUpdate
    <3>5. k \in DictKeys
      BY <3>1, DictFacts
    <3> QED
      BY <1>1, <1>3, <2>3, <2>5, <3>4, <3>5 DEF D!Add, D!Insert
  <2> QED
    BY <1>5, <2>4, <2>5 DEF SetInsert
<1>6. ASSUME NEW k \in Classes, MapInsert(k) PROVE D!Put(k)
  <2>1. /\ Fresh \in Values /\ Fresh + 1 \in Values /\ kind = "map" /\ UNCHANGED kind
        /\ Len(vals.elems) = Len(keys.elems)
    BY <1>6, FreshFacts DEF Inv, MapInsert, TypeInv, Shape
  <2>2. /\ \A i \in Slots : eq'[keys.elems[i]] = eq[keys.elems[i]]
        /\ eq'[Fresh] = k
    BY <1>1, <1>6, ClassFacts DEF Inv, MapInsert
  <2>3. Len(eq') = Len(eq) + 2
    BY <1>1, <1>6, EqFacts DEF MapInsert
  <2>4. CASE Absent(k) /\ keys' = Push(keys, Fresh) /\ vals' = Push(vals, Fresh + 1)
    <3>1. k \notin DictKeys
      BY <1>1, <2>1, <2>4 DEF DictKeys, KeyAt, Absent
    <3>2. /\ \A i \in 1..n : keys'.elems[i] = keys.elems[i]
          /\ keys'.elems[n + 1] = Fresh
      BY <1>1, <1>2, <2>1, <2>4, PushFacts
    <3>3. /\ \A i \in 1..n : vals'.elems[i] = vals.elems[i]
          /\ vals'.elems[n + 1] = Fresh + 1
      <4> DEFINE w == Fresh + 1
      <4>1. vals \in Raws /\ w \in Values /\ Len(vals.elems) = n
        BY <1>1, <1>2, <2>1
      <4>2. vals' = Push(vals, w)
        BY <2>4
      <4> HIDE DEF w
      <4>3. /\ \A i \in 1..Len(vals.elems) : Push(vals, w).elems[i] = vals.elems[i]
            /\ Push(vals, w).elems[Len(vals.elems) + 1] = w
        BY <4>1, PushFacts
      <4>4. (\A i \in 1..n : vals'.elems[i] = vals.elems[i]) /\ vals'.elems[n + 1] = w
        BY <4>1, <4>2, <4>3
      <4> QED
        BY <4>4 DEF w
    <3>4. \A i \in 1..n : KeyAt(i)' = KeyAt(i) /\ vals'.elems[i] = vals.elems[i]
      BY <1>1, <1>2, <2>1, <2>2, <3>2, <3>3 DEF KeyAt
    <3>5. KeyAt(n + 1)' = k
      BY <2>1, <2>2, <3>2 DEF KeyAt
    <3>6. Dict' = D!Stored(k, Fresh, Fresh + 1)
      BY <1>2, <2>1, <2>4, <3>1, <3>3, <3>4, <3>5, DictPush
    <3>7. Len(keys'.elems) = Len(keys.elems) + 1
      BY <1>1, <2>1, <2>4, PushFacts
    <3> QED
      BY <1>1, <1>3, <2>3, <3>1, <3>6, <3>7 DEF D!Put, D!Insert
  <2>5. CASE MapUpdate(k)
    <3>1. PICK i \in Slots :
            Found(k, i) /\ vals' = Overwrite(vals, i, Fresh + 1) /\ UNCHANGED keys
      BY <1>1, <2>5 DEF MapUpdate
    <3>2. KeyAt(i) = k
      BY <2>1, <3>1 DEF Found, KeyAt
    <3>3. \A j \in Slots : vals'.elems[j] = IF j = i THEN Fresh + 1 ELSE vals.elems[j]
      BY <1>1, <2>1, <3>1, OverwriteFacts
    <3>4. /\ \A j \in Slots : KeyAt(j)' = KeyAt(j)
          /\ \A j \in Slots : j # i => Entry(j)' = Entry(j)
          /\ Entry(i)' = [key |-> keys.elems[i], val |-> Fresh + 1]
      BY <2>1, <2>2, <3>1, <3>3 DEF KeyAt, Entry
    <3>5. Dict' = D!Stored(k, Fresh, Fresh + 1)
      BY <2>1, <3>1, <3>2, <3>4, DictUpdate
    <3>6. k \in DictKeys
      BY <3>1, <3>2, DictFacts
    <3> QED
      BY <1>1, <1>3, <2>3, <3>1, <3>5, <3>6 DEF D!Put, D!Insert
  <2> QED
    BY <1>6, <2>4, <2>5 DEF MapInsert
<1>7. CASE Drop
  <2>1. keys'.elems = <<>> /\ Len(<<>>) = 0 /\ UNCHANGED eq
    BY <1>7 DEF Drop, EmptyRaw
  <2>2. DictKeys' = {}
    BY <2>1 DEF DictKeys, Slots
  <2>3. Dict' = [k \in {} |-> 0]
    BY <2>2, DictFactsNext
  <2> QED
    BY <2>1, <2>3 DEF D!Next, D!Clear, D!Empty
<1>8. CASE UNCHANGED vars
  BY <1>8 DEF vars, Dict, KeyAt, SlotOf, Entry, Slots
<1> QED
  BY <1>4, <1>5, <1>6, <1>7, <1>8 DEF Next, D!Next

\* A List, Set or Map implements module Dictionary: whatever the growth of the
\* buffers and the duplicates dropped on the way, it answers with the first of
\* equal keys and the value stored last.
THEOREM ImplementsSpec == Spec => ImplementsDictionary
<1>1. Init => D!Init
  <2> SUFFICES ASSUME Init PROVE D!Init
    OBVIOUS
  <2>1. keys.elems = <<>> /\ Len(<<>>) = 0 /\ Len(eq) = 0
    BY DEF Init, EmptyRaw
  <2>2. {KeyAt(i) : i \in Slots} = {}
    BY <2>1 DEF Slots
  <2> QED
    BY <2>1, <2>2 DEF D!Init, D!Empty, Dict
<1>2. Inv /\ Inv' /\ [Next]_vars => [D!Next]_<<Dict, Len(keys.elems), Len(eq)>>
  BY StepImplements
<1>3. Spec => []Inv
  BY ContentsHold DEF Inv
<1> QED
  BY <1>1, <1>2, <1>3, PTL DEF Spec, ImplementsDictionary, D!Spec
=============================================================================
