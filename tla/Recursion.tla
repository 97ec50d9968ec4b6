------------------------------ MODULE Recursion ------------------------------
(***************************************************************************)
(* What proofs about loops need, of any state: induction over numbers,     *)
(* that a loop written as a recursive function has its states, and that    *)
(* rounds that only add to a finite set come to an end.                    *)
(*                                                                         *)
(* The induction theorems of the library take the formula as a parameter;  *)
(* here it is a set of numbers, and the principle comes from < being well  *)
(* founded on them.                                                        *)
(***************************************************************************)
EXTENDS Integers, FiniteSets, TLAPS, WellFoundedInduction, FiniteSetTheorems

\* A nonempty set of numbers has a least one.
LEMMA Least ==
  ASSUME NEW S, S \subseteq Nat, S # {}
  PROVE  \E m \in S : \A n \in S : m <= n
<1> DEFINE R == OpToRel(<, Nat)
<1>1. IsWellFoundedOn(R, Nat)
  BY NatLessThanWellFounded
<1>2. PICK m \in S : \A n \in S : <<n, m>> \notin R
  BY <1>1, WFMin
<1>3. \A n \in S : ~(n < m)
  BY <1>2 DEF OpToRel
<1> QED
  BY <1>3

\* A set that has 0, and with each number the next, has them all.
LEMMA Induction ==
  ASSUME NEW S, 0 \in S, \A n \in Nat : n \in S => n + 1 \in S
  PROVE  Nat \subseteq S
<1> SUFFICES ASSUME Nat \ S # {} PROVE FALSE
  OBVIOUS
<1>1. PICK m \in Nat \ S : \A n \in Nat \ S : m <= n
  BY Least
<1>2. m # 0 /\ m - 1 \in S
  BY <1>1
<1> QED
  BY <1>1, <1>2

\* The states of a loop that starts in a and takes n steps.
Iterates(f, a, n, step) ==
  f = [i \in 0..n |-> IF i = 0 THEN a ELSE step[i][f[i - 1]]]

\* Every loop that does not fail has them.
LEMMA LoopHasStates ==
  ASSUME NEW S, NEW a \in S, NEW n \in Nat, NEW step \in [1..n -> [S -> S]]
  PROVE  \E f \in [0..n -> S] : Iterates(f, a, n, step)
<1> DEFINE To(k, f) == f = [i \in 0..k |-> IF i = 0 THEN a ELSE step[i][f[i - 1]]]
<1> DEFINE K == {k \in Nat : k <= n => \E f \in [0..k -> S] : To(k, f)}
<1>1. 0 \in K
  <2>1. [i \in 0..0 |-> a] \in [0..0 -> S] /\ To(0, [i \in 0..0 |-> a])
    OBVIOUS
  <2> QED
    BY <2>1
<1>2. ASSUME NEW k \in Nat, k \in K PROVE k + 1 \in K
  <2> SUFFICES ASSUME k + 1 <= n PROVE \E f \in [0..k+1 -> S] : To(k + 1, f)
    OBVIOUS
  <2>1. PICK f \in [0..k -> S] : To(k, f)
    BY <1>2
  <2> DEFINE g == [i \in 0..k+1 |-> IF i <= k THEN f[i] ELSE step[k + 1][f[k]]]
  <2>2. step[k + 1][f[k]] \in S
    OBVIOUS
  <2>3. g \in [0..k+1 -> S]
    BY <2>2
  <2>4. ASSUME NEW i \in 0..k+1
        PROVE  g[i] = IF i = 0 THEN a ELSE step[i][g[i - 1]]
    <3>1. CASE i = 0
      BY <3>1, <2>1
    <3>2. CASE i # 0 /\ i <= k
      <4>1. i - 1 \in 0..k+1 /\ i - 1 <= k /\ i \in 0..k
        BY <3>2
      <4>2. g[i] = f[i] /\ g[i - 1] = f[i - 1]
        BY <3>2, <4>1
      <4> QED
        BY <4>1, <4>2, <3>2, <2>1
    <3>3. CASE i = k + 1
      <4>1. g[i] = step[k + 1][f[k]] /\ g[i - 1] = f[k]
        BY <3>3
      <4> QED
        BY <3>3, <4>1
    <3> QED
      BY <3>1, <3>2, <3>3
  <2>5. To(k + 1, g)
    BY <2>4
  <2> QED
    BY <2>3, <2>5
<1> HIDE DEF K
<1>3. Nat \subseteq K
  BY <1>1, <1>2, Induction
<1>4. n \in K
  BY <1>3
<1> QED
  BY <1>4 DEF K, Iterates
-----------------------------------------------------------------------------
(* Rounds that only add elements of V.                                     *)

AreRounds(w, n, step) == \A i \in 1..n : w[i] = step[w[i - 1]]
OnlyAdds(step, V) == \A T \in SUBSET V : T \subseteq step[T]
StaysIn(step, V, C) == \A T \in SUBSET V : T \subseteq C => step[T] \subseteq C

\* What holds of the empty round and is kept by each holds of the last.
LEMMA RoundsStayIn ==
  ASSUME NEW V, NEW n \in Nat, NEW step \in [SUBSET V -> SUBSET V],
         NEW w \in [0..n -> SUBSET V], NEW C, AreRounds(w, n, step),
         w[0] \subseteq C, StaysIn(step, V, C)
  PROVE  w[n] \subseteq C
<1> DEFINE K == {i \in Nat : i <= n => w[i] \subseteq C}
<1>1. 0 \in K
  OBVIOUS
<1>2. ASSUME NEW i \in Nat, i \in K PROVE i + 1 \in K
  <2> SUFFICES ASSUME i + 1 <= n PROVE w[i + 1] \subseteq C
    OBVIOUS
  <2>1. i + 1 \in 1..n /\ (i + 1) - 1 = i /\ i \in 0..n /\ w[i] \subseteq C
    BY <1>2
  <2>2. w[i + 1] = step[w[i]] /\ w[i] \in SUBSET V
    BY <2>1 DEF AreRounds
  <2> QED
    BY <2>1, <2>2 DEF StaysIn
<1> HIDE DEF K
<1>3. Nat \subseteq K
  BY <1>1, <1>2, Induction
<1> QED
  BY <1>3 DEF K

LEMMA RoundsGrow ==
  ASSUME NEW V, NEW n \in Nat, NEW step \in [SUBSET V -> SUBSET V],
         NEW w \in [0..n -> SUBSET V], AreRounds(w, n, step),
         OnlyAdds(step, V)
  PROVE  w[0] \subseteq w[n]
<1> DEFINE K == {i \in Nat : i <= n => w[0] \subseteq w[i]}
<1>1. 0 \in K
  OBVIOUS
<1>2. ASSUME NEW i \in Nat, i \in K PROVE i + 1 \in K
  <2> SUFFICES ASSUME i + 1 <= n PROVE w[0] \subseteq w[i + 1]
    OBVIOUS
  <2>1. i + 1 \in 1..n /\ (i + 1) - 1 = i /\ i \in 0..n /\ w[0] \subseteq w[i]
    BY <1>2
  <2>2. w[i + 1] = step[w[i]] /\ w[i] \in SUBSET V
    BY <2>1 DEF AreRounds
  <2> QED
    BY <2>1, <2>2 DEF OnlyAdds
<1> HIDE DEF K
<1>3. Nat \subseteq K
  BY <1>1, <1>2, Induction
<1> QED
  BY <1>3 DEF K

\* A round that adds nothing is the last; otherwise each adds one element at
\* least, so that there are no more rounds than elements.
LEMMA RoundsSettle ==
  ASSUME NEW V, NEW n \in Nat, NEW step \in [SUBSET V -> SUBSET V],
         NEW w \in [0..n -> SUBSET V], AreRounds(w, n, step),
         OnlyAdds(step, V),
         IsFiniteSet(V), Cardinality(V) = n
  PROVE  step[w[n]] = w[n]
<1>1. ASSUME NEW T \in SUBSET V
      PROVE  /\ IsFiniteSet(T) /\ Cardinality(T) \in Nat
             /\ Cardinality(T) <= n /\ (Cardinality(T) = n => T = V)
  BY FS_Subset, FS_CardinalityType
<1>2. \A i \in 0..n : w[i] \in SUBSET V
  OBVIOUS
<1> DEFINE K == {i \in Nat : i <= n => step[w[i]] = w[i] \/ Cardinality(w[i]) >= i}
<1>3. 0 \in K
  BY <1>1, <1>2
<1>4. ASSUME NEW i \in Nat, i \in K PROVE i + 1 \in K
  <2> SUFFICES ASSUME i + 1 <= n
               PROVE  step[w[i + 1]] = w[i + 1] \/ Cardinality(w[i + 1]) >= i + 1
    OBVIOUS
  <2>1. i + 1 \in 1..n /\ (i + 1) - 1 = i /\ i \in 0..n /\ i + 1 \in 0..n
    OBVIOUS
  <2>2. w[i + 1] = step[w[i]] /\ w[i] \in SUBSET V /\ w[i + 1] \in SUBSET V
    BY <1>2, <2>1 DEF AreRounds
  <2>3. CASE step[w[i]] = w[i]
    BY <2>2, <2>3
  <2>4. CASE step[w[i]] # w[i]
    <3>1. Cardinality(w[i]) >= i
      BY <1>4, <2>4
    <3>2. PICK v : v \in w[i + 1] /\ v \notin w[i]
      BY <2>2, <2>4 DEF OnlyAdds
    <3>3. Cardinality(w[i] \cup {v}) = Cardinality(w[i]) + 1
      BY <1>1, <2>2, <3>2, FS_AddElement
    <3>4. w[i] \cup {v} \subseteq w[i + 1]
      BY <2>2, <3>2 DEF OnlyAdds
    <3>5. Cardinality(w[i] \cup {v}) <= Cardinality(w[i + 1])
      BY <1>1, <2>2, <3>4, FS_Subset
    <3>6. Cardinality(w[i]) \in Nat /\ Cardinality(w[i + 1]) \in Nat
      BY <1>1, <2>2
    <3> QED
      BY <3>1, <3>3, <3>5, <3>6
  <2> QED
    BY <2>3, <2>4
<1> HIDE DEF K
<1>5. Nat \subseteq K
  BY <1>3, <1>4, Induction
<1>6. step[w[n]] = w[n] \/ Cardinality(w[n]) >= n
  BY <1>5 DEF K
<1>7. w[n] \in SUBSET V /\ step[w[n]] \in SUBSET V /\ w[n] \subseteq step[w[n]]
  BY <1>2 DEF OnlyAdds
<1>8. ASSUME Cardinality(w[n]) >= n PROVE step[w[n]] = w[n]
  <2>1. w[n] = V
    BY <1>1, <1>7, <1>8
  <2> QED
    BY <1>7, <2>1
<1> QED
  BY <1>6, <1>8
=============================================================================
