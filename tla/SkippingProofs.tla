---------------------------- MODULE SkippingProofs ----------------------------
(***************************************************************************)
(* Proofs about Skipping, for any finite program: what is left calls only  *)
(* what is left, as much is left as can be, and the order in which the     *)
(* loop looks at the functions makes no difference.                        *)
(***************************************************************************)
EXTENDS Skipping, Recursion

\* What one pass makes of what is left out.
Pass(calls, out) == out \cup Callers(calls, out)

\* The passes of Skipped, unfolded.
LEMMA PassesAre ==
  ASSUME NEW calls, NEW out \in SUBSET DOMAIN calls, IsFiniteSet(DOMAIN calls)
  PROVE  \E w \in [0..Cardinality(DOMAIN calls) -> SUBSET DOMAIN calls] :
           /\ w[0] = out
           /\ \A i \in 1..Cardinality(DOMAIN calls) : w[i] = Pass(calls, w[i - 1])
           /\ Skipped(calls, out) = w[Cardinality(DOMAIN calls)]
<1> DEFINE n == Cardinality(DOMAIN calls)
           V == SUBSET DOMAIN calls
           step == [i \in 1..n |-> [T \in V |-> Pass(calls, T)]]
           Is(g) == g = [i \in 0..n |-> IF i = 0 THEN out
                                        ELSE LET skipped == g[i - 1]
                                             IN skipped \cup Callers(calls, skipped)]
<1>1. \A T \in V : Pass(calls, T) \in V
  BY DEF Pass, Callers
<1>2. step \in [1..n -> [V -> V]]
  BY <1>1
<1>3. out \in V /\ n \in Nat
  BY FS_CardinalityType
<1> HIDE DEF n
<1>4. PICK f \in [0..n -> V] : f = [i \in 0..n |-> IF i = 0 THEN out ELSE step[i][f[i - 1]]]
  <2> HIDE DEF step, V
  <2>1. \E f \in [0..n -> V] : Iterates(f, out, n, step)
    BY <1>2, <1>3, LoopHasStates
  <2> QED
    BY <2>1 DEF Iterates
<1>5. ASSUME NEW i \in 0..n, i # 0
      PROVE  step[i][f[i - 1]] = Pass(calls, f[i - 1])
  <2>1. i \in 1..n /\ i - 1 \in 0..n
    BY <1>3, <1>5
  <2>2. f[i - 1] \in V
    BY <2>1
  <2> QED
    BY <2>1, <2>2
<1>6. Is(f)
  <2> HIDE DEF step
  <2>1. \A i \in 0..n : (IF i = 0 THEN out ELSE step[i][f[i - 1]])
                        = IF i = 0 THEN out ELSE Pass(calls, f[i - 1])
    BY <1>5
  <2>2. f = [i \in 0..n |-> IF i = 0 THEN out ELSE Pass(calls, f[i - 1])]
    BY <1>4, <2>1
  <2> QED
    BY <2>2 DEF Pass
<1> DEFINE w == CHOOSE g : Is(g)
<1>7. Is(w)
  BY <1>6
<1>8. Skipped(calls, out) = w[n]
  BY DEF Skipped, n
<1> HIDE DEF w
<1>9. w = [i \in 0..n |-> IF i = 0 THEN out ELSE Pass(calls, w[i - 1])]
  BY <1>7 DEF Pass
<1> HIDE DEF Is
<1>10. w[0] = out /\ \A i \in 1..n : w[i] = Pass(calls, w[i - 1])
  <2>1. 0 \in 0..n /\ \A i \in 1..n : i \in 0..n /\ i # 0
    BY <1>3
  <2>2. \A i \in 0..n : w[i] = IF i = 0 THEN out ELSE Pass(calls, w[i - 1])
    BY <1>9
  <2> QED
    BY <2>1, <2>2
<1>11. \A i \in 0..n : w[i] \in V
  <2> DEFINE K == {i \in Nat : i <= n => w[i] \in V}
  <2>1. 0 \in K
    BY <1>3, <1>10
  <2>2. ASSUME NEW i \in Nat, i \in K PROVE i + 1 \in K
    <3> SUFFICES ASSUME i + 1 <= n PROVE w[i + 1] \in V
      OBVIOUS
    <3>1. i + 1 \in 1..n /\ (i + 1) - 1 = i /\ w[i] \in V
      BY <1>3, <2>2
    <3> QED
      BY <1>1, <1>10, <3>1
  <2> HIDE DEF K
  <2>3. Nat \subseteq K
    BY <2>1, <2>2, Induction
  <2> QED
    BY <2>3 DEF K
<1>12. w \in [0..n -> V]
  <2>1. DOMAIN w = 0..n /\ w = [i \in 0..n |-> w[i]]
    BY <1>9
  <2> QED
    BY <1>11, <2>1
<1> QED
  BY <1>8, <1>10, <1>12 DEF n

\* What is left out in the end: at least what cannot be translated, nothing that
\* is left calls it, and no such set is smaller.
LEMMA SkippedIs ==
  ASSUME NEW calls, NEW out \in SUBSET DOMAIN calls, IsFiniteSet(DOMAIN calls)
  PROVE  /\ Skipped(calls, out) \subseteq DOMAIN calls
         /\ out \subseteq Skipped(calls, out)
         /\ Callers(calls, Skipped(calls, out)) \subseteq Skipped(calls, out)
         /\ \A C : out \subseteq C /\ Callers(calls, C) \subseteq C
                     => Skipped(calls, out) \subseteq C
<1> DEFINE V == DOMAIN calls
           n == Cardinality(V)
           step == [T \in SUBSET V |-> Pass(calls, T)]
<1>1. PICK w \in [0..n -> SUBSET V] :
        /\ w[0] = out
        /\ \A i \in 1..n : w[i] = Pass(calls, w[i - 1])
        /\ Skipped(calls, out) = w[n]
  BY PassesAre
<1>2. step \in [SUBSET V -> SUBSET V]
  BY DEF Pass, Callers
<1>3. \A T \in SUBSET V : step[T] = Pass(calls, T)
  OBVIOUS
<1>4. n \in Nat /\ n \in 0..n /\ Cardinality(V) = n /\ IsFiniteSet(V)
      /\ w \in [0..n -> SUBSET V]
  BY FS_CardinalityType
<1> HIDE DEF step, n
<1>5. AreRounds(w, n, step)
  <2>1. \A i \in 1..n : i - 1 \in 0..n
    BY <1>4
  <2>2. \A i \in 1..n : w[i] = step[w[i - 1]]
    BY <1>1, <1>3, <2>1
  <2> QED
    BY <2>2 DEF AreRounds
<1>6. OnlyAdds(step, V)
  BY <1>3 DEF OnlyAdds, Pass
<1>7. w[n] \in SUBSET V
  BY <1>4
<1>8. out \subseteq w[n]
  <2>1. w[0] \subseteq w[n]
    BY <1>2, <1>4, <1>5, <1>6, RoundsGrow
  <2> QED
    BY <1>1, <2>1
<1>9. Callers(calls, w[n]) \subseteq w[n]
  <2>1. step[w[n]] = w[n]
    BY <1>2, <1>4, <1>5, <1>6, RoundsSettle
  <2> QED
    BY <1>3, <1>7, <2>1 DEF Pass
<1>10. ASSUME NEW C, out \subseteq C, Callers(calls, C) \subseteq C
       PROVE  w[n] \subseteq C
  <2>1. StaysIn(step, V, C)
    <3> SUFFICES ASSUME NEW T \in SUBSET V, T \subseteq C PROVE step[T] \subseteq C
      BY DEF StaysIn
    <3>1. Callers(calls, T) \subseteq Callers(calls, C)
      BY DEF Callers, Remaining
    <3> QED
      BY <1>3, <1>10, <3>1 DEF Pass
  <2>2. w[0] \subseteq C
    BY <1>1, <1>10
  <2> QED
    BY <1>2, <1>4, <1>5, <2>1, <2>2, RoundsStayIn
<1> QED
  BY <1>1, <1>7, <1>8, <1>9, <1>10

\* A function that is not left out can be translated, and calls only functions
\* that are defined and not left out: no call in the module that is built is of
\* an undefined symbol (module.rs:19).
THEOREM KeptCallOnlyKept ==
  ASSUME NEW calls, NEW out \in SUBSET DOMAIN calls, IsFiniteSet(DOMAIN calls),
         NEW f \in Remaining(calls, Skipped(calls, out))
  PROVE  f \notin out /\ calls[f] \subseteq Remaining(calls, Skipped(calls, out))
BY SkippedIs DEF Remaining, Callers

\* Nothing is left out without need: functions that can be translated and call
\* only each other are all kept.
THEOREM SelfContainedKept ==
  ASSUME NEW calls, NEW out \in SUBSET DOMAIN calls, IsFiniteSet(DOMAIN calls),
         NEW S, S \subseteq DOMAIN calls \ out, \A f \in S : calls[f] \subseteq S
  PROVE  S \subseteq Remaining(calls, Skipped(calls, out))
<1> DEFINE C == DOMAIN calls \ S
<1>1. out \subseteq C /\ Callers(calls, C) \subseteq C
  BY DEF Callers, Remaining
<1>2. Skipped(calls, out) \subseteq C
  BY <1>1, SkippedIs
<1> QED
  BY <1>2 DEF Remaining

\* The loop of the code sees inside a pass what it has just added.  In whatever
\* order it adds functions, one at a time, when there is none left to add it has
\* added the same: no order of the functions in the source changes the build.
THEOREM OrderMakesNoDifference ==
  ASSUME NEW calls, NEW out \in SUBSET DOMAIN calls, IsFiniteSet(DOMAIN calls),
         NEW n \in Nat, NEW w, w[0] = out,
         \A i \in 1..n : Skips(calls, w[i - 1], w[i]),
         \A more : ~Skips(calls, w[n], more)
  PROVE  w[n] = Skipped(calls, out)
<1> DEFINE end == Skipped(calls, out)
           K == {i \in Nat : i <= n => out \subseteq w[i] /\ w[i] \subseteq end}
<1>1. 0 \in K
  BY SkippedIs
<1>2. ASSUME NEW i \in Nat, i \in K PROVE i + 1 \in K
  <2> SUFFICES ASSUME i + 1 <= n PROVE out \subseteq w[i + 1] /\ w[i + 1] \subseteq end
    OBVIOUS
  <2>1. i + 1 \in 1..n /\ (i + 1) - 1 = i /\ out \subseteq w[i] /\ w[i] \subseteq end
    BY <1>2
  <2>2. PICK f \in Callers(calls, w[i]) \ w[i] : w[i + 1] = w[i] \cup {f}
    BY <2>1 DEF Skips
  <2>3. f \in Callers(calls, end)
    BY <2>1, <2>2 DEF Callers, Remaining
  <2> QED
    BY <2>1, <2>2, <2>3, SkippedIs
<1> HIDE DEF K
<1>3. Nat \subseteq K
  BY <1>1, <1>2, Induction
<1>4. out \subseteq w[n] /\ w[n] \subseteq end
  BY <1>3 DEF K
<1>5. Callers(calls, w[n]) \subseteq w[n]
  <2> SUFFICES ASSUME NEW f \in Callers(calls, w[n]) \ w[n] PROVE FALSE
    OBVIOUS
  <2>1. Skips(calls, w[n], w[n] \cup {f})
    BY DEF Skips
  <2> QED
    BY <2>1
<1>6. end \subseteq w[n]
  BY <1>4, <1>5, SkippedIs
<1> QED
  BY <1>4, <1>6

\* The loop ends, in whatever order it goes: each function is added once.
THEOREM LoopEnds ==
  ASSUME NEW calls, NEW out \in SUBSET DOMAIN calls, IsFiniteSet(DOMAIN calls),
         NEW n \in Nat, NEW w, w[0] = out,
         \A i \in 1..n : Skips(calls, w[i - 1], w[i])
  PROVE  n <= Cardinality(DOMAIN calls \ out)
<1> DEFINE V == DOMAIN calls \ out
           added(i) == w[i] \ out
           K == {i \in Nat : i <= n => /\ added(i) \subseteq V /\ out \subseteq w[i]
                                     /\ IsFiniteSet(added(i)) /\ Cardinality(added(i)) = i}
<1>1. 0 \in K
  <2>1. added(0) = {}
    OBVIOUS
  <2> QED
    BY <2>1, FS_EmptySet
<1>2. ASSUME NEW i \in Nat, i \in K PROVE i + 1 \in K
  <2> SUFFICES ASSUME i + 1 <= n
               PROVE  /\ added(i + 1) \subseteq V /\ out \subseteq w[i + 1]
                      /\ IsFiniteSet(added(i + 1)) /\ Cardinality(added(i + 1)) = i + 1
    OBVIOUS
  <2>1. /\ i + 1 \in 1..n /\ (i + 1) - 1 = i
        /\ added(i) \subseteq V /\ out \subseteq w[i]
        /\ IsFiniteSet(added(i)) /\ Cardinality(added(i)) = i
    BY <1>2
  <2>2. PICK f \in Callers(calls, w[i]) \ w[i] : w[i + 1] = w[i] \cup {f}
    BY <2>1 DEF Skips
  <2>3. f \in V /\ f \notin added(i) /\ added(i + 1) = added(i) \cup {f}
    BY <2>1, <2>2 DEF Callers
  <2>4. IsFiniteSet(added(i) \cup {f}) /\ Cardinality(added(i) \cup {f}) = Cardinality(added(i)) + 1
    BY <2>1, <2>3, FS_AddElement
  <2> QED
    BY <2>1, <2>2, <2>3, <2>4
<1> HIDE DEF K
<1>3. Nat \subseteq K
  BY <1>1, <1>2, Induction
<1> HIDE DEF added, V
<1>4. added(n) \subseteq V /\ Cardinality(added(n)) = n
  <2>1. n \in K /\ n <= n
    BY <1>3
  <2> QED
    BY <2>1 DEF K
<1>5. IsFiniteSet(V)
  <2>1. V \in SUBSET DOMAIN calls
    BY DEF V
  <2> QED
    BY <2>1, FS_Subset
<1>6. added(n) \in SUBSET V
  BY <1>4
<1>7. Cardinality(added(n)) <= Cardinality(V)
  BY <1>5, <1>6, FS_Subset
<1> QED
  BY <1>4, <1>7 DEF V
=============================================================================
