---------------------------- MODULE LayoutProofs ----------------------------
(***************************************************************************)
(* Proofs about layouts of any number of fields, variants and members.     *)
(***************************************************************************)
EXTENDS Layout, Recursion

-----------------------------------------------------------------------------
(* AlignUp, for each of the alignments. *)

\* The result is aligned, not below, and less than one alignment above.
LEMMA AlignUpIs ==
  ASSUME NEW o \in Nat, NEW a \in Alignments
  PROVE  /\ AlignUp(o, a) \in Nat
         /\ AlignUp(o, a) % a = 0
         /\ o <= AlignUp(o, a) /\ AlignUp(o, a) < o + a
<1>1. a \in {1, 2, 4, 8}
  BY DEF Alignments
<1>2. CASE a = 1
  BY <1>2 DEF AlignUp
<1>3. CASE a = 2
  BY <1>3 DEF AlignUp
<1>4. CASE a = 4
  BY <1>4 DEF AlignUp
<1>5. CASE a = 8
  BY <1>5 DEF AlignUp
<1> QED
  BY <1>1, <1>2, <1>3, <1>4, <1>5

\* The larger of two alignments is a multiple of the other.
LEMMA AlignmentsNest ==
  ASSUME NEW o \in Nat, NEW a \in Alignments, NEW b \in Alignments, a <= b, o % b = 0
  PROVE  o % a = 0
BY DEF Alignments

\* The sum of multiples is a multiple.
LEMMA AlignedSum ==
  ASSUME NEW o \in Nat, NEW p \in Nat, NEW a \in Alignments, o % a = 0, p % a = 0
  PROVE  (o + p) % a = 0
BY DEF Alignments

\* So is a multiple of a multiple.
LEMMA AlignedProduct ==
  ASSUME NEW o \in Nat, NEW n \in Nat, NEW a \in Alignments, o % a = 0
  PROVE  o * n \in Nat /\ (o * n) % a = 0
<1>1. PICK k \in Nat : o = a * k
  BY DEF Alignments
<1> DEFINE m == k * n
<1>2. m \in Nat
  BY <1>1
<1>3. o * n = a * m
  BY <1>1, SMT DEF Alignments
<1> HIDE DEF m
<1>4. a * m \in Nat /\ (a * m) % a = 0
  BY <1>2 DEF Alignments
<1> QED
  BY <1>3, <1>4

-----------------------------------------------------------------------------
(* Fields one after the other. *)

\* Fields need not be of Shapes: the offsets come out right whatever their sizes.
Sized == [size : Nat, align : Alignments]

\* What has a shape has a size and an alignment.
LEMMA ShapesAreSized == Shapes \subseteq Sized
BY DEF Shapes, Sized

\* The loop of aggregate_sa, unfolded.
LEMMA EndsAre ==
  ASSUME NEW fields \in Seq(Sized)
  PROVE  /\ Ends(fields) \in [0..Len(fields) -> Nat]
         /\ Ends(fields)[0] = 0
         /\ \A i \in 1..Len(fields) :
              Ends(fields)[i] = AlignUp(Ends(fields)[i - 1], fields[i].align) + fields[i].size
<1> DEFINE n == Len(fields)
<1> DEFINE step == [i \in 1..n |-> [o \in Nat |-> AlignUp(o, fields[i].align) + fields[i].size]]
<1>1. n \in Nat /\ \A i \in 1..n : fields[i].size \in Nat /\ fields[i].align \in Alignments
  <2>1. n \in Nat /\ \A i \in 1..n : fields[i] \in Sized
    OBVIOUS
  <2> QED
    BY <2>1 DEF Sized
<1>2. \A i \in 1..n, o \in Nat : AlignUp(o, fields[i].align) + fields[i].size \in Nat
  BY <1>1, AlignUpIs
<1>3. step \in [1..n -> [Nat -> Nat]]
  BY <1>2
<1> HIDE DEF n
<1>4. PICK f \in [0..n -> Nat] : f = [i \in 0..n |-> IF i = 0 THEN 0 ELSE step[i][f[i - 1]]]
  <2> HIDE DEF step
  <2>1. 0 \in Nat /\ n \in Nat
    BY <1>1
  <2>2. \E f \in [0..n -> Nat] : Iterates(f, 0, n, step)
    BY <1>3, <2>1, LoopHasStates
  <2> QED
    BY <2>2 DEF Iterates
<1>5. f = [i \in 0..n |-> IF i = 0 THEN 0
                          ELSE AlignUp(f[i - 1], fields[i].align) + fields[i].size]
  <2>1. ASSUME NEW i \in 0..n, i # 0
        PROVE  step[i][f[i - 1]] = AlignUp(f[i - 1], fields[i].align) + fields[i].size
    BY <1>1, <2>1
  <2> HIDE DEF step
  <2>2. \A i \in 0..n : (IF i = 0 THEN 0 ELSE step[i][f[i - 1]])
                          = IF i = 0 THEN 0 ELSE AlignUp(f[i - 1], fields[i].align) + fields[i].size
    BY <2>1
  <2> QED
    BY <1>4, <2>2
<1> HIDE DEF step
<1> DEFINE Is(g) == g = [i \in 0..n |-> IF i = 0 THEN 0
                                        ELSE AlignUp(g[i - 1], fields[i].align) + fields[i].size]
<1>6. Ends(fields) = CHOOSE g : Is(g)
  BY DEF Ends, n
<1>7. Is(Ends(fields))
  BY <1>5, <1>6
<1> DEFINE e == Ends(fields)
<1>8. e = [i \in 0..n |-> IF i = 0 THEN 0
                          ELSE AlignUp(e[i - 1], fields[i].align) + fields[i].size]
  BY <1>7
<1> HIDE DEF e
<1>9. /\ e[0] = 0
      /\ \A i \in 1..n : e[i] = AlignUp(e[i - 1], fields[i].align) + fields[i].size
  BY <1>1, <1>8
<1>10. \A i \in 0..n : e[i] \in Nat
  <2> DEFINE S == {i \in Nat : i <= n => e[i] \in Nat}
  <2>1. 0 \in S
    BY <1>9
  <2>2. ASSUME NEW i \in Nat, i \in S PROVE i + 1 \in S
    <3> SUFFICES ASSUME i + 1 <= n PROVE e[i + 1] \in Nat
      OBVIOUS
    <3>1. i + 1 \in 1..n /\ (i + 1) - 1 = i /\ e[i] \in Nat
      BY <1>1, <2>2
    <3>2. fields[i + 1].size \in Nat /\ AlignUp(e[i], fields[i + 1].align) \in Nat
      BY <1>1, <3>1, AlignUpIs
    <3> QED
      BY <1>9, <3>1, <3>2
  <2> HIDE DEF S
  <2>3. Nat \subseteq S
    BY <2>1, <2>2, Induction
  <2> QED
    BY <1>1, <2>3 DEF S
<1>11. e \in [0..n -> Nat]
  <2>1. DOMAIN e = 0..n
    BY <1>8
  <2>2. e = [i \in 0..n |-> e[i]]
    BY <1>8
  <2> QED
    BY <1>10, <2>2
<1> QED
  BY <1>9, <1>11 DEF e, n

\* Where a field begins and ends.
LEMMA FieldsAre ==
  ASSUME NEW fields \in Seq(Sized), NEW i \in 1..Len(fields)
  PROVE  /\ Ends(fields)[i - 1] \in Nat /\ Ends(fields)[i] \in Nat
         /\ Offset(fields, i) \in Nat
         /\ fields[i].size \in Nat /\ fields[i].align \in Alignments
         /\ Offset(fields, i) % fields[i].align = 0
         /\ Ends(fields)[i - 1] <= Offset(fields, i)
         /\ Offset(fields, i) < Ends(fields)[i - 1] + fields[i].align
         /\ Ends(fields)[i] = Offset(fields, i) + fields[i].size
<1> DEFINE e == Ends(fields)
<1>1. fields[i] \in Sized /\ i \in 0..Len(fields) /\ i - 1 \in 0..Len(fields)
  OBVIOUS
<1>2. fields[i].size \in Nat /\ fields[i].align \in Alignments
  BY <1>1 DEF Sized
<1>3. /\ e[i - 1] \in Nat /\ e[i] \in Nat
      /\ e[i] = AlignUp(e[i - 1], fields[i].align) + fields[i].size
  BY <1>1, EndsAre
<1>4. Offset(fields, i) = AlignUp(e[i - 1], fields[i].align)
  BY DEF Offset
<1> HIDE DEF e
<1> QED
  BY <1>2, <1>3, <1>4, AlignUpIs DEF e

\* What came first ends first.
LEMMA EndsGrow ==
  ASSUME NEW fields \in Seq(Sized), NEW i \in 0..Len(fields), NEW j \in i..Len(fields)
  PROVE  Ends(fields)[i] <= Ends(fields)[j]
<1> DEFINE e == Ends(fields)
<1> DEFINE n == Len(fields)
<1>1. n \in Nat
  OBVIOUS
<1>2. e \in [0..n -> Nat]
  BY EndsAre
<1>3. \A k \in 1..n : e[k - 1] <= e[k]
  <2> SUFFICES ASSUME NEW k \in 1..n PROVE e[k - 1] <= e[k]
    OBVIOUS
  <2> DEFINE o == Offset(fields, k)
  <2>1. o \in Nat /\ fields[k].size \in Nat /\ e[k - 1] \in Nat
    BY FieldsAre
  <2>2. e[k - 1] <= o /\ e[k] = o + fields[k].size
    BY FieldsAre
  <2> HIDE DEF e, o
  <2> QED
    BY <2>1, <2>2
<1> DEFINE S == {k \in Nat : i + k <= n => e[i] <= e[i + k]}
<1> HIDE DEF e, n
<1>4. i \in Nat /\ i <= n /\ j - i \in Nat /\ j <= n /\ i + (j - i) = j
  BY <1>1 DEF n
<1>5. 0 \in S
  BY <1>2, <1>4
<1>6. ASSUME NEW k \in Nat, k \in S PROVE k + 1 \in S
  <2> SUFFICES ASSUME i + (k + 1) <= n PROVE e[i] <= e[i + (k + 1)]
    OBVIOUS
  <2>1. i + (k + 1) \in 1..n /\ (i + (k + 1)) - 1 = i + k /\ i + k \in 0..n /\ i \in 0..n
    BY <1>1, <1>4
  <2>2. e[i + k] <= e[i + (k + 1)] /\ e[i] <= e[i + k]
    BY <1>3, <1>6, <2>1
  <2> QED
    BY <1>2, <2>1, <2>2
<1> HIDE DEF S
<1>7. Nat \subseteq S
  BY <1>5, <1>6, Induction
<1>8. j - i \in S
  BY <1>4, <1>7
<1> QED
  BY <1>4, <1>8 DEF S, e

\* The largest, where there is one.
LEMMA LargestIs ==
  ASSUME NEW S, NEW m \in S, \A n \in S : n <= m
  PROVE  Largest(S) \in S /\ \A n \in S : n <= Largest(S)
BY DEF Largest

\* Of some alignments one is the largest.
LEMMA LargestAlignment ==
  ASSUME NEW S, S \subseteq Alignments, S # {}
  PROVE  Largest(S) \in S /\ \A a \in S : a <= Largest(S)
<1>1. \E m \in S : \A n \in S : n <= m
  <2>1. CASE 8 \in S
    BY <2>1 DEF Alignments
  <2>2. CASE 8 \notin S /\ 4 \in S
    BY <2>2 DEF Alignments
  <2>3. CASE 8 \notin S /\ 4 \notin S /\ 2 \in S
    BY <2>3 DEF Alignments
  <2>4. CASE S = {1}
    BY <2>4
  <2> QED
    BY <2>1, <2>2, <2>3, <2>4 DEF Alignments
<1> QED
  BY <1>1, LargestIs

\* The alignment of the whole is none below that of any part.
LEMMA AlignOfIs ==
  ASSUME NEW S, S \subseteq Sized
  PROVE  /\ AlignOf(S) \in Alignments
         /\ \A s \in S : s.align <= AlignOf(S)
<1> DEFINE A == {1} \cup {s.align : s \in S}
<1>1. A \subseteq Alignments /\ A # {}
  BY DEF Alignments, Sized
<1>2. Largest(A) \in A /\ \A a \in A : a <= Largest(A)
  <2> HIDE DEF A
  <2> QED
    BY <1>1, LargestAlignment
<1> QED
  BY <1>1, <1>2 DEF AlignOf

-----------------------------------------------------------------------------
(* Theorems *)

\* Tuples, structs and payloads of any number of fields of any shapes fit, and
\* are themselves of a shape that may be a field (aggregate_sa).
THEOREM AggregateFits ==
  ASSUME NEW fields \in Seq(Sized)
  PROVE  FieldsFit(fields) /\ AggregateShape(fields) \in Shapes
<1> DEFINE e == Ends(fields)
<1> DEFINE n == Len(fields)
<1> DEFINE a == AlignOf({fields[i] : i \in DOMAIN fields})
<1> DEFINE whole == AggregateShape(fields)
<1>1. n \in Nat /\ DOMAIN fields = 1..n /\ n \in 0..n /\ e[n] \in Nat
  BY EndsAre
<1>2. a \in Alignments /\ \A i \in 1..n : fields[i].align <= a
  <2>1. {fields[i] : i \in DOMAIN fields} \subseteq Sized
    OBVIOUS
  <2> QED
    BY <2>1, AlignOfIs
<1>3. whole = Shape(AlignUp(e[n], a), a)
  BY DEF AggregateShape
<1>4. \A i \in 1..n :
        /\ Offset(fields, i) % fields[i].align = 0
        /\ Offset(fields, i) \in Nat
        /\ fields[i].size \in Nat
        /\ e[i - 1] \in Nat /\ e[i] \in Nat
        /\ e[i - 1] <= Offset(fields, i)
        /\ Offset(fields, i) + fields[i].size = e[i]
  <2> SUFFICES ASSUME NEW i \in 1..n
               PROVE /\ Offset(fields, i) % fields[i].align = 0
                     /\ Offset(fields, i) \in Nat
                     /\ fields[i].size \in Nat
                     /\ e[i - 1] \in Nat /\ e[i] \in Nat
                     /\ e[i - 1] <= Offset(fields, i)
                     /\ Offset(fields, i) + fields[i].size = e[i]
    OBVIOUS
  <2> QED
    BY FieldsAre
<1>5. \A i \in 0..n : \A j \in i..n : e[i] <= e[j]
  BY EndsGrow
<1> HIDE DEF e, n, a, whole
<1>6. whole.align = a /\ whole.size = AlignUp(e[n], a)
  BY <1>3 DEF Shape
<1>7. AlignUp(e[n], a) \in Nat /\ AlignUp(e[n], a) % a = 0 /\ e[n] <= AlignUp(e[n], a)
  BY <1>1, <1>2, AlignUpIs
<1>8. whole \in Shapes
  BY <1>2, <1>3, <1>6, <1>7 DEF Shape, Shapes
<1>9. ASSUME NEW i \in 1..n
      PROVE  /\ Offset(fields, i) % fields[i].align = 0
             /\ fields[i].align <= whole.align
             /\ Offset(fields, i) + fields[i].size <= whole.size
  <2>1. e[i] <= e[n]
    BY <1>1, <1>5
  <2> QED
    BY <1>1, <1>2, <1>4, <1>6, <1>7, <2>1
<1>10. ASSUME NEW i \in 1..n, NEW j \in 1..n, i < j
       PROVE  Offset(fields, i) + fields[i].size <= Offset(fields, j)
  <2>1. i \in 0..n /\ j - 1 \in i..n
    BY <1>1, <1>10
  <2>2. e[i] <= e[j - 1]
    BY <1>5, <2>1
  <2> QED
    BY <1>4, <2>2
<1> QED
  BY <1>1, <1>8, <1>9, <1>10 DEF FieldsFit, whole

\* Multiples grow with their factor.
LEMMA ProductGrows ==
  ASSUME NEW o \in Nat, NEW n \in Nat, NEW k \in Nat, k < n
  PROVE  o * k + o <= o * n
<1>1. PICK d \in Nat : n = k + 1 + d
  <2>1. n - (k + 1) \in Nat /\ n = k + 1 + (n - (k + 1))
    OBVIOUS
  <2> QED
    BY <2>1
<1>2. o * d \in Nat
  OBVIOUS
<1>3. o * n = o * k + o + o * d
  BY <1>1
<1> QED
  BY <1>2, <1>3

\* The elements of an array of any length and any shape are aligned, side by side
\* and inside it, and it is of a shape that may be a field (size_align, Array).
THEOREM ArraysFit ==
  ASSUME NEW elem \in Sized, NEW n \in Nat
  PROVE  ArrayFits(elem, n) /\ ArrayShape(elem, n) \in Shapes
<1> DEFINE stride == Stride(elem)
<1>1. elem.size \in Nat /\ elem.align \in Alignments
  BY DEF Sized
<1>2. stride \in Nat /\ stride % elem.align = 0 /\ elem.size <= stride
  BY <1>1, AlignUpIs DEF Stride
<1> HIDE DEF stride
<1>3. stride * n \in Nat /\ (stride * n) % elem.align = 0
  BY <1>1, <1>2, AlignedProduct
<1>4. ArrayShape(elem, n) = [size |-> stride * n, align |-> elem.align]
  BY DEF ArrayShape, Shape, stride
<1>5. ArrayShape(elem, n) \in Shapes
  BY <1>1, <1>3, <1>4 DEF Shapes
<1>6. ASSUME NEW k \in 0..n-1
      PROVE  /\ (stride * k) % elem.align = 0
             /\ stride * k + elem.size <= stride * (k + 1)
             /\ stride * (k + 1) <= stride * n
  <2>1. k \in Nat /\ k < n /\ k < k + 1 /\ k + 1 \in Nat
    OBVIOUS
  <2>2. stride * k \in Nat /\ (stride * k) % elem.align = 0
    BY <1>1, <1>2, <2>1, AlignedProduct
  <2>3. stride * k + stride <= stride * n
    BY <1>2, <2>1, ProductGrows
  <2>4. stride * (k + 1) = stride * k + stride
    BY <1>2, <2>1
  <2>5. stride * k + elem.size <= stride * k + stride
    BY <1>1, <1>2, <2>2
  <2> QED
    BY <2>2, <2>3, <2>4, <2>5
<1> QED
  BY <1>4, <1>5, <1>6 DEF ArrayFits, stride

\* Of finitely many sizes one is the largest.
LEMMA LargestOfMany ==
  ASSUME NEW n \in Nat, NEW f \in [1..n -> Nat]
  PROVE  LET S == {0} \cup {f[i] : i \in 1..n}
         IN Largest(S) \in Nat /\ \A i \in 1..n : f[i] <= Largest(S)
<1> DEFINE S(k) == {0} \cup {f[i] : i \in 1..k}
<1> DEFINE Top(k, m) == m \in S(k) /\ \A s \in S(k) : s <= m
<1> DEFINE K == {k \in Nat : k <= n => \E m \in Nat : Top(k, m)}
<1>1. 0 \in K
  <2>1. Top(0, 0)
    OBVIOUS
  <2> QED
    BY <2>1
<1>2. ASSUME NEW k \in Nat, k \in K PROVE k + 1 \in K
  <2> SUFFICES ASSUME k + 1 <= n PROVE \E m \in Nat : Top(k + 1, m)
    OBVIOUS
  <2>1. PICK m \in Nat : Top(k, m)
    BY <1>2
  <2>2. f[k + 1] \in Nat
    OBVIOUS
  <2>3. S(k + 1) = S(k) \cup {f[k + 1]}
    <3>1. 1..(k + 1) = (1..k) \cup {k + 1}
      OBVIOUS
    <3> QED
      BY <3>1
  <2>4. S(k) \subseteq Nat
    OBVIOUS
  <2> HIDE DEF S
  <2>5. CASE f[k + 1] <= m
    <3>1. Top(k + 1, m)
      BY <2>1, <2>3, <2>5
    <3> QED
      BY <3>1
  <2>6. CASE m < f[k + 1]
    <3>1. Top(k + 1, f[k + 1])
      BY <2>1, <2>2, <2>3, <2>4, <2>6
    <3> QED
      BY <2>2, <3>1
  <2> QED
    BY <2>2, <2>5, <2>6
<1> HIDE DEF K
<1>3. Nat \subseteq K
  BY <1>1, <1>2, Induction
<1>4. PICK m \in Nat : Top(n, m)
  <2> HIDE DEF Top
  <2>1. n \in K /\ n <= n
    BY <1>3
  <2> QED
    BY <2>1 DEF K
<1>5. Largest(S(n)) \in S(n) /\ \A s \in S(n) : s <= Largest(S(n))
  <2> HIDE DEF S
  <2> QED
    BY <1>4, LargestIs
<1>6. S(n) \subseteq Nat /\ \A i \in 1..n : f[i] \in S(n)
  OBVIOUS
<1> QED
  BY <1>5, <1>6

\* A tag is aligned to its own size.
LEMMA TagIsSmall ==
  ASSUME NEW n \in Nat
  PROVE  TagBytes(n) \in Alignments
BY DEF TagBytes, Alignments

\* A tag and any of finitely many payloads after it.
LEMMA TaggedFits ==
  ASSUME NEW n \in Nat, NEW S, S \subseteq Sized,
         SizeOf(S) \in Nat, \A s \in S : s.size <= SizeOf(S)
  PROVE  /\ Tagged(n, S) \in Shapes
         /\ TagBytes(n) \in Nat /\ PayloadOffset(n, S) \in Nat
         /\ TagBytes(n) <= PayloadOffset(n, S)
         /\ \A s \in S : /\ PayloadOffset(n, S) % s.align = 0
                         /\ s.align <= Tagged(n, S).align
                         /\ PayloadOffset(n, S) + s.size <= Tagged(n, S).size
<1> DEFINE tag == TagBytes(n)
<1> DEFINE a == AlignOf(S)
<1> DEFINE at == PayloadOffset(n, S)
<1> DEFINE b == Largest({a, tag})
<1> DEFINE end == at + SizeOf(S)
<1>1. tag \in Alignments /\ tag \in Nat
  BY TagIsSmall DEF Alignments
<1>2. a \in Alignments /\ \A s \in S : s.align <= a
  BY AlignOfIs
<1>3. at = AlignUp(tag, a)
  BY DEF PayloadOffset
<1>4. Tagged(n, S) = Shape(AlignUp(end, b), b)
  BY DEF Tagged
<1>5. \A s \in S : s.align \in Alignments /\ s.size \in Nat
  BY DEF Sized
<1> HIDE DEF tag, a, at
<1>6. b \in {a, tag} /\ a <= b
  <2>1. {a, tag} \subseteq Alignments /\ {a, tag} # {}
    BY <1>1, <1>2
  <2> QED
    BY <2>1, LargestAlignment
<1>7. b \in Alignments
  BY <1>1, <1>2, <1>6
<1>8. at \in Nat /\ at % a = 0 /\ tag <= at
  BY <1>1, <1>2, <1>3, AlignUpIs
<1>9. end \in Nat
  BY <1>8
<1> HIDE DEF b, end
<1>10. AlignUp(end, b) \in Nat /\ AlignUp(end, b) % b = 0 /\ end <= AlignUp(end, b)
  BY <1>7, <1>9, AlignUpIs
<1>11. Tagged(n, S) \in Shapes /\ Tagged(n, S).align = b /\ Tagged(n, S).size = AlignUp(end, b)
  BY <1>4, <1>7, <1>10 DEF Shape, Shapes
<1>12. ASSUME NEW s \in S
       PROVE  at % s.align = 0 /\ s.align <= b /\ at + s.size <= AlignUp(end, b)
  <2>1. at % s.align = 0
    BY <1>2, <1>5, <1>8, AlignmentsNest
  <2>2. s.align <= b
    BY <1>2, <1>5, <1>6, <1>7 DEF Alignments
  <2>3. at + s.size <= end
    BY <1>5, <1>8 DEF end
  <2> QED
    BY <1>5, <1>8, <1>9, <1>10, <2>1, <2>2, <2>3
<1> QED
  BY <1>1, <1>8, <1>11, <1>12 DEF tag, at

\* A union of any members: whichever it holds fits behind the tag, and it is of a
\* shape that may be a field (union_sa).
THEOREM UnionsFit ==
  ASSUME NEW members \in Seq(Sized)
  PROVE  UnionFits(members) /\ UnionShape(members) \in Shapes
<1> DEFINE n == Len(members)
<1> DEFINE S == {members[m] : m \in DOMAIN members}
<1> DEFINE f == [m \in 1..n |-> members[m].size]
<1>1. n \in Nat /\ DOMAIN members = 1..n /\ S \subseteq Sized
  OBVIOUS
<1>2. \A m \in 1..n : members[m] \in S /\ members[m].size \in Nat
  <2>1. \A m \in 1..n : members[m] \in S /\ members[m] \in Sized
    OBVIOUS
  <2> QED
    BY <2>1 DEF Sized
<1>3. f \in [1..n -> Nat]
  BY <1>2
<1>4. {s.size : s \in S} = {f[m] : m \in 1..n}
  BY <1>1
<1> HIDE DEF f, n, S
<1>5. SizeOf(S) \in Nat /\ \A m \in 1..n : f[m] <= SizeOf(S)
  BY <1>1, <1>3, <1>4, LargestOfMany DEF SizeOf
<1>6. \A s \in S : s.size <= SizeOf(S)
  BY <1>1, <1>5 DEF S, f
<1>7. /\ Tagged(n, S) \in Shapes
      /\ TagBytes(n) <= PayloadOffset(n, S)
      /\ \A s \in S : /\ PayloadOffset(n, S) % s.align = 0
                      /\ s.align <= Tagged(n, S).align
                      /\ PayloadOffset(n, S) + s.size <= Tagged(n, S).size
  BY <1>1, <1>5, <1>6, TaggedFits
<1>8. UnionShape(members) = Tagged(n, S)
  BY DEF UnionShape, n, S
<1> QED
  BY <1>1, <1>2, <1>7, <1>8 DEF UnionFits, n, S

\* An enum of any number of variants with any fields: the fields of each fit
\* behind the tag, and it is of a shape that may be a field (enum_layout_info).
THEOREM EnumsFit ==
  ASSUME NEW variants \in Seq(Seq(Sized))
  PROVE  EnumFits(variants) /\ EnumShape(variants) \in Shapes
<1> DEFINE n == Len(variants)
<1> DEFINE S == Payloads(variants)
<1> DEFINE f == [v \in 1..n |-> AggregateShape(variants[v]).size]
<1> DEFINE at == PayloadOffset(n, S)
<1> DEFINE whole == EnumShape(variants)
<1>1. n \in Nat /\ DOMAIN variants = 1..n /\ \A v \in 1..n : variants[v] \in Seq(Sized)
  OBVIOUS
<1>2. \A v \in 1..n : FieldsFit(variants[v]) /\ AggregateShape(variants[v]) \in Shapes
  BY <1>1, AggregateFits
<1>3. S = {AggregateShape(variants[v]) : v \in 1..n}
  BY <1>1 DEF Payloads
<1>4. S \subseteq Shapes /\ S \subseteq Sized
  BY <1>2, <1>3, ShapesAreSized
<1>5. \A v \in 1..n : AggregateShape(variants[v]).size \in Nat
  BY <1>2 DEF Shapes
<1>6. f \in [1..n -> Nat]
  BY <1>5
<1> HIDE DEF n, S
<1>7. {s.size : s \in S} = {f[v] : v \in 1..n}
  BY <1>3
<1> HIDE DEF f
<1>8. SizeOf(S) \in Nat /\ \A v \in 1..n : f[v] <= SizeOf(S)
  BY <1>1, <1>6, <1>7, LargestOfMany DEF SizeOf
<1>9. \A s \in S : s.size <= SizeOf(S)
  BY <1>3, <1>8 DEF f
<1>10. /\ Tagged(n, S) \in Shapes
       /\ TagBytes(n) \in Nat /\ at \in Nat
       /\ TagBytes(n) <= at
       /\ \A s \in S : /\ at % s.align = 0
                       /\ s.align <= Tagged(n, S).align
                       /\ at + s.size <= Tagged(n, S).size
  BY <1>1, <1>4, <1>8, <1>9, TaggedFits
<1>11. whole = Tagged(n, S)
  BY DEF EnumShape, n, S
<1> HIDE DEF at, whole
<1>12. ASSUME NEW v \in 1..n, NEW i \in DOMAIN variants[v]
       PROVE  /\ (at + Offset(variants[v], i)) % variants[v][i].align = 0
              /\ variants[v][i].align <= whole.align
              /\ TagBytes(n) <= at + Offset(variants[v], i)
              /\ at + Offset(variants[v], i) + variants[v][i].size <= whole.size
              /\ \A j \in DOMAIN variants[v] :
                   i < j => at + Offset(variants[v], i) + variants[v][i].size
                              <= at + Offset(variants[v], j)
  <2> DEFINE fs == variants[v]
  <2> DEFINE p == AggregateShape(fs)
  <2>1. fs \in Seq(Sized) /\ DOMAIN fs = 1..Len(fs) /\ i \in 1..Len(fs)
    BY <1>1
  <2>2. p \in S /\ p.size \in Nat /\ p.align \in Alignments
    BY <1>2, <1>3 DEF Shapes
  <2>3. \A j \in 1..Len(fs) :
          Offset(fs, j) \in Nat /\ fs[j].size \in Nat /\ fs[j].align \in Alignments
    <3> HIDE DEF fs
    <3> QED
      BY <2>1, FieldsAre
  <2>4. /\ Offset(fs, i) % fs[i].align = 0
        /\ fs[i].align <= p.align
        /\ Offset(fs, i) + fs[i].size <= p.size
        /\ \A j \in 1..Len(fs) : i < j => Offset(fs, i) + fs[i].size <= Offset(fs, j)
    BY <1>2, <2>1 DEF FieldsFit
  <2>5. at % p.align = 0 /\ p.align <= whole.align /\ at + p.size <= whole.size
    BY <1>10, <1>11, <2>2
  <2>6. whole.align \in Alignments /\ whole.size \in Nat
    BY <1>10, <1>11 DEF Shapes
  <2> HIDE DEF fs, p
  <2>7. at % fs[i].align = 0
    BY <1>10, <2>1, <2>2, <2>3, <2>4, <2>5, AlignmentsNest
  <2>8. (at + Offset(fs, i)) % fs[i].align = 0
    BY <1>10, <2>1, <2>3, <2>4, <2>7, AlignedSum
  <2> DEFINE o == Offset(fs, i)
  <2> DEFINE sz == fs[i].size
  <2>9. fs[i].align <= whole.align
    <3>1. fs[i].align <= p.align /\ p.align <= whole.align
      BY <2>4, <2>5
    <3>2. fs[i].align \in Nat /\ p.align \in Nat /\ whole.align \in Nat
      <4>1. fs[i].align \in Alignments /\ p.align \in Alignments /\ whole.align \in Alignments
        BY <2>1, <2>2, <2>3, <2>6
      <4>2. Alignments \subseteq Nat
        BY DEF Alignments
      <4> QED
        BY <4>1, <4>2
    <3> QED
      BY <3>1, <3>2
  <2>10. /\ TagBytes(n) <= at + Offset(fs, i)
         /\ at + Offset(fs, i) + fs[i].size <= whole.size
    <3>1. o \in Nat /\ sz \in Nat /\ at \in Nat /\ TagBytes(n) \in Nat
      BY <1>10, <2>1, <2>3
    <3>2. p.size \in Nat /\ whole.size \in Nat
      BY <2>2, <2>6
    <3>3. TagBytes(n) <= at /\ o + sz <= p.size /\ at + p.size <= whole.size
      BY <1>10, <2>4, <2>5
    <3> HIDE DEF o, sz
    <3>4. TagBytes(n) <= at + o /\ at + o + sz <= whole.size
      BY <3>1, <3>2, <3>3
    <3> QED
      BY <3>4 DEF o, sz
  <2>11. ASSUME NEW j \in 1..Len(fs), i < j
         PROVE  at + Offset(fs, i) + fs[i].size <= at + Offset(fs, j)
    <3>1. o \in Nat /\ sz \in Nat /\ at \in Nat /\ Offset(fs, j) \in Nat
      BY <1>10, <2>1, <2>3
    <3>2. o + sz <= Offset(fs, j)
      BY <2>4, <2>11
    <3> HIDE DEF o, sz
    <3>3. at + o + sz <= at + Offset(fs, j)
      BY <3>1, <3>2
    <3> QED
      BY <3>3 DEF o, sz
  <2> QED
    BY <2>1, <2>8, <2>9, <2>10, <2>11 DEF fs
<1>13. whole \in Shapes
  BY <1>10, <1>11
<1>14. \A v, i : FieldOffset(variants, v, i) = at + Offset(variants[v], i)
  BY DEF FieldOffset, at, n, S
<1> QED
  BY <1>1, <1>12, <1>13, <1>14 DEF EnumFits, whole, n
=============================================================================
