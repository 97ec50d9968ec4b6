------------------------------- MODULE Layout -------------------------------
(***************************************************************************)
(* How aggregates, enums and unions are laid out by value, as the back end *)
(* stores them (src/src/typeck/layout.rs).                                 *)
(*                                                                         *)
(* A shape is the size and the alignment of a type, in bytes; TypeLayout   *)
(* has the shapes of the types themselves.  Sizes are numbers of u64 in    *)
(* the code, and taken to be small enough for that.                        *)
(***************************************************************************)
EXTENDS Integers, Sequences

Alignments == {1, 2, 4, 8}
Shape(size, align) == [size |-> size, align |-> align]

\* A value of a shape can be the element of an array: the next one is aligned.
Shapes == {s \in [size : Nat, align : Alignments] : s.size % s.align = 0}

\* The least multiple of align that is not below offset.
AlignUp(offset, align) ==
  IF align <= 1 THEN offset ELSE ((offset + align - 1) \div align) * align

Largest(S) == CHOOSE m \in S : \A n \in S : n <= m
-----------------------------------------------------------------------------
(* Aggregates: the fields in their order, each at its alignment. *)

\* Where the loop of aggregate_sa stands after its first i fields.
Ends(fields) ==
  LET end[i \in 0..Len(fields)] ==
        IF i = 0 THEN 0 ELSE AlignUp(end[i - 1], fields[i].align) + fields[i].size
  IN end

Offset(fields, i) == AlignUp(Ends(fields)[i - 1], fields[i].align)

AlignOf(shapes) == Largest({1} \cup {s.align : s \in shapes})
SizeOf(shapes) == Largest({0} \cup {s.size : s \in shapes})

AggregateShape(fields) ==
  LET align == AlignOf({fields[i] : i \in DOMAIN fields})
  IN Shape(AlignUp(Ends(fields)[Len(fields)], align), align)

\* No field overlaps another, each is aligned, and all are inside the value.
FieldsFit(fields) ==
  LET whole == AggregateShape(fields)
  IN /\ \A i \in DOMAIN fields :
          /\ Offset(fields, i) % fields[i].align = 0
          /\ fields[i].align <= whole.align
          /\ Offset(fields, i) + fields[i].size <= whole.size
     /\ \A i, j \in DOMAIN fields :
          i < j => Offset(fields, i) + fields[i].size <= Offset(fields, j)

\* Arrays.
Stride(elem) == AlignUp(elem.size, elem.align)
ArrayShape(elem, n) == Shape(Stride(elem) * n, elem.align)

\* No element overlaps the next, each is aligned, and all are inside the value.
ArrayFits(elem, n) ==
  \A k \in 0..n-1 :
    /\ (Stride(elem) * k) % elem.align = 0
    /\ Stride(elem) * k + elem.size <= Stride(elem) * (k + 1)
    /\ Stride(elem) * (k + 1) <= ArrayShape(elem, n).size
-----------------------------------------------------------------------------
(* Enums and unions: a tag that tells n cases apart, then the largest case. *)

TagBytes(n) == IF n <= 256 THEN 1 ELSE IF n <= 65536 THEN 2 ELSE 4

\* Mutation of PayloadOffset: the payload is packed after the tag.
PayloadPacked(n, payloads) == TagBytes(n)

PayloadOffset(n, payloads) == AlignUp(TagBytes(n), AlignOf(payloads))

Tagged(n, payloads) ==
  LET align == Largest({AlignOf(payloads), TagBytes(n)})
  IN Shape(AlignUp(PayloadOffset(n, payloads) + SizeOf(payloads), align), align)

UnionShape(members) == Tagged(Len(members), {members[m] : m \in DOMAIN members})

\* Whichever member a union holds is aligned, after the tag and inside.
UnionFits(members) ==
  LET whole == UnionShape(members)
      at == PayloadOffset(Len(members), {members[m] : m \in DOMAIN members})
  IN \A m \in DOMAIN members :
       /\ at % members[m].align = 0
       /\ members[m].align <= whole.align
       /\ TagBytes(Len(members)) <= at
       /\ at + members[m].size <= whole.size

\* The payload of a variant is the aggregate of its fields.
Payloads(variants) == {AggregateShape(variants[v]) : v \in DOMAIN variants}
EnumShape(variants) == Tagged(Len(variants), Payloads(variants))

\* Where field i of variant v is, from the start of the value.
FieldOffset(variants, v, i) ==
  PayloadOffset(Len(variants), Payloads(variants)) + Offset(variants[v], i)

\* The fields of each variant do not overlap one another or the tag, and are
\* aligned and inside the value.
EnumFits(variants) ==
  LET whole == EnumShape(variants)
      at(v, i) == FieldOffset(variants, v, i)
  IN \A v \in DOMAIN variants : \A i \in DOMAIN variants[v] :
       /\ at(v, i) % variants[v][i].align = 0
       /\ variants[v][i].align <= whole.align
       /\ TagBytes(Len(variants)) <= at(v, i)
       /\ at(v, i) + variants[v][i].size <= whole.size
       /\ \A j \in DOMAIN variants[v] :
            i < j => at(v, i) + variants[v][i].size <= at(v, j)
=============================================================================
