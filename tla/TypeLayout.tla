------------------------------ MODULE TypeLayout ------------------------------
(***************************************************************************)
(* The layout of the types of a program (src/src/typeck/layout.rs), and    *)
(* what the back end relies on: the scalars in a value do not overlap.     *)
(*                                                                         *)
(* decls are the declarations of the program.  A type that holds itself by *)
(* value has no layout: the code does not come back from it.               *)
(***************************************************************************)
EXTENDS Types, Layout

Bytes == [bool |-> 1, i8 |-> 1, u8 |-> 1, i16 |-> 2, u16 |-> 2, i32 |-> 4, u32 |-> 4,
          i64 |-> 8, u64 |-> 8, isize |-> 8, usize |-> 8]

Declares(t, decls) == CHOOSE d \in decls : d.name = t.name

\* The types of the fields of an aggregate.
FieldTypes(t, decls) ==
  CASE t.k = "tuple" -> t.args
    [] t.k = "range" -> <<TInt("i64"), TInt("i64"), TBool>>
    [] t.k = "struct" -> [i \in DOMAIN Declares(t, decls).args |->
                            ResolveType(Declares(t, decls).args[i].args[1], decls)]

\* The types of the fields of each variant of an enum.
VariantTypes(t, decls) ==
  CASE t.name = "Option" -> << <<>>, t.args >>
    [] t.name = "Result" -> << t.args, <<TStr>> >>
    [] OTHER -> [v \in DOMAIN Declares(t, decls).args |->
                   LET types == Declares(t, decls).args[v].args
                   IN [i \in DOMAIN types |-> ResolveType(types[i], decls)]]

\* All types a type is made of are known, and none is an array without length.
RECURSIVE HasShape(_, _)
HasShape(t, decls) ==
  LET All(ts) == \A i \in DOMAIN ts : HasShape(ts[i], decls)
  IN CASE t.k \in {"unknown", "array"} -> FALSE
       [] t.k \in {"tuple", "struct"} -> All(FieldTypes(t, decls))
       [] t.k = "enum" -> \A v \in DOMAIN VariantTypes(t, decls) : All(VariantTypes(t, decls)[v])
       [] t.k = "union" -> All(t.args)
       [] OTHER -> TRUE

\* nil adds nothing to a union but its place in the tag.
RECURSIVE ShapeOf(_, _)
ShapesOf(ts, decls) == [i \in DOMAIN ts |-> ShapeOf(ts[i], decls)]
ShapeOf(t, decls) ==
  CASE t.k = "bool" -> Shape(1, 1)
    [] t.k = "int" -> Shape(Bytes[t.name], Bytes[t.name])
    [] t.k = "intlit" -> Shape(4, 4)
    [] t.k \in {"unit", "never", "nil"} -> Shape(0, 1)
    [] t.k \in {"tuple", "range", "struct"} -> AggregateShape(ShapesOf(FieldTypes(t, decls), decls))
    [] t.k = "enum" -> EnumShape([v \in DOMAIN VariantTypes(t, decls) |->
                                 ShapesOf(VariantTypes(t, decls)[v], decls)])
    [] t.k = "union" -> UnionShape(ShapesOf(t.args, decls))
    [] OTHER -> Shape(8, 8)                           \* str, List, references, functions
-----------------------------------------------------------------------------
(* The scalars in a value.  A path leads to each: the number of a field, the *)
(* negative number of a variant or member, or 0 for a tag.                   *)

Leaf(path, at, shape) == [path |-> path, at |-> at, size |-> shape.size, align |-> shape.align]
Tag(path, at, n) == Leaf(Append(path, 0), at, Shape(TagBytes(n), TagBytes(n)))

RECURSIVE Leaves(_, _, _, _)
Leaves(t, path, at, decls) ==
  CASE t.k \in {"tuple", "range", "struct"} ->
         LET ts == FieldTypes(t, decls)
         IN UNION {Leaves(ts[i], Append(path, i), at + Offset(ShapesOf(ts, decls), i), decls) :
                     i \in DOMAIN ts}
    [] t.k = "enum" ->
         LET vs == VariantTypes(t, decls)
             shapes == [v \in DOMAIN vs |-> ShapesOf(vs[v], decls)]
         IN {Tag(path, at, Len(vs))} \cup
            UNION {UNION {Leaves(vs[v][i], path \o <<-v, i>>,
                                 at + FieldOffset(shapes, v, i), decls) : i \in DOMAIN vs[v]} :
                     v \in DOMAIN vs}
    [] t.k = "union" ->
         LET payload == PayloadOffset(Len(t.args), ToSet(ShapesOf(t.args, decls)))
         IN {Tag(path, at, Len(t.args))} \cup
            UNION {Leaves(t.args[m], Append(path, -m), at + payload, decls) : m \in DOMAIN t.args}
    [] OTHER -> {Leaf(path, at, ShapeOf(t, decls))}

\* The two are of different variants or members: a value has only one of them.
Exclusive(p, q) ==
  \E k \in DOMAIN p \cap DOMAIN q :
    /\ SubSeq(p, 1, k - 1) = SubSeq(q, 1, k - 1)
    /\ p[k] # q[k] /\ p[k] < 0 /\ q[k] < 0

\* However aggregates, enums and unions nest, every scalar of a value is aligned
\* and inside it, and no two that it has at a time overlap.
LaidOut(t, decls) ==
  LET whole == ShapeOf(t, decls)
      leaves == Leaves(t, <<>>, 0, decls)
  IN /\ whole.size % whole.align = 0
     /\ \A l \in leaves : /\ l.at % l.align = 0
                          /\ l.align <= whole.align
                          /\ l.at + l.size <= whole.size
     /\ \A l, m \in leaves : \/ l = m \/ Exclusive(l.path, m.path)
                             \/ l.at + l.size <= m.at \/ m.at + m.size <= l.at
=============================================================================
