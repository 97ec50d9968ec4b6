-------------------------------- MODULE Syntax --------------------------------
(***************************************************************************)
(* The abstract syntax of La3 (src/src/ast.rs) that the front end, the     *)
(* interpreter and the HIR share in this development: everything but text, *)
(* floats and raw pointers.                                                *)
(*                                                                         *)
(* A node is a record of one shape: what it is, the name, literal or       *)
(* operator it carries ("" if none) and its parts, in the order name       *)
(* resolution walks them.                                                  *)
(***************************************************************************)
EXTENDS Integers, Sequences, SequencesExt, FiniteSets, TLC

Node(op, name, args) == [op |-> op, name |-> name, args |-> args]

(* Literals and names. *)
Num(digits) == Node("int", digits, <<>>)
Bool(b) == Node("bool", b, <<>>)            \* "true", "false"
Nil == Node("nil", "", <<>>)
Ident(n) == Node("ident", n, <<>>)

(* Operators. *)
Unary(o, e) == Node("unary", o, <<e>>)
Binary(o, l, r) == Node("binary", o, <<l, r>>)
Coalesce(l, r) == Node("coalesce", "", <<l, r>>)
Assign(o, target, value) == Node("assign", o, <<target, value>>)   \* "=", "+", "/"
Try(e) == Node("try", "", <<e>>)

(* Aggregates. *)
Tuple(es) == Node("tuple", "", es)
List(es) == Node("list", "", es)
SetLit(es) == Node("set", "", es)
MapLit(pairs) == Node("map", "", pairs)
Pair(k, v) == Node("pair", "", <<k, v>>)
Repeat(v, n) == Node("repeat", "", <<v, n>>)
Span(o, a, b) == Node("range", o, <<a, b>>)                        \* "..", "..="
FieldInit(field, e) == Node("init", field, <<e>>)
StructLit(inits) == Node("struct", "P", inits)
Spread(e) == Node("spread", "", <<e>>)

(* Access and calls. *)
Call(f, es) == Node("call", "", <<f>> \o es)
Method(recv, m, es) == Node("method", m, <<recv>> \o es)
OptMethod(recv, m, es) == Node("method?", m, <<recv>> \o es)
Field(recv, f) == Node("field", f, <<recv>>)
OptField(recv, f) == Node("field?", f, <<recv>>)
Index(recv, i) == Node("index", "", <<recv, i>>)
Closure(params, body) == Node("closure", "", params \o <<body>>)
MoveClosure(params, body) == Node("closure", "move", params \o <<body>>)
Param(n) == Node("param", n, <<>>)
TypedParam(n, type) == Node("param", n, <<type>>)
Cast(e, type) == Node("cast", "", <<e, type>>)
Path(segments) == Node("path", "", segments)
Segment(n) == Node("segment", n, <<>>)

(* Blocks and control.  A block with a tail is "value". *)
Block(ss) == Node("block", "", ss)
Value(ss) == Node("value", "", ss)
If(c, then) == Node("if", "", <<c, then>>)
IfElse(c, then, els) == Node("if", "", <<c, then, els>>)
Match(e, arms) == Node("match", "", <<e>> \o arms)
Arm(p, body) == Node("arm", "", <<p, body>>)
Guarded(p, guard, body) == Node("arm", "", <<p, guard, body>>)
Loop(body) == Node("loop", "", <<body>>)
While(c, body) == Node("while", "", <<c, body>>)
WhileLet(p, e, body) == Node("whilelet", "", <<e, Arm(p, body)>>)
For(p, e, body) == Node("for", "", <<e, Arm(p, body)>>)
TryCatch(body, catch, finally) == Node("trycatch", "", <<body, catch, finally>>)
Catch(n, body) == Node("catch", n, <<body>>)
Task(kind, e) == Node(kind, "", <<e>>)                     \* "await", "spawn", "unsafe"

(* Statements. *)
Let(p, e) == Node("let", "", <<e, p>>)
LetMut(p, e) == Node("let", "mut", <<e, p>>)
TypedLet(p, type, e) == Node("let", "", <<e, p, type>>)
Const(n, e) == Node("const", n, <<e>>)
Return(es) == Node("return", "", es)
Break(es) == Node("break", "", es)
Continue == Node("continue", "", <<>>)
Fn(n, params, body) == Node("fn", n, params \o <<body>>)
TypedFn(n, params, type, body) == Node("fn", n, params \o <<type, body>>)
Params(e) == SelectSeq(e.args, LAMBDA a : a.op = "param")  \* of a closure or function

(* Declarations that hold no expressions. *)
Declaration(kind, n, parts) == Node(kind, n, parts)        \* "struct_decl", "enum_decl", ...
Declared(n, types) == Node("declared", n, types)           \* a field or a variant

(* Types. *)
Named(n, types) == Node("t_named", n, types)
Union(types) == Node("t_union", "", types)
RefType(o, type) == Node("t_ref", o, <<type>>)             \* "&", "&mut"
ArrayType(type) == Node("t_array", "", <<type>>)
TupleType(types) == Node("t_tuple", "", types)
FnType(types, ret) == Node("t_fn", "", types \o <<ret>>)
Never == Node("t_never", "", <<>>)

(* Patterns. *)
PWild == Node("p_wild", "", <<>>)
PBind(n) == Node("p_bind", n, <<>>)
PInt(digits) == Node("p_int", digits, <<>>)
PNeg(digits) == Node("p_neg", digits, <<>>)
PRange(o, lo, hi) == Node("p_range", o, <<PInt(lo), PInt(hi)>>)    \* "..", "..="
PTyped(n, type) == Node("p_typed", n, <<type>>)
PBool(b) == Node("p_bool", b, <<>>)
PNil == Node("p_nil", "", <<>>)
PAt(n, p) == Node("p_at", n, <<p>>)
POr(ps) == Node("p_or", "", ps)
PTuple(ps) == Node("p_tuple", "", ps)
PList(ps) == Node("p_list", "", ps)
PListRest(ps, n) == Node("p_list", "rest", Append(ps, PBind(n)))
PListAnd(ps) == Node("p_list", "any", ps)                  \* and whatever follows
PVariant(v, ps) == Node("p_variant", v, ps)
PField(f) == Node("p_field", f, <<PBind(f)>>)
PStruct(fields) == Node("p_struct", "P", fields)          \* of PField

Blocks == {"block", "value"}

\* Every node of e, e included.
RECURSIVE Nodes(_)
Nodes(e) == {e} \cup UNION {Nodes(e.args[i]) : i \in DOMAIN e.args}
=============================================================================
