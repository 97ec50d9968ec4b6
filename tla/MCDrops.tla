------------------------------- MODULE MCDrops -------------------------------
(***************************************************************************)
(* Instances of Drops for TLC: all function bodies of the form             *)
(*     one statement or none, one compound, one statement or none, tail    *)
(* over the statements below, as far as names resolve.                     *)
(***************************************************************************)
EXTENDS Drops, Inference

x == Var("x")
y == Var("y")
z == Var("z")

Opaque == Read(<<>>)          \* a condition, or a statement without effect

Simple == {Let("y", New), Let("y", x), Assign("x", New), Assign("x", y),
           Call(<<x>>), Call(<<y>>), Read(<<x>>), Read(<<y>>)}
Leave == {Break(<<>>), Continue, Return(<<>>)}

\* The sequences of at most two of S.
UpToTwo(S) == {<<>>} \cup {<<s>> : s \in S} \cup {<<s, t>> : s \in S, t \in S}

Escape == If(Opaque, Block(<<Return(<<>>)>>), Block(<<>>))

\* Arms of at most one statement, and loops left on one path.
Arms == {Block(<<>>)} \cup {Block(<<s>>) : s \in Simple \cup {Return(<<x>>)}}
Ifs == {If(Opaque, a, b) : a \in Arms, b \in Arms}
Jumps == {If(Opaque, Block(<<j>>), Block(<<>>)) : j \in Leave}
         \cup {If(Opaque, Block(<<Call(<<v>>), j>>), Block(<<>>)) :
                 v \in {x, y}, j \in Leave}
Bodies == {Block(ss) : ss \in UpToTwo(Simple \cup Jumps \cup {Break(<<>>)})}
Loops == {Loop(b) : b \in Bodies}
Shorter == {Block(<<Let("y", New), s>>) : s \in Simple \cup Jumps \cup {Break(<<>>)}}
           \cup {Block(<<s, t>>) : s \in Jumps, t \in Simple} \cup {Block(<<Break(<<x>>)>>)}
Fors == {For(b) : b \in Shorter}
Whiles == {While(c, b) : c \in {Opaque, Call(<<x>>)}, b \in Shorter}
Nested == {Block(<<Let("y", New), Loop(Block(<<Let("z", New), s>>))>>) :
             s \in Jumps \cup {Break(<<>>), Call(<<z>>)}}
Blocks == {Block(ss) : ss \in UpToTwo(Simple \cup {Escape}) \cup {<<Break(<<>>)>>}}

WhileLets == {WhileLet("z", Opt, Block(ss)) : ss \in
                UpToTwo(Jumps \cup {Call(<<z>>), Read(<<z>>), Call(<<x>>), Let("y", z)})}

\* A value that comes out of a branch or a loop.
Results == {Let("y", e) : e \in
              {If(Opaque, Value(<<a>>), Value(<<b>>)) : a \in {New, x}, b \in {New, x}}
              \cup {Loop(Block(<<Let("z", New), Break(<<v>>)>>)) : v \in {New, x, z}}
              \cup {Tuple(<<a>>) : a \in {New, x}} \cup {Try(Opt)}}

Matches == {Block(<<Let("y", Opt), Match(y, "z", a, b)>>) :
              a \in {Block(<<>>), Block(<<Read(<<z>>)>>), Block(<<Call(<<z>>)>>),
                     Block(<<Read(<<z>>), Return(<<>>)>>), Block(<<Call(<<x>>)>>)},
              b \in {Block(<<>>), Block(<<Call(<<x>>)>>), Block(<<Return(<<>>)>>)}}
           \cup {Let("y", Match(Opt, "z", v, Value(<<New>>))) : v \in {z, New}}

Compounds == Ifs \cup Loops \cup Whiles \cup Fors \cup WhileLets \cup Nested \cup Blocks \cup Results \cup Matches

Bodied(first, c, second, tail) ==
  LET ss == first \o <<c>> \o second
  IN IF tail THEN Value(Append(ss, x)) ELSE Block(ss)

All == {Bodied(f, c, s, t) :
          f \in {<<>>, <<Let("y", New)>>, <<Let("y", x)>>}, c \in Compounds,
          s \in {<<>>, <<Call(<<x>>)>>, <<Read(<<x>>)>>, <<Read(<<y>>)>>},
          t \in BOOLEAN}

PlainFunctions == {c \in Compiled(All) : Plain(c.body)}

\* The functions of one loop, and of one match for its value.
LoopFunctions == Compiled({Block(<<l>>) : l \in Loops})
ArmFunctions == Compiled({Block(<<Let("y", Match(Opt, "z", a, b))>>) :
                            a \in {New, x, z}, b \in {New, x}})

\* The validator refuses nothing that the lowering hands on.
ASSUME NothingSkipped == \A f \in Functions : Valid(f.code)
=============================================================================
