------------------------------ MODULE Ownership ------------------------------
(***************************************************************************)
(* What the execution of a function promises about who owns what, and how  *)
(* to see from its code alone that it keeps the promise.                   *)
(*                                                                         *)
(* A certificate says what is known of the slots before every statement:   *)
(* whose value they hold or are part of, which own nothing, which hold an  *)
(* Option with or without payload.  It is checked one statement at a time. *)
(* The code has no certificates; src/src/mirgen.rs decides where drops go  *)
(* by its scopes and one flat set, and a certificate of what comes out     *)
(* shows that this was right for every execution.                          *)
(***************************************************************************)
EXTENDS Machine

(* Properties *)

\* v and everything inside it is there.
Whole(v) == v \in Values /\ Owns(v) \subseteq live

Holds(l) == slot[l] \in live

\* No accepted program reads a binding after it was moved out or dropped, nor
\* a value after its owner freed it, in any order of branches and rounds.
ReadsOwned ==
  \A i \in DOMAIN Instr.args :
    LET v == ValueOf(Instr.args[i]) IN v = 0 \/ Whole(v)

\* A drop finds the value its binding owned, with all that is inside it: not
\* moved out, not freed before.
DropsOwned == Instr.op = "drop" => Whole(slot[Instr.dest])

\* Drops run in reverse declaration order: when a binding goes, no later one
\* still owns anything, other than a leak of the flat set moved.
DropsInReverse ==
  Instr.op = "drop" =>
    \A l \in fn.owned : l > Instr.dest /\ Holds(l) => l \in fn.moved

\* A let in a loop finds what its last round left behind gone, by whatever
\* jump the round ended, other than a leak of the flat set moved.
LetsFindNothing ==
  ~AtTerm /\ Instr.let /\ Holds(Instr.dest) => Instr.dest \in fn.moved

\* What a binding still owns at the return is a leak of the flat set moved: the
\* binding was moved out somewhere, on another path or earlier on this one, and
\* assigned again since.
LeaksOnlyMoved ==
  Instr.op = "return" => \A l \in fn.owned : Holds(l) => l \in fn.moved

\* Control never reaches a block that was left without a terminator, nor the
\* fall-through of an exhaustive match.
NeverUnreachable == Instr.op # "unreachable"

\* The statements and terminators of f that write slot l.
Writers(f, l) ==
  UNION {{<<b, i>> : i \in {i \in DOMAIN f.blocks[b].stmts :
                            /\ f.blocks[b].stmts[i].op # "drop"
                            /\ f.blocks[b].stmts[i].dest = l}} : b \in DOMAIN f.blocks}
  \cup {<<b, 0>> : b \in {b \in DOMAIN f.blocks :
                         f.blocks[b].term.op \in {"call", "read"} /\ f.blocks[b].term.dest = l}}

\* One path, and nothing is assigned to a second time.
Straight(f) ==
  /\ \A b \in DOMAIN f.blocks :
       f.blocks[b].term.op \in {"call", "read", "return", "unreachable"}
  /\ Writers(f, 1) = {}
  /\ \A l \in Slots(f) \ {0, 1} : Cardinality(Writers(f, l)) <= 1

\* A function with one path and no assignment leaks nothing at all: what is
\* not freed at the return is in the value returned.
StraightLeaksNothing ==
  Instr.op = "return" /\ Straight(fn) => live \subseteq Owns(slot[0])
-----------------------------------------------------------------------------
(* What is known of the slots of f at a point:                             *)
(*   root    the slot whose value owns what the slot holds, or Nobody      *)
(*   unit    slots that hold no value because there was none               *)
(*   empty   those, and the slots moved out of or dropped                  *)
(*   some, none   slots whose value, if it has a root, holds one or none   *)

Nobody == -1
IsRoot(k, l) == k.root[l] = l
Rooted(k, l) == k.root[l] # Nobody

Knowledge(f) ==
  {k \in [root : [Slots(f) -> Slots(f) \cup {Nobody}],
          unit : SUBSET Slots(f), empty : SUBSET Slots(f),
          some : SUBSET Slots(f), none : SUBSET Slots(f)] :
     \A l \in Slots(f) : Rooted(k, l) => IsRoot(k, k.root[l])}

\* It is true of the slots.  No two roots own a value in common.
Sound(k) ==
  /\ \A l \in Slots(fn) : Rooted(k, l) =>
       /\ slot[l] \in Owns(slot[k.root[l]])
       /\ l \in k.some => inside[slot[l]] # {}
       /\ l \in k.none => inside[slot[l]] = {}
  /\ \A l \in Slots(fn) : IsRoot(k, l) => Whole(slot[l])
  /\ \A l, m \in Slots(fn) :
       IsRoot(k, l) /\ IsRoot(k, m) /\ l # m => Owns(slot[l]) \cap Owns(slot[m]) = {}
  /\ \A l \in k.unit : slot[l] = 0
  /\ \A l \in k.empty : slot[l] \notin Values

\* At most what k tells.
Entails(k, known) ==
  /\ \A l \in DOMAIN k.root : Rooted(known, l) => k.root[l] = known.root[l]
  /\ known.unit \subseteq k.unit
  /\ known.empty \subseteq k.empty
  /\ known.some \subseteq k.some
  /\ known.none \subseteq k.none

\* The caller gives up the argument; no other slot was written.
AtStart(f) ==
  [root |-> [l \in Slots(f) |-> IF l = 1 THEN 1 ELSE Nobody],
   unit |-> Slots(f) \ {1}, empty |-> Slots(f) \ {1}, some |-> {}, none |-> {1}]
-----------------------------------------------------------------------------
(* One instruction. *)

Reads(o) == o.how \in {"copy", "move"}
MovedBy(i) == {o.local : o \in {i.args[n] : n \in {n \in DOMAIN i.args : i.args[n].how = "move"}}}
RootsOf(k, S) == {k.root[l] : l \in S}
ReadBy(i) == {o.local : o \in {i.args[n] : n \in {n \in DOMAIN i.args : Reads(i.args[n])}}}

\* The operand is a value that is there, or none.
Readable(k, o) ==
  Reads(o) => \/ Rooted(k, o.local) /\ (o.part => o.local \in k.some)
              \/ o.local \in k.unit /\ ~o.part

\* What i promises when k is known.
Keeps(f, k, i) ==
  /\ \A n \in DOMAIN i.args : Readable(k, i.args[n])
  /\ i.op = "drop" =>
       /\ Rooted(k, i.dest)
       /\ \A l \in f.owned \ f.moved : l > i.dest => l \in k.empty
  /\ i.op = "return" => f.owned \ f.moved \subseteq k.empty
  /\ i.op # "unreachable"

\* After a write of i.dest, whose value is now owner's.  The roots in lost no
\* longer own what they did, and i.dest has the facts of slot like, if any.
Written(k, i, owner, lost, like) ==
  LET gone == MovedBy(i) \cup {i.dest}
      Facts(S) == (S \ {i.dest}) \cup (IF like \in S THEN {i.dest} ELSE {})
  IN [root  |-> [l \in DOMAIN k.root |->
                   IF l = i.dest THEN owner
                   ELSE IF l \in gone \/ k.root[l] \in lost \cup {i.dest} THEN Nobody
                   ELSE k.root[l]],
      unit  |-> k.unit \ gone,
      empty |-> (k.empty \ {i.dest}) \cup (MovedBy(i) \ {i.dest}),
      some  |-> Facts(k.some),
      none  |-> Facts(k.none)]

\* dest owns a value of its own: a new one, or what its operands owned.
Owned(k, i, like) == Written(k, i, i.dest, RootsOf(k, ReadBy(i)), like)

\* dest has a part of what r owns, or all of it for the time being.
Borrowed(k, i, r, like) == Written(k, i, r, {}, like)

\* dest owns nothing, and lost is given up.
Emptied(k, i, lost) ==
  LET w == Written(k, i, Nobody, lost, Nobody)
  IN [w EXCEPT !.unit = IF i.op = "drop" THEN @ ELSE @ \cup {i.dest}, !.empty = @ \cup {i.dest}]

\* What a copy of l, or a part of it, may be taken for.
Copied(k, i, o) ==
  LET like == IF o.part THEN Nobody ELSE o.local
  IN (IF Rooted(k, o.local) THEN {Owned(k, i, like)} ELSE {})
     \cup (IF o.how = "copy" /\ Rooted(k, o.local) /\ k.root[o.local] # i.dest
           THEN {Borrowed(k, i, k.root[o.local], like)} ELSE {})
     \cup (IF o.local \in k.unit /\ ~o.part THEN {Emptied(k, i, {})} ELSE {})

AfterStmt(k, i) ==
  CASE i.op = "use" /\ Reads(i.args[1]) -> Copied(k, i, i.args[1])
    [] i.op = "use" /\ i.args[1].how = "unit" -> {Emptied(k, i, {})}
    [] i.op = "use" /\ i.args[1].how = "str" -> {Owned(k, i, Nobody)}
    [] i.op = "aggregate" -> {Owned(k, i, Nobody)}
    [] i.op = "drop" -> {Emptied(k, i, {k.root[i.dest]})}

\* What is known where the n-th target of i starts; a switch tells.
AfterTerm(k, i, n) ==
  CASE i.op = "call" -> Emptied(k, i, RootsOf(k, ReadBy(i)))
    [] i.op = "read" -> Emptied(k, i, RootsOf(k, MovedBy(i)))
    [] i.op = "opt" -> Owned(k, i, Nobody)
    [] i.op = "switch" /\ Reads(i.args[1]) /\ ~i.args[1].part ->
         IF n = 1 THEN [k EXCEPT !.some = @ \cup {i.args[1].local}]
                  ELSE [k EXCEPT !.none = @ \cup {i.args[1].local}]
    [] OTHER -> k

\* A switch does not go where its value is known not to lead.
Leads(k, i, n) ==
  i.op = "switch" /\ Reads(i.args[1]) /\ ~i.args[1].part /\ Rooted(k, i.args[1].local) =>
    i.args[1].local \notin (IF n = 1 THEN k.none ELSE k.some)
-----------------------------------------------------------------------------
(* No value is lost. *)

\* Roots whose value i frees, or its dest has afterwards.
HandedOver(i) ==
  IF i.op = "drop" THEN {i.dest}
  ELSE IF i.op = "read" THEN {}
  ELSE {i.args[n].local : n \in {n \in DOMAIN i.args : Reads(i.args[n]) /\ ~i.args[n].part}}

\* i leads from k to known: a root stays one or hands its value over, and what
\* dest has afterwards it is known to own.
Accounts(k, i, known) ==
  /\ \A l \in DOMAIN k.root : IsRoot(k, l) =>
       \/ IsRoot(known, l) /\ l # i.dest
       \/ l \in HandedOver(i) /\ (i.op = "use" => IsRoot(known, i.dest))
  /\ i.op = "aggregate" \/ (i.op = "use" /\ i.args[1].how = "str") => IsRoot(known, i.dest)

\* From the start, where the argument is owned, to the return.
AccountsFor(c, f) ==
  /\ IsRoot(c[1][1], 1)
  /\ \A b \in DOMAIN c :
       LET stmts == f.blocks[b].stmts
           term  == f.blocks[b].term
           last  == c[b][Len(stmts) + 1]
       IN /\ \A i \in DOMAIN stmts : Accounts(c[b][i], stmts[i], c[b][i + 1])
          /\ \A n \in DOMAIN term.to : Accounts(last, term, c[term.to[n]][1])
          /\ term.op = "return" => \A l \in Slots(f) : IsRoot(last, l) => l = 0
-----------------------------------------------------------------------------
\* c tells, for the blocks of f that are reached, what is known before each
\* statement and before the terminator.
Certifies(c, f) ==
  /\ DOMAIN c \subseteq DOMAIN f.blocks
  /\ 1 \in DOMAIN c /\ Entails(AtStart(f), c[1][1])
  /\ \A b \in DOMAIN c :
       LET stmts == f.blocks[b].stmts
           term  == f.blocks[b].term
           last  == c[b][Len(stmts) + 1]
       IN /\ c[b] \in [1..(Len(stmts) + 1) -> Knowledge(f)]
          /\ \A i \in DOMAIN stmts :
               /\ Keeps(f, c[b][i], stmts[i])
               /\ stmts[i].let => stmts[i].dest \in f.moved \cup c[b][i].empty
               /\ \E k \in AfterStmt(c[b][i], stmts[i]) : Entails(k, c[b][i + 1])
          /\ Keeps(f, last, term)
          /\ \A n \in DOMAIN term.to :
               Leads(last, term, n) =>
                 /\ term.to[n] \in DOMAIN c
                 /\ Entails(AfterTerm(last, term, n), c[term.to[n]][1])
  /\ Straight(f) => AccountsFor(c, f)
=============================================================================
