------------------------------- MODULE Machine -------------------------------
(***************************************************************************)
(* The execution of a function of basic blocks (src/src/mir.rs), with the  *)
(* ownership of every value.  Only what MirFn::validate accepts runs.      *)
(*                                                                         *)
(* A value is a number; a slot holds the bits of one.  Copying the bits of *)
(* an owned value makes an alias, moving them empties the slot.  Dropping  *)
(* a value frees it and the values inside it.  A user function called by   *)
(* value drops what it was given; a branch goes either way.                *)
(***************************************************************************)
EXTENDS Integers, Sequences, FiniteSets

CONSTANTS
  Functions,   (* records: the body of a function, the code made of it     *)
  MaxValues    (* bound: values a function refers to at one time           *)

ASSUME MachineAssumption == MaxValues \in Nat \ {0}

VARIABLES
  prog,    \* the body
  fn,      \* the code
  blk,     \* the block under execution
  idx,     \* the statement in it; past the last one, its terminator
  slot,    \* what each local holds: a value, 0 (nothing owned) or Gone
  inside,  \* the values each value holds: the fields of a tuple, a payload
  live     \* the values that are not freed

vars == <<prog, fn, blk, idx, slot, inside, live>>

Values == 1..MaxValues
Gone == -1
-----------------------------------------------------------------------------
(* The validator.  Slot 0 is the return slot and local 1 the argument.      *)

Slots(f) == 0..f.locals

\* Operands whose place is a slot of f.
Operands(f) == [how : {"unit", "str", "copy", "move"}, local : Slots(f), part : BOOLEAN]

\* Statements and terminators, with the operands that each kind has.
Statements(f) ==
  {s \in [op : {"use", "aggregate", "drop"}, dest : Slots(f),
          args : Seq(Operands(f)), let : BOOLEAN] :
     /\ s.op = "use" => Len(s.args) = 1
     /\ s.op = "drop" => s.args = <<>>}

Targets == [goto |-> 1, if |-> 2, switch |-> 2, call |-> 1, read |-> 1, opt |-> 1,
            return |-> 0, unreachable |-> 0]

Terminators(f) ==
  {t \in [op : DOMAIN Targets, dest : Slots(f), args : Seq(Operands(f)),
          to : Seq(DOMAIN f.blocks)] :
     /\ Len(t.to) = Targets[t.op]
     /\ t.op \in {"if", "switch"} => Len(t.args) = 1
     /\ t.op = "opt" => t.args = <<>>}

\* validate: there is an entry, a return slot and the argument, and every slot
\* and block that is named anywhere exists.
Valid(f) ==
  /\ f.locals \in Nat \ {0}
  /\ f.blocks \in Seq([stmts : Seq(Statements(f)), term : Terminators(f)])
  /\ f.blocks # <<>>
-----------------------------------------------------------------------------
TypeOK ==
  /\ Valid(fn)
  /\ blk \in DOMAIN fn.blocks
  /\ idx \in 1..(Len(fn.blocks[blk].stmts) + 1)
  /\ slot \in [Slots(fn) -> Values \cup {0, Gone}]
  /\ inside \in [Values -> SUBSET Values]
  /\ live \subseteq Values

\* The caller gives up the argument.
Init ==
  /\ \E f \in Functions : Valid(f.code) /\ prog = f.body /\ fn = f.code
  /\ blk = 1
  /\ idx = 1
  /\ slot = [l \in Slots(fn) |-> IF l = 1 THEN 1 ELSE 0]
  /\ inside = [v \in Values |-> {}]
  /\ live = {1}

AtTerm == idx > Len(fn.blocks[blk].stmts)

\* The statement or terminator that is executed next.
Instr == IF AtTerm THEN fn.blocks[blk].term ELSE fn.blocks[blk].stmts[idx]

\* The first operand makes a new value.
MakesValue == Instr.args[1].how = "str"

\* The value in a slot, or the payload of the Option there.
Payload(v) == IF v \in Values /\ inside[v] # {} THEN CHOOSE w \in inside[v] : TRUE ELSE Gone
ValueOf(o) ==
  IF o.how \notin {"copy", "move"} THEN 0
  ELSE IF o.part THEN Payload(slot[o.local]) ELSE slot[o.local]

\* The values in S with all that is inside them, however deep.
ReachIn(in, S) ==
  LET within[n \in 0..MaxValues] ==
        IF n = 0 THEN S \cap Values
        ELSE LET vs == within[n - 1] IN vs \cup UNION {in[v] : v \in vs}
  IN within[MaxValues]
Reach(S) == ReachIn(inside, S)

\* The values a value owns, itself included.
Owns(v) == Reach({v})

\* Numbers nothing refers to any more, to number new values with, in order.
Unused == Values \ Reach({slot[l] : l \in DOMAIN slot})
IsNth(v, i) == Cardinality({w \in Unused : w < v}) = i - 1
Spare(i) == CHOOSE v \in Unused : IsNth(v, i)
Enough(n) == \A i \in 1..n : \E v \in Unused : IsNth(v, i)

\* The values of the operands of Instr, with new ones for its constants.
Given == {IF Instr.args[i].how = "str" THEN Spare(i) ELSE ValueOf(Instr.args[i]) :
            i \in DOMAIN Instr.args} \cap Values

\* The slots after the moves among the operands of Instr.
Moved(l) == \E i \in DOMAIN Instr.args :
              Instr.args[i].how = "move" /\ Instr.args[i].local = l
Taken == [l \in DOMAIN slot |-> IF Moved(l) THEN Gone ELSE slot[l]]

NextStmt == idx' = idx + 1 /\ UNCHANGED <<prog, fn, blk>>

\* Mutation of JumpTo: the statement counter is not reset.
JumpInto(b) == blk' = b /\ UNCHANGED <<idx, prog, fn>>

JumpTo(b) == blk' = b /\ idx' = 1 /\ UNCHANGED <<prog, fn>>

\* Values are freed with everything inside them.
Free(vs) ==
  LET dead == Reach(vs)
  IN /\ live' = live \ dead
     /\ inside' = [v \in Values |-> IF v \in dead THEN {} ELSE inside[v]]

\* dest = operand
ExecUse ==
  /\ Instr.op = "use" /\ ~MakesValue
  /\ slot' = [Taken EXCEPT ![Instr.dest] = ValueOf(Instr.args[1])]
  /\ NextStmt
  /\ UNCHANGED <<inside, live>>

\* dest = a constant that owns
ExecNew ==
  /\ Instr.op = "use" /\ MakesValue
  /\ Enough(1)
  /\ slot' = [slot EXCEPT ![Instr.dest] = Spare(1)]
  /\ live' = live \cup {Spare(1)}
  /\ inside' = [inside EXCEPT ![Spare(1)] = {}]
  /\ NextStmt

\* dest = (operands)
ExecAggregate ==
  LET v == Spare(Len(Instr.args) + 1)
  IN /\ Instr.op = "aggregate"
     /\ Enough(Len(Instr.args) + 1)
     /\ slot' = [Taken EXCEPT ![Instr.dest] = v]
     /\ live' = live \cup {v} \cup (Given \cap Unused)
     /\ inside' = [w \in Values |-> IF w = v THEN Given
                                    ELSE IF w \in Given \cap Unused THEN {} ELSE inside[w]]
     /\ NextStmt

ExecDrop ==
  /\ Instr.op = "drop"
  /\ Free({slot[Instr.dest]})
  /\ slot' = [slot EXCEPT ![Instr.dest] = Gone]
  /\ NextStmt

ExecGoto ==
  /\ Instr.op = "goto"
  /\ JumpTo(Instr.to[1])
  /\ UNCHANGED <<slot, inside, live>>

ExecIf ==
  /\ Instr.op = "if"
  /\ \E i \in 1..2 : JumpTo(Instr.to[i])
  /\ UNCHANGED <<slot, inside, live>>

\* The discriminant of an Option: it has a payload or not.  That of a slot
\* without a value is whatever the bits are.
ExecSwitch ==
  /\ Instr.op = "switch"
  /\ \E i \in 1..2 :
       LET v == ValueOf(Instr.args[1])
       IN /\ v \in Values => (i = 1 <=> inside[v] # {})
          /\ JumpTo(Instr.to[i])
  /\ UNCHANGED <<slot, inside, live>>

\* A callee drops what it takes by value, and nothing else.
ExecCall ==
  /\ Instr.op \in {"call", "read"}
  /\ IF Instr.op = "call"
     THEN Free({ValueOf(Instr.args[i]) : i \in DOMAIN Instr.args})
     ELSE UNCHANGED <<inside, live>>
  /\ slot' = [Taken EXCEPT ![Instr.dest] = 0]
  /\ JumpTo(Instr.to[1])

\* A call that returns Some(value) or None.
ExecOpt ==
  /\ Instr.op = "opt"
  /\ Enough(2)
  /\ \E payload \in {{}, {Spare(2)}} :
       /\ inside' = [inside EXCEPT ![Spare(1)] = payload, ![Spare(2)] = {}]
       /\ live' = live \cup {Spare(1)} \cup payload
  /\ slot' = [slot EXCEPT ![Instr.dest] = Spare(1)]
  /\ JumpTo(Instr.to[1])

\* return: the caller goes on.
Returned == Instr.op = "return" /\ UNCHANGED vars

Next == \/ ExecUse \/ ExecNew \/ ExecAggregate \/ ExecDrop \/ ExecGoto \/ ExecIf
        \/ ExecSwitch \/ ExecCall \/ ExecOpt \/ Returned

Spec == Init /\ [][Next]_vars
=============================================================================
