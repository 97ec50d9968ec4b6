--------------------------- MODULE OwnershipProofs ----------------------------
(***************************************************************************)
(* Proofs about Machine and Ownership: execution stays within the blocks   *)
(* and slots of the function, for any function the validator accepts, and  *)
(* one that has a certificate keeps the promises, whatever its branches    *)
(* and callees do, for any number of blocks, slots and values.             *)
(***************************************************************************)
EXTENDS Ownership, Recursion

Slotted == Values \cup {0, Gone}

\* The blocks of a valid function are made of valid instructions.
LEMMA BlocksAreValid ==
  ASSUME Valid(fn), NEW b \in DOMAIN fn.blocks
  PROVE  fn.blocks[b] \in [stmts : Seq(Statements(fn)), term : Terminators(fn)]
<1> DEFINE Blocks == [stmts : Seq(Statements(fn)), term : Terminators(fn)]
<1>1. fn.blocks \in Seq(Blocks)
  BY DEF Valid
<1> HIDE DEF Blocks
<1>2. fn.blocks[b] \in Blocks
  BY <1>1
<1> QED
  BY <1>2 DEF Blocks

\* What is executed next is a statement of the function while there is one in
\* the block, then its terminator.
LEMMA InstrIsValid ==
  ASSUME TypeOK
  PROVE  /\ ~AtTerm => /\ Instr \in Statements(fn)
                       /\ idx + 1 \in 1..(Len(fn.blocks[blk].stmts) + 1)
         /\ AtTerm => Instr \in Terminators(fn)
<1> DEFINE block == fn.blocks[blk]
<1>1. block \in [stmts : Seq(Statements(fn)), term : Terminators(fn)]
  BY BlocksAreValid DEF TypeOK
<1>2. block.stmts \in Seq(Statements(fn)) /\ block.term \in Terminators(fn)
  BY <1>1
<1>3. Len(block.stmts) \in Nat /\ DOMAIN block.stmts = 1..Len(block.stmts)
  BY <1>2
<1>4. idx \in Int /\ idx >= 1
  BY <1>3 DEF TypeOK
<1>5. ASSUME ~AtTerm
      PROVE  /\ Instr \in Statements(fn)
             /\ idx + 1 \in 1..(Len(block.stmts) + 1)
  <2>1. idx \in 1..Len(block.stmts)
    BY <1>3, <1>4, <1>5 DEF AtTerm
  <2>2. block.stmts[idx] \in Statements(fn)
    BY <1>2, <2>1
  <2> QED
    BY <1>3, <1>5, <2>1, <2>2 DEF Instr
<1> QED
  BY <1>2, <1>5 DEF Instr

\* The kind of an instruction tells whether it is a statement.
LEMMA KindTells ==
  ASSUME TypeOK
  PROVE  /\ Instr.op \in {"use", "aggregate", "drop"} => ~AtTerm
         /\ Instr.op \notin {"use", "aggregate", "drop"} => AtTerm
<1>1. ASSUME ~AtTerm PROVE Instr.op \in {"use", "aggregate", "drop"}
  BY <1>1, InstrIsValid DEF Statements
<1>2. ASSUME AtTerm PROVE Instr.op \in DOMAIN Targets
  BY <1>2, InstrIsValid DEF Terminators
<1>3. DOMAIN Targets =
        {"goto", "if", "switch", "call", "read", "opt", "return", "unreachable"}
  BY DEF Targets
<1> QED
  BY <1>1, <1>2, <1>3

\* Every instruction writes a slot of the function and reads its slots.
LEMMA InstrFields ==
  ASSUME TypeOK
  PROVE  Instr.dest \in Slots(fn) /\ Instr.args \in Seq(Operands(fn))
<1>1. CASE AtTerm
  BY <1>1, InstrIsValid DEF Terminators
<1>2. CASE ~AtTerm
  BY <1>2, InstrIsValid DEF Statements
<1> QED
  BY <1>1, <1>2

\* The blocks a terminator names exist.
LEMMA TargetsExist ==
  ASSUME TypeOK, AtTerm, NEW i \in 1..Targets[Instr.op]
  PROVE  Instr.to[i] \in DOMAIN fn.blocks
<1>1. Instr.to \in Seq(DOMAIN fn.blocks) /\ Len(Instr.to) = Targets[Instr.op]
  BY InstrIsValid DEF Terminators
<1>2. i \in 1..Len(Instr.to)
  BY <1>1
<1>3. i \in DOMAIN Instr.to
  BY <1>1, <1>2
<1> QED
  BY <1>1, <1>3

\* An operand reads a value, nothing owned, or what is gone.
LEMMA OperandReads ==
  ASSUME TypeOK, NEW o \in Operands(fn)
  PROVE  ValueOf(o) \in Slotted
<1>1. o.local \in Slots(fn)
  BY DEF Operands
<1>2. slot[o.local] \in Slotted
  BY <1>1 DEF TypeOK, Slotted
<1>3. ASSUME NEW v, v \in Values, inside[v] # {}
      PROVE  (CHOOSE w \in inside[v] : TRUE) \in Values
  <2>1. inside[v] \subseteq Values
    BY <1>3 DEF TypeOK
  <2>2. (CHOOSE w \in inside[v] : TRUE) \in inside[v]
    BY <1>3
  <2> QED
    BY <2>1, <2>2
<1>4. Payload(slot[o.local]) \in Slotted
  BY <1>3 DEF Payload, Slotted
<1> QED
  BY <1>2, <1>4 DEF ValueOf, Slotted

LEMMA FirstOperand ==
  ASSUME TypeOK, Len(Instr.args) = 1
  PROVE  Instr.args[1] \in Operands(fn)
<1>1. Instr.args \in Seq(Operands(fn))
  BY InstrFields
<1> QED
  BY <1>1

\* While there are numbers left, new values are numbers nothing refers to.
LEMMA SpareIsUnused ==
  ASSUME NEW n \in Nat, Enough(n), NEW i \in 1..n
  PROVE  Spare(i) \in Unused /\ Spare(i) \in Values
<1>1. PICK v \in Unused : IsNth(v, i)
  BY DEF Enough
<1>2. Spare(i) \in Unused
  BY <1>1 DEF Spare
<1> QED
  BY <1>2 DEF Unused

\* The moves among the operands leave every slot well formed.
LEMMA TakenIsSlotted ==
  ASSUME TypeOK
  PROVE  Taken \in [Slots(fn) -> Slotted]
BY DEF TypeOK, Taken, Slotted

\* Freeing takes values away, from what is live and from what holds them.
LEMMA FreeKeepsTypes ==
  ASSUME TypeOK, NEW vs, Free(vs)
  PROVE  inside' \in [Values -> SUBSET Values] /\ live' \subseteq Values
BY DEF TypeOK, Free

\* A statement hands on to the next of its block, or to the terminator.
LEMMA NextStmtStays ==
  ASSUME TypeOK, Instr.op \in {"use", "aggregate", "drop"}, NextStmt
  PROVE  /\ Valid(fn') /\ blk' \in DOMAIN fn'.blocks
         /\ idx' \in 1..(Len(fn'.blocks[blk'].stmts) + 1)
         /\ fn' = fn
<1>1. ~AtTerm
  BY KindTells
<1>2. fn' = fn /\ blk' = blk /\ idx' = idx + 1
  BY DEF NextStmt
<1> QED
  BY <1>1, <1>2, InstrIsValid DEF TypeOK

\* A jump to a block that exists starts at its first statement.
LEMMA JumpStays ==
  ASSUME TypeOK, NEW b \in DOMAIN fn.blocks, JumpTo(b)
  PROVE  /\ Valid(fn') /\ blk' \in DOMAIN fn'.blocks
         /\ idx' \in 1..(Len(fn'.blocks[blk'].stmts) + 1)
         /\ fn' = fn
<1>1. fn' = fn /\ blk' = b /\ idx' = 1
  BY DEF JumpTo
<1>2. fn.blocks[b] \in [stmts : Seq(Statements(fn)), term : Terminators(fn)]
  BY BlocksAreValid DEF TypeOK
<1>3. Len(fn.blocks[b].stmts) \in Nat
  BY <1>2
<1>4. 1 \in 1..(Len(fn.blocks[b].stmts) + 1)
  BY <1>3
<1>5. idx' \in 1..(Len(fn'.blocks[blk'].stmts) + 1)
  BY <1>1, <1>4
<1>6. Valid(fn)
  BY DEF TypeOK
<1> QED
  BY <1>1, <1>5, <1>6
-----------------------------------------------------------------------------
\* A function the validator accepts is executed within its blocks and its
\* slots, whatever it does with its values: no jump, statement counter, slot or
\* value is ever out of range (Machine.TypeOK, for MirFn::validate).
THEOREM ValidStaysInside == Spec => []TypeOK
<1> USE MachineAssumption
<1>1. Init => TypeOK
  <2> SUFFICES ASSUME Init PROVE TypeOK
    OBVIOUS
  <2>1. Valid(fn)
    BY DEF Init
  <2>2. fn.blocks \in Seq([stmts : Seq(Statements(fn)), term : Terminators(fn)])
        /\ fn.blocks # <<>>
    BY <2>1 DEF Valid
  <2>3. 1 \in DOMAIN fn.blocks
    BY <2>2
  <2>4. Len(fn.blocks[1].stmts) \in Nat
    BY <2>2, <2>3
  <2>5. 1 \in Values
    BY DEF Values
  <2>6. slot \in [Slots(fn) -> Slotted] /\ live \subseteq Values
    BY <2>5 DEF Init, Slotted
  <2>7. inside \in [Values -> SUBSET Values]
    BY DEF Init
  <2>8. blk \in DOMAIN fn.blocks /\ idx \in 1..(Len(fn.blocks[blk].stmts) + 1)
    BY <2>3, <2>4 DEF Init
  <2> QED
    BY <2>1, <2>6, <2>7, <2>8 DEF TypeOK, Slotted
<1>2. TypeOK /\ [Next]_vars => TypeOK'
  <2> SUFFICES ASSUME TypeOK, [Next]_vars PROVE TypeOK'
    OBVIOUS
  <2> DEFINE ControlOK == /\ Valid(fn') /\ blk' \in DOMAIN fn'.blocks
                          /\ idx' \in 1..(Len(fn'.blocks[blk'].stmts) + 1)
                          /\ fn' = fn
             DataOK    == /\ slot' \in [Slots(fn) -> Slotted]
                          /\ inside' \in [Values -> SUBSET Values]
                          /\ live' \subseteq Values
  <2>0. ASSUME ControlOK, DataOK PROVE TypeOK'
    BY <2>0 DEF TypeOK, Slotted, Values, Gone, Slots
  <2>a. slot \in [Slots(fn) -> Slotted] /\ inside \in [Values -> SUBSET Values]
        /\ live \subseteq Values
    BY DEF TypeOK, Slotted
  <2>b. Instr.dest \in Slots(fn) /\ Instr.args \in Seq(Operands(fn))
    BY InstrFields
  <2>c. Taken \in [Slots(fn) -> Slotted]
    BY TakenIsSlotted
  <2>d. Len(Instr.args) \in Nat
    BY <2>b
  <2>1. CASE ExecUse
    <3>1. Len(Instr.args) = 1
      <4>1. Instr.op = "use" /\ ~AtTerm
        BY <2>1, KindTells DEF ExecUse
      <4> QED
        BY <4>1, InstrIsValid DEF Statements
    <3>2. ValueOf(Instr.args[1]) \in Slotted
      BY <3>1, FirstOperand, OperandReads
    <3>3. DataOK
      BY <2>1, <2>a, <2>b, <2>c, <3>2 DEF ExecUse
    <3> QED
      BY <2>0, <2>1, <3>3, NextStmtStays DEF ExecUse
  <2>2. CASE ExecNew
    <3>1. Spare(1) \in Values
      BY <2>2, SpareIsUnused DEF ExecNew
    <3>2. DataOK
      BY <2>2, <2>a, <2>b, <3>1 DEF ExecNew, Slotted
    <3> QED
      BY <2>0, <2>2, <3>2, NextStmtStays DEF ExecNew
  <2>3. CASE ExecAggregate
    <3> DEFINE n == Len(Instr.args) + 1
    <3>1. n \in Nat /\ n \in 1..n
      BY <2>d
    <3>2. Spare(n) \in Values
      BY <2>3, <3>1, SpareIsUnused DEF ExecAggregate
    <3>3. Given \subseteq Values
      BY DEF Given
    <3>4. DataOK
      BY <2>3, <2>a, <2>b, <2>c, <3>2, <3>3 DEF ExecAggregate, Slotted
    <3> QED
      BY <2>0, <2>3, <3>4, NextStmtStays DEF ExecAggregate
  <2>4. CASE ExecDrop
    <3>1. DataOK
      BY <2>4, <2>a, <2>b, FreeKeepsTypes DEF ExecDrop, Slotted
    <3> QED
      BY <2>0, <2>4, <3>1, NextStmtStays DEF ExecDrop
  <2>5. CASE ExecGoto
    <3>1. AtTerm /\ 1 \in 1..Targets[Instr.op]
      BY <2>5, KindTells DEF ExecGoto, Targets
    <3>2. Instr.to[1] \in DOMAIN fn.blocks
      BY <3>1, TargetsExist
    <3>3. ControlOK
      BY <2>5, <3>2, JumpStays DEF ExecGoto
    <3> QED
      BY <2>0, <2>5, <2>a, <3>3 DEF ExecGoto
  <2>6. CASE ExecIf
    <3>1. PICK i \in 1..2 : JumpTo(Instr.to[i])
      BY <2>6 DEF ExecIf
    <3>2. AtTerm /\ i \in 1..Targets[Instr.op]
      BY <2>6, KindTells DEF ExecIf, Targets
    <3>3. ControlOK
      BY <3>1, <3>2, TargetsExist, JumpStays
    <3> QED
      BY <2>0, <2>6, <2>a, <3>3 DEF ExecIf
  <2>7. CASE ExecSwitch
    <3>1. PICK i \in 1..2 : JumpTo(Instr.to[i])
      BY <2>7 DEF ExecSwitch
    <3>2. AtTerm /\ i \in 1..Targets[Instr.op]
      BY <2>7, KindTells DEF ExecSwitch, Targets
    <3>3. ControlOK
      BY <3>1, <3>2, TargetsExist, JumpStays
    <3> QED
      BY <2>0, <2>7, <2>a, <3>3 DEF ExecSwitch
  <2>8. CASE ExecCall
    <3>1. AtTerm /\ 1 \in 1..Targets[Instr.op]
      BY <2>8, KindTells DEF ExecCall, Targets
    <3>2. ControlOK
      BY <2>8, <3>1, TargetsExist, JumpStays DEF ExecCall
    <3>3. inside' \in [Values -> SUBSET Values] /\ live' \subseteq Values
      BY <2>8, <2>a, FreeKeepsTypes DEF ExecCall
    <3>4. slot' \in [Slots(fn) -> Slotted]
      BY <2>8, <2>b, <2>c DEF ExecCall, Slotted
    <3> QED
      BY <2>0, <3>2, <3>3, <3>4
  <2>9. CASE ExecOpt
    <3>1. AtTerm /\ 1 \in 1..Targets[Instr.op]
      BY <2>9, KindTells DEF ExecOpt, Targets
    <3>2. ControlOK
      BY <2>9, <3>1, TargetsExist, JumpStays DEF ExecOpt
    <3>3. Spare(1) \in Values /\ Spare(2) \in Values
      BY <2>9, SpareIsUnused DEF ExecOpt
    <3>4. PICK payload \in {{}, {Spare(2)}} :
            /\ inside' = [inside EXCEPT ![Spare(1)] = payload, ![Spare(2)] = {}]
            /\ live' = live \cup {Spare(1)} \cup payload
      BY <2>9 DEF ExecOpt
    <3>5. payload \subseteq Values
      BY <3>3, <3>4
    <3>6. inside' \in [Values -> SUBSET Values] /\ live' \subseteq Values
      BY <2>a, <3>3, <3>4, <3>5
    <3>7. slot' \in [Slots(fn) -> Slotted]
      BY <2>9, <2>a, <2>b, <3>3 DEF ExecOpt, Slotted
    <3> QED
      BY <2>0, <3>2, <3>6, <3>7
  <2>10. CASE UNCHANGED vars
    BY <2>10 DEF TypeOK, vars, Slots, Values, Gone
  <2>11. CASE Returned
    BY <2>10, <2>11 DEF Returned
  <2> QED
    BY <2>1, <2>2, <2>3, <2>4, <2>5, <2>6, <2>7, <2>8, <2>9, <2>10, <2>11 DEF Next
<1> QED
  BY <1>1, <1>2, PTL DEF Spec
-----------------------------------------------------------------------------
(* What is inside what. *)

Insides == [Values -> SUBSET Values]
ClosedIn(in, C) == \A v \in C : in[v] \subseteq C
Wider(in, vs) == vs \cup UNION {in[v] : v \in vs}

\* The rounds of ReachIn, unfolded.
LEMMA RoundsAre ==
  ASSUME NEW in \in Insides, NEW S
  PROVE  \E w \in [0..MaxValues -> SUBSET Values] :
           /\ w[0] = S \cap Values
           /\ \A i \in 1..MaxValues : w[i] = Wider(in, w[i - 1])
           /\ ReachIn(in, S) = w[MaxValues]
<1> USE MachineAssumption
<1> DEFINE n == MaxValues
           V == SUBSET Values
           step == [i \in 1..n |-> [vs \in V |-> Wider(in, vs)]]
           Is(g) == g = [i \in 0..n |-> IF i = 0 THEN S \cap Values
                                        ELSE LET vs == g[i - 1] IN vs \cup UNION {in[v] : v \in vs}]
<1>1. \A vs \in V : Wider(in, vs) \in V
  BY DEF Insides, Wider
<1>2. step \in [1..n -> [V -> V]]
  BY <1>1
<1>3. S \cap Values \in V /\ n \in Nat
  OBVIOUS
<1>4. PICK f \in [0..n -> V] : f = [i \in 0..n |-> IF i = 0 THEN S \cap Values ELSE step[i][f[i - 1]]]
  <2> HIDE DEF step, V
  <2>1. \E f \in [0..n -> V] : Iterates(f, S \cap Values, n, step)
    BY <1>2, <1>3, LoopHasStates
  <2> QED
    BY <2>1 DEF Iterates
<1>5. ASSUME NEW i \in 0..n, i # 0
      PROVE  step[i][f[i - 1]] = Wider(in, f[i - 1])
  <2>1. i \in 1..n /\ i - 1 \in 0..n
    BY <1>5
  <2>2. f[i - 1] \in V
    BY <2>1
  <2> QED
    BY <2>1, <2>2
<1>6. Is(f)
  <2> HIDE DEF step
  <2>1. \A i \in 0..n : (IF i = 0 THEN S \cap Values ELSE step[i][f[i - 1]])
                        = IF i = 0 THEN S \cap Values ELSE Wider(in, f[i - 1])
    BY <1>5
  <2>2. f = [i \in 0..n |-> IF i = 0 THEN S \cap Values ELSE Wider(in, f[i - 1])]
    BY <1>4, <2>1
  <2> QED
    BY <2>2 DEF Wider
<1> DEFINE w == CHOOSE g : Is(g)
<1>7. Is(w)
  BY <1>6
<1>8. ReachIn(in, S) = w[n]
  BY DEF ReachIn
<1> HIDE DEF w
<1>9. w = [i \in 0..n |-> IF i = 0 THEN S \cap Values ELSE Wider(in, w[i - 1])]
  BY <1>7 DEF Wider
<1> HIDE DEF Is
<1>10. w[0] = S \cap Values /\ \A i \in 1..n : w[i] = Wider(in, w[i - 1])
  <2>1. 0 \in 0..n /\ \A i \in 1..n : i \in 0..n /\ i # 0
    BY <1>3
  <2>2. \A i \in 0..n : w[i] = IF i = 0 THEN S \cap Values ELSE Wider(in, w[i - 1])
    BY <1>9
  <2> QED
    BY <2>1, <2>2
<1>11. \A i \in 0..n : w[i] \in V
  <2> DEFINE K == {i \in Nat : i <= n => w[i] \in V}
  <2>1. 0 \in K
    BY <1>10
  <2>2. ASSUME NEW i \in Nat, i \in K PROVE i + 1 \in K
    <3> SUFFICES ASSUME i + 1 <= n PROVE w[i + 1] \in V
      OBVIOUS
    <3>1. i + 1 \in 1..n /\ (i + 1) - 1 = i /\ w[i] \in V
      BY <1>3, <2>2
    <3> QED
      BY <1>1, <1>10, <3>1
  <2> HIDE DEF K
  <2>3. Nat \subseteq K
    BY <2>1, <2>2, Induction
  <2> QED
    BY <2>3 DEF K
<1>12. w \in [0..n -> V]
  <2>1. DOMAIN w = 0..n /\ w = [i \in 0..n |-> w[i]]
    BY <1>9
  <2> QED
    BY <1>11, <2>1
<1> QED
  BY <1>8, <1>10, <1>12

\* What is reached: it is closed under what is inside, and the least such set.
LEMMA ReachIs ==
  ASSUME NEW in \in Insides, NEW S
  PROVE  /\ ReachIn(in, S) \subseteq Values
         /\ S \cap Values \subseteq ReachIn(in, S)
         /\ ClosedIn(in, ReachIn(in, S))
         /\ \A C : S \cap Values \subseteq C /\ ClosedIn(in, C) => ReachIn(in, S) \subseteq C
<1> USE MachineAssumption
<1> DEFINE n == MaxValues
<1>1. PICK w \in [0..n -> SUBSET Values] :
        /\ w[0] = S \cap Values
        /\ \A i \in 1..n : w[i] = Wider(in, w[i - 1])
        /\ ReachIn(in, S) = w[n]
  BY RoundsAre
<1>0. n \in Nat /\ n \in 0..n /\ w \in [0..n -> SUBSET Values]
  OBVIOUS
<1> DEFINE step == [vs \in SUBSET Values |-> Wider(in, vs)]
<1>2. step \in [SUBSET Values -> SUBSET Values]
  BY DEF Insides, Wider
<1>3. \A vs \in SUBSET Values : step[vs] = Wider(in, vs)
  OBVIOUS
<1> HIDE DEF step
<1>4. AreRounds(w, n, step)
  <2>1. \A i \in 1..n : i - 1 \in 0..n
    BY <1>0
  <2>2. \A i \in 1..n : w[i] = step[w[i - 1]]
    BY <1>1, <1>3, <2>1
  <2> QED
    BY <2>2 DEF AreRounds
<1>5. OnlyAdds(step, Values)
  BY <1>3 DEF OnlyAdds, Wider
<1> HIDE DEF n
<1>6. w[n] \subseteq Values
  BY <1>0
<1>7. S \cap Values \subseteq w[n]
  <2>1. w[0] \subseteq w[n]
    BY <1>0, <1>2, <1>4, <1>5, RoundsGrow
  <2> QED
    BY <1>1, <2>1
<1>8. ASSUME NEW C, S \cap Values \subseteq C, ClosedIn(in, C)
      PROVE  w[n] \subseteq C
  <2>1. StaysIn(step, Values, C)
    BY <1>3, <1>8 DEF StaysIn, Wider, ClosedIn
  <2>2. w[0] \subseteq C
    BY <1>1, <1>8
  <2> QED
    BY <1>0, <1>2, <1>4, <2>1, <2>2, RoundsStayIn
<1>9. ClosedIn(in, w[n])
  <2>1. IsFiniteSet(Values) /\ Cardinality(Values) = n
    BY <1>0, FS_Interval DEF Values, n
  <2>2. step[w[n]] = w[n]
    BY <1>0, <1>2, <1>4, <1>5, <2>1, RoundsSettle
  <2> QED
    BY <1>3, <1>6, <2>2 DEF ClosedIn, Wider
<1> QED
  BY <1>1, <1>6, <1>7, <1>8, <1>9 DEF n

\* v and all that is inside it.
OwnsIn(in, v) == ReachIn(in, {v})

LEMMA OwnsIs ==
  ASSUME NEW in \in Insides, NEW v
  PROVE  /\ OwnsIn(in, v) \subseteq Values
         /\ v \in Values => v \in OwnsIn(in, v)
         /\ v \notin Values => OwnsIn(in, v) = {}
         /\ ClosedIn(in, OwnsIn(in, v))
         /\ \A C : ClosedIn(in, C) /\ v \in C => OwnsIn(in, v) \subseteq C
<1>1. v \notin Values => {v} \cap Values \subseteq {} /\ ClosedIn(in, {})
  BY DEF ClosedIn
<1> QED
  BY <1>1, ReachIs DEF OwnsIn

\* What is inside a value owns no more than the value does.
LEMMA PartsOwnLess ==
  ASSUME NEW in \in Insides, NEW v, NEW w \in OwnsIn(in, v)
  PROVE  OwnsIn(in, w) \subseteq OwnsIn(in, v)
BY OwnsIs

\* What several values reach is what each of them owns.
LEMMA ReachSplits ==
  ASSUME NEW in \in Insides, NEW S, NEW x \in ReachIn(in, S)
  PROVE  \E v \in S \cap Values : x \in OwnsIn(in, v)
<1> DEFINE C == UNION {OwnsIn(in, v) : v \in S \cap Values}
<1>1. S \cap Values \subseteq C
  BY OwnsIs
<1>2. ClosedIn(in, C)
  <2> SUFFICES ASSUME NEW v \in S \cap Values, NEW u \in OwnsIn(in, v)
               PROVE  in[u] \subseteq C
    BY DEF ClosedIn
  <2>1. in[u] \subseteq OwnsIn(in, v)
    BY OwnsIs DEF ClosedIn
  <2> QED
    BY <2>1
<1>3. ReachIn(in, S) \subseteq C
  BY <1>1, <1>2, ReachIs
<1> QED
  BY <1>3

\* A set reaches what each of its members owns.
LEMMA ReachHasAll ==
  ASSUME NEW in \in Insides, NEW S, NEW v \in S
  PROVE  OwnsIn(in, v) \subseteq ReachIn(in, S)
<1>1. CASE v \in Values
  <2>1. v \in ReachIn(in, S) /\ ClosedIn(in, ReachIn(in, S))
    BY <1>1, ReachIs
  <2> QED
    BY <2>1, OwnsIs
<1>2. CASE v \notin Values
  BY <1>2, OwnsIs
<1> QED
  BY <1>1, <1>2

\* A value owns the same while nothing that it owns changes.
LEMMA OwnsTheSame ==
  ASSUME NEW in \in Insides, NEW in2 \in Insides, NEW v,
         \A u \in OwnsIn(in, v) : in2[u] = in[u]
  PROVE  OwnsIn(in2, v) = OwnsIn(in, v)
<1>1. CASE v \notin Values
  BY <1>1, OwnsIs
<1>2. CASE v \in Values
  <2>1. ClosedIn(in2, OwnsIn(in, v)) /\ v \in OwnsIn(in, v)
    BY <1>2, OwnsIs DEF ClosedIn
  <2>2. OwnsIn(in2, v) \subseteq OwnsIn(in, v)
    BY <2>1, OwnsIs
  <2>3. ClosedIn(in2, OwnsIn(in2, v)) /\ v \in OwnsIn(in2, v)
    BY <1>2, OwnsIs
  <2>4. ClosedIn(in, OwnsIn(in2, v))
    BY <2>2, <2>3 DEF ClosedIn
  <2>5. OwnsIn(in, v) \subseteq OwnsIn(in2, v)
    BY <2>3, <2>4, OwnsIs
  <2> QED
    BY <2>2, <2>5
<1> QED
  BY <1>1, <1>2
-----------------------------------------------------------------------------
(* Knowledge stays true. *)

\* Sound, of any slots and values.
SoundOf(k, f, s, in, lv) ==
  /\ \A l \in Slots(f) : Rooted(k, l) =>
       /\ s[l] \in OwnsIn(in, s[k.root[l]])
       /\ l \in k.some => in[s[l]] # {}
       /\ l \in k.none => in[s[l]] = {}
  /\ \A l \in Slots(f) : IsRoot(k, l) => s[l] \in Values /\ OwnsIn(in, s[l]) \subseteq lv
  /\ \A l, m \in Slots(f) :
       IsRoot(k, l) /\ IsRoot(k, m) /\ l # m => OwnsIn(in, s[l]) \cap OwnsIn(in, s[m]) = {}
  /\ \A l \in k.unit : s[l] = 0
  /\ \A l \in k.empty : s[l] \notin Values

LEMMA SoundIs ==
  ASSUME NEW k
  PROVE  Sound(k) <=> SoundOf(k, fn, slot, inside, live)
BY DEF Sound, SoundOf, Whole, Owns, OwnsIn, Reach

\* What is entailed by what is true is true.
LEMMA EntailedIsSound ==
  ASSUME NEW f, NEW k, NEW known \in Knowledge(f), NEW s, NEW in, NEW lv,
         DOMAIN k.root = Slots(f), Entails(k, known), SoundOf(k, f, s, in, lv)
  PROVE  SoundOf(known, f, s, in, lv)
<1>1. \A l \in Slots(f) : Rooted(known, l) => /\ k.root[l] = known.root[l]
                                             /\ known.root[l] \in Slots(f)
  BY DEF Entails, Knowledge, Rooted
<1>2. \A l \in Slots(f) : Rooted(known, l) => Rooted(k, l)
  BY <1>1 DEF Rooted
<1>3. Nobody \notin Slots(f)
  BY DEF Nobody, Slots
<1>4. \A l \in Slots(f) : IsRoot(known, l) => IsRoot(k, l)
  BY <1>1, <1>3 DEF IsRoot, Rooted
<1>5. known.some \subseteq k.some /\ known.none \subseteq k.none
      /\ known.unit \subseteq k.unit /\ known.empty \subseteq k.empty
  BY DEF Entails
<1> HIDE DEF Entails
<1> QED
  BY <1>1, <1>2, <1>4, <1>5 DEF SoundOf

\* A write keeps what is known of all but the written slot, what was moved and
\* the roots given up, if it leaves the values of the other roots alone.
LEMMA WrittenIsSound ==
  ASSUME NEW f, NEW k \in Knowledge(f), NEW i, i.dest \in Slots(f),
         NEW owner, NEW lost, NEW like,
         NEW s, NEW in \in Insides, NEW lv, SoundOf(k, f, s, in, lv),
         NEW s2, NEW in2 \in Insides, NEW lv2,
         \A l \in Slots(f) \ (MovedBy(i) \cup {i.dest}) : s2[l] = s[l],
         \A l \in MovedBy(i) \ {i.dest} : s2[l] = Gone,
         \A l \in MovedBy(i) \cap Slots(f) : IsRoot(k, l) => l \in lost \cup {i.dest},
         \A m \in Slots(f) \ (lost \cup {i.dest}) : IsRoot(k, m) =>
            \A v \in OwnsIn(in, s[m]) : in2[v] = in[v] /\ v \in lv2,
         owner = i.dest =>
            /\ s2[i.dest] \in Values /\ OwnsIn(in2, s2[i.dest]) \subseteq lv2
            /\ \A m \in Slots(f) \ (lost \cup {i.dest}) : IsRoot(k, m) =>
                  OwnsIn(in, s[m]) \cap OwnsIn(in2, s2[i.dest]) = {},
         owner \notin {i.dest, Nobody} =>
            /\ owner \in Slots(f) \ (lost \cup {i.dest}) /\ IsRoot(k, owner)
            /\ s2[i.dest] \in OwnsIn(in, s[owner]),
         owner # Nobody => /\ like \in k.some => in2[s2[i.dest]] # {}
                           /\ like \in k.none => in2[s2[i.dest]] = {}
  PROVE  SoundOf(Written(k, i, owner, lost, like), f, s2, in2, lv2)
<1> DEFINE d == i.dest
           w == Written(k, i, owner, lost, like)
           Kept == {m \in Slots(f) \ (lost \cup {d}) : IsRoot(k, m)}
<1>a. /\ k.root \in [Slots(f) -> Slots(f) \cup {Nobody}]
      /\ \A l \in Slots(f) : Rooted(k, l) => IsRoot(k, k.root[l])
      /\ k.unit \subseteq Slots(f) /\ k.empty \subseteq Slots(f)
      /\ Nobody \notin Slots(f) /\ Gone \notin Values
  BY DEF Knowledge, Nobody, Slots, Gone, Values
<1>b. /\ \A l \in Slots(f) : w.root[l] =
            IF l = d THEN owner
            ELSE IF l \in MovedBy(i) \/ k.root[l] \in lost \cup {d} THEN Nobody ELSE k.root[l]
      /\ w.unit = k.unit \ (MovedBy(i) \cup {d})
      /\ w.empty = (k.empty \ {d}) \cup (MovedBy(i) \ {d})
      /\ \A l \in Slots(f) \ {d} : /\ l \in w.some => l \in k.some
                                   /\ l \in w.none => l \in k.none
      /\ d \in w.some <=> like \in k.some
      /\ d \in w.none <=> like \in k.none
  BY <1>a DEF Written
<1> HIDE DEF w
\* The values of the roots that are kept.
<1>1. ASSUME NEW m \in Kept
      PROVE  /\ m \in Slots(f) /\ m # d /\ m \notin MovedBy(i)
             /\ s2[m] = s[m] /\ OwnsIn(in2, s2[m]) = OwnsIn(in, s[m])
             /\ s[m] \in Values /\ OwnsIn(in, s[m]) \subseteq lv2
  <2>1. m \notin MovedBy(i)
    BY <1>1
  <2>2. s2[m] = s[m]
    BY <1>1, <2>1
  <2>3. OwnsIn(in2, s[m]) = OwnsIn(in, s[m])
    BY <1>1, OwnsTheSame
  <2> QED
    BY <1>1, <2>1, <2>2, <2>3 DEF SoundOf
\* The other slots that keep their root.
<1>2. ASSUME NEW l \in Slots(f) \ {d}, Rooted(w, l)
      PROVE  /\ w.root[l] = k.root[l] /\ k.root[l] \in Kept /\ Rooted(k, l)
             /\ s2[l] = s[l] /\ s[l] \in OwnsIn(in, s[k.root[l]])
  <2>1. w.root[l] = k.root[l] /\ Rooted(k, l) /\ l \notin MovedBy(i)
        /\ k.root[l] \notin lost \cup {d}
    BY <1>b, <1>2 DEF Rooted
  <2>2. k.root[l] \in Kept
    BY <1>a, <2>1 DEF Rooted
  <2> QED
    BY <2>1, <2>2 DEF SoundOf
<1>3. ASSUME NEW l \in Slots(f), Rooted(w, l)
      PROVE  /\ s2[l] \in OwnsIn(in2, s2[w.root[l]])
             /\ l \in w.some => in2[s2[l]] # {}
             /\ l \in w.none => in2[s2[l]] = {}
  <2>1. CASE l # d
    <3>1. in2[s[l]] = in[s[l]]
      BY <1>2, <1>3, <2>1
    <3> QED
      BY <1>1, <1>2, <1>3, <1>b, <2>1, <3>1 DEF SoundOf
  <2>2. CASE l = d
    <3>1. w.root[l] = owner /\ owner # Nobody
      BY <1>3, <1>b, <2>2 DEF Rooted
    <3>2. CASE owner = d
      BY <1>b, <2>2, <3>1, <3>2, OwnsIs
    <3>3. CASE owner # d
      <4>1. owner \in Kept /\ s2[d] \in OwnsIn(in, s[owner])
        BY <3>1, <3>3
      <4> QED
        BY <1>1, <1>b, <2>2, <3>1, <4>1
    <3> QED
      BY <3>2, <3>3
  <2> QED
    BY <2>1, <2>2
<1>4. ASSUME NEW l \in Slots(f), IsRoot(w, l)
      PROVE  l \in Kept \/ (l = d /\ owner = d)
  BY <1>4, <1>2, <1>a, <1>b DEF IsRoot, Rooted
<1>5. \A l \in Slots(f) : IsRoot(w, l) => s2[l] \in Values /\ OwnsIn(in2, s2[l]) \subseteq lv2
  BY <1>1, <1>4
<1>6. ASSUME NEW l \in Slots(f), NEW m \in Slots(f), IsRoot(w, l), IsRoot(w, m), l # m
      PROVE  OwnsIn(in2, s2[l]) \cap OwnsIn(in2, s2[m]) = {}
  <2>1. CASE l \in Kept /\ m \in Kept
    BY <1>1, <1>6, <2>1 DEF SoundOf
  <2>2. CASE l \in Kept /\ m = d /\ owner = d
    BY <1>1, <2>2
  <2>3. CASE m \in Kept /\ l = d /\ owner = d
    BY <1>1, <2>3
  <2> QED
    BY <1>4, <1>6, <2>1, <2>2, <2>3
<1>7. \A l \in w.unit : s2[l] = 0
  BY <1>a, <1>b DEF SoundOf
<1>8. \A l \in w.empty : s2[l] \notin Values
  <2> SUFFICES ASSUME NEW l \in w.empty PROVE s2[l] \notin Values
    OBVIOUS
  <2>1. CASE l \in MovedBy(i) \ {d}
    BY <1>a, <2>1
  <2>2. CASE l \notin MovedBy(i)
    BY <1>a, <1>b, <2>2 DEF SoundOf
  <2> QED
    BY <1>b, <2>1, <2>2
<1> QED
  BY <1>3, <1>5, <1>6, <1>7, <1>8 DEF SoundOf, w

LEMMA WrittenSlots ==
  ASSUME NEW f, NEW k \in Knowledge(f), NEW i, NEW owner, NEW lost, NEW like
  PROVE  DOMAIN Written(k, i, owner, lost, like).root = Slots(f)
BY DEF Written, Knowledge

LEMMA EmptiedSlots ==
  ASSUME NEW f, NEW k \in Knowledge(f), NEW i, NEW lost
  PROVE  DOMAIN Emptied(k, i, lost).root = Slots(f)
BY DEF Emptied, Written, Knowledge

\* The roots among the moved slots are given up.
LEMMA MovedRoots ==
  ASSUME NEW k, NEW i, NEW l \in MovedBy(i), IsRoot(k, l)
  PROVE  l \in RootsOf(k, MovedBy(i)) /\ l \in RootsOf(k, ReadBy(i))
<1>1. l \in ReadBy(i)
  BY DEF MovedBy, ReadBy, Reads
<1> QED
  BY <1>1 DEF RootsOf, IsRoot

\* A write of a value that belongs to nobody else.
LEMMA OwnedIsSound ==
  ASSUME NEW f, NEW k \in Knowledge(f), NEW i, NEW like,
         NEW s, NEW in \in Insides, NEW lv, NEW s2, NEW in2 \in Insides, NEW lv2,
         i.dest \in Slots(f), SoundOf(k, f, s, in, lv),
         \A l \in Slots(f) \ (MovedBy(i) \cup {i.dest}) : s2[l] = s[l],
         \A l \in MovedBy(i) \ {i.dest} : s2[l] = Gone,
         \A m \in Slots(f) \ (RootsOf(k, ReadBy(i)) \cup {i.dest}) : IsRoot(k, m) =>
            /\ \A v \in OwnsIn(in, s[m]) : in2[v] = in[v] /\ v \in lv2
            /\ OwnsIn(in, s[m]) \cap OwnsIn(in2, s2[i.dest]) = {},
         s2[i.dest] \in Values /\ OwnsIn(in2, s2[i.dest]) \subseteq lv2,
         like \in k.some => in2[s2[i.dest]] # {},
         like \in k.none => in2[s2[i.dest]] = {}
  PROVE  SoundOf(Owned(k, i, like), f, s2, in2, lv2)
<1> DEFINE lost == RootsOf(k, ReadBy(i))
           d == i.dest
<1>1. \A l \in MovedBy(i) \cap Slots(f) : IsRoot(k, l) => l \in lost \cup {d}
  BY MovedRoots
<1>2. d # Nobody
  BY DEF Slots, Nobody
<1> HIDE DEF lost
<1>3. \A m \in Slots(f) \ (lost \cup {d}) : IsRoot(k, m) =>
         \A v \in OwnsIn(in, s[m]) : in2[v] = in[v] /\ v \in lv2
  BY DEF lost
<1>4. \A m \in Slots(f) \ (lost \cup {d}) : IsRoot(k, m) =>
         OwnsIn(in, s[m]) \cap OwnsIn(in2, s2[d]) = {}
  BY DEF lost
<1>5. \A owner : owner = d => SoundOf(Written(k, i, owner, lost, like), f, s2, in2, lv2)
  <2> SUFFICES ASSUME NEW owner, owner = d
               PROVE  SoundOf(Written(k, i, owner, lost, like), f, s2, in2, lv2)
    OBVIOUS
  <2>1. owner \notin {d, Nobody} => /\ owner \in Slots(f) \ (lost \cup {d}) /\ IsRoot(k, owner)
                                    /\ s2[d] \in OwnsIn(in, s[owner])
    OBVIOUS
  <2> QED
    BY <1>1, <1>2, <1>3, <1>4, <2>1, WrittenIsSound
<1> QED
  BY <1>5 DEF Owned, lost

\* A write that leaves the written slot without a value.
LEMMA EmptiedIsSound ==
  ASSUME NEW f, NEW k \in Knowledge(f), NEW i, i.dest \in Slots(f), NEW lost,
         NEW s, NEW in \in Insides, NEW lv, SoundOf(k, f, s, in, lv),
         NEW s2, NEW in2 \in Insides, NEW lv2,
         \A l \in Slots(f) \ (MovedBy(i) \cup {i.dest}) : s2[l] = s[l],
         \A l \in MovedBy(i) \ {i.dest} : s2[l] = Gone,
         \A l \in MovedBy(i) \cap Slots(f) : IsRoot(k, l) => l \in lost \cup {i.dest},
         \A m \in Slots(f) \ (lost \cup {i.dest}) : IsRoot(k, m) =>
            \A v \in OwnsIn(in, s[m]) : in2[v] = in[v] /\ v \in lv2,
         s2[i.dest] \notin Values, i.op # "drop" => s2[i.dest] = 0
  PROVE  SoundOf(Emptied(k, i, lost), f, s2, in2, lv2)
<1> DEFINE w == Written(k, i, Nobody, lost, Nobody)
           e == Emptied(k, i, lost)
<1>1. SoundOf(w, f, s2, in2, lv2)
  <2>1. i.dest # Nobody
    BY DEF Slots, Nobody
  <2> QED
    BY <2>1, WrittenIsSound
<1>2. /\ e.root = w.root /\ e.some = w.some /\ e.none = w.none
      /\ e.empty = w.empty \cup {i.dest}
      /\ e.unit \subseteq w.unit \cup {i.dest}
      /\ i.op = "drop" => e.unit = w.unit
  BY DEF Emptied, Written
<1> HIDE DEF w, e
<1>3. /\ \A l \in e.unit : s2[l] = 0
      /\ \A l \in e.empty : s2[l] \notin Values
  BY <1>1, <1>2 DEF SoundOf
<1>4. \A l : (Rooted(e, l) <=> Rooted(w, l)) /\ (IsRoot(e, l) <=> IsRoot(w, l))
  BY <1>2 DEF Rooted, IsRoot
<1>5. \A l \in Slots(f) : Rooted(e, l) =>
        /\ s2[l] \in OwnsIn(in2, s2[e.root[l]])
        /\ l \in e.some => in2[s2[l]] # {}
        /\ l \in e.none => in2[s2[l]] = {}
  BY <1>1, <1>2, <1>4 DEF SoundOf
<1>6. \A l \in Slots(f) : IsRoot(e, l) => s2[l] \in Values /\ OwnsIn(in2, s2[l]) \subseteq lv2
  BY <1>1, <1>4 DEF SoundOf
<1>7. \A l, m \in Slots(f) :
        IsRoot(e, l) /\ IsRoot(e, m) /\ l # m => OwnsIn(in2, s2[l]) \cap OwnsIn(in2, s2[m]) = {}
  BY <1>1, <1>4 DEF SoundOf
<1>8. SoundOf(e, f, s2, in2, lv2)
  BY <1>3, <1>5, <1>6, <1>7 DEF SoundOf
<1> QED
  BY <1>8 DEF e
-----------------------------------------------------------------------------
(* Operands, new values and freed ones. *)

LEMMA MovedIs ==
  ASSUME NEW l
  PROVE  Moved(l) <=> l \in MovedBy(Instr)
BY DEF Moved, MovedBy

LEMMA TakenIs ==
  ASSUME TypeOK
  PROVE  /\ Taken \in [Slots(fn) -> Slotted]
         /\ \A l \in Slots(fn) : Taken[l] = IF l \in MovedBy(Instr) THEN Gone ELSE slot[l]
<1>1. \A l \in Slots(fn) : l \in DOMAIN slot
  BY DEF TypeOK
<1> QED
  BY <1>1, MovedIs, TakenIsSlotted DEF Taken

LEMMA MovedAreSlots ==
  ASSUME TypeOK
  PROVE  MovedBy(Instr) \subseteq Slots(fn)
<1> SUFFICES ASSUME NEW l \in MovedBy(Instr) PROVE l \in Slots(fn)
  OBVIOUS
<1>1. PICK n \in DOMAIN Instr.args : l = Instr.args[n].local
  BY DEF MovedBy
<1>2. Instr.args[n] \in Operands(fn)
  BY InstrFields
<1> QED
  BY <1>1, <1>2 DEF Operands

LEMMA InsideIs ==
  ASSUME TypeOK
  PROVE  inside \in Insides /\ \A f : f = fn => slot \in [Slots(f) -> Slotted]
BY DEF TypeOK, Insides, Slotted

\* An operand the certificate lets pass is no value because there was none, or
\* one that a root owns, with all that is inside it.
LEMMA OperandKnown ==
  ASSUME TypeOK, NEW k \in Knowledge(fn), SoundOf(k, fn, slot, inside, live),
         NEW o \in Operands(fn), Reads(o), Readable(k, o)
  PROVE  \/ o.local \in k.unit /\ ~o.part /\ ~Rooted(k, o.local) /\ ValueOf(o) = 0
         \/ /\ Rooted(k, o.local)
            /\ k.root[o.local] \in Slots(fn) /\ IsRoot(k, k.root[o.local])
            /\ ValueOf(o) \in OwnsIn(inside, slot[k.root[o.local]])
            /\ ValueOf(o) \in Values
            /\ OwnsIn(inside, ValueOf(o)) \subseteq OwnsIn(inside, slot[k.root[o.local]])
            /\ OwnsIn(inside, slot[k.root[o.local]]) \subseteq live
            /\ ~o.part => ValueOf(o) = slot[o.local]
<1> DEFINE l == o.local
           r == k.root[o.local]
           in == inside
<1>0. in \in Insides /\ l \in Slots(fn)
  BY InsideIs DEF Operands
<1>1. ASSUME Rooted(k, l)
      PROVE  /\ r \in Slots(fn) /\ IsRoot(k, r) /\ slot[l] \in OwnsIn(in, slot[r])
             /\ OwnsIn(in, slot[r]) \subseteq live /\ OwnsIn(in, slot[r]) \subseteq Values
  <2>1. r \in Slots(fn) /\ IsRoot(k, r)
    BY <1>0, <1>1 DEF Knowledge, Rooted, Nobody
  <2> QED
    BY <1>0, <1>1, <2>1, OwnsIs DEF SoundOf
<1>2. CASE ~Rooted(k, l)
  BY <1>2 DEF Readable, SoundOf, ValueOf, Reads
<1>3. CASE Rooted(k, l)
  <2>0. o.part => l \in k.some
    <3>1. l \in k.unit => slot[l] = 0
      BY DEF SoundOf
    <3> QED
      BY <1>3 DEF Readable
  <2>1. ValueOf(o) \in OwnsIn(in, slot[r])
    <3>1. CASE ~o.part
      BY <1>1, <1>3, <3>1 DEF ValueOf, Reads
    <3>2. CASE o.part
      <4>1. slot[l] \in Values /\ in[slot[l]] # {}
        BY <1>0, <1>1, <1>3, <2>0, <3>2 DEF SoundOf
      <4>2. ValueOf(o) = Payload(slot[l])
        BY <3>2 DEF ValueOf, Reads
      <4>3. Payload(slot[l]) = CHOOSE w \in in[slot[l]] : TRUE
        BY <4>1 DEF Payload
      <4>4. Payload(slot[l]) \in in[slot[l]]
        BY <4>1, <4>3
      <4>5. in[slot[l]] \subseteq OwnsIn(in, slot[r])
        BY <1>0, <1>1, <1>3, OwnsIs DEF ClosedIn
      <4> QED
        BY <4>2, <4>4, <4>5
    <3> QED
      BY <3>1, <3>2
  <2>2. ~o.part => ValueOf(o) = slot[l]
    BY DEF ValueOf, Reads
  <2> QED
    BY <1>0, <1>1, <1>3, <2>1, <2>2, PartsOwnLess
<1> QED
  BY <1>2, <1>3

\* Unused numbers are inside nothing that a slot holds.
LEMMA UnusedIsApart ==
  ASSUME TypeOK, NEW l \in Slots(fn), NEW v \in Unused
  PROVE  v \in Values /\ v \notin OwnsIn(inside, slot[l])
<1>1. slot[l] \in {slot[m] : m \in DOMAIN slot}
  BY DEF TypeOK
<1>2. OwnsIn(inside, slot[l]) \subseteq Reach({slot[m] : m \in DOMAIN slot})
  BY <1>1, InsideIs, ReachHasAll DEF Reach
<1> QED
  BY <1>2 DEF Unused

\* What is freed is what the freed values own; what two roots own is apart.
LEMMA FreedIsOwned ==
  ASSUME TypeOK, NEW k \in Knowledge(fn), SoundOf(k, fn, slot, inside, live),
         NEW vs, NEW lost,
         \A v \in vs \cap Values : \E r \in Slots(fn) \cap lost :
            IsRoot(k, r) /\ v \in OwnsIn(inside, slot[r]),
         Free(vs)
  PROVE  \A m \in Slots(fn) \ lost : IsRoot(k, m) =>
            \A v \in OwnsIn(inside, slot[m]) : inside'[v] = inside[v] /\ v \in live'
<1> SUFFICES ASSUME NEW m \in Slots(fn) \ lost, IsRoot(k, m),
                    NEW v \in OwnsIn(inside, slot[m])
             PROVE  inside'[v] = inside[v] /\ v \in live'
  OBVIOUS
<1>1. inside \in Insides
  BY InsideIs
<1>2. v \in Values /\ v \in live
  BY <1>1, OwnsIs DEF SoundOf
<1>3. v \notin Reach(vs)
  <2> SUFFICES ASSUME v \in Reach(vs) PROVE FALSE
    OBVIOUS
  <2>1. PICK x \in vs \cap Values : v \in OwnsIn(inside, x)
    BY <1>1, ReachSplits DEF Reach
  <2>2. PICK r \in Slots(fn) \cap lost : IsRoot(k, r) /\ x \in OwnsIn(inside, slot[r])
    BY <2>1
  <2>3. v \in OwnsIn(inside, slot[r])
    BY <1>1, <2>1, <2>2, PartsOwnLess
  <2>4. r # m /\ r \in Slots(fn) /\ m \in Slots(fn)
    BY <2>2
  <2>5. OwnsIn(inside, slot[r]) \cap OwnsIn(inside, slot[m]) = {}
    BY <2>2, <2>4 DEF SoundOf
  <2> QED
    BY <2>3, <2>5
<1> QED
  BY <1>2, <1>3 DEF Free
-----------------------------------------------------------------------------
(* One step. *)

\* k is known before the instruction under execution, which is certified.
Here(k) ==
  k \in Knowledge(fn) /\ SoundOf(k, fn, slot, inside, live) /\ Keeps(fn, k, Instr)

\* A root of k2, other than what the step wrote, was one of k and owns the same.
SameRoots(k, k2) ==
  \A m \in Slots(fn) \ {Instr.dest} : IsRoot(k2, m) =>
    IsRoot(k, m) /\ OwnsIn(inside', slot'[m]) = OwnsIn(inside, slot[m])

\* What k2 says after the step is true, when k was before.
After(k, k2) ==
  /\ DOMAIN k2.root = Slots(fn)
  /\ SoundOf(k2, fn, slot', inside', live')
  /\ SameRoots(k, k2)

LEMMA ArgsKnown ==
  ASSUME TypeOK, NEW k, Here(k), NEW n \in DOMAIN Instr.args
  PROVE  /\ Instr.args[n] \in Operands(fn) /\ Readable(k, Instr.args[n])
         /\ Reads(Instr.args[n]) => k.root[Instr.args[n].local] \in RootsOf(k, ReadBy(Instr))
<1>1. Instr.args[n] \in Operands(fn)
  BY InstrFields
<1>2. Readable(k, Instr.args[n])
  BY DEF Here, Keeps
<1>3. Reads(Instr.args[n]) => Instr.args[n].local \in ReadBy(Instr)
  BY DEF ReadBy
<1> QED
  BY <1>1, <1>2, <1>3 DEF RootsOf

\* The roots that a write keeps, when it leaves their slots and values alone.
LEMMA SameAfter ==
  ASSUME NEW k, NEW owner, NEW lost, NEW like, NEW k2, TypeOK, TypeOK', Here(k),
         k2.root = Written(k, Instr, owner, lost, like).root,
         \A l \in Slots(fn) \ (MovedBy(Instr) \cup {Instr.dest}) : slot'[l] = slot[l],
         \A m \in Slots(fn) \ (lost \cup {Instr.dest}) : IsRoot(k, m) =>
            \A v \in OwnsIn(inside, slot[m]) : inside'[v] = inside[v]
  PROVE  SameRoots(k, k2)
<1> SUFFICES ASSUME NEW m \in Slots(fn) \ {Instr.dest}, IsRoot(k2, m)
             PROVE  IsRoot(k, m) /\ OwnsIn(inside', slot'[m]) = OwnsIn(inside, slot[m])
  BY DEF SameRoots
<1>1. m \in Slots(fn) /\ m # Nobody /\ k.root \in [Slots(fn) -> Slots(fn) \cup {Nobody}]
  BY DEF Here, Knowledge, Slots, Nobody
<1>2. m = IF m \in MovedBy(Instr) \cup {Instr.dest} \/ k.root[m] \in lost \cup {Instr.dest}
          THEN Nobody ELSE k.root[m]
  BY <1>1 DEF IsRoot, Written
<1>3. IsRoot(k, m) /\ m \notin MovedBy(Instr) \cup {Instr.dest} /\ m \notin lost
  BY <1>1, <1>2 DEF IsRoot
<1>4. slot'[m] = slot[m] /\ \A v \in OwnsIn(inside, slot[m]) : inside'[v] = inside[v]
  BY <1>3
<1>5. inside \in Insides /\ inside' \in Insides
  BY DEF TypeOK, Insides
<1> QED
  BY <1>3, <1>4, <1>5, OwnsTheSame

LEMMA OwnedAfter ==
  ASSUME TypeOK, TypeOK', NEW k, Here(k), NEW like,
         \A l \in Slots(fn) \ (MovedBy(Instr) \cup {Instr.dest}) : slot'[l] = slot[l],
         \A l \in MovedBy(Instr) \ {Instr.dest} : slot'[l] = Gone,
         \A m \in Slots(fn) \ (RootsOf(k, ReadBy(Instr)) \cup {Instr.dest}) : IsRoot(k, m) =>
            /\ \A v \in OwnsIn(inside, slot[m]) : inside'[v] = inside[v] /\ v \in live'
            /\ OwnsIn(inside, slot[m]) \cap OwnsIn(inside', slot'[Instr.dest]) = {},
         slot'[Instr.dest] \in Values,
         OwnsIn(inside', slot'[Instr.dest]) \subseteq live',
         like \in k.some => inside'[slot'[Instr.dest]] # {},
         like \in k.none => inside'[slot'[Instr.dest]] = {}
  PROVE  After(k, Owned(k, Instr, like))
<1>1. /\ k \in Knowledge(fn) /\ SoundOf(k, fn, slot, inside, live)
      /\ inside \in Insides /\ Instr.dest \in Slots(fn)
  BY InsideIs, InstrFields DEF Here
<1>2. inside' \in Insides
  BY DEF TypeOK, Insides
<1>3. SoundOf(Owned(k, Instr, like), fn, slot', inside', live')
  BY <1>1, <1>2, OwnedIsSound
<1>4. SameRoots(k, Owned(k, Instr, like))
  BY SameAfter DEF Owned
<1> QED
  BY <1>1, <1>3, <1>4, WrittenSlots DEF After, Owned

LEMMA EmptiedAfter ==
  ASSUME TypeOK, TypeOK', NEW k, Here(k), NEW lost,
         \A l \in Slots(fn) \ (MovedBy(Instr) \cup {Instr.dest}) : slot'[l] = slot[l],
         \A l \in MovedBy(Instr) \ {Instr.dest} : slot'[l] = Gone,
         \A l \in MovedBy(Instr) \cap Slots(fn) : IsRoot(k, l) => l \in lost \cup {Instr.dest},
         \A m \in Slots(fn) \ (lost \cup {Instr.dest}) : IsRoot(k, m) =>
            \A v \in OwnsIn(inside, slot[m]) : inside'[v] = inside[v] /\ v \in live',
         slot'[Instr.dest] \notin Values, Instr.op # "drop" => slot'[Instr.dest] = 0
  PROVE  After(k, Emptied(k, Instr, lost))
<1>1. /\ k \in Knowledge(fn) /\ SoundOf(k, fn, slot, inside, live)
      /\ inside \in Insides /\ Instr.dest \in Slots(fn)
  BY InsideIs, InstrFields DEF Here
<1>2. inside' \in Insides
  BY DEF TypeOK, Insides
<1>3. SoundOf(Emptied(k, Instr, lost), fn, slot', inside', live')
  BY <1>1, <1>2, EmptiedIsSound
<1>4. Emptied(k, Instr, lost).root = Written(k, Instr, Nobody, lost, Nobody).root
  BY DEF Emptied, Written
<1>5. SameRoots(k, Emptied(k, Instr, lost))
  BY <1>4, SameAfter
<1> QED
  BY <1>1, <1>3, <1>5, EmptiedSlots DEF After

LEMMA UseKeeps ==
  ASSUME TypeOK, TypeOK', NEW k, Here(k), ExecUse, NEW k2 \in AfterStmt(k, Instr)
  PROVE  After(k, k2)
<1> DEFINE o == Instr.args[1]
           d == Instr.dest
           in == inside
<1>1. /\ Instr.op = "use" /\ o.how # "str" /\ 1 \in DOMAIN Instr.args
      /\ DOMAIN Instr.args = {1} /\ d \in Slots(fn)
  <2>1. Instr.op = "use" /\ o.how # "str"
    BY DEF ExecUse, MakesValue
  <2>2. Len(Instr.args) = 1
    BY <2>1, KindTells, InstrIsValid DEF Statements
  <2> QED
    BY <2>1, <2>2, InstrFields
<1>2. o \in Operands(fn) /\ Readable(k, o)
  BY <1>1, ArgsKnown
<1>3. in \in Insides /\ k \in Knowledge(fn) /\ SoundOf(k, fn, slot, in, live)
  BY InsideIs DEF Here
<1>4. /\ inside' = inside /\ live' = live /\ slot'[d] = ValueOf(o)
      /\ \A l \in Slots(fn) \ {d} : slot'[l] = IF l \in MovedBy(Instr) THEN Gone ELSE slot[l]
  BY <1>1, TakenIs DEF ExecUse
<1>5. /\ \A l \in Slots(fn) \ (MovedBy(Instr) \cup {d}) : slot'[l] = slot[l]
      /\ \A l \in MovedBy(Instr) \ {d} : slot'[l] = Gone
      /\ MovedBy(Instr) \subseteq {o.local} /\ ReadBy(Instr) \subseteq {o.local}
      /\ o.how # "move" => MovedBy(Instr) = {}
      /\ Reads(o) => ReadBy(Instr) = {o.local}
  <2>1. /\ MovedBy(Instr) \subseteq {o.local} /\ ReadBy(Instr) \subseteq {o.local}
        /\ o.how # "move" => MovedBy(Instr) = {}
        /\ Reads(o) => ReadBy(Instr) = {o.local}
    BY <1>1 DEF MovedBy, ReadBy
  <2>2. MovedBy(Instr) \subseteq Slots(fn)
    BY <1>2, <2>1 DEF Operands
  <2> QED
    BY <1>4, <2>1, <2>2
<1>6. \A m \in Slots(fn) : IsRoot(k, m) =>
         \A v \in OwnsIn(in, slot[m]) : inside'[v] = in[v] /\ v \in live'
  BY <1>3, <1>4 DEF SoundOf
<1>7. ASSUME ValueOf(o) = 0, k2 = Emptied(k, Instr, {}), \A l \in MovedBy(Instr) : ~IsRoot(k, l)
      PROVE  After(k, k2)
  <2>1. slot'[d] \notin Values /\ slot'[d] = 0
    BY <1>4, <1>7 DEF Values
  <2> QED
    BY <1>5, <1>6, <1>7, <2>1, EmptiedAfter
<1>8. CASE o.how = "unit"
  <2>1. k2 = Emptied(k, Instr, {}) /\ ValueOf(o) = 0 /\ MovedBy(Instr) = {}
    BY <1>1, <1>5, <1>8 DEF AfterStmt, Reads, ValueOf
  <2> QED
    BY <1>7, <2>1
<1>9. CASE Reads(o)
  <2> DEFINE l == o.local
             r == k.root[l]
             like == IF o.part THEN Nobody ELSE l
  <2>1. k2 \in Copied(k, Instr, o)
    BY <1>1, <1>9 DEF AfterStmt, Reads
  <2>2. l \in Slots(fn) /\ Nobody \notin Slots(fn)
    BY <1>2 DEF Operands, Nobody, Slots
  <2>3. CASE ~Rooted(k, l)
    <3>1. ValueOf(o) = 0
      BY <1>2, <1>3, <1>9, <2>3, OperandKnown
    <3>2. k2 = Emptied(k, Instr, {})
      BY <2>1, <2>3 DEF Copied
    <3>3. \A m \in MovedBy(Instr) : ~IsRoot(k, m)
      BY <1>5, <2>2, <2>3 DEF IsRoot, Rooted
    <3> QED
      BY <1>7, <3>1, <3>2, <3>3
  <2>4. CASE Rooted(k, l)
    <3>1. /\ r \in Slots(fn) /\ IsRoot(k, r) /\ l \notin k.unit
          /\ ValueOf(o) \in OwnsIn(in, slot[r]) /\ ValueOf(o) \in Values
          /\ OwnsIn(in, ValueOf(o)) \subseteq OwnsIn(in, slot[r])
          /\ OwnsIn(in, slot[r]) \subseteq live
          /\ ~o.part => ValueOf(o) = slot[l]
      <4>1. l \in k.unit => slot[l] = 0
        BY <1>3 DEF SoundOf
      <4>2. slot[l] \in OwnsIn(in, slot[r]) /\ OwnsIn(in, slot[r]) \subseteq Values
        BY <1>3, <2>2, <2>4, OwnsIs DEF SoundOf
      <4>3. l \notin k.unit
        BY <4>1, <4>2 DEF Values
      <4> QED
        BY <1>2, <1>3, <1>9, <2>4, <4>3, OperandKnown
    <3>2. /\ like \in k.some => inside'[slot'[d]] # {}
          /\ like \in k.none => inside'[slot'[d]] = {}
      <4>1. k.some \subseteq Slots(fn) /\ k.none \subseteq Slots(fn)
        BY <1>3 DEF Knowledge
      <4>2. like # Nobody => like = l /\ slot'[d] = slot[l]
        BY <1>4, <3>1
      <4>3. /\ l \in k.some => in[slot[l]] # {}
            /\ l \in k.none => in[slot[l]] = {}
        BY <1>3, <2>2, <2>4 DEF SoundOf
      <4> QED
        BY <1>4, <2>2, <4>1, <4>2, <4>3
    <3>3. CASE k2 = Owned(k, Instr, like)
      <4> DEFINE lost == RootsOf(k, ReadBy(Instr))
      <4>1. lost = {r}
        BY <1>5, <1>9 DEF RootsOf
      <4>2. \A m \in Slots(fn) \ (lost \cup {d}) : IsRoot(k, m) =>
               OwnsIn(in, slot[m]) \cap OwnsIn(inside', slot'[d]) = {}
        <5>1. \A m \in Slots(fn) \ (lost \cup {d}) : IsRoot(k, m) =>
                 OwnsIn(in, slot[m]) \cap OwnsIn(in, slot[r]) = {}
          BY <1>3, <3>1, <4>1 DEF SoundOf
        <5> QED
          BY <1>4, <3>1, <5>1
      <4>3. slot'[d] \in Values /\ OwnsIn(inside', slot'[d]) \subseteq live'
        BY <1>4, <3>1
      <4>4. \A m \in Slots(fn) \ (lost \cup {d}) : IsRoot(k, m) =>
               /\ \A v \in OwnsIn(in, slot[m]) : inside'[v] = in[v] /\ v \in live'
               /\ OwnsIn(in, slot[m]) \cap OwnsIn(inside', slot'[d]) = {}
        BY <1>6, <4>2
      <4> HIDE DEF like
      <4> QED
        BY <1>5, <3>2, <3>3, <4>3, <4>4, OwnedAfter
    <3>4. CASE o.how = "copy" /\ r # d /\ k2 = Borrowed(k, Instr, r, like)
      <4>1. MovedBy(Instr) = {}
        BY <1>5, <3>4
      <4>2. r # Nobody /\ slot'[d] \in OwnsIn(in, slot[r])
        BY <1>4, <2>2, <3>1
      <4> HIDE DEF like, r
      <4>3. SoundOf(Written(k, Instr, r, {}, like), fn, slot', inside', live')
        BY <1>1, <1>3, <1>4, <1>5, <1>6, <3>1, <3>2, <3>4, <4>1, <4>2, WrittenIsSound
      <4>4. SameRoots(k, Written(k, Instr, r, {}, like))
        BY <1>4, <1>5, SameAfter
      <4> QED
        BY <1>3, <3>4, <4>3, <4>4, WrittenSlots DEF After, Borrowed
    <3> QED
      BY <2>1, <2>4, <3>1, <3>3, <3>4 DEF Copied
  <2> QED
    BY <2>3, <2>4
<1>10. o.how \in {"unit", "str", "copy", "move"}
  BY <1>2 DEF Operands
<1> QED
  BY <1>1, <1>8, <1>9, <1>10 DEF Reads

\* A new value is apart from what the slots hold, and stays so.
LEMMA NewKeeps ==
  ASSUME TypeOK, TypeOK', NEW k, Here(k), ExecNew, NEW k2 \in AfterStmt(k, Instr)
  PROVE  After(k, k2)
<1> DEFINE d == Instr.dest
           v == Spare(1)
<1>1. /\ Instr.op = "use" /\ Instr.args[1].how = "str" /\ DOMAIN Instr.args = {1}
      /\ d \in Slots(fn)
  <2>1. Instr.op = "use" /\ Instr.args[1].how = "str"
    BY DEF ExecNew, MakesValue
  <2>2. Len(Instr.args) = 1
    BY <2>1, KindTells, InstrIsValid DEF Statements
  <2> QED
    BY <2>1, <2>2, InstrFields
<1>2. k2 = Owned(k, Instr, Nobody) /\ MovedBy(Instr) = {}
  BY <1>1 DEF AfterStmt, Reads, MovedBy
<1>3. v \in Values /\ v \in Unused
  BY SpareIsUnused DEF ExecNew
<1>4. /\ slot'[d] = v /\ \A l \in Slots(fn) \ {d} : slot'[l] = slot[l]
      /\ live' = live \cup {v}
      /\ inside'[v] = {} /\ \A u \in Values \ {v} : inside'[u] = inside[u]
  BY <1>1, <1>3 DEF ExecNew, TypeOK
<1>5. OwnsIn(inside', v) \subseteq {v}
  <2>1. inside' \in Insides
    BY DEF TypeOK, Insides
  <2>2. ClosedIn(inside', {v})
    BY <1>4 DEF ClosedIn
  <2> QED
    BY <2>1, <2>2, OwnsIs
<1>6. ASSUME NEW m \in Slots(fn), IsRoot(k, m)
      PROVE  /\ \A u \in OwnsIn(inside, slot[m]) : inside'[u] = inside[u] /\ u \in live'
             /\ OwnsIn(inside, slot[m]) \cap OwnsIn(inside', v) = {}
  <2>1. v \notin OwnsIn(inside, slot[m])
    BY <1>3, UnusedIsApart
  <2>2. OwnsIn(inside, slot[m]) \subseteq live /\ OwnsIn(inside, slot[m]) \subseteq Values
    BY <1>6, InsideIs, OwnsIs DEF Here, SoundOf
  <2> QED
    BY <1>4, <1>5, <2>1, <2>2
<1>7. Nobody \notin k.some /\ Nobody \notin k.none
  BY DEF Here, Knowledge, Slots, Nobody
<1> QED
  BY <1>2, <1>3, <1>4, <1>5, <1>6, <1>7, OwnedAfter

\* An aggregate owns what its operands owned, and new values.
LEMMA AggregateKeeps ==
  ASSUME TypeOK, TypeOK', NEW k, Here(k), ExecAggregate, NEW k2 \in AfterStmt(k, Instr)
  PROVE  After(k, k2)
<1> DEFINE d == Instr.dest
           n == Len(Instr.args)
           v == Spare(n + 1)
           fresh == Given \cap Unused
           lost == RootsOf(k, ReadBy(Instr))
           in == inside
<1>1. /\ Instr.op = "aggregate" /\ Instr.args \in Seq(Operands(fn)) /\ n \in Nat
      /\ d \in Slots(fn)
  BY InstrFields DEF ExecAggregate
<1>2. k2 = Owned(k, Instr, Nobody)
  BY <1>1 DEF AfterStmt
<1>3. v \in Values /\ v \in Unused
  <2>1. n + 1 \in Nat /\ n + 1 \in 1..(n + 1) /\ Enough(n + 1)
    BY <1>1 DEF ExecAggregate
  <2> QED
    BY <2>1, SpareIsUnused
<1>4. /\ slot'[d] = v
      /\ \A l \in Slots(fn) \ {d} : slot'[l] = IF l \in MovedBy(Instr) THEN Gone ELSE slot[l]
      /\ live' = live \cup {v} \cup fresh
      /\ \A w \in Values : inside'[w] = IF w = v THEN Given ELSE IF w \in fresh THEN {} ELSE in[w]
  BY <1>1, TakenIs DEF ExecAggregate
<1>5. in \in Insides /\ inside' \in Insides /\ k \in Knowledge(fn)
      /\ SoundOf(k, fn, slot, in, live)
  BY InsideIs DEF Here, TypeOK, Insides
<1>6. ASSUME NEW x \in Given, x \notin Unused
      PROVE  \E r \in Slots(fn) \cap lost : /\ IsRoot(k, r) /\ OwnsIn(in, slot[r]) \subseteq live
                                            /\ OwnsIn(in, x) \subseteq OwnsIn(in, slot[r])
  <2>1. PICK j \in DOMAIN Instr.args :
               x = (IF Instr.args[j].how = "str" THEN Spare(j) ELSE ValueOf(Instr.args[j]))
               /\ x \in Values
    BY <1>6 DEF Given
  <2> DEFINE o == Instr.args[j]
  <2>2. o.how # "str"
    <3> SUFFICES ASSUME o.how = "str" PROVE FALSE
      OBVIOUS
    <3>1. j \in 1..(n + 1) /\ n + 1 \in Nat /\ Enough(n + 1)
      BY <1>1 DEF ExecAggregate
    <3>2. Spare(j) \in Unused
      BY <3>1, SpareIsUnused
    <3> QED
      BY <1>6, <2>1, <3>2
  <2>3. x = ValueOf(o) /\ x # 0
    BY <2>1, <2>2 DEF Values
  <2>4. Reads(o)
    BY <2>3 DEF ValueOf, Reads
  <2>5. o \in Operands(fn) /\ Readable(k, o) /\ k.root[o.local] \in lost
    BY <2>4, ArgsKnown
  <2> HIDE DEF o, lost
  <2>6. /\ k.root[o.local] \in Slots(fn) /\ IsRoot(k, k.root[o.local])
        /\ OwnsIn(in, x) \subseteq OwnsIn(in, slot[k.root[o.local]])
        /\ OwnsIn(in, slot[k.root[o.local]]) \subseteq live
    BY <1>5, <2>3, <2>4, <2>5, OperandKnown
  <2> QED
    BY <2>5, <2>6
<1> DEFINE old == UNION {OwnsIn(in, x) : x \in Given \ Unused}
           all == {v} \cup fresh \cup old
<1>7. OwnsIn(inside', v) \subseteq all
  <2>1. Given \subseteq all
    <3>1. \A x \in Given \ Unused : x \in Values /\ x \in OwnsIn(in, x)
      BY <1>5, OwnsIs DEF Given
    <3> QED
      BY <3>1
  <2>2. ASSUME NEW u \in all PROVE inside'[u] \subseteq all
    <3>1. CASE u = v
      BY <1>3, <1>4, <2>1, <3>1
    <3>2. CASE u # v /\ u \in fresh
      <4>1. u \in Values
        BY <3>2 DEF Given
      <4> QED
        BY <1>4, <3>2, <4>1
    <3>3. CASE u # v /\ u \notin fresh
      <4>1. PICK x \in Given \ Unused : u \in OwnsIn(in, x)
        BY <3>3
      <4>2. u \in Values /\ in[u] \subseteq OwnsIn(in, x)
        BY <1>5, <4>1, OwnsIs DEF ClosedIn
      <4>3. inside'[u] = in[u]
        BY <1>4, <3>3, <4>2
      <4> QED
        BY <4>1, <4>2, <4>3
    <3> QED
      BY <3>1, <3>2, <3>3
  <2> HIDE DEF all
  <2>3. v \in all /\ ClosedIn(inside', all)
    BY <2>2 DEF ClosedIn, all
  <2> QED
    BY <1>5, <2>3, OwnsIs
<1>8. old \subseteq live
  <2> SUFFICES ASSUME NEW x \in Given \ Unused PROVE OwnsIn(in, x) \subseteq live
    OBVIOUS
  <2> QED
    BY <1>6
<1>9. ASSUME NEW m \in Slots(fn) \ (lost \cup {d}), IsRoot(k, m)
      PROVE  /\ \A u \in OwnsIn(in, slot[m]) : inside'[u] = in[u] /\ u \in live'
             /\ OwnsIn(in, slot[m]) \cap OwnsIn(inside', v) = {}
  <2>1. \A u \in Unused : u \notin OwnsIn(in, slot[m])
    BY <1>9, UnusedIsApart
  <2>2. OwnsIn(in, slot[m]) \subseteq live /\ OwnsIn(in, slot[m]) \subseteq Values
    BY <1>5, <1>9, OwnsIs DEF SoundOf
  <2>3. \A u \in OwnsIn(in, slot[m]) : u # v /\ u \notin fresh /\ u \in Values /\ u \in live
    BY <1>3, <2>1, <2>2
  <2>4. ASSUME NEW x \in Given, x \notin Unused
        PROVE  OwnsIn(in, slot[m]) \cap OwnsIn(in, x) = {}
    <3> HIDE DEF lost
    <3>1. PICK r \in Slots(fn) \cap lost : IsRoot(k, r) /\ OwnsIn(in, x) \subseteq OwnsIn(in, slot[r])
      BY <1>6, <2>4
    <3>2. r # m /\ r \in Slots(fn) /\ m \in Slots(fn)
      BY <1>9, <3>1
    <3>3. OwnsIn(in, slot[r]) \cap OwnsIn(in, slot[m]) = {}
      BY <1>5, <1>9, <3>1, <3>2 DEF SoundOf
    <3> QED
      BY <3>1, <3>3
  <2>5. OwnsIn(in, slot[m]) \cap old = {}
    BY <2>4
  <2>6. \A u \in OwnsIn(in, slot[m]) : inside'[u] = in[u] /\ u \in live'
    BY <1>4, <2>3
  <2> QED
    BY <1>7, <2>3, <2>5, <2>6
<1>10. OwnsIn(inside', v) \subseteq live'
  BY <1>4, <1>7, <1>8
<1>11. Nobody \notin k.some /\ Nobody \notin k.none
  BY <1>5 DEF Knowledge, Slots, Nobody
<1>12. MovedBy(Instr) \subseteq Slots(fn)
  BY MovedAreSlots
<1>13. /\ \A l \in Slots(fn) \ (MovedBy(Instr) \cup {d}) : slot'[l] = slot[l]
       /\ \A l \in MovedBy(Instr) \ {d} : slot'[l] = Gone
  BY <1>4, <1>12
<1> HIDE DEF v
<1> QED
  BY <1>2, <1>3, <1>4, <1>9, <1>10, <1>11, <1>13, OwnedAfter

\* A drop frees what its slot owns, and nothing that another root does.
LEMMA DropKeeps ==
  ASSUME TypeOK, TypeOK', NEW k, Here(k), ExecDrop, NEW k2 \in AfterStmt(k, Instr)
  PROVE  After(k, k2)
<1> DEFINE d == Instr.dest
           lost == {k.root[d]}
<1>1. /\ Instr.op = "drop" /\ d \in Slots(fn) /\ MovedBy(Instr) = {} /\ Rooted(k, d)
      /\ k \in Knowledge(fn) /\ SoundOf(k, fn, slot, inside, live)
  <2>1. Instr.op = "drop"
    BY DEF ExecDrop
  <2>2. Instr.args = <<>>
    BY <2>1, KindTells, InstrIsValid DEF Statements
  <2>3. MovedBy(Instr) = {}
    BY <2>2 DEF MovedBy
  <2> QED
    BY <2>1, <2>3, InstrFields DEF Here, Keeps
<1>2. k2 = Emptied(k, Instr, lost)
  BY <1>1 DEF AfterStmt
<1>3. slot'[d] = Gone /\ \A l \in Slots(fn) \ {d} : slot'[l] = slot[l]
  BY <1>1 DEF ExecDrop, TypeOK
<1>4. k.root[d] \in Slots(fn) /\ IsRoot(k, k.root[d])
      /\ slot[d] \in OwnsIn(inside, slot[k.root[d]])
  BY <1>1 DEF SoundOf, Knowledge, Rooted, Nobody
<1>5. \A m \in Slots(fn) \ lost : IsRoot(k, m) =>
        \A v \in OwnsIn(inside, slot[m]) : inside'[v] = inside[v] /\ v \in live'
  <2>1. Free({slot[d]})
    BY DEF ExecDrop
  <2>2. \A v \in {slot[d]} \cap Values : \E r \in Slots(fn) \cap lost :
           IsRoot(k, r) /\ v \in OwnsIn(inside, slot[r])
    BY <1>4
  <2> HIDE DEF lost
  <2> QED
    BY <1>1, <2>1, <2>2, FreedIsOwned
<1>6. Gone \notin Values
  BY DEF Gone, Values
<1> QED
  BY <1>1, <1>2, <1>3, <1>5, <1>6, EmptiedAfter

\* How a terminator goes on: by one of its targets, with what is known there.
GoesOn(k) ==
  \E n \in DOMAIN Instr.to :
     Leads(k, Instr, n) /\ After(k, AfterTerm(k, Instr, n)) /\ JumpTo(Instr.to[n])

LEMMA TargetsAre ==
  ASSUME TypeOK, AtTerm
  PROVE  DOMAIN Instr.to = 1..Targets[Instr.op]
<1>1. Instr.to \in Seq(DOMAIN fn.blocks) /\ Len(Instr.to) = Targets[Instr.op]
  BY InstrIsValid DEF Terminators
<1> QED
  BY <1>1

LEMMA StaysKnown ==
  ASSUME TypeOK, NEW k, Here(k), UNCHANGED <<slot, inside, live>>
  PROVE  After(k, k)
<1>1. slot' = slot /\ inside' = inside /\ live' = live
  OBVIOUS
<1>2. DOMAIN k.root = Slots(fn) /\ SoundOf(k, fn, slot, inside, live)
  BY DEF Here, Knowledge
<1> QED
  BY <1>1, <1>2 DEF After, SameRoots

LEMMA GotoKeeps ==
  ASSUME TypeOK, NEW k, Here(k), ExecGoto
  PROVE  GoesOn(k)
<1>1. Instr.op = "goto" /\ After(k, k) /\ JumpTo(Instr.to[1])
  BY StaysKnown DEF ExecGoto
<1>2. 1 \in DOMAIN Instr.to
  BY <1>1, KindTells, TargetsAre DEF Targets
<1>3. AfterTerm(k, Instr, 1) = k /\ Leads(k, Instr, 1)
  BY <1>1 DEF AfterTerm, Leads
<1> QED
  BY <1>1, <1>2, <1>3 DEF GoesOn

LEMMA IfKeeps ==
  ASSUME TypeOK, NEW k, Here(k), ExecIf
  PROVE  GoesOn(k)
<1>1. Instr.op = "if" /\ After(k, k)
  BY StaysKnown DEF ExecIf
<1>2. PICK n \in 1..2 : JumpTo(Instr.to[n])
  BY DEF ExecIf
<1>3. n \in DOMAIN Instr.to
  BY <1>1, KindTells, TargetsAre DEF Targets
<1>4. AfterTerm(k, Instr, n) = k /\ Leads(k, Instr, n)
  BY <1>1 DEF AfterTerm, Leads
<1> QED
  BY <1>1, <1>2, <1>3, <1>4 DEF GoesOn

\* A switch tells whether its Option has a payload.
LEMMA SwitchKeeps ==
  ASSUME TypeOK, NEW k, Here(k), ExecSwitch
  PROVE  GoesOn(k)
<1> DEFINE o == Instr.args[1]
           l == o.local
<1>1. Instr.op = "switch" /\ After(k, k) /\ slot' = slot /\ inside' = inside /\ live' = live
  BY StaysKnown DEF ExecSwitch
<1>2. PICK n \in 1..2 : /\ ValueOf(o) \in Values => (n = 1 <=> inside[ValueOf(o)] # {})
                        /\ JumpTo(Instr.to[n])
  BY DEF ExecSwitch
<1>3. n \in DOMAIN Instr.to
  BY <1>1, KindTells, TargetsAre DEF Targets
<1>4. o \in Operands(fn) /\ Readable(k, o) /\ k \in Knowledge(fn)
      /\ SoundOf(k, fn, slot, inside, live) /\ l \in Slots(fn)
  <2>1. Len(Instr.args) = 1
    BY <1>1, KindTells, InstrIsValid DEF Terminators
  <2>2. 1 \in DOMAIN Instr.args
    BY <2>1, InstrFields
  <2>3. o \in Operands(fn) /\ Readable(k, o)
    BY <2>2, ArgsKnown
  <2> QED
    BY <2>3 DEF Here, Operands
<1>5. CASE Reads(o) /\ ~o.part
  <2> DEFINE k2 == IF n = 1 THEN [k EXCEPT !.some = @ \cup {l}]
                            ELSE [k EXCEPT !.none = @ \cup {l}]
  <2>1. AfterTerm(k, Instr, n) = k2
    BY <1>1, <1>5 DEF AfterTerm
  <2>2. Rooted(k, l) => (n = 1 <=> inside[slot[l]] # {})
    <3> SUFFICES ASSUME Rooted(k, l) PROVE n = 1 <=> inside[slot[l]] # {}
      OBVIOUS
    <3>1. ValueOf(o) \in Values /\ ValueOf(o) = slot[l]
      BY <1>4, <1>5, OperandKnown
    <3> QED
      BY <1>2, <3>1
  <2>3. Rooted(k, l) => /\ l \in k.some => inside[slot[l]] # {}
                        /\ l \in k.none => inside[slot[l]] = {}
    BY <1>4 DEF SoundOf
  <2>4. Leads(k, Instr, n)
    BY <2>2, <2>3 DEF Leads
  <2>5. /\ k2.root = k.root /\ k2.unit = k.unit /\ k2.empty = k.empty
        /\ k2.some = IF n = 1 THEN k.some \cup {l} ELSE k.some
        /\ k2.none = IF n = 1 THEN k.none ELSE k.none \cup {l}
    BY <1>4 DEF Knowledge
  <2> HIDE DEF k2
  <2>6. SoundOf(k2, fn, slot, inside, live)
    <3>1. \A m : (Rooted(k2, m) <=> Rooted(k, m)) /\ (IsRoot(k2, m) <=> IsRoot(k, m))
      BY <2>5 DEF Rooted, IsRoot
    <3>2. \A m \in Slots(fn) : Rooted(k2, m) =>
            /\ slot[m] \in OwnsIn(inside, slot[k2.root[m]])
            /\ m \in k2.some => inside[slot[m]] # {}
            /\ m \in k2.none => inside[slot[m]] = {}
      <4> SUFFICES ASSUME NEW m \in Slots(fn), Rooted(k2, m)
                   PROVE  /\ slot[m] \in OwnsIn(inside, slot[k2.root[m]])
                          /\ m \in k2.some => inside[slot[m]] # {}
                          /\ m \in k2.none => inside[slot[m]] = {}
        OBVIOUS
      <4>1. /\ slot[m] \in OwnsIn(inside, slot[k.root[m]])
            /\ m \in k.some => inside[slot[m]] # {}
            /\ m \in k.none => inside[slot[m]] = {}
        BY <1>4, <3>1 DEF SoundOf
      <4>2. m = l => (n = 1 <=> inside[slot[m]] # {})
        BY <2>2, <3>1
      <4> QED
        BY <2>5, <4>1, <4>2
    <3> QED
      BY <1>4, <2>5, <3>1, <3>2 DEF SoundOf
  <2>7. DOMAIN k2.root = Slots(fn)
    BY <1>4, <2>5 DEF Knowledge
  <2>8. SameRoots(k, k2)
    BY <1>1, <2>5 DEF SameRoots, IsRoot
  <2>9. After(k, k2)
    BY <1>1, <2>6, <2>7, <2>8 DEF After
  <2> QED
    BY <1>2, <1>3, <2>1, <2>4, <2>9 DEF GoesOn
<1>6. CASE ~(Reads(o) /\ ~o.part)
  <2>1. AfterTerm(k, Instr, n) = k /\ Leads(k, Instr, n)
    BY <1>1, <1>6 DEF AfterTerm, Leads
  <2> QED
    BY <1>1, <1>2, <1>3, <2>1 DEF GoesOn
<1> QED
  BY <1>5, <1>6

\* A callee frees what it takes, which the roots it was read from owned.
LEMMA CallKeeps ==
  ASSUME TypeOK, TypeOK', NEW k, Here(k), ExecCall
  PROVE  GoesOn(k)
<1> DEFINE d == Instr.dest
<1>1. /\ d \in Slots(fn) /\ Instr.args \in Seq(Operands(fn))
      /\ Instr.op \in {"call", "read"} /\ JumpTo(Instr.to[1])
      /\ k \in Knowledge(fn) /\ SoundOf(k, fn, slot, inside, live) /\ inside \in Insides
  BY InstrFields, InsideIs DEF ExecCall, Here
<1>2. 1 \in DOMAIN Instr.to
  BY <1>1, KindTells, TargetsAre DEF Targets
<1>3. slot'[d] = 0
      /\ \A l \in Slots(fn) \ {d} : slot'[l] = IF l \in MovedBy(Instr) THEN Gone ELSE slot[l]
  BY <1>1, TakenIs DEF ExecCall
<1>4. /\ \A l \in Slots(fn) \ (MovedBy(Instr) \cup {d}) : slot'[l] = slot[l]
      /\ \A l \in MovedBy(Instr) \ {d} : slot'[l] = Gone
      /\ slot'[d] \notin Values
  BY <1>3, MovedAreSlots DEF Values
<1>5. Leads(k, Instr, 1)
  BY <1>1 DEF Leads
<1>6. CASE Instr.op = "call"
  <2> DEFINE lost == RootsOf(k, ReadBy(Instr))
             vs == {ValueOf(Instr.args[n]) : n \in DOMAIN Instr.args}
  <2>1. Free(vs)
    BY <1>6 DEF ExecCall
  <2>2. ASSUME NEW v \in vs \cap Values
        PROVE  \E r \in Slots(fn) \cap lost : IsRoot(k, r) /\ v \in OwnsIn(inside, slot[r])
    <3>1. PICK n \in DOMAIN Instr.args : v = ValueOf(Instr.args[n])
      OBVIOUS
    <3> DEFINE o == Instr.args[n]
    <3>2. v # 0
      BY <2>2 DEF Values
    <3>3. Reads(o)
      BY <3>1, <3>2 DEF ValueOf, Reads
    <3>4. o \in Operands(fn) /\ Readable(k, o) /\ k.root[o.local] \in lost
      BY <3>3, ArgsKnown
    <3> HIDE DEF o, lost
    <3>5. /\ k.root[o.local] \in Slots(fn) /\ IsRoot(k, k.root[o.local])
          /\ v \in OwnsIn(inside, slot[k.root[o.local]])
      BY <1>1, <3>1, <3>2, <3>3, <3>4, OperandKnown DEF o
    <3> QED
      BY <3>4, <3>5
  <2>3. AfterTerm(k, Instr, 1) = Emptied(k, Instr, lost)
    BY <1>6 DEF AfterTerm
  <2>4. \A l \in MovedBy(Instr) \cap Slots(fn) : IsRoot(k, l) => l \in lost \cup {d}
    BY MovedRoots
  <2> HIDE DEF lost, vs
  <2>5. \A m \in Slots(fn) \ lost : IsRoot(k, m) =>
           \A v \in OwnsIn(inside, slot[m]) : inside'[v] = inside[v] /\ v \in live'
    BY <1>1, <2>1, <2>2, FreedIsOwned
  <2>6. After(k, Emptied(k, Instr, lost))
    BY <1>3, <1>4, <2>4, <2>5, EmptiedAfter
  <2> QED
    BY <1>1, <1>2, <1>5, <2>3, <2>6 DEF GoesOn
<1>7. CASE Instr.op = "read"
  <2> DEFINE lost == RootsOf(k, MovedBy(Instr))
  <2>1. inside' = inside /\ live' = live
    BY <1>7 DEF ExecCall
  <2>2. AfterTerm(k, Instr, 1) = Emptied(k, Instr, lost)
    BY <1>7 DEF AfterTerm
  <2>3. \A l \in MovedBy(Instr) \cap Slots(fn) : IsRoot(k, l) => l \in lost \cup {d}
    BY MovedRoots
  <2>4. \A m \in Slots(fn) : IsRoot(k, m) =>
           \A v \in OwnsIn(inside, slot[m]) : inside'[v] = inside[v] /\ v \in live'
    BY <1>1, <2>1 DEF SoundOf
  <2> HIDE DEF lost
  <2>5. After(k, Emptied(k, Instr, lost))
    BY <1>3, <1>4, <2>3, <2>4, EmptiedAfter
  <2> QED
    BY <1>1, <1>2, <1>5, <2>2, <2>5 DEF GoesOn
<1> QED
  BY <1>1, <1>6, <1>7

\* A call that makes an Option: a new value, with another inside or not.
LEMMA OptKeeps ==
  ASSUME TypeOK, TypeOK', NEW k, Here(k), ExecOpt
  PROVE  GoesOn(k)
<1> DEFINE d == Instr.dest
           v == Spare(1)
           p == Spare(2)
<1>1. /\ Instr.op = "opt" /\ d \in Slots(fn) /\ JumpTo(Instr.to[1])
  BY InstrFields DEF ExecOpt
<1>2. MovedBy(Instr) = {}
  <2>1. Instr.args = <<>>
    BY <1>1, KindTells, InstrIsValid DEF Terminators
  <2> QED
    BY <2>1 DEF MovedBy
<1>3. v \in Values /\ v \in Unused /\ p \in Values /\ p \in Unused
  BY SpareIsUnused DEF ExecOpt
<1>4. PICK payload \in {{}, {p}} :
         /\ inside' = [inside EXCEPT ![v] = payload, ![p] = {}]
         /\ live' = live \cup {v} \cup payload
  BY DEF ExecOpt
<1>5. /\ slot'[d] = v /\ \A l \in Slots(fn) \ {d} : slot'[l] = slot[l]
      /\ payload \subseteq {p}
      /\ inside'[p] = {} /\ inside'[v] \subseteq payload
      /\ \A u \in Values \ {v, p} : inside'[u] = inside[u]
  BY <1>1, <1>3, <1>4 DEF ExecOpt, TypeOK
<1>6. OwnsIn(inside', v) \subseteq {v} \cup payload
  <2>1. inside' \in Insides
    BY DEF TypeOK, Insides
  <2>2. ClosedIn(inside', {v} \cup payload)
    BY <1>5 DEF ClosedIn
  <2> QED
    BY <2>1, <2>2, OwnsIs
<1>7. ASSUME NEW m \in Slots(fn), IsRoot(k, m)
      PROVE  /\ \A u \in OwnsIn(inside, slot[m]) : inside'[u] = inside[u] /\ u \in live'
             /\ OwnsIn(inside, slot[m]) \cap OwnsIn(inside', v) = {}
  <2>1. v \notin OwnsIn(inside, slot[m]) /\ p \notin OwnsIn(inside, slot[m])
    BY <1>3, UnusedIsApart
  <2>2. OwnsIn(inside, slot[m]) \subseteq live /\ OwnsIn(inside, slot[m]) \subseteq Values
    BY <1>7, InsideIs, OwnsIs DEF Here, SoundOf
  <2> QED
    BY <1>4, <1>5, <1>6, <2>1, <2>2
<1>8. Nobody \notin k.some /\ Nobody \notin k.none
  BY DEF Here, Knowledge, Slots, Nobody
<1>9. OwnsIn(inside', v) \subseteq live'
  BY <1>4, <1>6
<1>10. After(k, Owned(k, Instr, Nobody))
  <2> HIDE DEF v
  <2> QED
    BY <1>2, <1>3, <1>5, <1>7, <1>8, <1>9, OwnedAfter
<1>11. AfterTerm(k, Instr, 1) = Owned(k, Instr, Nobody) /\ Leads(k, Instr, 1)
  BY <1>1 DEF AfterTerm, Leads
<1>12. 1 \in DOMAIN Instr.to
  BY <1>1, KindTells, TargetsAre DEF Targets
<1> QED
  BY <1>1, <1>10, <1>11, <1>12 DEF GoesOn
-----------------------------------------------------------------------------
(* No value is lost by straight code. *)

\* Every value that is not freed is owned by a root.
Complete(k) == \A v \in live : \E r \in Slots(fn) : IsRoot(k, r) /\ v \in Owns(slot[r])

MakesNew(i) == i.op = "aggregate" \/ (i.op = "use" /\ i.args[1].how = "str")

\* The step: dest owns the new values, and what is handed over if it is not freed.
Handed(k) ==
  /\ \A v \in live' \ live : MakesNew(Instr) /\ v \in OwnsIn(inside', slot'[Instr.dest])
  /\ \A l \in HandedOver(Instr) : IsRoot(k, l) =>
       \A v \in OwnsIn(inside, slot[l]) \cap live' :
          Instr.op \in {"use", "aggregate"} /\ v \in OwnsIn(inside', slot'[Instr.dest])

LEMMA CompleteIs ==
  ASSUME NEW k
  PROVE  Complete(k) <=>
           \A v \in live : \E r \in Slots(fn) : IsRoot(k, r) /\ v \in OwnsIn(inside, slot[r])
BY DEF Complete, Owns, OwnsIn, Reach

LEMMA CompleteAfter ==
  ASSUME NEW k, NEW k2, NEW known \in Knowledge(fn), TypeOK, Here(k), Complete(k),
         After(k, k2), Entails(k2, known), Accounts(k, Instr, known), Handed(k)
  PROVE  \A v \in live' : \E r \in Slots(fn) : IsRoot(known, r) /\ v \in OwnsIn(inside', slot'[r])
<1> SUFFICES ASSUME NEW v \in live'
             PROVE  \E r \in Slots(fn) : IsRoot(known, r) /\ v \in OwnsIn(inside', slot'[r])
  OBVIOUS
<1>1. Instr.dest \in Slots(fn) /\ DOMAIN k.root = Slots(fn) /\ DOMAIN k2.root = Slots(fn)
  BY InstrFields DEF Here, Knowledge, After
<1>2. CASE v \notin live
  <2>1. MakesNew(Instr) /\ v \in OwnsIn(inside', slot'[Instr.dest])
    BY <1>2 DEF Handed
  <2>2. IsRoot(known, Instr.dest)
    BY <2>1 DEF Accounts, MakesNew
  <2> QED
    BY <1>1, <2>1, <2>2
<1>3. CASE v \in live
  <2>1. PICK l \in Slots(fn) : IsRoot(k, l) /\ v \in OwnsIn(inside, slot[l])
    BY <1>3, CompleteIs
  <2>2. CASE IsRoot(known, l) /\ l # Instr.dest
    <3>1. IsRoot(k2, l)
      <4>1. Rooted(known, l)
        BY <2>1, <2>2 DEF IsRoot, Rooted, Slots, Nobody
      <4>2. k2.root[l] = known.root[l]
        BY <1>1, <4>1 DEF Entails
      <4> QED
        BY <2>2, <4>2 DEF IsRoot
    <3>2. OwnsIn(inside', slot'[l]) = OwnsIn(inside, slot[l])
      BY <2>2, <3>1 DEF After, SameRoots
    <3> QED
      BY <2>1, <2>2, <3>2
  <2>3. CASE l \in HandedOver(Instr) /\ (Instr.op = "use" => IsRoot(known, Instr.dest))
    <3>1. Instr.op \in {"use", "aggregate"} /\ v \in OwnsIn(inside', slot'[Instr.dest])
      BY <2>1, <2>3 DEF Handed
    <3>2. IsRoot(known, Instr.dest)
      BY <2>3, <3>1 DEF Accounts
    <3> QED
      BY <1>1, <3>1, <3>2
  <2> QED
    BY <1>1, <2>1, <2>2, <2>3 DEF Accounts
<1> QED
  BY <1>2, <1>3

\* An operand that is handed over is read as a whole.
LEMMA HandedIsRead ==
  ASSUME TypeOK, NEW k, Here(k), Instr.op \notin {"drop", "read"},
         NEW l \in HandedOver(Instr), IsRoot(k, l)
  PROVE  /\ l \in Slots(fn) /\ slot[l] \in Values
         /\ \E n \in DOMAIN Instr.args : /\ Instr.args[n].how # "str"
                                         /\ ValueOf(Instr.args[n]) = slot[l]
<1>1. PICK n \in DOMAIN Instr.args :
             Reads(Instr.args[n]) /\ ~Instr.args[n].part /\ l = Instr.args[n].local
  BY DEF HandedOver
<1>2. Instr.args[n] \in Operands(fn)
  BY InstrFields
<1>3. l \in Slots(fn)
  BY <1>1, <1>2 DEF Operands
<1>4. slot[l] \in Values
  BY <1>3 DEF Here, SoundOf
<1>5. Instr.args[n].how # "str" /\ ValueOf(Instr.args[n]) = slot[l]
  BY <1>1 DEF Reads, ValueOf
<1> QED
  BY <1>3, <1>4, <1>5

LEMMA UseHands ==
  ASSUME TypeOK, NEW k, Here(k), ExecUse
  PROVE  Handed(k)
<1>1. Instr.op = "use" /\ live' = live /\ inside' = inside
  BY DEF ExecUse
<1>2. Len(Instr.args) = 1
  BY <1>1, KindTells, InstrIsValid DEF Statements
<1>3. DOMAIN Instr.args = {1} /\ Instr.dest \in Slots(fn)
  BY <1>2, InstrFields
<1>4. slot'[Instr.dest] = ValueOf(Instr.args[1])
  BY <1>3, TakenIs DEF ExecUse
<1>5. \A l \in HandedOver(Instr) : IsRoot(k, l) => slot'[Instr.dest] = slot[l]
  BY <1>1, <1>3, <1>4, HandedIsRead
<1> QED
  BY <1>1, <1>5 DEF Handed

LEMMA NewHands ==
  ASSUME TypeOK, TypeOK', NEW k, Here(k), ExecNew
  PROVE  Handed(k)
<1>1. Instr.op = "use" /\ Instr.args[1].how = "str" /\ live' = live \cup {Spare(1)}
  BY DEF ExecNew, MakesValue
<1>2. Len(Instr.args) = 1
  BY <1>1, KindTells, InstrIsValid DEF Statements
<1>3. DOMAIN Instr.args = {1} /\ Instr.dest \in Slots(fn)
  BY <1>2, InstrFields
<1>4. slot'[Instr.dest] = Spare(1)
  BY <1>3 DEF ExecNew, TypeOK
<1>5. Spare(1) \in Values
  BY SpareIsUnused DEF ExecNew
<1>6. Spare(1) \in OwnsIn(inside', slot'[Instr.dest])
  <2>1. inside' \in Insides
    BY DEF TypeOK, Insides
  <2> QED
    BY <1>4, <1>5, <2>1, OwnsIs
<1>7. HandedOver(Instr) = {}
  BY <1>1, <1>3 DEF HandedOver, Reads
<1> QED
  BY <1>1, <1>6, <1>7 DEF Handed, MakesNew

LEMMA AggregateHands ==
  ASSUME TypeOK, TypeOK', NEW k, Here(k), ExecAggregate
  PROVE  Handed(k)
<1> DEFINE d == Instr.dest
           n == Len(Instr.args)
           v == Spare(n + 1)
           fresh == Given \cap Unused
           in == inside
<1>1. /\ Instr.op = "aggregate" /\ Instr.args \in Seq(Operands(fn)) /\ n \in Nat
      /\ d \in Slots(fn)
  BY InstrFields DEF ExecAggregate
<1>2. v \in Values /\ v \in Unused
  <2>1. n + 1 \in Nat /\ n + 1 \in 1..(n + 1) /\ Enough(n + 1)
    BY <1>1 DEF ExecAggregate
  <2> QED
    BY <2>1, SpareIsUnused
<1>3. /\ slot'[d] = v /\ live' = live \cup {v} \cup fresh
      /\ \A w \in Values : inside'[w] = IF w = v THEN Given ELSE IF w \in fresh THEN {} ELSE in[w]
  BY <1>1, TakenIs DEF ExecAggregate
<1>4. in \in Insides /\ inside' \in Insides
  BY InsideIs DEF TypeOK, Insides
<1>5. v \in OwnsIn(inside', v) /\ Given \subseteq OwnsIn(inside', v)
  <2>1. v \in OwnsIn(inside', v) /\ ClosedIn(inside', OwnsIn(inside', v))
    BY <1>2, <1>4, OwnsIs
  <2>2. inside'[v] = Given
    BY <1>2, <1>3
  <2> QED
    BY <2>1, <2>2 DEF ClosedIn
\* What is handed over is part of the aggregate, and owns the same there.
<1>6. ASSUME NEW l \in HandedOver(Instr), IsRoot(k, l), NEW u \in OwnsIn(in, slot[l])
      PROVE  u \in OwnsIn(inside', v)
  <2>1. l \in Slots(fn) /\ slot[l] \in Given
    <3>1. PICK j \in DOMAIN Instr.args :
                 Instr.args[j].how # "str" /\ ValueOf(Instr.args[j]) = slot[l]
      BY <1>1, <1>6, HandedIsRead
    <3>2. l \in Slots(fn) /\ slot[l] \in Values
      BY <1>1, <1>6, HandedIsRead
    <3> QED
      BY <3>1, <3>2 DEF Given
  <2>2. ASSUME NEW w \in OwnsIn(in, slot[l]) PROVE inside'[w] = in[w]
    <3>1. w \in Values /\ w \notin Unused
      BY <1>4, <2>1, <2>2, OwnsIs, UnusedIsApart
    <3> QED
      BY <1>2, <1>3, <3>1
  <2>3. OwnsIn(inside', slot[l]) = OwnsIn(in, slot[l])
    BY <1>4, <2>2, OwnsTheSame
  <2>4. OwnsIn(inside', slot[l]) \subseteq OwnsIn(inside', v)
    BY <1>4, <1>5, <2>1, PartsOwnLess
  <2> QED
    BY <1>6, <2>3, <2>4
<1> HIDE DEF v
<1> QED
  BY <1>1, <1>3, <1>5, <1>6 DEF Handed, MakesNew

LEMMA DropHands ==
  ASSUME TypeOK, NEW k, Here(k), ExecDrop
  PROVE  Handed(k)
<1>1. Instr.op = "drop" /\ live' = live \ OwnsIn(inside, slot[Instr.dest])
  BY DEF ExecDrop, Free, OwnsIn, Reach
<1>2. HandedOver(Instr) = {Instr.dest}
  BY <1>1 DEF HandedOver
<1> QED
  BY <1>1, <1>2 DEF Handed

LEMMA CallHands ==
  ASSUME TypeOK, NEW k, Here(k), ExecCall
  PROVE  Handed(k)
<1>1. CASE Instr.op = "read"
  <2>1. live' = live /\ HandedOver(Instr) = {}
    BY <1>1 DEF ExecCall, HandedOver
  <2> QED
    BY <2>1 DEF Handed
<1>2. CASE Instr.op = "call"
  <2> DEFINE vs == {ValueOf(Instr.args[n]) : n \in DOMAIN Instr.args}
  <2>1. live' = live \ ReachIn(inside, vs)
    BY <1>2 DEF ExecCall, Free, Reach
  <2>2. ASSUME NEW l \in HandedOver(Instr), IsRoot(k, l)
        PROVE  OwnsIn(inside, slot[l]) \subseteq ReachIn(inside, vs)
    <3>1. slot[l] \in vs
      BY <1>2, <2>2, HandedIsRead
    <3> HIDE DEF vs
    <3> QED
      BY <3>1, InsideIs, ReachHasAll
  <2> HIDE DEF vs
  <2> QED
    BY <2>1, <2>2 DEF Handed
<1> QED
  BY <1>1, <1>2 DEF ExecCall

\* Straight code has no jumps.
LEMMA StraightIs ==
  ASSUME TypeOK, Instr.op \in {"goto", "if", "switch", "opt"}
  PROVE  ~Straight(fn)
<1>1. AtTerm
  BY KindTells
<1>2. Instr = fn.blocks[blk].term /\ blk \in DOMAIN fn.blocks
  BY <1>1 DEF Instr, TypeOK
<1> QED
  BY <1>2 DEF Straight
-----------------------------------------------------------------------------
(* The invariant. *)

\* Every function that may run has a certificate.
Certifiable == \A f \in Functions : Valid(f.code) => \E c : Certifies(c, f.code)

\* What a certificate says before the instruction under execution is true, and
\* nothing is missing from it in straight code.
KnownBy(c) ==
  /\ Certifies(c, fn) /\ blk \in DOMAIN c
  /\ Sound(c[blk][idx])
  /\ Straight(fn) => Complete(c[blk][idx])
KnownInv == \E c : KnownBy(c)

\* What a certificate says of the instruction under execution.
LEMMA CertifiedHere ==
  ASSUME TypeOK, NEW c, KnownBy(c)
  PROVE  /\ Here(c[blk][idx])
         /\ ~AtTerm =>
              /\ Instr.let => Instr.dest \in fn.moved \cup c[blk][idx].empty
              /\ c[blk][idx + 1] \in Knowledge(fn)
              /\ \E k \in AfterStmt(c[blk][idx], Instr) : Entails(k, c[blk][idx + 1])
              /\ Straight(fn) => Accounts(c[blk][idx], Instr, c[blk][idx + 1])
         /\ AtTerm =>
              \A n \in DOMAIN Instr.to : Leads(c[blk][idx], Instr, n) =>
                /\ Instr.to[n] \in DOMAIN c /\ c[Instr.to[n]][1] \in Knowledge(fn)
                /\ Entails(AfterTerm(c[blk][idx], Instr, n), c[Instr.to[n]][1])
                /\ Straight(fn) => Accounts(c[blk][idx], Instr, c[Instr.to[n]][1])
         /\ Straight(fn) /\ Instr.op = "return" =>
              \A l \in Slots(fn) : IsRoot(c[blk][idx], l) => l = 0
<1> DEFINE stmts == fn.blocks[blk].stmts
           last == c[blk][Len(stmts) + 1]
<1>1. ASSUME NEW b \in DOMAIN c
      PROVE  /\ Len(fn.blocks[b].stmts) \in Nat
             /\ DOMAIN fn.blocks[b].stmts = 1..Len(fn.blocks[b].stmts)
             /\ c[b] \in [1..(Len(fn.blocks[b].stmts) + 1) -> Knowledge(fn)]
  <2>1. b \in DOMAIN fn.blocks /\ Valid(fn)
    BY DEF KnownBy, Certifies, TypeOK
  <2>2. fn.blocks[b].stmts \in Seq(Statements(fn))
    BY <2>1, BlocksAreValid
  <2> QED
    BY <2>2 DEF KnownBy, Certifies
<1>2. /\ blk \in DOMAIN c /\ idx \in 1..(Len(stmts) + 1) /\ Len(stmts) \in Nat
      /\ DOMAIN stmts = 1..Len(stmts)
  BY <1>1 DEF KnownBy, TypeOK
<1>3. c[blk][idx] \in Knowledge(fn) /\ SoundOf(c[blk][idx], fn, slot, inside, live)
  BY <1>1, <1>2, SoundIs DEF KnownBy
<1>4. ASSUME ~AtTerm
      PROVE  /\ Keeps(fn, c[blk][idx], Instr)
             /\ Instr.let => Instr.dest \in fn.moved \cup c[blk][idx].empty
             /\ c[blk][idx + 1] \in Knowledge(fn)
             /\ \E k \in AfterStmt(c[blk][idx], Instr) : Entails(k, c[blk][idx + 1])
             /\ Straight(fn) => Accounts(c[blk][idx], Instr, c[blk][idx + 1])
  <2>1. idx \in DOMAIN stmts /\ idx + 1 \in 1..(Len(stmts) + 1) /\ Instr = stmts[idx]
    BY <1>2, <1>4 DEF AtTerm, Instr
  <2>2. c[blk][idx + 1] \in Knowledge(fn)
    BY <1>1, <1>2, <2>1
  <2>3. /\ Keeps(fn, c[blk][idx], stmts[idx])
        /\ stmts[idx].let => stmts[idx].dest \in fn.moved \cup c[blk][idx].empty
        /\ \E k \in AfterStmt(c[blk][idx], stmts[idx]) : Entails(k, c[blk][idx + 1])
    BY <1>2, <2>1 DEF KnownBy, Certifies
  <2>4. Straight(fn) => Accounts(c[blk][idx], stmts[idx], c[blk][idx + 1])
    BY <1>2, <2>1 DEF KnownBy, Certifies, AccountsFor
  <2> QED
    BY <2>1, <2>2, <2>3, <2>4
<1>5. ASSUME AtTerm
      PROVE  /\ Keeps(fn, c[blk][idx], Instr)
             /\ \A n \in DOMAIN Instr.to : Leads(c[blk][idx], Instr, n) =>
                  /\ Instr.to[n] \in DOMAIN c /\ c[Instr.to[n]][1] \in Knowledge(fn)
                  /\ Entails(AfterTerm(c[blk][idx], Instr, n), c[Instr.to[n]][1])
                  /\ Straight(fn) => Accounts(c[blk][idx], Instr, c[Instr.to[n]][1])
             /\ Straight(fn) /\ Instr.op = "return" =>
                  \A l \in Slots(fn) : IsRoot(c[blk][idx], l) => l = 0
  <2>1. idx = Len(stmts) + 1 /\ Instr = fn.blocks[blk].term
    BY <1>2, <1>5 DEF AtTerm, Instr
  <2>2. /\ Keeps(fn, last, fn.blocks[blk].term)
        /\ \A n \in DOMAIN fn.blocks[blk].term.to : Leads(last, fn.blocks[blk].term, n) =>
             /\ fn.blocks[blk].term.to[n] \in DOMAIN c
             /\ Entails(AfterTerm(last, fn.blocks[blk].term, n),
                        c[fn.blocks[blk].term.to[n]][1])
    BY <1>2 DEF KnownBy, Certifies
  <2>3. \A b \in DOMAIN c : c[b][1] \in Knowledge(fn)
    <3> SUFFICES ASSUME NEW b \in DOMAIN c PROVE c[b][1] \in Knowledge(fn)
      OBVIOUS
    <3>1. 1 \in 1..(Len(fn.blocks[b].stmts) + 1)
      BY <1>1
    <3> QED
      BY <1>1, <3>1
  <2>4. Straight(fn) =>
          /\ \A n \in DOMAIN fn.blocks[blk].term.to :
               Accounts(last, fn.blocks[blk].term, c[fn.blocks[blk].term.to[n]][1])
          /\ fn.blocks[blk].term.op = "return" =>
               \A l \in Slots(fn) : IsRoot(last, l) => l = 0
    BY <1>2 DEF KnownBy, Certifies, AccountsFor
  <2> QED
    BY <2>1, <2>2, <2>3, <2>4
<1>6. Instr.op = "return" => AtTerm
  BY KindTells
<1> QED
  BY <1>3, <1>4, <1>5, <1>6 DEF Here

\* The caller's argument is what is known at the start.
LEMMA StartKnown ==
  ASSUME Init, TypeOK
  PROVE  /\ DOMAIN AtStart(fn).root = Slots(fn)
         /\ SoundOf(AtStart(fn), fn, slot, inside, live)
<1> DEFINE k == AtStart(fn)
<1>1. /\ \A l \in Slots(fn) : slot[l] = IF l = 1 THEN 1 ELSE 0
      /\ \A v \in Values : inside[v] = {}
      /\ live = {1} /\ inside \in Insides /\ 1 \in Values /\ 0 \notin Values
  BY MachineAssumption, InsideIs DEF Init, Values
<1>2. /\ DOMAIN k.root = Slots(fn)
      /\ \A l \in Slots(fn) : k.root[l] = IF l = 1 THEN 1 ELSE Nobody
      /\ k.unit = Slots(fn) \ {1} /\ k.empty = Slots(fn) \ {1}
      /\ k.some = {} /\ k.none = {1} /\ Nobody \notin Slots(fn)
  BY DEF AtStart, Nobody, Slots
<1>3. OwnsIn(inside, 1) \subseteq {1} /\ 1 \in OwnsIn(inside, 1)
  <2>1. ClosedIn(inside, {1})
    BY <1>1 DEF ClosedIn
  <2> QED
    BY <1>1, <2>1, OwnsIs
<1> HIDE DEF k
<1>4. \A l \in Slots(fn) : /\ Rooted(k, l) => l = 1 /\ k.root[l] = 1
                           /\ IsRoot(k, l) => l = 1
  BY <1>2 DEF Rooted, IsRoot
<1>5. SoundOf(k, fn, slot, inside, live)
  BY <1>1, <1>2, <1>3, <1>4 DEF SoundOf
<1> QED
  BY <1>2, <1>5 DEF k

LEMMA KnownStays ==
  ASSUME KnownInv, UNCHANGED vars
  PROVE  KnownInv'
<1> PICK c : KnownBy(c)
  BY DEF KnownInv
<1>1. /\ prog' = prog /\ fn' = fn /\ blk' = blk /\ idx' = idx
      /\ slot' = slot /\ inside' = inside /\ live' = live
  BY DEF vars
<1>2. Sound(c[blk][idx])' <=> Sound(c[blk][idx])
  BY <1>1 DEF Sound, Whole, Owns, Reach
<1>3. Complete(c[blk][idx])' <=> Complete(c[blk][idx])
  BY <1>1 DEF Complete, Owns, Reach
<1>4. KnownBy(c)'
  BY <1>1, <1>2, <1>3 DEF KnownBy
<1> QED
  BY <1>4 DEF KnownInv

\* Every step leads to where the certificate goes on, with what it says there.
LEMMA KnownNext ==
  ASSUME TypeOK, TypeOK', KnownInv, Next
  PROVE  KnownInv'
<1> PICK c : KnownBy(c)
  BY DEF KnownInv
<1> DEFINE k == c[blk][idx]
<1>1. Here(k)
  BY CertifiedHere
<1>2. ASSUME fn' = fn, blk' \in DOMAIN c, NEW k2, After(k, k2), Entails(k2, c[blk'][idx']),
             c[blk'][idx'] \in Knowledge(fn),
             Straight(fn) => Accounts(k, Instr, c[blk'][idx']) /\ Handed(k)
      PROVE  KnownInv'
  <2>1. SoundOf(c[blk'][idx'], fn, slot', inside', live')
    BY <1>2, EntailedIsSound DEF After
  <2>2. Sound(c[blk][idx])' <=> SoundOf(c[blk'][idx'], fn', slot', inside', live')
    BY DEF Sound, SoundOf, Whole, Owns, OwnsIn, Reach
  <2>3. Straight(fn) => Complete(c[blk][idx])'
    <3>1. ASSUME Straight(fn)
          PROVE  \A v \in live' : \E r \in Slots(fn) :
                   IsRoot(c[blk'][idx'], r) /\ v \in OwnsIn(inside', slot'[r])
      <4>1. Complete(k)
        BY <3>1 DEF KnownBy
      <4> HIDE DEF k
      <4> QED
        BY <1>1, <1>2, <3>1, <4>1, CompleteAfter
    <3> QED
      BY <1>2, <3>1 DEF Complete, Owns, OwnsIn, Reach
  <2>4. KnownBy(c)'
    BY <1>2, <2>1, <2>2, <2>3 DEF KnownBy
  <2> QED
    BY <2>4 DEF KnownInv
\* A statement, of which everything it may be taken for is true.
<1>3. ASSUME NextStmt, Instr.op \in {"use", "aggregate", "drop"},
             \A k2 \in AfterStmt(k, Instr) : After(k, k2), Handed(k)
      PROVE  KnownInv'
  <2>1. ~AtTerm
    BY <1>3, KindTells
  <2>2. /\ c[blk][idx + 1] \in Knowledge(fn)
        /\ \E k2 \in AfterStmt(k, Instr) : Entails(k2, c[blk][idx + 1])
        /\ Straight(fn) => Accounts(k, Instr, c[blk][idx + 1])
    BY <2>1, CertifiedHere
  <2>3. fn' = fn /\ blk' = blk /\ idx' = idx + 1 /\ blk \in DOMAIN c
    BY <1>3 DEF NextStmt, KnownBy
  <2> QED
    BY <1>2, <1>3, <2>2, <2>3
\* A terminator, by the target it goes to.
<1>4. ASSUME Instr.op \notin {"use", "aggregate", "drop"}, GoesOn(k),
             Straight(fn) => Handed(k)
      PROVE  KnownInv'
  <2>1. AtTerm
    BY <1>4, KindTells
  <2>2. PICK n \in DOMAIN Instr.to :
          Leads(k, Instr, n) /\ After(k, AfterTerm(k, Instr, n)) /\ JumpTo(Instr.to[n])
    BY <1>4 DEF GoesOn
  <2>3. /\ Instr.to[n] \in DOMAIN c /\ c[Instr.to[n]][1] \in Knowledge(fn)
        /\ Entails(AfterTerm(k, Instr, n), c[Instr.to[n]][1])
        /\ Straight(fn) => Accounts(k, Instr, c[Instr.to[n]][1])
    BY <2>1, <2>2, CertifiedHere
  <2>4. fn' = fn /\ blk' = Instr.to[n] /\ idx' = 1
    BY <2>2 DEF JumpTo
  <2>5. After(k, AfterTerm(k, Instr, n)) /\ Entails(AfterTerm(k, Instr, n), c[blk'][idx'])
    BY <2>2, <2>3, <2>4
  <2>6. Straight(fn) => Accounts(k, Instr, c[blk'][idx']) /\ Handed(k)
    BY <1>4, <2>3, <2>4, <2>2
  <2> HIDE DEF k
  <2> QED
    BY <1>2, <2>3, <2>4, <2>5, <2>6
<1> HIDE DEF k
<1>5. CASE ExecUse
  BY <1>1, <1>3, <1>5, UseKeeps, UseHands DEF ExecUse
<1>6. CASE ExecNew
  BY <1>1, <1>3, <1>6, NewKeeps, NewHands DEF ExecNew
<1>7. CASE ExecAggregate
  BY <1>1, <1>3, <1>7, AggregateKeeps, AggregateHands DEF ExecAggregate
<1>8. CASE ExecDrop
  BY <1>1, <1>3, <1>8, DropKeeps, DropHands DEF ExecDrop
<1>9. CASE ExecGoto
  BY <1>1, <1>4, <1>9, GotoKeeps, StraightIs DEF ExecGoto
<1>10. CASE ExecIf
  BY <1>1, <1>4, <1>10, IfKeeps, StraightIs DEF ExecIf
<1>11. CASE ExecSwitch
  BY <1>1, <1>4, <1>11, SwitchKeeps, StraightIs DEF ExecSwitch
<1>12. CASE ExecCall
  BY <1>1, <1>4, <1>12, CallKeeps, CallHands DEF ExecCall
<1>13. CASE ExecOpt
  BY <1>1, <1>4, <1>13, OptKeeps, StraightIs DEF ExecOpt
<1>14. CASE UNCHANGED vars
  BY <1>14, KnownStays
<1> QED
  BY <1>5, <1>6, <1>7, <1>8, <1>9, <1>10, <1>11, <1>12, <1>13, <1>14 DEF Next, Returned

\* While every function has a certificate, what it says is true at every step.
THEOREM KnowledgeHolds == Certifiable => (Spec => []KnownInv)
<1> SUFFICES ASSUME Certifiable PROVE Spec => []KnownInv
  OBVIOUS
<1>1. ASSUME Init, TypeOK PROVE KnownInv
  <2>1. Valid(fn) /\ \E c : Certifies(c, fn)
    BY <1>1 DEF Init, Certifiable
  <2>2. PICK c : Certifies(c, fn)
    BY <2>1
  <2>3. /\ 1 \in DOMAIN c /\ Entails(AtStart(fn), c[1][1])
        /\ c[1] \in [1..(Len(fn.blocks[1].stmts) + 1) -> Knowledge(fn)]
    BY <2>2 DEF Certifies
  <2>4. blk = 1 /\ idx = 1 /\ 1 \in 1..(Len(fn.blocks[1].stmts) + 1)
    BY <1>1 DEF Init, TypeOK
  <2>5. c[1][1] \in Knowledge(fn)
    BY <2>3, <2>4
  <2>6. SoundOf(c[1][1], fn, slot, inside, live)
    BY <1>1, <2>3, <2>5, StartKnown, EntailedIsSound
  <2>7. ASSUME Straight(fn) PROVE Complete(c[1][1])
    <3>1. IsRoot(c[1][1], 1)
      BY <2>2, <2>7 DEF Certifies, AccountsFor
    <3>2. 1 \in Slots(fn) /\ slot[1] = 1 /\ live = {1} /\ 1 \in Values
      BY <1>1, MachineAssumption DEF Init, Values, Slots, TypeOK, Valid
    <3>3. 1 \in OwnsIn(inside, slot[1])
      BY <1>1, <3>2, InsideIs, OwnsIs
    <3> QED
      BY <3>1, <3>2, <3>3, CompleteIs
  <2> QED
    BY <2>2, <2>3, <2>4, <2>6, <2>7, SoundIs DEF KnownInv, KnownBy
<1>2. TypeOK /\ TypeOK' /\ KnownInv /\ [Next]_vars => KnownInv'
  <2>1. TypeOK /\ TypeOK' /\ KnownInv /\ Next => KnownInv'
    BY KnownNext
  <2>2. KnownInv /\ UNCHANGED vars => KnownInv'
    BY KnownStays
  <2> QED
    BY <2>1, <2>2
<1>3. Init /\ TypeOK => KnownInv
  BY <1>1
<1> QED
  BY <1>2, <1>3, ValidStaysInside, PTL DEF Spec
-----------------------------------------------------------------------------
(* What is promised of the instruction under execution. *)

\* What is known to be owned is there, with all that is inside it.
LEMMA RootedIsWhole ==
  ASSUME TypeOK, NEW k, Here(k), NEW l \in Slots(fn), Rooted(k, l)
  PROVE  Whole(slot[l])
<1>1. /\ k.root[l] \in Slots(fn) /\ IsRoot(k, k.root[l]) /\ inside \in Insides
      /\ slot[l] \in OwnsIn(inside, slot[k.root[l]])
  BY InsideIs DEF Here, Knowledge, SoundOf, Rooted, Nobody
<1>2. OwnsIn(inside, slot[k.root[l]]) \subseteq live
  BY <1>1 DEF Here, SoundOf
<1>3. slot[l] \in Values /\ OwnsIn(inside, slot[l]) \subseteq live
  BY <1>1, <1>2, OwnsIs, PartsOwnLess
<1> QED
  BY <1>3 DEF Whole, Owns, OwnsIn, Reach

\* What is known to be empty holds nothing.
LEMMA EmptyHoldsNot ==
  ASSUME TypeOK, NEW k, Here(k), NEW l \in k.empty
  PROVE  ~Holds(l)
BY DEF TypeOK, Here, SoundOf, Holds

LEMMA KnownIsHere ==
  ASSUME TypeOK, KnownInv
  PROVE  \E k : Here(k) /\ (~AtTerm /\ Instr.let => Instr.dest \in fn.moved \cup k.empty)
BY CertifiedHere DEF KnownInv

LEMMA ReadsOwnedHere ==
  ASSUME TypeOK, KnownInv
  PROVE  ReadsOwned
<1> PICK k : Here(k)
  BY KnownIsHere
<1> SUFFICES ASSUME NEW n \in DOMAIN Instr.args, ValueOf(Instr.args[n]) # 0
             PROVE  Whole(ValueOf(Instr.args[n]))
  BY DEF ReadsOwned
<1> DEFINE o == Instr.args[n]
<1>1. Reads(o)
  BY DEF ValueOf, Reads
<1>2. o \in Operands(fn) /\ Readable(k, o)
  BY ArgsKnown
<1>3. ValueOf(o) \in Values /\ OwnsIn(inside, ValueOf(o)) \subseteq live
  BY <1>1, <1>2, OperandKnown DEF Here
<1> QED
  BY <1>3 DEF Whole, Owns, OwnsIn, Reach

LEMMA DropsOwnedHere ==
  ASSUME TypeOK, KnownInv
  PROVE  DropsOwned
<1> PICK k : Here(k)
  BY KnownIsHere
<1> SUFFICES ASSUME Instr.op = "drop" PROVE Whole(slot[Instr.dest])
  BY DEF DropsOwned
<1>1. Rooted(k, Instr.dest) /\ Instr.dest \in Slots(fn)
  BY InstrFields DEF Here, Keeps
<1> QED
  BY <1>1, RootedIsWhole

LEMMA OthersHere ==
  ASSUME TypeOK, KnownInv
  PROVE  DropsInReverse /\ LetsFindNothing /\ LeaksOnlyMoved /\ NeverUnreachable
<1> PICK k : Here(k) /\ (~AtTerm /\ Instr.let => Instr.dest \in fn.moved \cup k.empty)
  BY KnownIsHere
<1>1. \A l \in k.empty : ~Holds(l)
  BY EmptyHoldsNot
<1>2. Keeps(fn, k, Instr)
  BY DEF Here
<1>3. DropsInReverse
  BY <1>1, <1>2 DEF DropsInReverse, Keeps
<1>4. LetsFindNothing
  BY <1>1 DEF LetsFindNothing
<1>5. LeaksOnlyMoved
  BY <1>1, <1>2 DEF LeaksOnlyMoved, Keeps
<1>6. NeverUnreachable
  BY <1>2 DEF NeverUnreachable, Keeps
<1> QED
  BY <1>3, <1>4, <1>5, <1>6

LEMMA StraightHere ==
  ASSUME TypeOK, KnownInv
  PROVE  StraightLeaksNothing
<1> SUFFICES ASSUME Instr.op = "return", Straight(fn) PROVE live \subseteq Owns(slot[0])
  BY DEF StraightLeaksNothing
<1>1. PICK c : KnownBy(c)
  BY DEF KnownInv
<1>2. Complete(c[blk][idx])
  BY <1>1 DEF KnownBy
<1>3. \A l \in Slots(fn) : IsRoot(c[blk][idx], l) => l = 0
  BY <1>1, CertifiedHere
<1> QED
  BY <1>2, <1>3 DEF Complete

\* Code with a certificate never reads a binding after it was moved out or
\* dropped, nor a value after its owner freed it (Operand::Move and Operand::Copy
\* of MIR lowering).
THEOREM ReadsAreOwned == Certifiable => (Spec => []ReadsOwned)
<1>1. TypeOK /\ KnownInv => ReadsOwned
  BY ReadsOwnedHere
<1> QED
  BY <1>1, ValidStaysInside, KnowledgeHolds, PTL

\* Code with a certificate never drops what was moved out or freed before: no
\* value is freed twice (Stmt::Drop).
THEOREM DropsAreOwned == Certifiable => (Spec => []DropsOwned)
<1>1. TypeOK /\ KnownInv => DropsOwned
  BY DropsOwnedHere
<1> QED
  BY <1>1, ValidStaysInside, KnowledgeHolds, PTL

\* Code with a certificate drops its bindings in reverse declaration order
\* (drop_scopes_to), other than what the flat set moved leaks.
THEOREM DropsGoInReverse == Certifiable => (Spec => []DropsInReverse)
<1>1. TypeOK /\ KnownInv => DropsInReverse
  BY OthersHere
<1> QED
  BY <1>1, ValidStaysInside, KnowledgeHolds, PTL

\* In code with a certificate a let of a loop overwrites no value that its last
\* round left behind, other than what the flat set moved leaks.
THEOREM LetsStartAfresh == Certifiable => (Spec => []LetsFindNothing)
<1>1. TypeOK /\ KnownInv => LetsFindNothing
  BY OthersHere
<1> QED
  BY <1>1, ValidStaysInside, KnowledgeHolds, PTL

\* Code with a certificate returns with nothing owned, other than what the flat
\* set moved leaks.
THEOREM NothingElseLeaks == Certifiable => (Spec => []LeaksOnlyMoved)
<1>1. TypeOK /\ KnownInv => LeaksOnlyMoved
  BY OthersHere
<1> QED
  BY <1>1, ValidStaysInside, KnowledgeHolds, PTL

\* Straight code with a certificate frees everything it does not return, what is
\* in aggregates and what was given to callees included (drop_scopes_to).
THEOREM StraightCodeLeaksNothing == Certifiable => (Spec => []StraightLeaksNothing)
<1>1. TypeOK /\ KnownInv => StraightLeaksNothing
  BY StraightHere
<1> QED
  BY <1>1, ValidStaysInside, KnowledgeHolds, PTL

\* Code with a certificate never runs into a block left without a terminator,
\* nor past the last arm of a match (Terminator::Unreachable).
THEOREM UnreachableIsNot == Certifiable => (Spec => []NeverUnreachable)
<1>1. TypeOK /\ KnownInv => NeverUnreachable
  BY OthersHere
<1> QED
  BY <1>1, ValidStaysInside, KnowledgeHolds, PTL
=============================================================================
