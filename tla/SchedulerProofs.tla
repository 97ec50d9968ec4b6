--------------------------- MODULE SchedulerProofs ---------------------------
(***************************************************************************)
(* Proofs about the cooperative scheduler, for every number of channels    *)
(* and tasks and every value of the bounds.                                *)
(***************************************************************************)
EXTENDS Scheduler, SequenceTheorems, TLAPS

-----------------------------------------------------------------------------
(* Facts about the stack, the ready queue and buffers as sequences. *)

\* Popping the stack (or cutting off an innermost block) keeps what is below.
LEMMA PopFacts ==
  ASSUME NEW S, NEW s \in Seq(S), s # <<>>
  PROVE  /\ SubSeq(s, 1, Len(s) - 1) \in Seq(S)
         /\ Len(SubSeq(s, 1, Len(s) - 1)) = Len(s) - 1
         /\ \A i \in 1..(Len(s) - 1) : SubSeq(s, 1, Len(s) - 1)[i] = s[i]
         /\ Len(s) \in Nat \ {0}
         /\ s[Len(s)] \in S
<1> DEFINE n == Len(s)
<1>1. n \in Nat /\ n # 0 /\ \A i \in 1..n : s[i] \in S
  OBVIOUS
<1>2. Len(SubSeq(s, 1, n - 1)) = n - 1
  <2> HIDE DEF n
  <2>1. Len(SubSeq(s, 1, n - 1)) = IF 1 <= n - 1 THEN (n - 1) - 1 + 1 ELSE 0
    BY <1>1, SubSeqProperties
  <2> QED
    BY <1>1, <2>1
<1>3. /\ SubSeq(s, 1, Len(s) - 1) \in Seq(S)
      /\ \A i \in 1..(Len(s) - 1) : SubSeq(s, 1, Len(s) - 1)[i] = s[i]
  OBVIOUS
<1> QED
  BY <1>1, <1>2, <1>3

\* Cutting the first i elements off the ready queue keeps the rest.
LEMMA CutFacts ==
  ASSUME NEW S, NEW s \in Seq(S), NEW i \in 1..Len(s)
  PROVE  /\ SubSeq(s, i + 1, Len(s)) \in Seq(S)
         /\ Len(SubSeq(s, i + 1, Len(s))) = Len(s) - i
         /\ \A j \in 1..(Len(s) - i) : SubSeq(s, i + 1, Len(s))[j] = s[i + j]
OBVIOUS

\* Dropping the inner blocks of ctx.
LEMMA PrefixFacts ==
  ASSUME NEW S, NEW s \in Seq(S), NEW k \in 0..Len(s)
  PROVE  SubSeq(s, 1, k) \in Seq(S)
OBVIOUS

\* Taking the front value of a buffer.
LEMMA TailFacts ==
  ASSUME NEW S, NEW s \in Seq(S), s # <<>>
  PROVE  /\ Tail(s) \in Seq(S)
         /\ Len(Tail(s)) = Len(s) - 1
         /\ \A i \in 1..(Len(s) - 1) : Tail(s)[i] = s[i + 1]
         /\ Head(s) = s[1]
         /\ Len(s) \in Nat \ {0}
OBVIOUS

\* Pushing a frame, a future or a value.
LEMMA PushFacts ==
  ASSUME NEW S, NEW s \in Seq(S), NEW e \in S
  PROVE  /\ Append(s, e) \in Seq(S)
         /\ Len(Append(s, e)) = Len(s) + 1
         /\ \A i \in 1..Len(s) : Append(s, e)[i] = s[i]
         /\ Append(s, e)[Len(s) + 1] = e
         /\ Len(s) \in Nat
OBVIOUS

\* A stack is either one body high or higher.
LEMMA PositiveCases ==
  ASSUME NEW n \in Nat \ {0}
  PROVE  (n = 1) <=> ~(n > 1)
OBVIOUS

-----------------------------------------------------------------------------
(* Type correctness. *)

\* The interpreter starts well formed.
LEMMA InitTypeOK == Init => TypeOK
<1> SUFFICES ASSUME Init PROVE TypeOK
  OBVIOUS
<1>1. NewFrame(Main, 1) \in Frames
  BY DEF NewFrame, Frames, Main
<1>2. stack \in Seq(Frames)
  BY <1>1 DEF Init
<1>3. ready \in Seq(1..spawned) /\ buf \in [Chans -> Seq(Nat)]
  BY DEF Init
<1> QED
  BY <1>2, <1>3, SchedulerAssumption DEF Init, TypeOK, NoResult

\* The running frame is a frame, and changing it keeps a stack of frames.
LEMMA TopFrame ==
  ASSUME TypeOK, stack # <<>>
  PROVE  /\ Top \in Frames
         /\ Len(stack) \in Nat \ {0}
         /\ \A f \in Frames : SetTop(f) \in Seq(Frames)
         /\ \A c \in Chans \cup {NoChan} : SetTop([Top EXCEPT !.recv = c]) \in Seq(Frames)
         /\ Pop \in Seq(Frames)
<1>1. stack \in Seq(Frames)
  BY DEF TypeOK
<1>2. Top \in Frames /\ Len(stack) \in Nat \ {0} /\ Pop \in Seq(Frames)
  BY <1>1, PopFacts DEF Top, Pop
<1>3. \A f \in Frames : SetTop(f) \in Seq(Frames)
  BY <1>1, <1>2 DEF SetTop
<1>4. \A c \in Chans \cup {NoChan} : [Top EXCEPT !.recv = c] \in Frames
  BY <1>2 DEF Frames
<1> QED
  BY <1>2, <1>3, <1>4

\* Starting a body of a spawned task keeps the types.
LEMMA StartBodyType ==
  ASSUME TypeOK, NEW t \in Tasks, StartBody(t)
  PROVE  stack' \in Seq(Frames) /\ runs' \in [Tasks -> Nat]
<1>1. runs' \in [Tasks -> Nat] /\ runs'[t] \in Nat \ {0}
  BY DEF StartBody, TypeOK
<1>2. NewFrame(t, runs'[t]) \in Frames
  BY <1>1 DEF NewFrame, Frames
<1> QED
  BY <1>1, <1>2, PushFacts DEF StartBody, TypeOK

\* One turn of the scheduler keeps the types.
LEMMA RunOneReadyType ==
  ASSUME TypeOK, RunOneReady
  PROVE  stack' \in Seq(Frames) /\ runs' \in [Tasks -> Nat] /\ ready' \in Seq(1..spawned)
<1>1. PICK i \in 1..Len(ready) : /\ ready' = SubSeq(ready, i + 1, Len(ready))
                                 /\ StartBody(ready[i])
  BY DEF RunOneReady
<1>2. ready \in Seq(1..spawned) /\ spawned \in 0..MaxTasks
  BY DEF TypeOK
<1>3. ready[i] \in 1..spawned
  BY <1>2
<1>4. ready[i] \in Tasks
  BY <1>2, <1>3, SchedulerAssumption DEF Tasks
<1> QED
  BY <1>1, <1>2, <1>4, StartBodyType, CutFacts

\* Every step keeps the types.
LEMMA NextTypeOK == TypeOK /\ [Next]_vars => TypeOK'
<1> SUFFICES ASSUME TypeOK, [Next]_vars
             PROVE  TypeOK'
  OBVIOUS
<1> USE DEF TypeOK
<1>1. CASE Spawn
  <2>1. spawned' \in 0..MaxTasks /\ spawned' \in 1..spawned'
    BY <1>1, SchedulerAssumption DEF Spawn
  <2>2. ready \in Seq(1..spawned')
    BY <1>1 DEF Spawn
  <2>3. ready' \in Seq(1..spawned')
    BY <1>1, <2>1, <2>2, PushFacts DEF Spawn
  <2> QED
    BY <1>1, <2>1, <2>3 DEF Spawn, control, chans
<1>2. ASSUME NEW t \in Tasks, ForceTask(t)
      PROVE  TypeOK'
  BY <1>2, StartBodyType DEF ForceTask, chans
<1>3. CASE Return
  <2>1. stack' \in Seq(Frames) /\ Top \in Frames
    BY <1>3, TopFrame DEF Return, Running
  <2>2. result' \in [Tasks -> Nat]
    BY <1>3, <2>1 DEF Return, Frames
  <2>3. phase' \in {"main", "drain", "exit"}
    BY <1>3 DEF Return, AfterPop
  <2> QED
    BY <1>3, <2>1, <2>2, <2>3 DEF Return, chans
<1>4. ASSUME NEW c \in Chans, Send(c)
      PROVE  TypeOK'
  <2>1. CASE closed[c]
    BY <1>4, <2>1 DEF Send, tasks
  <2>2. CASE ~closed[c]
    <3>1. /\ sent' = [sent EXCEPT ![c] = @ + 1]
          /\ buf' = [buf EXCEPT ![c] = Append(@, sent'[c])]
      BY <1>4, <2>2 DEF Send
    <3>2. sent' \in [Chans -> Nat] /\ sent'[c] \in Nat
      BY <3>1
    <3>3. Append(buf[c], sent'[c]) \in Seq(Nat)
      BY <3>2, PushFacts
    <3>4. buf' \in [Chans -> Seq(Nat)]
      BY <3>1, <3>3
    <3> QED
      BY <1>4, <2>2, <3>2, <3>4 DEF Send, tasks
  <2> QED
    BY <2>1, <2>2
<1>5. ASSUME NEW c \in Chans, Close(c)
      PROVE  TypeOK'
  BY <1>5 DEF Close, control, tasks
<1>6. ASSUME NEW c \in Chans, CallRecv(c)
      PROVE  TypeOK'
  BY <1>6, TopFrame DEF CallRecv, Running, tasks, chans
<1>7. ASSUME NEW c \in Chans, RecvValue(c)
      PROVE  TypeOK'
  <2>1. stack' \in Seq(Frames)
    BY <1>7, TopFrame DEF RecvValue, Receiving
  <2>2. Tail(buf[c]) \in Seq(Nat) /\ Head(buf[c]) \in Nat
    BY <1>7 DEF RecvValue
  <2> QED
    BY <1>7, <2>1, <2>2 DEF RecvValue, tasks
<1>8. ASSUME NEW c \in Chans, RecvNil(c)
      PROVE  TypeOK'
  BY <1>8, TopFrame DEF RecvNil, Receiving, tasks
<1>9. ASSUME NEW c \in Chans, RecvDrive(c)
      PROVE  TypeOK'
  BY <1>9, RunOneReadyType DEF RecvDrive, chans
<1>10. ASSUME NEW c \in Chans, RecvDeadlock(c)
       PROVE  TypeOK'
  BY <1>10 DEF RecvDeadlock, chans
<1>11. ASSUME NEW k \in {"try", "loop"}, Enter(k)
       PROVE  TypeOK'
  <2>1. Top \in Frames
    BY <1>11, TopFrame DEF Enter, Running
  <2>2. Append(Top.ctx, k) \in Seq({"try", "loop"})
    BY <2>1 DEF Frames
  <2>3. [Top EXCEPT !.ctx = Append(@, k)] \in Frames
    BY <2>1, <2>2 DEF Frames
  <2> QED
    BY <1>11, <2>3, TopFrame DEF Enter, Running, tasks, chans
<1>12. CASE Leave
  <2>1. Top \in Frames
    BY <1>12, TopFrame DEF Leave, Running
  <2>2. SubSeq(Top.ctx, 1, Len(Top.ctx) - 1) \in Seq({"try", "loop"})
    BY <1>12, <2>1, PopFacts DEF Leave, Frames
  <2>3. [Top EXCEPT !.ctx = SubSeq(@, 1, Len(@) - 1)] \in Frames
    BY <2>1, <2>2 DEF Frames
  <2> QED
    BY <1>12, <2>3, TopFrame DEF Leave, Running, tasks, chans
<1>13. ASSUME NEW s \in {"error", "break", "continue"}, Raise(s)
       PROVE  TypeOK'
  BY <1>13 DEF Raise, tasks, chans
<1>14. CASE Catch
  <2>1. PICK i \in 1..Len(Top.ctx) :
          LET kept == IF signal = "continue" THEN i ELSE i - 1 IN
          stack' = SetTop([Top EXCEPT !.recv = NoChan, !.ctx = SubSeq(@, 1, kept)])
    BY <1>14 DEF Catch
  <2> DEFINE kept == IF signal = "continue" THEN i ELSE i - 1
  <2>2. Top \in Frames /\ Top.ctx \in Seq({"try", "loop"})
    BY <1>14, TopFrame DEF Catch, Frames
  <2>3. kept \in 0..Len(Top.ctx)
    BY <2>2
  <2>4. SubSeq(Top.ctx, 1, kept) \in Seq({"try", "loop"})
    BY <2>2, <2>3, PrefixFacts
  <2>5. [Top EXCEPT !.recv = NoChan, !.ctx = SubSeq(@, 1, kept)] \in Frames
    BY <2>2, <2>4 DEF Frames
  <2>6. stack' \in Seq(Frames)
    BY <1>14, <2>1, <2>5, TopFrame DEF Catch
  <2> QED
    BY <1>14, <2>6 DEF Catch, tasks, chans
<1>15. CASE Escape
  <2>1. stack' \in Seq(Frames) /\ Top \in Frames
    BY <1>15, TopFrame DEF Escape
  <2>2. escaped' \in SUBSET Tasks
    BY <1>15, <2>1 DEF Escape, Frames
  <2>3. phase' \in {"main", "drain", "exit"}
        /\ signal' \in {"none", "error", "break", "continue"}
    BY <1>15 DEF Escape
  <2> QED
    BY <1>15, <2>1, <2>2, <2>3 DEF Escape, chans
<1>16. CASE DrainOne
  BY <1>16, RunOneReadyType DEF DrainOne, chans
<1>17. CASE DrainEnd
  BY <1>17 DEF DrainEnd, chans
<1>18. CASE UNCHANGED vars
  BY <1>18 DEF vars, control, tasks, chans
<1> QED
  BY <1>1, <1>2, <1>3, <1>4, <1>5, <1>6, <1>7, <1>8, <1>9, <1>10, <1>11, <1>12,
     <1>13, <1>14, <1>15, <1>16, <1>17, <1>18
  DEF Next, Program, Interpreter, Terminated

\* The state of the scheduler is well formed, however many tasks and channels.
THEOREM TypeCorrect == Spec => []TypeOK
<1> QED
  BY InitTypeOK, NextTypeOK, PTL DEF Spec

-----------------------------------------------------------------------------
(* Channels. *)

ChannelInv == ChannelInOrder /\ NilIsFinal

\* A buffer that holds the values g+1 .. n, in that order.
Holds(s, g, n) == Len(s) = n - g /\ \A i \in 1..Len(s) : s[i] = g + i

\* A send: the next value at the back keeps a buffer consecutive.
LEMMA AppendHolds ==
  ASSUME NEW s \in Seq(Nat), NEW g \in Nat, NEW n \in Nat, Holds(s, g, n)
  PROVE  Holds(Append(s, n + 1), g, n + 1)
<1> DEFINE a == Append(s, n + 1)
<1>1. /\ Len(a) = Len(s) + 1 /\ a[Len(s) + 1] = n + 1
      /\ \A i \in 1..Len(s) : a[i] = s[i]
  OBVIOUS
<1> HIDE DEF a
<1>2. Len(a) = n + 1 - g /\ Len(s) = n - g /\ n - g \in Nat
  BY <1>1 DEF Holds
<1>3. ASSUME NEW i \in 1..Len(a)
      PROVE  a[i] = g + i
  <2>1. CASE i = Len(s) + 1
    BY <1>1, <1>2, <2>1
  <2>2. CASE i # Len(s) + 1
    <3>1. i \in 1..Len(s)
      BY <1>2, <2>2
    <3> QED
      BY <1>1, <3>1 DEF Holds
  <2> QED
    BY <2>1, <2>2
<1> QED
  BY <1>2, <1>3 DEF Holds, a

\* A recv: taking the front value keeps a buffer consecutive.
LEMMA TailHolds ==
  ASSUME NEW s \in Seq(Nat), NEW g \in Nat, NEW n \in Nat, Holds(s, g, n), s # <<>>
  PROVE  Holds(Tail(s), g + 1, n)
<1> DEFINE a == Tail(s)
<1>1. /\ Len(a) = Len(s) - 1 /\ Len(s) \in Nat \ {0}
      /\ \A i \in 1..(Len(s) - 1) : a[i] = s[i + 1]
  OBVIOUS
<1> HIDE DEF a
<1>2. Len(a) = n - (g + 1)
  BY <1>1 DEF Holds
<1>3. ASSUME NEW i \in 1..Len(a)
      PROVE  a[i] = (g + 1) + i
  <2>1. i \in 1..(Len(s) - 1) /\ i + 1 \in 1..Len(s)
    BY <1>1
  <2>2. a[i] = s[i + 1] /\ s[i + 1] = g + (i + 1)
    BY <1>1, <2>1 DEF Holds
  <2> QED
    BY <2>2
<1> QED
  BY <1>2, <1>3 DEF Holds, a

\* Steps that leave the channels alone keep what is said about them.
LEMMA ChannelFrame ==
  ASSUME ChannelInv, UNCHANGED chans
  PROVE  ChannelInv'
BY DEF ChannelInv, ChannelInOrder, NilIsFinal, chans

\* Every step keeps the channels in order and nil final.
LEMMA NextChannelInv == TypeOK /\ ChannelInv /\ [Next]_vars => ChannelInv'
<1> SUFFICES ASSUME TypeOK, ChannelInv, [Next]_vars
             PROVE  ChannelInv'
  OBVIOUS
<1>1. ASSUME NEW c \in Chans, Send(c)
      PROVE  ChannelInv'
  <2>1. CASE closed[c]
    BY <1>1, <2>1, ChannelFrame DEF Send, chans
  <2>2. CASE ~closed[c]
    <3>1. /\ sent' = [sent EXCEPT ![c] = @ + 1]
          /\ buf' = [buf EXCEPT ![c] = Append(@, sent'[c])]
          /\ UNCHANGED <<got, closed, nil>>
      BY <1>1, <2>2 DEF Send
    <3>2. /\ sent[c] \in Nat /\ got[c] \in Nat /\ buf[c] \in Seq(Nat)
          /\ sent'[c] = sent[c] + 1
          /\ buf'[c] = Append(buf[c], sent[c] + 1)
          /\ Holds(buf[c], got[c], sent[c])
      BY <3>1 DEF TypeOK, ChannelInv, ChannelInOrder, Holds
    <3>3. Holds(buf'[c], got'[c], sent'[c])
      BY <3>1, <3>2, AppendHolds
    <3>4. \A d \in Chans \ {c} : sent'[d] = sent[d] /\ buf'[d] = buf[d]
      BY <3>1 DEF TypeOK
    <3>5. ChannelInOrder'
      BY <3>1, <3>3, <3>4 DEF ChannelInv, ChannelInOrder, Holds
    <3>6. c \notin nil
      BY <2>2 DEF ChannelInv, NilIsFinal
    <3>7. NilIsFinal'
      BY <3>1, <3>4, <3>6 DEF ChannelInv, NilIsFinal, TypeOK
    <3> QED
      BY <3>5, <3>7 DEF ChannelInv
  <2> QED
    BY <2>1, <2>2
<1>2. ASSUME NEW c \in Chans, Close(c)
      PROVE  ChannelInv'
  BY <1>2 DEF Close, ChannelInv, ChannelInOrder, NilIsFinal, TypeOK
<1>3. ASSUME NEW c \in Chans, RecvValue(c)
      PROVE  ChannelInv'
  <2>1. /\ buf[c] # <<>>
        /\ buf' = [buf EXCEPT ![c] = Tail(@)]
        /\ got' = [got EXCEPT ![c] = Head(buf[c])]
        /\ UNCHANGED <<sent, closed, nil>>
    BY <1>3 DEF RecvValue
  <2>2. /\ buf[c] \in Seq(Nat) /\ sent[c] \in Nat /\ got[c] \in Nat
        /\ Holds(buf[c], got[c], sent[c])
    BY DEF TypeOK, ChannelInv, ChannelInOrder, Holds
  <2>3. Len(buf[c]) \in Nat \ {0} /\ Head(buf[c]) = got[c] + 1
    BY <2>1, <2>2, TailFacts DEF Holds
  <2>4. buf'[c] = Tail(buf[c]) /\ got'[c] = got[c] + 1 /\ sent'[c] = sent[c]
    BY <2>1, <2>3 DEF TypeOK
  <2>5. Holds(buf'[c], got'[c], sent'[c])
    BY <2>1, <2>2, <2>4, TailHolds
  <2>6. \A d \in Chans \ {c} : got'[d] = got[d] /\ buf'[d] = buf[d]
    BY <2>1 DEF TypeOK
  <2>7. ChannelInOrder'
    BY <2>1, <2>5, <2>6 DEF ChannelInv, ChannelInOrder, Holds
  <2>8. c \notin nil
    BY <2>2, <2>3 DEF ChannelInv, NilIsFinal, Holds
  <2>9. NilIsFinal'
    BY <2>1, <2>6, <2>8 DEF ChannelInv, NilIsFinal, TypeOK
  <2> QED
    BY <2>7, <2>9 DEF ChannelInv
<1>4. ASSUME NEW c \in Chans, RecvNil(c)
      PROVE  ChannelInv'
  <2>1. /\ buf[c] = <<>> /\ closed[c] /\ nil' = nil \cup {c}
        /\ UNCHANGED <<sent, got, buf, closed>>
    BY <1>4 DEF RecvNil
  <2>2. Len(buf[c]) = 0 /\ sent[c] \in Nat /\ got[c] \in Nat
    BY <2>1 DEF TypeOK
  <2>3. got[c] = sent[c]
    BY <2>2 DEF ChannelInv, ChannelInOrder
  <2> QED
    BY <2>1, <2>3 DEF ChannelInv, ChannelInOrder, NilIsFinal
<1>5. CASE UNCHANGED chans
  BY <1>5, ChannelFrame
<1> QED
  BY <1>1, <1>2, <1>3, <1>4, <1>5
  DEF Next, Program, Interpreter, Terminated, vars, Spawn, ForceTask, Return,
      CallRecv, RecvDrive, RecvDeadlock, Enter, Leave, Raise, Catch, Escape,
      DrainOne, DrainEnd

\* Whatever recv calls nest inside one another, a channel delivers each value
\* once and in the order of the sends, and nil is never followed by a value.
THEOREM ChannelsDeliver == Spec => [](ChannelInOrder /\ NilIsFinal)
<1>1. Init => ChannelInv
  BY DEF Init, ChannelInv, ChannelInOrder, NilIsFinal
<1>2. Spec => []ChannelInv
  BY <1>1, NextChannelInv, TypeCorrect, PTL DEF Spec
<1> QED
  BY <1>2 DEF ChannelInv

\* A recv that has returned nil is never refuted by a later value.
COROLLARY NilStaysFinal == Spec => []NilIsFinal
  BY ChannelsDeliver, PTL

-----------------------------------------------------------------------------
(* Tasks: none is lost, none is queued twice, and the program ends cleanly. *)

TaskInv == ReadyInSpawnOrder /\ NoTaskLost /\ StackMatchesPhase

\* The next stack has the same bodies as this one.
SameBodies ==
  /\ Len(stack') = Len(stack)
  /\ \A i \in 1..Len(stack) : stack'[i].task = stack[i].task

\* The steps of the top body that neither start nor end a body.
InPlace ==
  \/ \E c \in Chans : Send(c) \/ Close(c) \/ CallRecv(c) \/ RecvValue(c) \/ RecvNil(c)
  \/ \E k \in {"try", "loop"} : Enter(k)
  \/ Leave
  \/ \E s \in {"error", "break", "continue"} : Raise(s)
  \/ Catch

\* Changing what the running frame waits for or has open keeps the bodies.
LEMMA SetTopBodies ==
  ASSUME TypeOK, stack # <<>>, NEW f, f.task = Top.task, stack' = SetTop(f)
  PROVE  SameBodies
<1>1. stack \in Seq(Frames) /\ Len(stack) \in Nat \ {0}
  BY TopFrame DEF TypeOK
<1>2. Len(stack') = Len(stack)
  BY <1>1 DEF SetTop
<1>3. \A i \in 1..Len(stack) : stack'[i] = IF i = Len(stack) THEN f ELSE stack[i]
  BY <1>1 DEF SetTop
<1> QED
  BY <1>2, <1>3 DEF SameBodies, Top

\* The steps that neither start nor end a body leave tasks and phase alone.
LEMMA InPlaceFacts ==
  ASSUME TypeOK, InPlace
  PROVE  SameBodies /\ UNCHANGED <<phase, tasks>> /\ stack # <<>>
<1>1. ASSUME NEW c \in Chans, Send(c) \/ Close(c)
      PROVE  UNCHANGED <<phase, stack, tasks>> /\ stack # <<>>
  BY <1>1 DEF Send, Close, Running, control
<1>2. ASSUME NEW s \in {"error", "break", "continue"}, Raise(s)
      PROVE  UNCHANGED <<phase, stack, tasks>> /\ stack # <<>>
  BY <1>2 DEF Raise, Running
<1>3. ASSUME UNCHANGED stack
      PROVE  SameBodies
  BY <1>3 DEF SameBodies
<1>4. ASSUME stack # <<>>
      PROVE  /\ Top \in Frames
             /\ \A c \in Chans \cup {NoChan} : [Top EXCEPT !.recv = c].task = Top.task
             /\ \A x : [Top EXCEPT !.ctx = x].task = Top.task
             /\ \A x, c : [Top EXCEPT !.recv = c, !.ctx = x].task = Top.task
  BY <1>4, TopFrame DEF Frames
<1>5. ASSUME NEW c \in Chans, CallRecv(c) \/ RecvValue(c) \/ RecvNil(c)
      PROVE  SameBodies /\ UNCHANGED <<phase, tasks>> /\ stack # <<>>
  BY <1>5, <1>4, SetTopBodies DEF CallRecv, RecvValue, RecvNil, Running, Receiving
<1>6. ASSUME NEW k \in {"try", "loop"}, Enter(k)
      PROVE  SameBodies /\ UNCHANGED <<phase, tasks>> /\ stack # <<>>
  BY <1>6, <1>4, SetTopBodies DEF Enter, Running
<1>7. CASE Leave
  BY <1>7, <1>4, SetTopBodies DEF Leave, Running
<1>8. CASE Catch
  BY <1>8, <1>4, SetTopBodies DEF Catch
<1> QED
  BY <1>1, <1>2, <1>3, <1>5, <1>6, <1>7, <1>8 DEF InPlace

\* ... and so they keep the invariant about the tasks.
LEMMA InPlaceTaskInv ==
  ASSUME TypeOK, TaskInv, InPlace
  PROVE  TaskInv'
<1>1. SameBodies /\ UNCHANGED <<phase, tasks>> /\ stack # <<>>
  BY InPlaceFacts
<1>2. stack' # <<>>
  <2>1. Len(stack') = Len(stack) /\ Len(stack) # 0
    BY <1>1, TopFrame DEF SameBodies
  <2> QED
    BY <2>1
<1>3. phase # "exit"
  BY <1>1 DEF TaskInv, StackMatchesPhase
<1>4. ReadyInSpawnOrder'
  BY <1>1 DEF TaskInv, ReadyInSpawnOrder, tasks
<1>5. NoTaskLost'
  BY <1>1 DEF TaskInv, NoTaskLost, SameBodies, OnStack, InReady, Finished, tasks
<1>6. StackMatchesPhase'
  BY <1>1, <1>2, <1>3 DEF TaskInv, StackMatchesPhase, SameBodies
<1> QED
  BY <1>4, <1>5, <1>6 DEF TaskInv

\* What starting the body of a task does to the stack.
LEMMA StartBodyFacts ==
  ASSUME TypeOK, NEW t \in Tasks, StartBody(t)
  PROVE  /\ Len(stack') = Len(stack) + 1
         /\ Len(stack) \in Nat
         /\ \A i \in 1..Len(stack) : stack'[i] = stack[i]
         /\ stack'[Len(stack) + 1].task = t
         /\ stack' # <<>>
<1>1. runs'[t] \in Nat \ {0} /\ stack' = Append(stack, NewFrame(t, runs'[t]))
  BY DEF StartBody, TypeOK
<1>2. NewFrame(t, runs'[t]) \in Frames /\ NewFrame(t, runs'[t]).task = t
  BY <1>1 DEF NewFrame, Frames
<1>3. stack \in Seq(Frames)
  BY DEF TypeOK
<1> QED
  BY <1>1, <1>2, <1>3, PushFacts

\* A task whose body starts has a frame, and so have those that had one.
LEMMA StartBodyOnStack ==
  ASSUME TypeOK, NEW t \in Tasks, StartBody(t)
  PROVE  OnStack(t)' /\ \A u : OnStack(u) => OnStack(u)'
<1>1. Len(stack) + 1 \in 1..Len(stack') /\ 1..Len(stack) \subseteq 1..Len(stack')
  BY StartBodyFacts
<1> QED
  BY <1>1, StartBodyFacts DEF OnStack

\* A stack on which a task's body was started still matches its phase.
LEMMA StartBodyPhase ==
  ASSUME TypeOK, StackMatchesPhase, NEW t \in Tasks, StartBody(t),
         phase' = phase, phase # "exit", phase = "main" => stack # <<>>,
         signal' = "none"
  PROVE  StackMatchesPhase'
<1>1. t # Main
  BY DEF Tasks, Main
<1>2. ASSUME NEW i \in 1..Len(stack')
      PROVE  stack'[i].task = Main <=> (phase' = "main" /\ i = 1)
  <2>1. CASE i = Len(stack) + 1
    <3>1. stack'[i].task # Main
      BY <1>1, <2>1, StartBodyFacts
    <3>2. ~(phase = "main" /\ i = 1)
      <4>1. stack # <<>> => Len(stack) # 0
        BY TopFrame
      <4> QED
        BY <2>1, <4>1, StartBodyFacts
    <3> QED
      BY <3>1, <3>2
  <2>2. CASE i # Len(stack) + 1
    <3>1. i \in 1..Len(stack) /\ stack'[i] = stack[i]
      BY <2>2, StartBodyFacts
    <3> QED
      BY <3>1 DEF StackMatchesPhase
  <2> QED
    BY <2>1, <2>2
<1> QED
  BY <1>2, StartBodyFacts DEF StackMatchesPhase

\* One turn of the scheduler drops finished tasks only.
LEMMA RunOneReadyFacts ==
  ASSUME TypeOK, RunOneReady, UNCHANGED <<spawned, result, escaped, phase, signal>>,
         signal = "none", phase # "exit", phase = "main" => stack # <<>>, TaskInv
  PROVE  TaskInv'
<1>1. PICK i \in 1..Len(ready) : /\ ready' = SubSeq(ready, i + 1, Len(ready))
                                 /\ Runnable(i)
                                 /\ StartBody(ready[i])
  BY DEF RunOneReady
<1>2. ready \in Seq(1..spawned) /\ spawned \in 0..MaxTasks
  BY DEF TypeOK
<1>3. ready[i] \in Tasks
  <2>1. ready[i] \in 1..spawned
    BY <1>2
  <2> QED
    BY <1>2, <2>1, SchedulerAssumption DEF Tasks
<1>4. /\ Len(ready') = Len(ready) - i
      /\ Len(ready) \in Nat
      /\ \A j \in 1..(Len(ready) - i) : ready'[j] = ready[i + j]
  BY <1>1, <1>2, CutFacts
<1>5. ReadyInSpawnOrder'
  <2>1. SUFFICES ASSUME NEW j \in 1..Len(ready'), NEW k \in 1..Len(ready'), j < k
                 PROVE  ready'[j] < ready'[k]
    BY DEF ReadyInSpawnOrder
  <2>2. /\ ready'[j] = ready[i + j] /\ ready'[k] = ready[i + k]
        /\ i + j \in 1..Len(ready) /\ i + k \in 1..Len(ready) /\ i + j < i + k
    BY <1>4, <2>1
  <2> QED
    BY <2>2 DEF TaskInv, ReadyInSpawnOrder
<1>6. NoTaskLost'
  <2>1. SUFFICES ASSUME NEW t \in 1..spawned
                 PROVE  Finished(t)' \/ InReady(t)' \/ OnStack(t)' \/ t \in escaped
    BY DEF NoTaskLost
  <2>2. CASE Finished(t) \/ OnStack(t) \/ t \in escaped
    <3>1. OnStack(t) => OnStack(t)'
      BY <1>1, <1>3, StartBodyOnStack
    <3>2. Finished(t) => Finished(t)'
      BY DEF Finished
    <3> QED
      BY <2>2, <3>1, <3>2
  <2>3. CASE ~Finished(t) /\ InReady(t)
    <3>1. PICK j \in 1..Len(ready) : ready[j] = t
      BY <2>3 DEF InReady
    <3>2. CASE j < i
      BY <1>1, <2>3, <3>1, <3>2 DEF Runnable
    <3>3. CASE j = i
      BY <1>1, <1>3, <3>1, <3>3, StartBodyOnStack
    <3>4. CASE j > i
      <4>1. j - i \in 1..Len(ready') /\ ready'[j - i] = t
        BY <1>4, <3>1, <3>4
      <4> QED
        BY <4>1 DEF InReady
    <3> QED
      BY <3>2, <3>3, <3>4
  <2> QED
    BY <2>2, <2>3 DEF TaskInv, NoTaskLost
<1>7. StackMatchesPhase'
  BY <1>1, <1>3, StartBodyPhase DEF TaskInv
<1> QED
  BY <1>5, <1>6, <1>7 DEF TaskInv

\* What ending the top body does to the stack.
LEMMA PopBody ==
  ASSUME TypeOK, stack # <<>>, stack' = Pop
  PROVE  /\ Len(stack') = Len(stack) - 1
         /\ Len(stack) \in Nat \ {0}
         /\ \A i \in 1..Len(stack') : stack'[i] = stack[i]
         /\ \A t : OnStack(t) => t = Top.task \/ OnStack(t)'
         /\ Len(stack) > 1 => stack' # <<>>
         /\ Len(stack) = 1 => stack' = <<>>
<1>1. stack \in Seq(Frames)
  BY DEF TypeOK
<1>2. /\ Len(stack') = Len(stack) - 1
      /\ Len(stack) \in Nat \ {0}
      /\ \A i \in 1..(Len(stack) - 1) : stack'[i] = stack[i]
      /\ stack' \in Seq(Frames)
  BY <1>1, PopFacts DEF Pop
<1>3. ASSUME NEW t, OnStack(t), t # Top.task
      PROVE  OnStack(t)'
  <2>1. PICK i \in 1..Len(stack) : stack[i].task = t
    BY <1>3 DEF OnStack
  <2>2. i \in 1..(Len(stack) - 1)
    BY <1>2, <1>3, <2>1 DEF Top
  <2> QED
    BY <1>2, <2>1, <2>2 DEF OnStack
<1>4. Len(stack') = 0 => stack' = <<>>
  BY <1>2
<1>5. stack' = <<>> => Len(stack') = 0
  OBVIOUS
<1> QED
  BY <1>2, <1>3, <1>4, <1>5

\* Only main's end changes the phase to "drain", and it is the bottom frame.
LEMMA PopPhase ==
  ASSUME TypeOK, StackMatchesPhase, stack # <<>>, stack' = Pop,
         Len(stack) > 1 => phase' = phase,
         Len(stack) = 1 => phase' # "main"
  PROVE  /\ phase' = "main" => stack' # <<>>
         /\ \A i \in 1..Len(stack') : stack'[i].task = Main <=> (phase' = "main" /\ i = 1)
<1>1. CASE Len(stack) = 1
  BY <1>1, PopBody
<1>2. CASE Len(stack) > 1
  <2>1. \A i \in 1..Len(stack') : i \in 1..Len(stack)
    BY PopBody
  <2> QED
    BY <1>2, <2>1, PopBody DEF StackMatchesPhase
<1> QED
  BY <1>1, <1>2, PopBody

\* Every step keeps the invariant about the tasks.
LEMMA NextTaskInv == TypeOK /\ TaskInv /\ [Next]_vars => TaskInv'
<1> SUFFICES ASSUME TypeOK, TaskInv, [Next]_vars
             PROVE  TaskInv'
  OBVIOUS
<1>1. CASE Spawn
  <2>1. /\ stack' = stack /\ phase' = phase /\ signal' = signal
        /\ spawned' = spawned + 1 /\ ready' = Append(ready, spawned + 1)
        /\ UNCHANGED <<result, escaped>> /\ stack # <<>>
    BY <1>1 DEF Spawn, Running, control
  <2>2. ready \in Seq(1..spawned) /\ spawned \in Nat
    BY DEF TypeOK
  <2>3. /\ Len(ready') = Len(ready) + 1 /\ Len(ready) \in Nat
        /\ ready'[Len(ready) + 1] = spawned + 1
        /\ \A i \in 1..Len(ready) : ready'[i] = ready[i] /\ ready[i] \in 1..spawned
    BY <2>1, <2>2
  <2>4. ReadyInSpawnOrder'
    <3>1. SUFFICES ASSUME NEW i \in 1..Len(ready'), NEW j \in 1..Len(ready'), i < j
                   PROVE  ready'[i] < ready'[j]
      BY DEF ReadyInSpawnOrder
    <3>2. i \in 1..Len(ready)
      BY <2>3, <3>1
    <3>3. CASE j = Len(ready) + 1
      BY <2>2, <2>3, <3>2, <3>3
    <3>4. CASE j # Len(ready) + 1
      BY <2>3, <3>1, <3>2, <3>4 DEF TaskInv, ReadyInSpawnOrder
    <3> QED
      BY <3>3, <3>4
  <2>5. NoTaskLost'
    <3>1. \E i \in 1..Len(ready') : ready'[i] = spawned'
      BY <2>1, <2>3
    <3>2. \A t : InReady(t) => InReady(t)'
      BY <2>3 DEF InReady
    <3>3. SUFFICES ASSUME NEW t \in 1..spawned'
                   PROVE  Finished(t)' \/ InReady(t)' \/ OnStack(t)' \/ t \in escaped'
      BY DEF NoTaskLost
    <3>4. CASE t = spawned'
      BY <3>1, <3>4 DEF InReady
    <3>5. CASE t # spawned'
      <4>1. t \in 1..spawned
        BY <2>1, <2>2, <3>5
      <4> QED
        BY <2>1, <3>2, <4>1 DEF TaskInv, NoTaskLost, OnStack, Finished
    <3> QED
      BY <3>4, <3>5
  <2>6. StackMatchesPhase'
    BY <2>1 DEF TaskInv, StackMatchesPhase
  <2> QED
    BY <2>4, <2>5, <2>6 DEF TaskInv
<1>2. ASSUME NEW t \in Tasks, ForceTask(t)
      PROVE  TaskInv'
  <2>1. /\ StartBody(t) /\ UNCHANGED <<phase, spawned, ready, result, escaped>>
        /\ signal' = "none" /\ stack # <<>>
    BY <1>2 DEF ForceTask, Running
  <2>2. phase # "exit"
    BY <2>1 DEF TaskInv, StackMatchesPhase
  <2>3. ReadyInSpawnOrder'
    BY <2>1 DEF TaskInv, ReadyInSpawnOrder
  <2>4. NoTaskLost'
    BY <2>1, StartBodyOnStack DEF TaskInv, NoTaskLost, InReady, Finished
  <2>5. StackMatchesPhase'
    BY <2>1, <2>2, StartBodyPhase DEF TaskInv
  <2> QED
    BY <2>3, <2>4, <2>5 DEF TaskInv
<1>3. CASE InPlace
  BY <1>3, InPlaceTaskInv
<1>4. CASE Return
  <2>1. /\ stack # <<>> /\ stack' = Pop /\ phase' = AfterPop /\ signal = "none"
        /\ UNCHANGED <<signal, spawned, ready, escaped>>
        /\ result' = IF Top.task = Main THEN result
                                        ELSE [result EXCEPT ![Top.task] = Top.run]
    BY <1>4 DEF Return, Running
  <2>2. Top \in Frames
    BY <2>1, TopFrame
  <2>3. \A t \in Tasks : t = Top.task => Finished(t)'
    BY <2>1, <2>2 DEF Finished, Frames, TypeOK, NoResult, Tasks, Main
  <2>4. \A t \in Tasks : Finished(t) => Finished(t)'
    <3>1. ASSUME NEW t \in Tasks, t # Top.task
          PROVE  result'[t] = result[t]
      BY <2>1, <3>1 DEF TypeOK
    <3> QED
      BY <2>3, <3>1 DEF Finished
  <2>5. 1..spawned \subseteq Tasks
    BY SchedulerAssumption DEF TypeOK, Tasks
  <2>6. NoTaskLost'
    BY <2>1, <2>3, <2>4, <2>5, PopBody DEF TaskInv, NoTaskLost, InReady
  <2>7. /\ Len(stack) > 1 => phase' = phase
        /\ Len(stack) = 1 => phase' # "main"
    BY <2>1, PopBody DEF AfterPop
  <2>8. phase # "exit" /\ phase' # "exit"
    BY <2>1 DEF TaskInv, StackMatchesPhase, AfterPop
  <2>9. StackMatchesPhase'
    BY <2>1, <2>7, <2>8, PopPhase DEF TaskInv, StackMatchesPhase
  <2>10. ReadyInSpawnOrder'
    BY <2>1 DEF TaskInv, ReadyInSpawnOrder
  <2> QED
    BY <2>6, <2>9, <2>10 DEF TaskInv
<1>5. ASSUME NEW c \in Chans, RecvDrive(c)
      PROVE  TaskInv'
  <2>1. /\ RunOneReady /\ UNCHANGED <<phase, signal, spawned, result, escaped>>
        /\ signal = "none" /\ stack # <<>>
    BY <1>5 DEF RecvDrive, Receiving
  <2>2. phase # "exit"
    BY <2>1 DEF TaskInv, StackMatchesPhase
  <2> QED
    BY <2>1, <2>2, RunOneReadyFacts
<1>6. ASSUME NEW c \in Chans, RecvDeadlock(c)
      PROVE  TaskInv'
  <2>1. /\ NoneRunnable /\ ready' = <<>> /\ stack # <<>>
        /\ UNCHANGED <<phase, stack, spawned, result, escaped>>
    BY <1>6 DEF RecvDeadlock, Receiving
  <2>2. ReadyInSpawnOrder'
    BY <2>1 DEF ReadyInSpawnOrder
  <2>3. NoTaskLost'
    BY <2>1 DEF TaskInv, NoTaskLost, NoneRunnable, InReady, OnStack, Finished
  <2>4. StackMatchesPhase'
    BY <2>1 DEF TaskInv, StackMatchesPhase
  <2> QED
    BY <2>2, <2>3, <2>4 DEF TaskInv
<1>7. CASE Escape
  <2>1. /\ stack # <<>> /\ stack' = Pop
        /\ UNCHANGED <<spawned, ready, result>>
        /\ escaped' = IF Top.task = Main THEN escaped ELSE escaped \cup {Top.task}
    BY <1>7 DEF Escape
  <2>2. (Len(stack) = 1) <=> ~(Len(stack) > 1)
    BY <2>1, PopBody, PositiveCases
  <2>10. /\ Len(stack) > 1 => phase' = phase /\ signal' = signal
         /\ Len(stack) = 1 => /\ signal' = "none"
                              /\ phase' = IF phase = "main" THEN "drain" ELSE "exit"
    BY <1>7, <2>2 DEF Escape
  <2>3. NoTaskLost'
    <3>1. \A t \in 1..spawned : t # Main
      BY DEF Main, TypeOK
    <3> QED
      BY <2>1, <3>1, PopBody DEF TaskInv, NoTaskLost, InReady, Finished
  <2>4. phase # "exit"
    BY <2>1 DEF TaskInv, StackMatchesPhase
  <2>5. /\ phase' = "main" => stack' # <<>>
        /\ \A i \in 1..Len(stack') : stack'[i].task = Main <=> (phase' = "main" /\ i = 1)
    <3>1. /\ Len(stack) > 1 => phase' = phase
          /\ Len(stack) = 1 => phase' # "main"
      BY <2>10
    <3>2. StackMatchesPhase
      BY DEF TaskInv
    <3> QED
      BY <2>1, <3>1, <3>2, PopPhase
  <2>6. phase' = "exit" => stack' = <<>> /\ escaped' # {}
    <3>1. SUFFICES ASSUME phase' = "exit"
                   PROVE  stack' = <<>> /\ escaped' # {}
      OBVIOUS
    <3>2. Len(stack) = 1 /\ phase # "main"
      <4>1. ~(Len(stack) > 1)
        BY <2>10, <2>4, <3>1
      <4>2. Len(stack) = 1
        BY <2>2, <4>1
      <4> QED
        BY <2>10, <3>1, <4>2
    <3>3. Top.task # Main
      BY <3>2 DEF TaskInv, StackMatchesPhase, Top
    <3> QED
      BY <2>1, <3>2, <3>3, PopBody
  <2>7. signal' # "none" => stack' # <<>>
    BY <2>1, <2>2, <2>10, PopBody
  <2>8. StackMatchesPhase'
    BY <2>5, <2>6, <2>7 DEF StackMatchesPhase
  <2>9. ReadyInSpawnOrder'
    BY <2>1 DEF TaskInv, ReadyInSpawnOrder
  <2> QED
    BY <2>3, <2>8, <2>9 DEF TaskInv
<1>8. CASE DrainOne
  <2>1. /\ RunOneReady /\ UNCHANGED <<phase, signal, spawned, result, escaped>>
        /\ phase = "drain" /\ stack = <<>>
    BY <1>8 DEF DrainOne
  <2>2. signal = "none"
    BY <2>1 DEF TaskInv, StackMatchesPhase
  <2> QED
    BY <2>1, <2>2, RunOneReadyFacts
<1>9. CASE DrainEnd
  <2>1. /\ NoneRunnable /\ ready' = <<>> /\ stack = <<>> /\ phase' = "exit"
        /\ UNCHANGED <<stack, signal, spawned, result, escaped>>
    BY <1>9 DEF DrainEnd
  <2>2. ReadyInSpawnOrder'
    BY <2>1 DEF ReadyInSpawnOrder
  <2>3. NoTaskLost'
    BY <2>1 DEF TaskInv, NoTaskLost, NoneRunnable, InReady, OnStack, Finished
  <2>4. StackMatchesPhase'
    BY <2>1 DEF TaskInv, StackMatchesPhase
  <2> QED
    BY <2>2, <2>3, <2>4 DEF TaskInv
<1>10. CASE UNCHANGED vars
  BY <1>10 DEF vars, control, tasks, TaskInv, ReadyInSpawnOrder, NoTaskLost,
     StackMatchesPhase, Finished, InReady, OnStack
<1> QED
  BY <1>1, <1>2, <1>3, <1>4, <1>5, <1>6, <1>7, <1>8, <1>9, <1>10
  DEF Next, Program, Interpreter, Terminated, InPlace

\* Initially there is only main's frame and no task.
LEMMA InitTaskInv == Init => TaskInv
<1> SUFFICES ASSUME Init PROVE TaskInv
  OBVIOUS
<1>1. stack = <<NewFrame(Main, 1)>> /\ phase = "main" /\ signal = "none"
      /\ ready = <<>> /\ spawned = 0
  BY DEF Init
<1>2. StackMatchesPhase
  BY <1>1 DEF StackMatchesPhase, NewFrame
<1> QED
  BY <1>1, <1>2 DEF TaskInv, ReadyInSpawnOrder, NoTaskLost

\* No spawned task is ever lost, none is queued twice, and the stack tells the
\* phase of run().
THEOREM TasksKept == Spec => [](NoTaskLost /\ ReadyInSpawnOrder /\ StackMatchesPhase)
<1>1. Spec => []TaskInv
  BY InitTaskInv, NextTaskInv, TypeCorrect, PTL DEF Spec
<1> QED
  BY <1>1 DEF TaskInv

\* The ready queue is in the order of the spawns, whatever ran out of turn.
COROLLARY QueueStaysInOrder == Spec => []ReadyInSpawnOrder
  BY TasksKept, PTL

\* The bodies under evaluation are those the phase of run() allows: main at the
\* bottom until it ends, and then leftover tasks only; a signal has a body to end.
COROLLARY StackTellsPhase == Spec => []StackMatchesPhase
  BY TasksKept, PTL

\* A program in which no task fails exits with every spawned task finished.
THEOREM ExitsComplete == Spec => []ExitComplete
<1>1. TypeOK /\ TaskInv => ExitComplete
  <2> SUFFICES ASSUME TypeOK, TaskInv, phase = "exit", escaped = {}
               PROVE  ready = <<>> /\ \A t \in 1..spawned : Finished(t)
    BY DEF ExitComplete
  <2>1. stack = <<>> /\ ready = <<>>
    BY DEF TaskInv, StackMatchesPhase
  <2>2. ASSUME NEW t \in 1..spawned
        PROVE  Finished(t)
    BY <2>1 DEF TaskInv, NoTaskLost, InReady, OnStack
  <2> QED
    BY <2>1, <2>2
<1>2. Spec => []TaskInv
  BY InitTaskInv, NextTaskInv, TypeCorrect, PTL DEF Spec
<1> QED
  BY <1>1, <1>2, TypeCorrect, PTL
-----------------------------------------------------------------------------
(* What the errors and the early exits of the scheduler leave behind.      *)

\* A deadlock is reported only when no task is left to start: whatever is not
\* finished is under evaluation or was ended by a signal (channel_recv).  That
\* an evaluation further down could go on is what GenuineDeadlock denies.
THEOREM DeadlockLeavesNothing ==
  Spec => [][\A c \in Chans : RecvDeadlock(c) =>
               \A t \in 1..spawned : Finished(t) \/ OnStack(t) \/ t \in escaped]_vars
<1>1. ASSUME TaskInv, NEW c \in Chans, RecvDeadlock(c), NEW t \in 1..spawned
      PROVE  Finished(t) \/ OnStack(t) \/ t \in escaped
  <2>1. InReady(t) => Finished(t)
    BY <1>1 DEF RecvDeadlock, NoneRunnable, InReady
  <2> QED
    BY <1>1, <2>1 DEF TaskInv, NoTaskLost
<1>2. Spec => []TaskInv
  BY InitTaskInv, NextTaskInv, TypeCorrect, PTL DEF Spec
<1>3. TaskInv => [\A c \in Chans : RecvDeadlock(c) =>
                    \A t \in 1..spawned : Finished(t) \/ OnStack(t) \/ t \in escaped]_vars
  BY <1>1
<1> QED
  BY <1>2, <1>3, PTL

\* A body under evaluation, a result and an escaped signal are of a task that
\* was started.
Started ==
  /\ \A i \in 1..Len(stack) : stack[i].task \in Tasks => runs[stack[i].task] # 0
  /\ \A t \in Tasks : Finished(t) \/ t \in escaped => runs[t] # 0

\* Starting a body keeps what was started, and adds its task.
LEMMA StartBodyStarted ==
  ASSUME TypeOK, Started, NEW t \in Tasks, StartBody(t), UNCHANGED <<result, escaped>>
  PROVE  Started'
<1>1. runs' = [runs EXCEPT ![t] = @ + 1] /\ runs \in [Tasks -> Nat]
  BY DEF StartBody, TypeOK
<1>2. runs'[t] # 0 /\ \A u \in Tasks : runs[u] # 0 => runs'[u] # 0
  BY <1>1
<1>3. ASSUME NEW i \in 1..Len(stack'), stack'[i].task \in Tasks
      PROVE  runs'[stack'[i].task] # 0
  <2>1. CASE i = Len(stack) + 1
    BY <1>2, <2>1, StartBodyFacts
  <2>2. CASE i # Len(stack) + 1
    <3>1. i \in 1..Len(stack) /\ stack'[i] = stack[i]
      BY <2>2, StartBodyFacts
    <3> QED
      BY <1>2, <1>3, <3>1 DEF Started
  <2> QED
    BY <2>1, <2>2
<1>4. \A u \in Tasks : Finished(u)' \/ u \in escaped' => runs'[u] # 0
  BY <1>2 DEF Started, Finished
<1> QED
  BY <1>3, <1>4 DEF Started

\* So does a turn of the scheduler.
LEMMA RunOneReadyStarted ==
  ASSUME TypeOK, Started, RunOneReady, UNCHANGED <<result, escaped>>
  PROVE  Started'
<1>1. PICK i \in 1..Len(ready) : StartBody(ready[i])
  BY DEF RunOneReady
<1>2. ready[i] \in Tasks
  <2>1. ready[i] \in 1..spawned /\ spawned \in 0..MaxTasks
    BY DEF TypeOK
  <2> QED
    BY <2>1, SchedulerAssumption DEF Tasks
<1> QED
  BY <1>1, <1>2, StartBodyStarted

\* The end of a body is the end of one that was started.
LEMMA PopStarted ==
  ASSUME TypeOK, Started, stack # <<>>, stack' = Pop, UNCHANGED runs
  PROVE  /\ Top.task \in Tasks => runs[Top.task] # 0
         /\ \A i \in 1..Len(stack') : stack'[i].task \in Tasks => runs'[stack'[i].task] # 0
<1>1. /\ Len(stack) \in Nat \ {0} /\ Len(stack') = Len(stack) - 1
      /\ \A i \in 1..Len(stack') : stack'[i] = stack[i]
  BY PopBody
<1>2. Len(stack) \in 1..Len(stack) /\ 1..Len(stack') \subseteq 1..Len(stack)
  BY <1>1
<1>3. Top.task \in Tasks => runs[Top.task] # 0
  BY <1>2 DEF Started, Top
<1>4. ASSUME NEW i \in 1..Len(stack'), stack'[i].task \in Tasks
      PROVE  runs'[stack'[i].task] # 0
  BY <1>1, <1>2, <1>4 DEF Started
<1> QED
  BY <1>3, <1>4

LEMMA NextStarted == TypeOK /\ Started /\ [Next]_vars => Started'
<1> SUFFICES ASSUME TypeOK, Started, [Next]_vars
             PROVE  Started'
  OBVIOUS
<1>0. ASSUME SameBodies, UNCHANGED <<runs, result, escaped>>
      PROVE  Started'
  BY <1>0 DEF Started, SameBodies, Finished
<1>1. CASE Spawn
  BY <1>1, <1>0 DEF Spawn, control, SameBodies
<1>2. ASSUME NEW t \in Tasks, ForceTask(t)
      PROVE  Started'
  BY <1>2, StartBodyStarted DEF ForceTask
<1>3. CASE InPlace
  BY <1>0, <1>3, InPlaceFacts DEF tasks
<1>4. CASE Return
  <2>1. /\ stack # <<>> /\ stack' = Pop /\ UNCHANGED <<runs, escaped>>
        /\ result' = IF Top.task = Main THEN result
                                        ELSE [result EXCEPT ![Top.task] = Top.run]
    BY <1>4 DEF Return, Running
  <2>2. Top.task \in Tasks \cup {Main}
    BY <2>1, TopFrame DEF Frames
  <2>3. \A t \in Tasks : t # Top.task => result'[t] = result[t]
    BY <2>1 DEF TypeOK
  <2>4. \A t \in Tasks : Finished(t)' \/ t \in escaped' => runs'[t] # 0
    BY <2>1, <2>3, PopStarted DEF Started, Finished
  <2> QED
    BY <2>1, <2>4, PopStarted DEF Started
<1>5. ASSUME NEW c \in Chans, RecvDrive(c)
      PROVE  Started'
  BY <1>5, RunOneReadyStarted DEF RecvDrive
<1>6. ASSUME NEW c \in Chans, RecvDeadlock(c)
      PROVE  Started'
  BY <1>6, <1>0 DEF RecvDeadlock, SameBodies
<1>7. CASE Escape
  <2>1. /\ stack # <<>> /\ stack' = Pop /\ UNCHANGED <<runs, result>>
        /\ escaped' \subseteq escaped \cup {Top.task}
    BY <1>7 DEF Escape
  <2>2. \A t \in Tasks : Finished(t)' \/ t \in escaped' => runs'[t] # 0
    BY <2>1, PopStarted DEF Started, Finished
  <2> QED
    BY <2>1, <2>2, PopStarted DEF Started
<1>8. CASE DrainOne
  BY <1>8, RunOneReadyStarted DEF DrainOne
<1>9. CASE DrainEnd
  BY <1>9, <1>0 DEF DrainEnd, SameBodies
<1>10. CASE UNCHANGED vars
  BY <1>10, <1>0 DEF vars, control, tasks, SameBodies
<1> QED
  BY <1>1, <1>2, <1>3, <1>4, <1>5, <1>6, <1>7, <1>8, <1>9, <1>10
  DEF Next, Program, Interpreter, Terminated, InPlace

\* The comments of ExprKind::Spawn and run() hold wherever the drain loop got to
\* the end of the queue: the only tasks that never run are those it left there,
\* which it does when a leftover task fails.
THEOREM OnlyQueuedNeverRun ==
  Spec => [](/\ \A t \in 1..spawned : runs[t] = 0 => InReady(t)
             /\ ready = <<>> => SpawnedRuns)
<1>1. Init => Started
  <2> SUFFICES ASSUME Init PROVE Started
    OBVIOUS
  <2>1. stack = <<NewFrame(Main, 1)>> /\ escaped = {}
        /\ result = [t \in Tasks |-> NoResult]
    BY DEF Init
  <2> QED
    BY <2>1 DEF Started, NewFrame, Finished, Main, Tasks
<1>2. ASSUME TypeOK, TaskInv, Started
      PROVE  /\ \A t \in 1..spawned : runs[t] = 0 => InReady(t)
             /\ ready = <<>> => SpawnedRuns
  <2>1. ASSUME NEW t \in 1..spawned, runs[t] = 0
        PROVE  InReady(t)
    <3>1. t \in Tasks
      BY <1>2, SchedulerAssumption DEF TypeOK, Tasks
    <3>2. ~Finished(t) /\ t \notin escaped /\ ~OnStack(t)
      BY <1>2, <2>1, <3>1 DEF Started, OnStack
    <3> QED
      BY <1>2, <3>2 DEF TaskInv, NoTaskLost
  <2>2. ASSUME ready = <<>>, NEW t \in 1..spawned
        PROVE  runs[t] > 0
    <3>1. t \in Tasks /\ runs \in [Tasks -> Nat]
      BY <1>2, SchedulerAssumption DEF TypeOK, Tasks
    <3>2. runs[t] # 0
      BY <2>1, <2>2 DEF InReady
    <3> QED
      BY <3>1, <3>2
  <2> QED
    BY <2>1, <2>2 DEF SpawnedRuns
<1>3. Spec => [](TypeOK /\ TaskInv /\ Started)
  BY <1>1, NextStarted, InitTaskInv, NextTaskInv, TypeCorrect, PTL DEF Spec
<1> QED
  BY <1>2, <1>3, PTL

\* An evaluation that was started is still on the stack, left a result, or was
\* ended by a signal.
Accounted == \A t \in Tasks : runs[t] > 0 => Finished(t) \/ OnStack(t) \/ t \in escaped

\* Starting a body keeps that.
LEMMA StartBodyAccounted ==
  ASSUME TypeOK, Accounted, NEW t \in Tasks, StartBody(t), UNCHANGED <<result, escaped>>
  PROVE  Accounted' /\ \A u \in Tasks : runs'[u] # runs[u] => u = t
<1>1. \A u \in Tasks : u # t => runs'[u] = runs[u]
  BY DEF StartBody, TypeOK
<1>2. OnStack(t)' /\ \A u : OnStack(u) => OnStack(u)'
  BY StartBodyOnStack
<1> QED
  BY <1>1, <1>2 DEF Accounted, Finished

\* So does a turn of the scheduler, whose task has no result.
LEMMA RunOneReadyAccounted ==
  ASSUME TypeOK, Accounted, RunOneReady, UNCHANGED <<result, escaped>>
  PROVE  Accounted' /\ \A u \in Tasks : runs'[u] # runs[u] => ~Finished(u)
<1>1. PICK i \in 1..Len(ready) : StartBody(ready[i]) /\ ~Finished(ready[i])
  BY DEF RunOneReady, Runnable
<1>2. ready[i] \in Tasks
  <2>1. ready[i] \in 1..spawned /\ spawned \in 0..MaxTasks
    BY DEF TypeOK
  <2> QED
    BY <2>1, SchedulerAssumption DEF Tasks
<1> QED
  BY <1>1, <1>2, StartBodyAccounted

\* Every step keeps it, and starts no body of a task that has a result.
LEMMA NextAccounted ==
  ASSUME TypeOK, Accounted, [Next]_vars
  PROVE  Accounted' /\ \A t \in Tasks : runs'[t] # runs[t] => ~Finished(t)
<1> DEFINE Goal == Accounted' /\ \A t \in Tasks : runs'[t] # runs[t] => ~Finished(t)
<1>0. ASSUME SameBodies, UNCHANGED <<runs, result, escaped>>
      PROVE  Goal
  BY <1>0 DEF Accounted, SameBodies, Finished, OnStack
<1>1. CASE Spawn
  BY <1>1, <1>0 DEF Spawn, control, SameBodies
<1>2. ASSUME NEW t \in Tasks, ForceTask(t)
      PROVE  Goal
  BY <1>2, StartBodyAccounted DEF ForceTask
<1>3. CASE InPlace
  BY <1>0, <1>3, InPlaceFacts DEF tasks
<1>4. CASE Return
  <2>1. /\ stack # <<>> /\ stack' = Pop /\ UNCHANGED <<runs, escaped>>
        /\ result' = IF Top.task = Main THEN result
                                        ELSE [result EXCEPT ![Top.task] = Top.run]
    BY <1>4 DEF Return, Running
  <2>2. Top.task \in Tasks \cup {Main} /\ Top.run # NoResult
    BY <2>1, TopFrame DEF Frames, NoResult
  <2>3. \A t \in Tasks : OnStack(t) => t = Top.task \/ OnStack(t)'
    BY <2>1, PopBody
  <2>4. \A t \in Tasks : Finished(t) \/ t = Top.task => Finished(t)'
    <3>1. Main \notin Tasks
      BY DEF Main, Tasks
    <3> QED
      BY <2>1, <2>2, <3>1 DEF Finished, TypeOK
  <2> QED
    BY <2>1, <2>3, <2>4 DEF Accounted
<1>5. ASSUME NEW c \in Chans, RecvDrive(c)
      PROVE  Goal
  BY <1>5, RunOneReadyAccounted DEF RecvDrive
<1>6. ASSUME NEW c \in Chans, RecvDeadlock(c)
      PROVE  Goal
  BY <1>6, <1>0 DEF RecvDeadlock, SameBodies
<1>7. CASE Escape
  <2>1. /\ stack # <<>> /\ stack' = Pop /\ UNCHANGED <<runs, result>>
        /\ escaped' = IF Top.task = Main THEN escaped ELSE escaped \cup {Top.task}
    BY <1>7 DEF Escape
  <2>2. \A t \in Tasks : OnStack(t) => t = Top.task \/ OnStack(t)'
    BY <2>1, PopBody
  <2>3. Main \notin Tasks
    BY DEF Main, Tasks
  <2> QED
    BY <2>1, <2>2, <2>3 DEF Accounted, Finished
<1>8. CASE DrainOne
  BY <1>8, RunOneReadyAccounted DEF DrainOne
<1>9. CASE DrainEnd
  BY <1>9, <1>0 DEF DrainEnd, SameBodies
<1>10. CASE UNCHANGED vars
  BY <1>10, <1>0 DEF vars, control, tasks, SameBodies
<1> QED
  BY <1>1, <1>2, <1>3, <1>4, <1>5, <1>6, <1>7, <1>8, <1>9, <1>10
  DEF Next, Program, Interpreter, Terminated, InPlace

\* What is left of run_task's comment in every program: a body is evaluated again
\* only while an evaluation of it is suspended further down the stack or after a
\* signal ended one, and never once it has a result.
THEOREM RestartsAreUnsettled == Spec => RestartsUnsettled
<1>1. Init => Accounted
  BY DEF Init, Accounted
<1>2. TypeOK /\ Accounted /\ [Next]_vars => Accounted'
  BY NextAccounted
<1>3. TypeOK /\ Accounted /\ [Next]_vars =>
        [\A t \in Tasks : runs[t] > 0 /\ runs'[t] # runs[t] =>
           ~Finished(t) /\ (OnStack(t) \/ t \in escaped)]_vars
  BY NextAccounted DEF Accounted
<1> QED
  BY <1>1, <1>2, <1>3, TypeCorrect, PTL DEF Spec, RestartsUnsettled
=============================================================================
