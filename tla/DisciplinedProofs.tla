-------------------------- MODULE DisciplinedProofs ---------------------------
(***************************************************************************)
(* Proofs about disciplined programs: those that force a task only before  *)
(* it has run or after it has finished, and in which, while a task is      *)
(* under evaluation that is still in the ready queue, no body calls recv   *)
(* on a channel that is empty and open and none raises what it does not    *)
(* catch itself (MayForce, MayWait, MayRaise).  For them a future is what  *)
(* its comments promise: one evaluation, one result.  A program that       *)
(* awaits a task before its turn may not be disciplined, even if it awaits *)
(* it once only: that task must not wait.                                  *)
(***************************************************************************)
EXTENDS SchedulerProofs

\* No task of the frames 1..n is in the ready queue, to be started again.
CalmTo(n) == \A i \in 1..n : ~InReady(stack[i].task)

\* A body inside a recv that would start another task, or has, has no task at or
\* below it that the scheduler could start again.
WaitersCalm ==
  \A j \in 1..Len(stack) :
    stack[j].recv \in Chans /\ (j = Len(stack) => ~Answerable(stack[j].recv)) => CalmTo(j)

\* A signal is caught by the top body, or ends no body that is still queued.
SignalCaught ==
  signal # "none" =>
    \/ CalmTo(Len(stack))
    \/ \E k \in 1..Len(Top.ctx) : Top.ctx[k] = HandlerOf(signal)

\* A queued task that was started and is not finished is under evaluation.
StartedOnStack ==
  \A t \in Tasks : InReady(t) /\ ~Finished(t) /\ runs[t] > 0 => OnStack(t)

\* A body under evaluation is its task's first, and its task has no result yet.
FramesLive ==
  \A i \in 1..Len(stack) :
    stack[i].task # Main => runs[stack[i].task] = 1 /\ ~Finished(stack[i].task)

\* No task has two bodies under evaluation.
FramesDistinct ==
  \A i, j \in 1..Len(stack) : stack[i].task = stack[j].task => i = j

\* Only what was spawned runs, and only what ran ends.
RunsSpawned ==
  \A t \in Tasks : /\ Finished(t) \/ t \in escaped => runs[t] > 0
                   /\ runs[t] > 0 => t <= spawned

FrameInv == FramesLive /\ FramesDistinct /\ RunsSpawned /\ BodyOnce /\ StartedOnStack
WaitInv  == WaitersCalm /\ SignalCaught
DiscInv  == FrameInv /\ WaitInv

-----------------------------------------------------------------------------
(* The ways a step changes the stack. *)

\* Tasks and their numbers.
LEMMA FrameTypes ==
  ASSUME TypeOK
  PROVE  /\ Len(stack) \in Nat
         /\ \A i \in 1..Len(stack) : stack[i] \in Frames /\ stack[i].task \in Tasks \cup {Main}
         /\ Main \notin Tasks /\ NoChan \notin Chans
         /\ 1..spawned \subseteq Tasks
         /\ \A t : InReady(t) => t \in 1..spawned
<1>1. stack \in Seq(Frames) /\ ready \in Seq(1..spawned) /\ spawned \in 0..MaxTasks
  BY DEF TypeOK
<1>2. \A t : InReady(t) => t \in 1..spawned
  BY <1>1 DEF InReady
<1>3. \A i \in 1..Len(stack) : stack[i] \in Frames
  BY <1>1
<1>4. \A f \in Frames : f.task \in Tasks \cup {Main}
  BY DEF Frames
<1>5. Main \notin Tasks /\ 1..spawned \subseteq Tasks
  BY <1>1, SchedulerAssumption DEF Tasks, Main
<1> QED
  BY <1>1, <1>2, <1>3, <1>4, <1>5, SchedulerAssumption

\* Starting the body of a task that has not run yet.
LEMMA StartKeepsDisc ==
  ASSUME TypeOK, DiscInv, NEW t \in Tasks, t <= spawned, runs[t] = 0, ~Finished(t),
         StartBody(t), UNCHANGED <<spawned, result, escaped>>, signal' = "none",
         \A u : InReady(u)' => InReady(u),
         stack # <<>> /\ Top.recv \in Chans => CalmTo(Len(stack))
  PROVE  DiscInv'
<1> DEFINE n == Len(stack)
<1>1. /\ n \in Nat
      /\ Len(stack') = n + 1
      /\ stack # <<>> => n # 0
      /\ \A i \in 1..n : stack'[i] = stack[i]
      /\ stack'[n + 1].task = t /\ stack'[n + 1].recv = NoChan
  <2>1. stack \in Seq(Frames)
    BY DEF TypeOK
  <2>2. stack' = Append(stack, NewFrame(t, runs'[t]))
    BY DEF StartBody
  <2>3. stack'[n + 1] = NewFrame(t, runs'[t])
    BY <2>1, <2>2
  <2> QED
    BY <2>1, <2>3, StartBodyFacts DEF NewFrame
<1>2. runs'[t] = 1 /\ \A u \in Tasks : u # t => runs'[u] = runs[u]
  BY DEF StartBody, TypeOK
<1>3. \A i \in 1..n : stack[i].task # t
  BY FrameTypes DEF DiscInv, FrameInv, FramesLive
<1>4. \A i \in 1..(n + 1) : i # n + 1 => i \in 1..n
  BY <1>1
<1>5. result' = result
  OBVIOUS
<1> HIDE DEF n
<1>6. FramesLive'
  <2> SUFFICES ASSUME NEW i \in 1..(n + 1)
               PROVE  (stack[i].task # Main =>
                         runs[stack[i].task] = 1 /\ ~Finished(stack[i].task))'
    BY <1>1 DEF FramesLive
  <2>1. CASE i = n + 1
    BY <1>1, <1>2, <1>5, <2>1 DEF Finished
  <2>2. CASE i # n + 1
    <3>1. /\ i \in 1..n /\ stack'[i] = stack[i] /\ stack[i].task # t
          /\ stack[i].task \in Tasks \cup {Main}
      BY <1>1, <1>3, <1>4, <2>2, FrameTypes DEF n
    <3>2. stack[i].task # Main => runs[stack[i].task] = 1 /\ ~Finished(stack[i].task)
      BY <3>1 DEF DiscInv, FrameInv, FramesLive, n
    <3> QED
      BY <1>2, <1>5, <3>1, <3>2 DEF Finished
  <2> QED
    BY <2>1, <2>2
<1>7. FramesDistinct'
  BY <1>1, <1>3, <1>4 DEF DiscInv, FrameInv, FramesDistinct, n
<1>8. RunsSpawned' /\ BodyOnce'
  <2> SUFFICES ASSUME NEW u \in Tasks
               PROVE  (/\ Finished(u) \/ u \in escaped => runs[u] > 0
                       /\ runs[u] > 0 => u <= spawned
                       /\ runs[u] <= 1)'
    BY DEF RunsSpawned, BodyOnce
  <2>1. /\ Finished(u) \/ u \in escaped => runs[u] > 0
        /\ runs[u] > 0 => u <= spawned
        /\ runs[u] <= 1
    BY DEF DiscInv, FrameInv, RunsSpawned, BodyOnce
  <2> QED
    BY <1>2, <1>5, <2>1 DEF Finished
<1>9. StartedOnStack'
  BY <1>2, <1>5, StartBodyOnStack DEF DiscInv, FrameInv, StartedOnStack, Finished
<1>10. WaitersCalm'
  <2> SUFFICES ASSUME NEW j \in 1..(n + 1), stack'[j].recv \in Chans
               PROVE  CalmTo(j)'
    BY <1>1 DEF WaitersCalm
  <2>1. j \in 1..n
    BY <1>1, <1>4, SchedulerAssumption
  <2>2. CalmTo(j)
    <3>1. CASE j = n
      BY <1>1, <2>1, <3>1 DEF Top, n
    <3>2. CASE j # n
      BY <1>1, <2>1, <3>2 DEF DiscInv, WaitInv, WaitersCalm, n
    <3> QED
      BY <3>1, <3>2
  <2> QED
    BY <1>1, <2>1, <2>2 DEF CalmTo
<1> QED
  BY <1>6, <1>7, <1>8, <1>9, <1>10 DEF DiscInv, FrameInv, WaitInv, SignalCaught

\* One turn of the scheduler starts a task that has not run yet.
LEMMA TurnStarts ==
  ASSUME TypeOK, DiscInv, RunOneReady, CalmTo(Len(stack))
  PROVE  \E t \in Tasks : /\ t <= spawned /\ runs[t] = 0 /\ ~Finished(t) /\ InReady(t)
                          /\ StartBody(t)
                          /\ \A u : InReady(u)' => InReady(u)
<1>1. PICK i \in 1..Len(ready) : /\ Runnable(i)
                                 /\ ready' = SubSeq(ready, i + 1, Len(ready))
                                 /\ StartBody(ready[i])
  BY DEF RunOneReady
<1>2. ready \in Seq(1..spawned)
  BY DEF TypeOK
<1>3. InReady(ready[i]) /\ ~Finished(ready[i])
  BY <1>1 DEF InReady, Runnable
<1>4. ready[i] \in Tasks /\ ready[i] <= spawned
  <2>1. ready[i] \in 1..spawned /\ spawned \in Nat
    BY <1>2 DEF TypeOK
  <2> QED
    BY <2>1, FrameTypes
<1>5. runs[ready[i]] = 0
  <2>1. ~OnStack(ready[i])
    BY <1>3 DEF CalmTo, OnStack
  <2> QED
    BY <1>3, <1>4, <2>1 DEF DiscInv, FrameInv, StartedOnStack, TypeOK
<1>6. \A u : InReady(u)' => InReady(u)
  <2>1. /\ Len(ready') = Len(ready) - i /\ Len(ready) \in Nat
        /\ \A j \in 1..(Len(ready) - i) : ready'[j] = ready[i + j]
    BY <1>1, <1>2, CutFacts
  <2> QED
    BY <2>1 DEF InReady
<1> QED
  BY <1>1, <1>3, <1>4, <1>5, <1>6

\* What is below the top of the stack stays so when the top body ends, or only
\* what it waits for or has open changes.
LEMMA BelowStays ==
  ASSUME DiscInv, ready' = ready, NEW n \in Nat, n <= Len(stack), Len(stack) \in Nat,
         \A i \in 1..n : stack'[i].task = stack[i].task
  PROVE  /\ CalmTo(n) => CalmTo(n)'
         /\ \A j \in 1..n : j < Len(stack) /\ stack[j].recv \in Chans => CalmTo(j)'
<1>1. \A j \in 1..n : CalmTo(j) => CalmTo(j)'
  BY DEF CalmTo, InReady
<1>2. CalmTo(n) => CalmTo(n)'
  BY DEF CalmTo, InReady
<1>3. ASSUME NEW j \in 1..n, j < Len(stack), stack[j].recv \in Chans
      PROVE  CalmTo(j)
  <2>1. j \in 1..Len(stack) /\ j # Len(stack)
    BY <1>3
  <2> QED
    BY <1>3, <2>1 DEF DiscInv, WaitInv, WaitersCalm
<1> QED
  BY <1>1, <1>2, <1>3

\* The top body ends, with a result or because no handler of it caught a signal.
LEMMA PopKeepsDisc ==
  ASSUME TypeOK, DiscInv, stack # <<>>, stack' = Pop, NEW u, u = Top.task,
         UNCHANGED <<spawned, ready, runs>>,
         \A t \in Tasks : t # u => result'[t] = result[t],
         \A t \in Tasks : t \in escaped' => t \in escaped \/ t = u,
         u = Main \/ result'[u] # NoResult \/ (result'[u] = result[u] /\ ~InReady(u)),
         signal' # "none" => CalmTo(Len(stack))
  PROVE  DiscInv'
<1>1. PICK m \in Nat : m = Len(stack')
  BY PopBody
<1>2. /\ Len(stack) = m + 1
      /\ \A i \in 1..m : stack'[i] = stack[i] /\ i \in 1..Len(stack) /\ i # Len(stack)
  BY <1>1, PopBody
<1>3. \A i \in 1..m : stack[i].task # Top.task
  BY <1>2 DEF DiscInv, FrameInv, FramesDistinct, Top
<1>4. FramesLive'
  <2> SUFFICES ASSUME NEW i \in 1..m
               PROVE  (stack[i].task # Main =>
                         runs[stack[i].task] = 1 /\ ~Finished(stack[i].task))'
    BY <1>1 DEF FramesLive
  <2>1. stack[i].task # Main => runs[stack[i].task] = 1 /\ ~Finished(stack[i].task)
    BY <1>2 DEF DiscInv, FrameInv, FramesLive
  <2>2. PICK t \in Tasks \cup {Main} : t = stack[i].task /\ t = stack'[i].task
    BY <1>2, FrameTypes
  <2>3. t # Main => runs[t] = 1 /\ ~Finished(t)'
    BY <1>3, <2>1, <2>2 DEF Finished
  <2> QED
    BY <2>2, <2>3 DEF Finished
<1>5. FramesDistinct'
  BY <1>1, <1>2 DEF DiscInv, FrameInv, FramesDistinct
<1>6. RunsSpawned' /\ BodyOnce'
  <2>1. Top.task # Main => runs[Top.task] = 1
    BY <1>2, PopBody DEF DiscInv, FrameInv, FramesLive, Top
  <2>2. Main \notin Tasks
    BY FrameTypes
  <2> QED
    BY <2>1, <2>2 DEF DiscInv, FrameInv, RunsSpawned, BodyOnce, Finished
<1>7. StartedOnStack'
  <2> SUFFICES ASSUME NEW t \in Tasks, InReady(t), ~Finished(t)', runs[t] > 0
               PROVE  OnStack(t)'
    BY DEF StartedOnStack, InReady
  <2>1. t # Main /\ t # u
    BY FrameTypes DEF Finished
  <2>2. OnStack(t)
    BY <2>1 DEF DiscInv, FrameInv, StartedOnStack, Finished
  <2> QED
    BY <2>1, <2>2, PopBody
<1>8. WaitersCalm'
  <2> SUFFICES ASSUME NEW j \in 1..m, stack'[j].recv \in Chans
               PROVE  CalmTo(j)'
    BY <1>1 DEF WaitersCalm
  <2>1. m <= Len(stack) /\ Len(stack) \in Nat /\ j < Len(stack) /\ stack[j].recv \in Chans
    BY <1>2
  <2> QED
    BY <1>2, <2>1, BelowStays
<1>9. SignalCaught'
  <2>1. CalmTo(Len(stack)) => CalmTo(m)'
    BY <1>2 DEF CalmTo, InReady
  <2> QED
    BY <1>1, <2>1 DEF SignalCaught
<1> QED
  BY <1>4, <1>5, <1>6, <1>7, <1>8, <1>9 DEF DiscInv, FrameInv, WaitInv

\* The steps of the top body that neither start nor end a body.
LEMMA InPlaceKeepsDisc ==
  ASSUME TypeOK, DiscInv, Disciplined, InPlace
  PROVE  DiscInv'
<1>1. SameBodies /\ UNCHANGED <<phase, tasks>> /\ stack # <<>>
  BY InPlaceFacts
<1>0. PICK n \in Nat \ {0} : n = Len(stack)
  BY <1>1, TopFrame
<1>2. /\ stack \in Seq(Frames) /\ Len(stack') = n
      /\ \A f : stack' = SetTop(f) =>
           /\ \A i \in 1..(n - 1) : stack'[i] = stack[i]
           /\ stack'[n] = f /\ Top' = f
  <2>1. stack \in Seq(Frames) /\ Len(stack') = n
    BY <1>0, <1>1 DEF TypeOK, SameBodies
  <2>2. ASSUME NEW f, stack' = SetTop(f)
        PROVE  /\ \A i \in 1..(n - 1) : stack'[i] = stack[i]
               /\ stack'[n] = f /\ Top' = f
    <3>1. \A i \in 1..n : stack'[i] = IF i = n THEN f ELSE stack[i]
      BY <1>0, <2>1, <2>2 DEF SetTop
    <3> QED
      BY <2>1, <3>1 DEF Top
  <2> QED
    BY <2>1, <2>2
<1>3. UNCHANGED <<spawned, ready, result, runs, escaped>>
      /\ \A i \in 1..n : stack'[i].task = stack[i].task
  BY <1>0, <1>1 DEF tasks, SameBodies
<1>4. FrameInv'
  BY <1>0, <1>2, <1>3
  DEF DiscInv, FrameInv, FramesLive, FramesDistinct, RunsSpawned, BodyOnce, StartedOnStack,
      Finished, InReady, OnStack
<1>5. /\ CalmTo(n) => CalmTo(n)'
      /\ \A j \in 1..(n - 1) : stack[j].recv \in Chans => CalmTo(j)'
  BY <1>0, <1>3, BelowStays
<1>6. /\ Top = stack[n] /\ Top' = stack'[n] /\ Top \in Frames
      /\ \A c \in Chans \cup {NoChan} : [Top EXCEPT !.recv = c].recv = c
      /\ \A x : [Top EXCEPT !.ctx = x].recv = Top.recv
      /\ \A x, c : [Top EXCEPT !.recv = c, !.ctx = x].recv = c
  BY <1>0, <1>1, <1>2, TopFrame DEF Top, Frames
<1>7. \A j \in 1..n : j # n => j \in 1..(n - 1)
  BY <1>2
\* It is enough to say what the step makes of the top frame and the signal.
<1>8. ASSUME \A i \in 1..(n - 1) : stack'[i] = stack[i],
             NEW c, c = stack'[n].recv, c \in Chans => CalmTo(n) \/ Answerable(c)',
             NEW x, x = stack'[n].ctx,
             signal' # "none" => CalmTo(n) \/ \E k \in 1..Len(x) : x[k] = HandlerOf(signal')
      PROVE  DiscInv'
  <2>1. WaitersCalm'
    <3> SUFFICES ASSUME NEW j \in 1..n, stack'[j].recv \in Chans,
                        j = n => ~Answerable(c)'
                 PROVE  CalmTo(j)'
      BY <1>0, <1>2, <1>8 DEF WaitersCalm, Answerable
    <3>1. CASE j = n
      BY <1>5, <1>8, <3>1
    <3>2. CASE j # n
      BY <1>5, <1>7, <1>8, <3>2
    <3> QED
      BY <3>1, <3>2
  <2>2. SignalCaught'
    <3> SUFFICES ASSUME signal' # "none"
                 PROVE  CalmTo(n)' \/ \E k \in 1..Len(x) : x[k] = HandlerOf(signal')
      BY <1>0, <1>2, <1>6, <1>8 DEF SignalCaught, HandlerOf, CalmTo
    <3> QED
      BY <1>5, <1>8
  <2> QED
    BY <1>4, <2>1, <2>2 DEF DiscInv, WaitInv
\* A step of a running body, which is in no recv.
<1>9. ASSUME Running, stack' = stack,
             signal' # "none" => MayRaise(HandlerOf(signal'))
      PROVE  DiscInv'
  <2>1. MayWait => CalmTo(n)
    BY <1>0 DEF MayWait, CalmTo
  <2>2. stack'[n].recv \notin Chans
    BY <1>6, <1>9, SchedulerAssumption DEF Running
  <2>3. stack'[n].ctx = Top.ctx
    BY <1>6, <1>9
  <2> QED
    BY <1>8, <1>9, <2>1, <2>2, <2>3 DEF MayRaise
\* A step that leaves the top body in no recv and raises nothing.
<1>10. ASSUME NEW f, f.recv \notin Chans, stack' = SetTop(f), signal' = "none"
       PROVE  DiscInv'
  <2>1. stack'[n].recv \notin Chans
    BY <1>2, <1>10
  <2> QED
    BY <1>2, <1>8, <1>10, <2>1
<1>11. ASSUME NEW c \in Chans, Send(c) \/ Close(c)
       PROVE  DiscInv'
  <2>1. CASE Close(c)
    BY <1>9, <2>1 DEF Close, control, Running
  <2>2. CASE Send(c) /\ ~closed[c]
    BY <1>9, <2>2 DEF Send, Running
  <2>3. CASE Send(c) /\ closed[c]
    BY <1>9, <2>3 DEF Send
  <2> QED
    BY <1>11, <2>1, <2>2, <2>3
<1>12. ASSUME NEW c \in Chans, CallRecv(c)
       PROVE  DiscInv'
  <2>1. /\ stack' = SetTop([Top EXCEPT !.recv = c]) /\ signal' = "none"
        /\ UNCHANGED <<buf, closed>>
    BY <1>12 DEF CallRecv, Running, chans
  <2>2. stack'[n].recv = c
    <3>1. [Top EXCEPT !.recv = c].recv = c
      BY <1>6
    <3> QED
      BY <1>2, <2>1, <3>1
  <2>3. Answerable(c) => Answerable(c)'
    BY <2>1 DEF Answerable
  <2>4. Answerable(c) \/ CalmTo(n)
    <3>1. MayWait => CalmTo(n)
      BY <1>0 DEF MayWait, CalmTo
    <3>2. CASE MayWait
      BY <3>1, <3>2
    <3>3. CASE ~MayWait
      BY <1>12, <3>3 DEF CallRecv, Answerable
    <3> QED
      BY <3>2, <3>3
  <2> QED
    BY <1>2, <1>8, <2>1, <2>2, <2>3, <2>4
<1>13. ASSUME NEW c \in Chans, RecvValue(c) \/ RecvNil(c)
       PROVE  DiscInv'
  BY <1>6, <1>10, <1>13, SchedulerAssumption DEF RecvValue, RecvNil, Receiving
<1>14. ASSUME NEW k \in {"try", "loop"}, Enter(k)
       PROVE  DiscInv'
  BY <1>6, <1>10, <1>14, SchedulerAssumption DEF Enter, Running
<1>15. CASE Leave
  BY <1>6, <1>10, <1>15, SchedulerAssumption DEF Leave, Running
<1>16. ASSUME NEW s \in {"error", "break", "continue"}, Raise(s)
       PROVE  DiscInv'
  BY <1>9, <1>16 DEF Raise
<1>17. CASE Catch
  <2>1. PICK x : stack' = SetTop([Top EXCEPT !.recv = NoChan, !.ctx = x])
    BY <1>17 DEF Catch
  <2>2. [Top EXCEPT !.recv = NoChan, !.ctx = x].recv \notin Chans
    BY <1>6, SchedulerAssumption
  <2> QED
    BY <1>10, <1>17, <2>1, <2>2 DEF Catch
<1> QED
  BY <1>11, <1>12, <1>13, <1>14, <1>15, <1>16, <1>17 DEF InPlace

\* A spawn: the new task has not run, and no body is its own.
LEMMA SpawnKeepsDisc ==
  ASSUME TypeOK, DiscInv, Spawn
  PROVE  DiscInv'
<1>1. /\ stack' = stack /\ signal' = signal /\ signal = "none" /\ spawned' = spawned + 1
      /\ ready' = Append(ready, spawned + 1)
      /\ UNCHANGED <<result, runs, escaped, buf, closed>>
  BY DEF Spawn, Running, control, chans
<1>2. ready \in Seq(1..spawned) /\ spawned \in Nat /\ runs \in [Tasks -> Nat]
  BY DEF TypeOK
<1>3. ASSUME NEW u, InReady(u)', ~InReady(u)
      PROVE  u = spawned + 1
  <2>1. \A i \in 1..Len(ready') : \/ i \in 1..Len(ready) /\ ready'[i] = ready[i]
                                  \/ ready'[i] = spawned + 1
    BY <1>1, <1>2
  <2> QED
    BY <1>3, <2>1 DEF InReady
<1>4. \A t \in Tasks : runs[t] > 0 => t # spawned + 1
  BY <1>2 DEF DiscInv, FrameInv, RunsSpawned, Tasks
<1>5. \A i \in 1..Len(stack) : stack[i].task # spawned + 1
  <2>1. spawned + 1 # Main
    BY <1>2 DEF Main
  <2> QED
    BY <1>2, <1>4, <2>1, FrameTypes DEF DiscInv, FrameInv, FramesLive
<1>6. \A n \in 0..Len(stack) : CalmTo(n) => CalmTo(n)'
  <2> SUFFICES ASSUME NEW n \in 0..Len(stack), CalmTo(n), NEW i \in 1..n
               PROVE  ~InReady(stack[i].task)'
    BY <1>1 DEF CalmTo, InReady
  <2>1. PICK u : u = stack[i].task
    OBVIOUS
  <2>2. i \in 1..Len(stack) /\ ~InReady(u)
    BY <2>1, FrameTypes DEF CalmTo
  <2>3. ~InReady(u)'
    BY <1>3, <1>5, <2>1, <2>2
  <2> QED
    BY <1>1, <2>1, <2>3 DEF InReady
<1>7. FramesLive' /\ FramesDistinct'
  BY <1>1 DEF DiscInv, FrameInv, FramesLive, FramesDistinct, Finished
<1>8. RunsSpawned' /\ BodyOnce'
  BY <1>1, <1>2 DEF DiscInv, FrameInv, RunsSpawned, BodyOnce, Finished, Tasks
<1>9. StartedOnStack'
  BY <1>1, <1>3, <1>4 DEF DiscInv, FrameInv, StartedOnStack, Finished, OnStack
<1>10. WaitersCalm'
  <2> SUFFICES ASSUME NEW j \in 1..Len(stack), stack[j].recv \in Chans,
                      j = Len(stack) => ~Answerable(stack[j].recv)
               PROVE  CalmTo(j)'
    BY <1>1 DEF WaitersCalm, Answerable
  <2>1. CalmTo(j) /\ j \in 0..Len(stack)
    BY FrameTypes DEF DiscInv, WaitInv, WaitersCalm
  <2> QED
    BY <1>6, <2>1
<1> QED
  BY <1>1, <1>7, <1>8, <1>9, <1>10 DEF DiscInv, FrameInv, WaitInv, SignalCaught

\* A step that only drops finished tasks from the queue, or changes no task.
LEMMA QueueKeepsDisc ==
  ASSUME TypeOK, DiscInv, UNCHANGED <<stack, spawned, result, runs, escaped, buf, closed>>,
         ready' = ready \/ ready' = <<>>,
         signal' # "none" => signal' = signal \/ ready' = <<>>
  PROVE  DiscInv'
<1>1. \A u : InReady(u)' => InReady(u)
  BY DEF InReady
<1>2. \A n : CalmTo(n) \/ ready' = <<>> => CalmTo(n)'
  BY DEF CalmTo, InReady
<1>3. FrameInv'
  BY <1>1 DEF DiscInv, FrameInv, FramesLive, FramesDistinct, RunsSpawned, BodyOnce,
              StartedOnStack, Finished, OnStack
<1>4. WaitersCalm'
  BY <1>1 DEF DiscInv, WaitInv, WaitersCalm, CalmTo, Answerable, InReady
<1>5. SignalCaught'
  <2>1. CASE signal' = "none"
    BY <2>1 DEF SignalCaught
  <2>2. CASE signal' = signal /\ signal # "none"
    BY <2>2 DEF DiscInv, WaitInv, SignalCaught, CalmTo, InReady, Top, HandlerOf
  <2>3. CASE ready' = <<>>
    BY <2>3 DEF SignalCaught, CalmTo, InReady
  <2> QED
    BY <2>1, <2>2, <2>3
<1> QED
  BY <1>3, <1>4, <1>5 DEF DiscInv, WaitInv

\* A body ends with a value.
LEMMA ReturnKeepsDisc ==
  ASSUME TypeOK, DiscInv, Return
  PROVE  DiscInv'
<1>1. /\ stack # <<>> /\ signal = "none" /\ signal' = "none" /\ stack' = Pop
      /\ UNCHANGED <<spawned, ready, runs, escaped>>
  BY DEF Return, Running
<1>2. Top \in Frames /\ Top.run # NoResult /\ result \in [Tasks -> Nat]
  BY <1>1, TopFrame DEF Frames, NoResult, TypeOK
<1>3. PICK u \in Tasks \cup {Main} : u = Top.task
  BY <1>2 DEF Frames
<1>4. CASE u = Main
  <2>1. result' = result
    BY <1>3, <1>4 DEF Return
  <2> QED
    BY <1>1, <1>3, <1>4, <2>1, PopKeepsDisc
<1>5. CASE u # Main
  <2>1. result' = [result EXCEPT ![u] = Top.run]
    BY <1>3, <1>5 DEF Return
  <2>2. result'[u] # NoResult /\ \A t \in Tasks : t # u => result'[t] = result[t]
    BY <1>2, <1>3, <1>5, <2>1
  <2> QED
    BY <1>1, <1>3, <2>2, PopKeepsDisc
<1> QED
  BY <1>4, <1>5

\* A body ends with a signal: no task at or below it can be started again.
LEMMA EscapeKeepsDisc ==
  ASSUME TypeOK, DiscInv, Escape
  PROVE  DiscInv'
<1>1. /\ stack # <<>> /\ signal # "none" /\ stack' = Pop
      /\ UNCHANGED <<spawned, ready, runs, result>>
      /\ \A i \in 1..Len(Top.ctx) : Top.ctx[i] # HandlerOf(signal)
  BY DEF Escape
<1>2. PICK u : u = Top.task
  OBVIOUS
<1>3. \A t \in Tasks : t \in escaped' => t \in escaped \/ t = u
  BY <1>2 DEF Escape
<1>4. CalmTo(Len(stack))
  BY <1>1 DEF DiscInv, WaitInv, SignalCaught
<1>5. ~InReady(u)
  BY <1>1, <1>2, <1>4, TopFrame DEF CalmTo, Top
<1> QED
  BY <1>1, <1>2, <1>3, <1>4, <1>5, PopKeepsDisc

\* Every step of a disciplined program keeps the invariant.
LEMMA NextDiscInv ==
  ASSUME TypeOK, StackMatchesPhase, DiscInv, Disciplined, [Next]_vars
  PROVE  DiscInv'
<1>1. ASSUME NEW t \in Tasks, ForceTask(t)
      PROVE  DiscInv'
  <2>1. /\ t <= spawned /\ runs[t] = 0 /\ ~Finished(t) /\ StartBody(t)
        /\ signal' = "none" /\ Top.recv \notin Chans
        /\ UNCHANGED <<spawned, ready, result, escaped>>
    BY <1>1, SchedulerAssumption DEF ForceTask, MayForce, Running
  <2>2. \A u : InReady(u)' => InReady(u)
    BY <2>1 DEF InReady
  <2> QED
    BY <2>1, <2>2, StartKeepsDisc
<1>2. ASSUME RunOneReady, CalmTo(Len(stack)), UNCHANGED <<spawned, result, escaped>>,
             signal' = "none"
      PROVE  DiscInv'
  BY <1>2, TurnStarts, StartKeepsDisc
<1>3. ASSUME NEW c \in Chans, RecvDrive(c)
      PROVE  DiscInv'
  <2>1. stack # <<>> /\ Top.recv = c /\ ~Answerable(c) /\ signal = "none"
    BY <1>3 DEF RecvDrive, Receiving, Answerable
  <2>2. CalmTo(Len(stack))
    BY <2>1, TopFrame DEF DiscInv, WaitInv, WaitersCalm, Top
  <2> QED
    BY <1>2, <1>3, <2>1, <2>2 DEF RecvDrive
<1>4. ASSUME NEW c \in Chans, RecvDeadlock(c)
      PROVE  DiscInv'
  BY <1>4, QueueKeepsDisc DEF RecvDeadlock, chans
<1>5. CASE DrainOne
  <2>1. CalmTo(Len(stack))
    BY <1>5 DEF DrainOne, CalmTo
  <2>2. signal' = "none"
    BY <1>5 DEF DrainOne, StackMatchesPhase
  <2> QED
    BY <1>2, <1>5, <2>1, <2>2 DEF DrainOne
<1>6. CASE DrainEnd
  BY <1>6, QueueKeepsDisc DEF DrainEnd, chans
<1>7. CASE UNCHANGED vars
  BY <1>7, QueueKeepsDisc DEF vars, control, tasks, chans
<1>8. CASE InPlace
  BY <1>8, InPlaceKeepsDisc
<1> QED
  BY <1>1, <1>3, <1>4, <1>5, <1>6, <1>7, <1>8, SpawnKeepsDisc, ReturnKeepsDisc,
     EscapeKeepsDisc
  DEF Next, Program, Interpreter, Terminated, InPlace

\* A program starts with main alone on the stack.
LEMMA InitDiscInv == Init => DiscInv
<1> SUFFICES ASSUME Init
             PROVE  DiscInv
  OBVIOUS
<1>1. /\ Len(stack) = 1 /\ stack[1].task = Main /\ stack[1].recv = NoChan
      /\ signal = "none" /\ Len(ready) = 0
      /\ \A t \in Tasks : runs[t] = 0 /\ ~Finished(t) /\ t \notin escaped
  BY DEF Init, NewFrame, Finished
<1>2. FrameInv
  BY <1>1 DEF FrameInv, FramesLive, FramesDistinct, RunsSpawned, BodyOnce, StartedOnStack
<1>3. WaitInv
  BY <1>1, SchedulerAssumption DEF WaitInv, WaitersCalm, SignalCaught
<1> QED
  BY <1>2, <1>3 DEF DiscInv

\* The bodies, the queue and the waiting of a disciplined program, always.
LEMMA AlwaysDiscInv ==
  ASSUME Disciplined
  PROVE  Spec => []DiscInv
<1>1. TypeOK /\ StackMatchesPhase /\ DiscInv /\ [Next]_vars => DiscInv'
  BY NextDiscInv
<1> QED
  BY <1>1, InitDiscInv, TypeCorrect, StackTellsPhase, PTL DEF Spec

-----------------------------------------------------------------------------
(* One evaluation, one result. *)

\* In a disciplined program the body of a task is evaluated at most once
\* (run_task's comment), whichever of force, recv and the drain loop gets to it
\* first.  Other programs have RestartsAreUnsettled.
THEOREM EvaluatesOnce ==
  ASSUME Disciplined
  PROVE  Spec => []BodyOnce
<1>1. DiscInv => BodyOnce
  BY DEF DiscInv, FrameInv
<1> QED
  BY <1>1, AlwaysDiscInv, PTL

\* A body that ends is that of a task with no result yet.
LEMMA StepKeepsMemo ==
  ASSUME TypeOK, DiscInv, [Next]_vars
  PROVE  \A t \in Tasks : Finished(t) => result'[t] = result[t]
<1>1. CASE Return
  <2>1. Top \in Frames /\ Len(stack) \in 1..Len(stack)
    BY <1>1, TopFrame DEF Return, Running
  <2>2. Top.task # Main => ~Finished(Top.task)
    BY <2>1 DEF DiscInv, FrameInv, FramesLive, Top
  <2> QED
    BY <1>1, <2>1, <2>2 DEF Return, Frames, TypeOK
<1>2. CASE ~Return
  <2>1. result' = result
    BY <1>2, InPlaceFacts
    DEF Next, Program, Interpreter, Terminated, vars, Spawn, ForceTask, RecvDrive,
        RecvDeadlock, Escape, DrainOne, DrainEnd, InPlace, tasks
  <2> QED
    BY <2>1
<1> QED
  BY <1>1, <1>2

\* In a disciplined program the result of a task, once there, is the answer to
\* every later join (TaskState's comment).
THEOREM MemoKept ==
  ASSUME Disciplined
  PROVE  Spec => MemoStable
<1>1. TypeOK /\ DiscInv /\ [Next]_vars
        => [\A t \in Tasks : Finished(t) => result'[t] = result[t]]_vars
  BY StepKeepsMemo
<1> QED
  BY <1>1, AlwaysDiscInv, TypeCorrect, PTL DEF Spec, MemoStable

-----------------------------------------------------------------------------
(* The scheduler implements the promises of Futures, step by step. *)

\* The status of a task, by the first that applies.
LEMMA StatusIs ==
  ASSUME TypeOK, NEW t \in Tasks
  PROVE  Status(t) = IF t > spawned THEN "unborn"
                     ELSE IF Finished(t) THEN "done"
                     ELSE IF OnStack(t) THEN "running"
                     ELSE IF t \in escaped THEN "failed" ELSE "pending"
<1>1. t \in Nat /\ spawned \in Nat
  BY DEF TypeOK, Tasks
<1> QED
  BY <1>1 DEF Status

\* A step that changes the status of one task is a move of Futures.
LEMMA StatusMoves ==
  ASSUME NEW t \in Tasks, NEW to, Status(t)' = to,
         \A u \in Tasks : u # t => Status(u)' = Status(u),
         UNCHANGED <<sent, got, closed, nil>>
  PROVE  F!Move(t, Status(t), to)
BY DEF F!Move

\* A step that leaves every task and every channel as they were to the program.
LEMMA StatusStutters ==
  ASSUME TypeOK, TypeOK', UNCHANGED <<spawned, result, escaped, sent, got, closed, nil>>,
         \A t \in Tasks : OnStack(t)' <=> OnStack(t)
  PROVE  UNCHANGED F!vars
<1>1. \A t \in Tasks : Status(t)' = Status(t)
  BY StatusIs DEF Status, Finished
<1> QED
  BY <1>1 DEF F!vars

\* A spawn is the birth of a task.
LEMMA SpawnIsBorn ==
  ASSUME TypeOK, TypeOK', DiscInv, Spawn
  PROVE  \E t \in Tasks : F!Born(t)
<1>1. /\ spawned' = spawned + 1
      /\ UNCHANGED <<stack, result, runs, escaped, sent, got, closed, nil>>
  BY DEF Spawn, control, chans
<1>2. PICK t \in Tasks : t = spawned + 1
  BY SchedulerAssumption DEF Spawn, Tasks, TypeOK
<1>3. spawned \in Nat /\ t \in Nat /\ t > spawned
  BY <1>2 DEF TypeOK
<1>4. runs[t] = 0
  BY <1>3 DEF DiscInv, FrameInv, RunsSpawned, TypeOK
<1>5. ~Finished(t) /\ t \notin escaped /\ ~OnStack(t)
  <2>1. t # Main
    BY <1>2, <1>3 DEF Main
  <2> QED
    BY <1>4, <2>1 DEF DiscInv, FrameInv, RunsSpawned, FramesLive, OnStack
<1>6. Status(t) = "unborn"
  BY <1>3, StatusIs
<1>7. Status(t)' = "pending"
  <2>1. t <= spawned' /\ ~(t > spawned') /\ ~Finished(t)' /\ t \notin escaped' /\ ~OnStack(t)'
    BY <1>1, <1>2, <1>3, <1>5 DEF Finished, OnStack
  <2> QED
    BY <2>1 DEF Status
<1>8. ASSUME NEW u \in Tasks, u # t
      PROVE  Status(u)' = Status(u)
  <2>1. (u > spawned)' <=> u > spawned
    BY <1>1, <1>2, <1>3, <1>8 DEF Tasks
  <2>2. (u <= spawned)' <=> u <= spawned
    BY <1>1, <1>2, <1>3, <1>8 DEF Tasks
  <2>3. (Finished(u)' <=> Finished(u)) /\ (OnStack(u)' <=> OnStack(u)) /\ escaped' = escaped
    BY <1>1 DEF Finished, OnStack
  <2> QED
    BY <2>1, <2>2, <2>3 DEF Status
<1> QED
  BY <1>1, <1>6, <1>7, <1>8, StatusMoves DEF F!Born

\* The first body of a task is its start.
LEMMA StartIsStart ==
  ASSUME TypeOK, DiscInv, NEW t \in Tasks, t <= spawned, runs[t] = 0, StartBody(t),
         UNCHANGED <<spawned, result, escaped, sent, got, closed, nil>>
  PROVE  F!Start(t)
<1>1. t # Main /\ ~(t > spawned)
  BY DEF TypeOK, Tasks, Main
<1>2. ~Finished(t) /\ t \notin escaped /\ ~OnStack(t)
  BY <1>1 DEF DiscInv, FrameInv, RunsSpawned, FramesLive, OnStack
<1>3. Status(t) = "pending"
  BY <1>1, <1>2, StatusIs
<1>4. Status(t)' = "running"
  <2>1. t <= spawned' /\ ~(t > spawned') /\ ~Finished(t)' /\ OnStack(t)'
    BY <1>1, <1>2, StartBodyOnStack DEF Finished
  <2> QED
    BY <2>1 DEF Status
<1>5. ASSUME NEW u \in Tasks, u # t
      PROVE  Status(u)' = Status(u)
  <2>1. OnStack(u)' <=> OnStack(u)
    <3>1. OnStack(u) => OnStack(u)'
      BY StartBodyOnStack
    <3>2. OnStack(u)' => OnStack(u)
      <4>1. \A i \in 1..Len(stack') : i = Len(stack) + 1 \/ i \in 1..Len(stack)
        BY StartBodyFacts
      <4> QED
        BY <1>5, <4>1, StartBodyFacts DEF OnStack
    <3> QED
      BY <3>1, <3>2
  <2>2. Finished(u)' <=> Finished(u)
    BY DEF Finished
  <2> QED
    BY <2>1, <2>2 DEF Status
<1> QED
  BY <1>3, <1>4, <1>5, StatusMoves DEF F!Start

\* What the end of the top body says of the tasks: its task ran, and is on the
\* stack no more; the others are where they were.
LEMMA PopStatus ==
  ASSUME TypeOK, DiscInv, stack # <<>>, stack' = Pop, NEW u, u = Top.task
  PROVE  /\ u \in Tasks => OnStack(u) /\ ~OnStack(u)' /\ ~Finished(u) /\ u <= spawned
                         /\ ~(u > spawned)
         /\ \A t : t # u => (OnStack(t)' <=> OnStack(t))
<1>1. PICK m \in Nat : m = Len(stack') /\ Len(stack) = m + 1
  BY PopBody
<1>2. \A i \in 1..m : stack'[i] = stack[i] /\ i \in 1..Len(stack) /\ i # Len(stack)
  BY <1>1, PopBody
<1>3. Len(stack) \in 1..Len(stack) /\ stack[Len(stack)].task = u
  BY <1>1 DEF Top
<1>4. \A i \in 1..m : stack'[i].task # u
  BY <1>2, <1>3 DEF DiscInv, FrameInv, FramesDistinct
<1>5. ~OnStack(u)'
  BY <1>1, <1>4 DEF OnStack
<1>6. OnStack(u)
  BY <1>3 DEF OnStack
<1>7. u \in Tasks => ~Finished(u) /\ u <= spawned
  <2>1. u \in Tasks => u # Main
    BY FrameTypes
  <2> QED
    BY <1>3, <2>1 DEF DiscInv, FrameInv, FramesLive, RunsSpawned
<1>8. ASSUME NEW t, t # u
      PROVE  OnStack(t)' <=> OnStack(t)
  <2>1. OnStack(t) => OnStack(t)'
    BY <1>8, PopBody
  <2>2. OnStack(t)' => OnStack(t)
    BY <1>1, <1>2 DEF OnStack
  <2> QED
    BY <2>1, <2>2
<1>9. u \in Tasks /\ u <= spawned => ~(u > spawned)
  BY DEF TypeOK, Tasks
<1> QED
  BY <1>5, <1>6, <1>7, <1>8, <1>9

\* The end of a task's body with a value is its finish; main's is no step at all.
LEMMA ReturnIsFinish ==
  ASSUME TypeOK, TypeOK', DiscInv, Return
  PROVE  (\E t \in Tasks : F!Finish(t)) \/ UNCHANGED F!vars
<1>1. /\ stack # <<>> /\ stack' = Pop
      /\ UNCHANGED <<spawned, escaped, sent, got, closed, nil>>
  BY DEF Return, Running, chans
<1>2. PICK u \in Tasks \cup {Main} : u = Top.task
  BY <1>1, TopFrame DEF Frames
<1>3. Top.run # NoResult
  BY <1>1, TopFrame DEF Frames, NoResult
<1>4. CASE u = Main
  <2>1. result' = result
    BY <1>2, <1>4 DEF Return
  <2>2. \A t \in Tasks : t # u
    BY <1>4, FrameTypes
  <2> QED
    BY <1>1, <1>2, <2>1, <2>2, PopStatus, StatusStutters
<1>5. CASE u \in Tasks
  <2>1. result' = [result EXCEPT ![u] = Top.run]
    BY <1>2, <1>5, FrameTypes DEF Return
  <2>2. Finished(u)' /\ \A t \in Tasks : t # u => (Finished(t)' <=> Finished(t))
    BY <1>3, <1>5, <2>1 DEF Finished, TypeOK
  <2>3. OnStack(u) /\ ~Finished(u) /\ u <= spawned /\ ~(u > spawned)
    BY <1>1, <1>2, <1>5, PopStatus
  <2>4. Status(u) = "running"
    BY <1>5, <2>3, StatusIs
  <2>5. Status(u)' = "done"
    BY <1>1, <2>2, <2>3 DEF Status
  <2>6. \A t \in Tasks : t # u => Status(t)' = Status(t)
    BY <1>1, <1>2, <2>2, PopStatus DEF Status
  <2> QED
    BY <1>1, <1>5, <2>4, <2>5, <2>6, StatusMoves DEF F!Finish
<1> QED
  BY <1>2, <1>4, <1>5

\* The end of a task's body with a signal is its failure.
LEMMA EscapeIsFail ==
  ASSUME TypeOK, TypeOK', DiscInv, Escape
  PROVE  (\E t \in Tasks : F!Fail(t)) \/ UNCHANGED F!vars
<1>1. /\ stack # <<>> /\ stack' = Pop
      /\ UNCHANGED <<spawned, result, sent, got, closed, nil>>
  BY DEF Escape, chans
<1>2. PICK u \in Tasks \cup {Main} : u = Top.task
  BY <1>1, TopFrame DEF Frames
<1>3. CASE u = Main
  <2>1. escaped' = escaped
    BY <1>2, <1>3 DEF Escape
  <2>2. \A t \in Tasks : t # u
    BY <1>3, FrameTypes
  <2> QED
    BY <1>1, <1>2, <2>1, <2>2, PopStatus, StatusStutters
<1>4. CASE u \in Tasks
  <2>1. escaped' = escaped \cup {u}
    BY <1>2, <1>4, FrameTypes DEF Escape
  <2>2. OnStack(u) /\ ~OnStack(u)' /\ ~Finished(u) /\ u <= spawned /\ ~(u > spawned)
    BY <1>1, <1>2, <1>4, PopStatus
  <2>3. \A t : Finished(t)' <=> Finished(t)
    BY <1>1 DEF Finished
  <2>4. Status(u) = "running"
    BY <1>4, <2>2, StatusIs
  <2>5. Status(u)' = "failed"
    BY <1>1, <2>1, <2>2, <2>3 DEF Status
  <2>6. \A t \in Tasks : t # u => Status(t)' = Status(t)
    BY <1>1, <1>2, <2>1, <2>3, PopStatus DEF Status
  <2> QED
    BY <1>1, <1>4, <2>4, <2>5, <2>6, StatusMoves DEF F!Fail
<1> QED
  BY <1>2, <1>3, <1>4

\* The operations of channels are those of Futures, and what else the top body
\* does without ending or starting a body is no step of it.
LEMMA InPlaceIsChannelStep ==
  ASSUME TypeOK, TypeOK', ChannelInv, InPlace
  PROVE  \/ \E c \in Chans : F!Send(c) \/ F!Receive(c) \/ F!Close(c) \/ F!AnswerNil(c)
         \/ UNCHANGED F!vars
<1>1. UNCHANGED <<spawned, result, escaped>> /\ \A t \in Tasks : OnStack(t)' <=> OnStack(t)
  BY InPlaceFacts DEF tasks, SameBodies, OnStack
<1>2. \A t \in Tasks : Status(t)' = Status(t)
  BY <1>1 DEF Status, Finished
<1>3. [t \in Tasks |-> Status(t)]' = [t \in Tasks |-> Status(t)]
  BY <1>2
<1>4. ASSUME UNCHANGED <<sent, got, closed, nil>>
      PROVE  UNCHANGED F!vars
  BY <1>1, <1>4, StatusStutters
<1>5. ASSUME NEW c \in Chans, Send(c), ~closed[c]
      PROVE  F!Send(c)
  BY <1>3, <1>5 DEF Send, F!Send
<1>6. ASSUME NEW c \in Chans, Send(c), closed[c]
      PROVE  UNCHANGED F!vars
  BY <1>4, <1>6 DEF Send
<1>7. ASSUME NEW c \in Chans, Close(c)
      PROVE  F!Close(c)
  BY <1>3, <1>7 DEF Close, F!Close, TypeOK
<1>8. ASSUME NEW c \in Chans, RecvValue(c)
      PROVE  F!Receive(c)
  <2>1. /\ buf[c] # <<>> /\ buf[c] \in Seq(Nat) /\ got[c] \in Nat /\ sent[c] \in Nat
        /\ Len(buf[c]) = sent[c] - got[c]
        /\ \A i \in 1..Len(buf[c]) : buf[c][i] = got[c] + i
    BY <1>8 DEF RecvValue, TypeOK, ChannelInv, ChannelInOrder
  <2>2. Head(buf[c]) = got[c] + 1 /\ got[c] < sent[c]
    BY <2>1, TailFacts
  <2> QED
    BY <1>3, <1>8, <2>2 DEF RecvValue, F!Receive, TypeOK
<1>9. ASSUME NEW c \in Chans, RecvNil(c)
      PROVE  F!AnswerNil(c)
  <2>1. got[c] = sent[c]
    <3>1. Len(buf[c]) = 0 /\ got[c] \in Nat /\ sent[c] \in Nat
      BY <1>9 DEF RecvNil, TypeOK
    <3> QED
      BY <3>1 DEF ChannelInv, ChannelInOrder
  <2> QED
    BY <1>3, <1>9, <2>1 DEF RecvNil, F!AnswerNil
<1>10. ASSUME NEW c \in Chans, CallRecv(c)
       PROVE  UNCHANGED F!vars
  BY <1>4, <1>10 DEF CallRecv, chans
<1>11. ASSUME NEW k \in {"try", "loop"}, Enter(k)
       PROVE  UNCHANGED F!vars
  BY <1>4, <1>11 DEF Enter, chans
<1>12. ASSUME NEW s \in {"error", "break", "continue"}, Raise(s)
       PROVE  UNCHANGED F!vars
  BY <1>4, <1>12 DEF Raise, chans
<1>13. CASE Leave
  BY <1>4, <1>13 DEF Leave, chans
<1>14. CASE Catch
  BY <1>4, <1>14 DEF Catch, chans
<1> QED
  BY <1>5, <1>6, <1>7, <1>8, <1>9, <1>10, <1>11, <1>12, <1>13, <1>14 DEF InPlace

\* Every step of a disciplined program is a step of Futures, or none.
LEMMA StepImplements ==
  ASSUME TypeOK, TypeOK', ChannelInv, DiscInv, Disciplined, [Next]_vars
  PROVE  [F!Next]_F!vars
<1>1. Tasks = F!Tasks
  BY DEF Tasks, F!Tasks
<1>2. CASE Spawn
  BY <1>1, <1>2, SpawnIsBorn DEF F!Next
<1>3. ASSUME NEW t \in Tasks, ForceTask(t)
      PROVE  F!Next
  <2>1. /\ t <= spawned /\ runs[t] = 0 /\ StartBody(t)
        /\ UNCHANGED <<spawned, result, escaped, sent, got, closed, nil>>
    BY <1>3 DEF ForceTask, MayForce, chans
  <2> QED
    BY <1>1, <2>1, StartIsStart DEF F!Next
<1>4. ASSUME RunOneReady, CalmTo(Len(stack)),
             UNCHANGED <<spawned, result, escaped, chans>>
      PROVE  F!Next
  <2>1. PICK t \in Tasks : t <= spawned /\ runs[t] = 0 /\ StartBody(t)
    BY <1>4, TurnStarts
  <2>2. UNCHANGED <<sent, got, closed, nil>>
    BY <1>4 DEF chans
  <2> QED
    BY <1>1, <1>4, <2>1, <2>2, StartIsStart DEF F!Next
<1>5. ASSUME NEW c \in Chans, RecvDrive(c)
      PROVE  F!Next
  <2>1. stack # <<>> /\ Top.recv = c /\ ~Answerable(c)
    BY <1>5 DEF RecvDrive, Receiving, Answerable
  <2>2. CalmTo(Len(stack))
    BY <2>1, TopFrame DEF DiscInv, WaitInv, WaitersCalm, Top
  <2> QED
    BY <1>4, <1>5, <2>2 DEF RecvDrive
<1>6. CASE DrainOne
  <2>1. CalmTo(Len(stack))
    BY <1>6 DEF DrainOne, CalmTo
  <2> QED
    BY <1>4, <1>6, <2>1 DEF DrainOne
<1>7. CASE Return
  BY <1>1, <1>7, ReturnIsFinish DEF F!Next
<1>8. CASE Escape
  BY <1>1, <1>8, EscapeIsFail DEF F!Next
<1>9. CASE InPlace
  BY <1>9, InPlaceIsChannelStep DEF F!Next
<1>10. ASSUME UNCHANGED <<stack, spawned, result, escaped, chans>>
       PROVE  UNCHANGED F!vars
  <2>1. \A t \in Tasks : OnStack(t)' <=> OnStack(t)
    BY <1>10 DEF OnStack
  <2> QED
    BY <1>10, <2>1, StatusStutters DEF chans
<1>11. ASSUME NEW c \in Chans, RecvDeadlock(c)
       PROVE  UNCHANGED F!vars
  BY <1>10, <1>11 DEF RecvDeadlock
<1>12. CASE DrainEnd
  BY <1>10, <1>12 DEF DrainEnd
<1>13. CASE UNCHANGED vars
  BY <1>10, <1>13 DEF vars, control, tasks
<1> QED
  BY <1>2, <1>3, <1>5, <1>6, <1>7, <1>8, <1>9, <1>11, <1>12, <1>13
  DEF Next, Program, Interpreter, Terminated, InPlace

\* At the start there are no tasks and the channels are new.
LEMMA InitImplements == Init => F!Init
<1> SUFFICES ASSUME Init
             PROVE  F!Init
  OBVIOUS
<1>1. TypeOK /\ spawned = 0
  BY InitTypeOK DEF Init
<1>2. \A t \in Tasks : Status(t) = "unborn"
  BY <1>1, StatusIs DEF Tasks
<1> QED
  BY <1>2 DEF Init, F!Init, Tasks, F!Tasks

\* A stack of evaluations, forces out of turn and recv calls nested inside one
\* another give a disciplined program what tasks running side by side would.
THEOREM SchedulerImplementsFutures ==
  ASSUME Disciplined
  PROVE  Spec => ImplementsFutures
<1>1. Spec => []ChannelInv
  BY ChannelsDeliver, PTL DEF ChannelInv
<1>2. TypeOK /\ TypeOK' /\ ChannelInv /\ DiscInv /\ [Next]_vars => [F!Next]_F!vars
  BY StepImplements
<1> QED
  BY <1>1, <1>2, InitImplements, AlwaysDiscInv, TypeCorrect, PTL
  DEF Spec, ImplementsFutures, F!Spec
=============================================================================
