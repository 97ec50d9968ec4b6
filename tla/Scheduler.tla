------------------------------ MODULE Scheduler ------------------------------
(***************************************************************************)
(* The cooperative scheduler of the tree-walking interpreter               *)
(* (src/src/interp/concurrency.rs): futures made by `spawn`, forced by     *)
(* `join`, `await`, `all` and `race`, and run by a `recv` that finds its   *)
(* channel empty.                                                          *)
(*                                                                         *)
(* There is one thread.  A body that forces a future, or that drives the   *)
(* scheduler from a `recv`, evaluates the other body on top of its own     *)
(* native stack frame, so the state is a stack of bodies of which only the *)
(* top one runs.  What a body does next is left open: every step of the    *)
(* top body is a nondeterministic choice among the operations the          *)
(* interpreter offers, so the behaviours include those of every program    *)
(* within the bounds.                                                      *)
(***************************************************************************)
EXTENDS Integers, Sequences, FiniteSets

CONSTANTS
  Chans,        (* the channels of the program                             *)
  NoChan,       (* "not inside a recv"                                     *)
  Disciplined,  (* TRUE: only programs that keep to MayForce, MayWait and  *)
                (* MayRaise                                                *)
  MaxTasks,     (* bound: tasks spawned                                    *)
  MaxSends,     (* bound: values sent on one channel                       *)
  MaxRuns,      (* bound: evaluations of one task's body                   *)
  MaxNest       (* bound: try blocks and loops open in one body            *)

ASSUME SchedulerAssumption ==
  /\ NoChan \notin Chans
  /\ Disciplined \in BOOLEAN
  /\ MaxTasks \in Nat
  /\ MaxSends \in Nat
  /\ MaxRuns \in Nat
  /\ MaxNest \in Nat

Main == 0               \* the body of `main`, which is no task
Tasks == 1..MaxTasks    \* tasks, numbered in the order they are spawned
NoResult == 0           \* a memo cell still None

VARIABLES
  phase,    \* "main", then "drain" (the loop at the end of run()), then "exit"
  stack,    \* the bodies under evaluation, the running one last
  signal,   \* the Signal being propagated by `?`, or "none"
  spawned,  \* how many tasks exist
  ready,    \* Interp.ready
  result,   \* TaskState.result: which evaluation of the body was memoized
  sent,     \* history: the last value sent on each channel; the n-th is n
  got,      \* history: the last value received from each channel
  buf,      \* ChannelData.buf
  closed,   \* ChannelData.closed
  runs,     \* history: how often the body of each task was started
  escaped,  \* history: tasks with an evaluation ended by an uncaught signal
  nil       \* history: channels on which a recv has returned nil

control == <<phase, stack, signal>>
tasks   == <<spawned, ready, result, runs, escaped>>
chans   == <<sent, got, buf, closed, nil>>
vars    == <<control, tasks, chans>>

(***************************************************************************)
(* A frame is one evaluation of a body.  recv is the channel of the recv   *)
(* it is inside, if any; a frame under another one with recv = NoChan is   *)
(* inside a force.  ctx lists the try blocks and loops open in the body,   *)
(* innermost last.                                                         *)
(***************************************************************************)
NewFrame(t, n) == [task |-> t, run |-> n, recv |-> NoChan, ctx |-> <<>>]

Top       == stack[Len(stack)]
SetTop(f) == [stack EXCEPT ![Len(stack)] = f]
Pop       == SubSeq(stack, 1, Len(stack) - 1)
OnStack(t) == \E i \in 1..Len(stack) : stack[i].task = t
InReady(t) == \E i \in 1..Len(ready) : ready[i] = t

Finished(t) == result[t] # NoResult

\* The top body runs code of the program: no signal is unwinding it and it is
\* not inside a recv.
Running == signal = "none" /\ stack # <<>> /\ Top.recv = NoChan

\* The top body is inside a recv on c.
Receiving(c) == signal = "none" /\ stack # <<>> /\ Top.recv = c

Init ==
  /\ phase = "main"
  /\ stack = <<NewFrame(Main, 1)>>
  /\ signal = "none"
  /\ spawned = 0
  /\ ready = <<>>
  /\ result = [t \in Tasks |-> NoResult]
  /\ sent = [c \in Chans |-> 0]
  /\ got = [c \in Chans |-> 0]
  /\ buf = [c \in Chans |-> <<>>]
  /\ closed = [c \in Chans |-> FALSE]
  /\ runs = [t \in Tasks |-> 0]
  /\ escaped = {}
  /\ nil = {}
-----------------------------------------------------------------------------
(* Tasks. *)

\* Mutation of Spawn: the future is numbered before the counter moves.
SpawnStaleIndex ==
  /\ Running
  /\ spawned < MaxTasks
  /\ spawned' = spawned + 1
  /\ ready' = Append(ready, spawned)
  /\ UNCHANGED <<control, result, runs, escaped, chans>>

\* Mutation of Spawn: push_front for push_back.
SpawnAtFront ==
  /\ Running
  /\ spawned < MaxTasks
  /\ spawned' = spawned + 1
  /\ ready' = <<spawned'>> \o ready
  /\ UNCHANGED <<control, result, runs, escaped, chans>>

\* `spawn { ... }`: the body is deferred and the future goes to the back.
Spawn ==
  /\ Running
  /\ spawned < MaxTasks
  /\ spawned' = spawned + 1
  /\ ready' = Append(ready, spawned')
  /\ UNCHANGED <<control, result, runs, escaped, chans>>

\* run_task past its memo check: the body of t is evaluated on top of the stack.
StartBody(t) ==
  /\ runs' = [runs EXCEPT ![t] = @ + 1]
  /\ stack' = Append(stack, NewFrame(t, runs'[t]))

\* A disciplined program forces a task only before its first run or after it has
\* finished.
MayForce(t) == Disciplined => (runs[t] = 0 \/ Finished(t))

\* While a task is under evaluation that is still in the ready queue (it was
\* forced out of turn, and would be started again at its turn), no body of a
\* disciplined program calls recv on a channel that is empty and open ...
MayWait == Disciplined => \A i \in 1..Len(stack) : ~InReady(stack[i].task)

\* ... or raises what it does not catch itself.
MayRaise(h) == MayWait \/ \E i \in 1..Len(Top.ctx) : Top.ctx[i] = h

\* TryCatch stops errors only, and the loops stop break and continue only.
HandlerOf(s) == IF s = "error" THEN "try" ELSE "loop"

\* Bound: leave the scheduler the run it may still owe t, so that no step of the
\* scheduler itself is ever cut off.
MayRun(t) == runs[t] + (IF InReady(t) THEN 1 ELSE 0) < MaxRuns

\* Mutation of ForceTask: run_task without its memo check.
ForceUnmemoized(t) ==
  /\ Running
  /\ t <= spawned
  /\ MayForce(t) /\ MayRun(t)
  /\ StartBody(t)
  /\ UNCHANGED <<phase, signal, spawned, ready, result, escaped, chans>>

\* force on a future whose result is not there yet (await, join, one element of
\* all, the first element of race).  t stays in the ready queue.  A force of a
\* finished task returns the memo and changes nothing.
ForceTask(t) ==
  /\ Running
  /\ t <= spawned
  /\ ~Finished(t)
  /\ MayForce(t) /\ MayRun(t)
  /\ StartBody(t)
  /\ UNCHANGED <<phase, signal, spawned, ready, result, escaped, chans>>

\* Mutation of Runnable: run_one_ready does not skip finished tasks.
RunnableUnchecked(i) == i = 1

\* ready[i] is what run_one_ready runs: it drops finished tasks from the front.
Runnable(i) ==
  /\ ~Finished(ready[i])
  /\ \A j \in 1..(i - 1) : Finished(ready[j])

NoneRunnable == \A i \in 1..Len(ready) : Finished(ready[i])

\* Mutation of RunOneReady: one pop too many.
RunOneReadyDropsNext ==
  \E i \in 1..Len(ready) :
    /\ Runnable(i)
    /\ ready' = SubSeq(ready, i + 2, Len(ready))
    /\ StartBody(ready[i])

\* run_one_ready when a task can run.
RunOneReady ==
  \E i \in 1..Len(ready) :
    /\ Runnable(i)
    /\ ready' = SubSeq(ready, i + 1, Len(ready))
    /\ StartBody(ready[i])

\* The end of an evaluation leaves the phase alone unless it was main's.
AfterPop == IF phase = "main" /\ Len(stack) = 1 THEN "drain" ELSE phase

\* The top body ends, by its last expression or by `return`.  A task's value is
\* memoized, whatever the memo cell holds by now; the frame below goes on where
\* it called run_task.
Return ==
  /\ Running
  /\ result' = IF Top.task = Main THEN result
                                  ELSE [result EXCEPT ![Top.task] = Top.run]
  /\ stack' = Pop
  /\ phase' = AfterPop
  /\ UNCHANGED <<signal, spawned, ready, runs, escaped, chans>>
-----------------------------------------------------------------------------
(* Channels. *)

\* Mutation of Send: closed is not looked at.
SendUnchecked(c) ==
  /\ Running
  /\ sent[c] < MaxSends
  /\ sent' = [sent EXCEPT ![c] = @ + 1]
  /\ buf' = [buf EXCEPT ![c] = Append(@, sent'[c])]
  /\ UNCHANGED <<control, tasks, got, closed, nil>>

\* send: an error on a closed channel, else the value goes to the back.
Send(c) ==
  /\ Running
  /\ IF closed[c]
     THEN /\ MayRaise(HandlerOf("error"))
          /\ signal' = "error"
          /\ UNCHANGED <<sent, buf>>
     ELSE /\ sent[c] < MaxSends
          /\ sent' = [sent EXCEPT ![c] = @ + 1]
          /\ buf' = [buf EXCEPT ![c] = Append(@, sent'[c])]
          /\ UNCHANGED signal
  /\ UNCHANGED <<phase, stack, tasks, got, closed, nil>>

Close(c) ==
  /\ Running
  /\ closed' = [closed EXCEPT ![c] = TRUE]
  /\ UNCHANGED <<control, tasks, sent, got, buf, nil>>

\* A call of recv, or the header of `for v in ch`.
CallRecv(c) ==
  /\ Running
  /\ buf[c] = <<>> /\ ~closed[c] => MayWait
  /\ stack' = SetTop([Top EXCEPT !.recv = c])
  /\ UNCHANGED <<phase, signal, tasks, chans>>

\* Mutation of RecvValue: pop_back for pop_front.
RecvLast(c) ==
  /\ Receiving(c)
  /\ buf[c] # <<>>
  /\ buf' = [buf EXCEPT ![c] = SubSeq(@, 1, Len(@) - 1)]
  /\ got' = [got EXCEPT ![c] = buf[c][Len(buf[c])]]
  /\ stack' = SetTop([Top EXCEPT !.recv = NoChan])
  /\ UNCHANGED <<phase, signal, tasks, sent, closed, nil>>

\* channel_recv, the three ways through its loop.  The front of the buffer ...
RecvValue(c) ==
  /\ Receiving(c)
  /\ buf[c] # <<>>
  /\ buf' = [buf EXCEPT ![c] = Tail(@)]
  /\ got' = [got EXCEPT ![c] = Head(buf[c])]
  /\ stack' = SetTop([Top EXCEPT !.recv = NoChan])
  /\ UNCHANGED <<phase, signal, tasks, sent, closed, nil>>

\* Mutation of RecvNil: closed is tested before the buffer.
RecvNilEarly(c) ==
  /\ Receiving(c)
  /\ closed[c]
  /\ nil' = nil \cup {c}
  /\ stack' = SetTop([Top EXCEPT !.recv = NoChan])
  /\ UNCHANGED <<phase, signal, tasks, sent, got, buf, closed>>

\* ... nil once the channel is closed and drained ...
RecvNil(c) ==
  /\ Receiving(c)
  /\ buf[c] = <<>>
  /\ closed[c]
  /\ nil' = nil \cup {c}
  /\ stack' = SetTop([Top EXCEPT !.recv = NoChan])
  /\ UNCHANGED <<phase, signal, tasks, sent, got, buf, closed>>

\* ... or one turn of the scheduler before the loop looks again, ...
RecvDrive(c) ==
  /\ Receiving(c)
  /\ buf[c] = <<>>
  /\ ~closed[c]
  /\ RunOneReady
  /\ UNCHANGED <<phase, signal, spawned, result, escaped, chans>>

\* ... which is a runtime error when no task is left to run.
RecvDeadlock(c) ==
  /\ Receiving(c)
  /\ buf[c] = <<>>
  /\ ~closed[c]
  /\ NoneRunnable
  /\ ready' = <<>>
  /\ signal' = "error"
  /\ UNCHANGED <<phase, stack, spawned, result, runs, escaped, chans>>
-----------------------------------------------------------------------------
(* Signals: runtime errors, break and continue. *)

\* The body enters a try block with a catch, or the body of a loop.
Enter(k) ==
  /\ Running
  /\ Len(Top.ctx) < MaxNest
  /\ stack' = SetTop([Top EXCEPT !.ctx = Append(@, k)])
  /\ UNCHANGED <<phase, signal, tasks, chans>>

\* The innermost try block or loop ends normally.
Leave ==
  /\ Running
  /\ Top.ctx # <<>>
  /\ stack' = SetTop([Top EXCEPT !.ctx = SubSeq(@, 1, Len(@) - 1)])
  /\ UNCHANGED <<phase, signal, tasks, chans>>

\* The body raises a runtime error, or evaluates `break` or `continue`.
Raise(s) ==
  /\ Running
  /\ MayRaise(HandlerOf(s))
  /\ signal' = s
  /\ UNCHANGED <<phase, stack, tasks, chans>>

\* Position i of ctx is the innermost handler of the signal.
Handles(ctx, i) ==
  /\ ctx[i] = HandlerOf(signal)
  /\ \A j \in (i + 1)..Len(ctx) : ctx[j] # HandlerOf(signal)

\* The top body catches the signal.  A catch arm and the code after a break run
\* outside the block that was left; `continue` stays in the loop.
Catch ==
  /\ signal # "none" /\ stack # <<>>
  /\ \E i \in 1..Len(Top.ctx) :
       /\ Handles(Top.ctx, i)
       /\ LET kept == IF signal = "continue" THEN i ELSE i - 1 IN
          stack' = SetTop([Top EXCEPT !.recv = NoChan, !.ctx = SubSeq(@, 1, kept)])
  /\ signal' = "none"
  /\ UNCHANGED <<phase, tasks, chans>>

\* No handler in the top body: run_task returns the signal to the frame below
\* without a memo.  Out of main the signal ends in run(); out of a task started
\* by the drain loop it ends that loop, and with it the program.
Escape ==
  /\ signal # "none" /\ stack # <<>>
  /\ \A i \in 1..Len(Top.ctx) : Top.ctx[i] # HandlerOf(signal)
  /\ escaped' = IF Top.task = Main THEN escaped ELSE escaped \cup {Top.task}
  /\ stack' = Pop
  /\ IF Len(stack) > 1
     THEN UNCHANGED <<phase, signal>>
     ELSE /\ signal' = "none"
          /\ phase' = IF phase = "main" THEN "drain" ELSE "exit"
  /\ UNCHANGED <<spawned, ready, result, runs, chans>>
-----------------------------------------------------------------------------
(* The end of run(): while let Ok(true) = self.run_one_ready(..) {} *)

DrainOne ==
  /\ phase = "drain" /\ stack = <<>>
  /\ RunOneReady
  /\ UNCHANGED <<phase, signal, spawned, result, escaped, chans>>

\* Mutation of DrainEnd: the loop at the end of run() is missing.
DrainSkipped ==
  /\ phase = "drain" /\ stack = <<>>
  /\ phase' = "exit"
  /\ UNCHANGED <<stack, signal, tasks, chans>>

DrainEnd ==
  /\ phase = "drain" /\ stack = <<>>
  /\ NoneRunnable
  /\ ready' = <<>>
  /\ phase' = "exit"
  /\ UNCHANGED <<stack, signal, spawned, result, runs, escaped, chans>>

Terminated == phase = "exit" /\ UNCHANGED vars
-----------------------------------------------------------------------------
\* What the running body chooses to do, except to end.
Program ==
  \/ Spawn
  \/ \E t \in Tasks : ForceTask(t)
  \/ \E c \in Chans : Send(c) \/ Close(c) \/ CallRecv(c)
  \/ \E k \in {"try", "loop"} : Enter(k)
  \/ Leave
  \/ \E s \in {"error", "break", "continue"} : Raise(s)

\* What the interpreter does without consulting the program.
Interpreter ==
  \/ \E c \in Chans : RecvValue(c) \/ RecvNil(c) \/ RecvDrive(c) \/ RecvDeadlock(c)
  \/ Catch
  \/ Escape
  \/ DrainOne
  \/ DrainEnd

Next == Program \/ Return \/ Interpreter \/ Terminated

(***************************************************************************)
(* The interpreter always takes its next step, and every body ends if it   *)
(* is given the chance again and again: a program that loops for ever is   *)
(* not the scheduler's to stop.                                            *)
(***************************************************************************)
Fairness == WF_vars(Interpreter) /\ SF_vars(Return)

Spec == Init /\ [][Next]_vars /\ Fairness
-----------------------------------------------------------------------------
(* Invariants. *)

Frames == [task : Tasks \cup {Main}, run : Nat \ {0}, recv : Chans \cup {NoChan},
           ctx : Seq({"try", "loop"})]

\* The state of the interpreter is well formed.
TypeOK ==
  /\ phase \in {"main", "drain", "exit"}
  /\ stack \in Seq(Frames)
  /\ signal \in {"none", "error", "break", "continue"}
  /\ spawned \in 0..MaxTasks
  /\ ready \in Seq(1..spawned)
  /\ result \in [Tasks -> Nat]
  /\ sent \in [Chans -> Nat]
  /\ got \in [Chans -> Nat]
  /\ buf \in [Chans -> Seq(Nat)]
  /\ closed \in [Chans -> BOOLEAN]
  /\ runs \in [Tasks -> Nat]
  /\ escaped \in SUBSET Tasks
  /\ nil \in SUBSET Chans

\* A spawned task is never lost: until it has a result it waits in the ready
\* queue, is being evaluated, or was ended by a signal (spawn, run_one_ready).
NoTaskLost ==
  \A t \in 1..spawned : Finished(t) \/ InReady(t) \/ OnStack(t) \/ t \in escaped

\* The ready queue holds each task at most once, in the order of the spawns,
\* however forces and nested turns of the scheduler interleave.
ReadyInSpawnOrder ==
  \A i, j \in 1..Len(ready) : i < j => ready[i] < ready[j]

\* The body of main is the bottom frame until it ends, only then are leftover
\* tasks drained, and a signal always has a frame to unwind (run, Escape).
StackMatchesPhase ==
  /\ phase = "main" => stack # <<>>
  /\ \A i \in 1..Len(stack) : stack[i].task = Main <=> (phase = "main" /\ i = 1)
  /\ phase = "exit" => stack = <<>> /\ (ready = <<>> \/ escaped # {})
  /\ signal # "none" => stack # <<>>

\* A program with no failing task exits with every task finished and the queue
\* empty: only a signal that ends some task can cut the drain loop of run()
\* short.
ExitComplete ==
  phase = "exit" /\ escaped = {} => ready = <<>> /\ \A t \in 1..spawned : Finished(t)

\* A channel holds what was sent and not yet received, in the order of the
\* sends, whichever nested recv took the values out (send, channel_recv).
ChannelInOrder ==
  \A c \in Chans :
    /\ Len(buf[c]) = sent[c] - got[c]
    /\ \A i \in 1..Len(buf[c]) : buf[c][i] = got[c] + i

\* A recv that returned nil spoke the truth for ever: the channel is closed and
\* every value sent was received before.
NilIsFinal == \A c \in nil : closed[c] /\ got[c] = sent[c]

\* run_task's comment (concurrency.rs:21): the body of a task is evaluated once.
BodyOnce == \A t \in Tasks : runs[t] <= 1

\* ExprKind::Spawn's and run()'s comments: a task that is never joined still
\* runs before the program exits.
SpawnedRuns == phase = "exit" => \A t \in 1..spawned : runs[t] > 0
-----------------------------------------------------------------------------
(* Action properties, refinement and liveness. *)

\* TaskState's comment: the result of a task is memoized; once there it is the
\* answer to every later join.
MemoStable == [][\A t \in Tasks : Finished(t) => result'[t] = result[t]]_vars

\* What is left of run_task's comment in every program: a body is evaluated again
\* only while an evaluation of it is suspended further down the stack or after a
\* signal ended one, and never once it has a result.
RestartsUnsettled ==
  [][\A t \in Tasks :
       runs[t] > 0 /\ runs'[t] # runs[t] => ~Finished(t) /\ (OnStack(t) \/ t \in escaped)]_vars

\* channel_recv's comment, "a genuine deadlock": when the error is raised no
\* recv under evaluation could go on.
Answerable(c) == buf[c] # <<>> \/ closed[c]

GenuineDeadlock ==
  [][\A c \in Chans : RecvDeadlock(c) =>
       \A i \in 1..Len(stack) : stack[i].recv \in Chans => ~Answerable(stack[i].recv)]_vars

\* A state of the scheduler seen as the promises of module Futures.
Status(t) ==
  CASE t > spawned       -> "unborn"
    [] t <= spawned /\ Finished(t) -> "done"
    [] t <= spawned /\ ~Finished(t) /\ OnStack(t) -> "running"
    [] t <= spawned /\ ~Finished(t) /\ ~OnStack(t) /\ t \in escaped -> "failed"
    [] OTHER -> "pending"

F == INSTANCE Futures WITH
       status <- [t \in Tasks |-> Status(t)],
       shut   <- {c \in Chans : closed[c]},
       final  <- nil

\* For disciplined programs the scheduler keeps every promise of Futures.
ImplementsFutures == F!Spec

\* Every spawned task is settled before the program ends, unless a failing task
\* takes the drain loop down with it.
EveryTaskSettles ==
  \A t \in Tasks :
    t <= spawned ~> (Finished(t) \/ t \in escaped \/ (phase = "exit" /\ escaped # {}))
=============================================================================
