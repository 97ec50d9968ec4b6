------------------------------- MODULE Futures -------------------------------
(***************************************************************************)
(* What tasks and channels promise to a program, with no scheduler: a task *)
(* starts once and either finishes once or fails, a channel hands over     *)
(* each value once and in the order of the sends, and nil is the answer of *)
(* a closed channel that holds nothing and will never hold anything again. *)
(* Tasks here run side by side, without a stack and without a queue.       *)
(***************************************************************************)
EXTENDS Integers

CONSTANTS Chans, MaxTasks

Tasks == 1..MaxTasks

VARIABLES
  status,   \* "unborn", "pending", "running", "done" or "failed", per task
  sent,     \* the last value sent on each channel; values are 1, 2, 3 ...
  got,      \* the last value received from each channel
  shut,     \* closed channels
  final     \* channels that have answered nil

vars == <<status, sent, got, shut, final>>

Init ==
  /\ status = [t \in Tasks |-> "unborn"]
  /\ sent = [c \in Chans |-> 0]
  /\ got = [c \in Chans |-> 0]
  /\ shut = {}
  /\ final = {}

\* A task moves from one state to another.
Move(t, from, to) ==
  /\ status[t] = from
  /\ status' = [status EXCEPT ![t] = to]
  /\ UNCHANGED <<sent, got, shut, final>>

Born(t)   == Move(t, "unborn", "pending")
Start(t)  == Move(t, "pending", "running")
Finish(t) == Move(t, "running", "done")
Fail(t)   == Move(t, "running", "failed")

Send(c) ==
  /\ c \notin shut
  /\ sent' = [sent EXCEPT ![c] = @ + 1]
  /\ UNCHANGED <<status, got, shut, final>>

Receive(c) ==
  /\ got[c] < sent[c]
  /\ got' = [got EXCEPT ![c] = @ + 1]
  /\ UNCHANGED <<status, sent, shut, final>>

Close(c) ==
  /\ shut' = shut \cup {c}
  /\ UNCHANGED <<status, sent, got, final>>

AnswerNil(c) ==
  /\ c \in shut
  /\ got[c] = sent[c]
  /\ final' = final \cup {c}
  /\ UNCHANGED <<status, sent, got, shut>>

Next ==
  \/ \E t \in Tasks : Born(t) \/ Start(t) \/ Finish(t) \/ Fail(t)
  \/ \E c \in Chans : Send(c) \/ Receive(c) \/ Close(c) \/ AnswerNil(c)

Spec == Init /\ [][Next]_vars
=============================================================================
