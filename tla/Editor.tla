-------------------------------- MODULE Editor -------------------------------
(***************************************************************************)
(* The VS Code extension's diagnostics (editors/vscode/src/extension.ts):  *)
(* document events, debounce timers, `la3 check` processes reading either  *)
(* the saved file or a temporary copy of the buffer, their callbacks, and  *)
(* the removal of the copies.                                              *)
(*                                                                         *)
(* A text is the pair of a document and a revision of it; what the checker *)
(* says of a text is the text itself, so that two diagnostics are equal    *)
(* when they are of the same text.                                         *)
(*                                                                         *)
(* Anything may go wrong at any time: a file cannot be written or removed, *)
(* a process does not start or takes too long, checks overlap.  History    *)
(* variables tell what got in the way of a check, so that the properties   *)
(* can say what holds of the others.                                       *)
(***************************************************************************)
EXTENDS Integers, FiniteSets

CONSTANTS
  Docs,          (* documents                                              *)
  Prefixes,      (* the first twelve bytes of the documents' URIs          *)
  Prefix,        (* those of each document                                 *)
  Nothing,       (* no text, no file, no process                           *)
  MaxEdits,      (* bound: edits in all                                    *)
  MaxProcs       (* bound: checks under way at a time                      *)

ASSUME EditorAssumption ==
  /\ Nothing \notin Prefixes
  /\ Prefix \in [Docs -> Prefixes]
  /\ MaxEdits \in Nat
  /\ MaxProcs \in Nat

VARIABLES
  mode,     \* the setting la3.diagnostics.run
  edits,    \* how many edits there were
  text,     \* the revision in each document's buffer
  disk,     \* the revision in each document's file
  open,     \* documents that are open
  timer,    \* timers: documents with a pending debounce timer
  temp,     \* the temporary files: the text in each, or Nothing
  proc,     \* the checks under way
  shown,    \* diagnostics: the text they are of, or Nothing
  spoilt,   \* history: what got in the way of each check under way
  stale,    \* history: what got in the way of a document's last checks
  left      \* history: files whose last write or removal failed

docs    == <<edits, text, disk, open>>
history == <<spoilt, stale, left>>
vars    == <<mode, docs, timer, temp, proc, shown, history>>

Procs == 1..MaxProcs
Text(d, v) == [doc |-> d, rev |-> v]

\* The rest of a text whose write failed half-way, which is of no revision.
Torn  == -1
Texts == [doc : Docs, rev : 0..MaxEdits \cup {Torn}]

(***************************************************************************)
(* What can get in the way of a check: another check of the document is    *)
(* under way or the document is closed ("overlap"), a check of another     *)
(* document with the same temporary file is under way ("shared"), a file   *)
(* or a process fails ("failure").                                         *)
(***************************************************************************)
Harms == {"overlap", "shared", "failure"}

\* isDirty: the buffer is not what the file is.
Dirty(d) == text[d] # disk[d]

\* The name of the temporary file: 24 hex digits, so twelve bytes of the URI.
TempOf(d) == Prefix[d]

Init ==
  /\ mode \in {"onType", "onSave", "off"}
  /\ edits = 0
  /\ text = [d \in Docs |-> 0]
  /\ disk = [d \in Docs |-> 0]
  /\ open = {}
  /\ timer = {}
  /\ temp = [p \in Prefixes |-> Nothing]
  /\ proc = [i \in Procs |-> Nothing]
  /\ shown = [d \in Docs |-> Nothing]
  /\ spoilt = [i \in Procs |-> {}]
  /\ stale = [d \in Docs |-> {}]
  /\ left = {}
-----------------------------------------------------------------------------
(* check *)

\* A check is under way from its process's start to the removal of its
\* temporary file: "started", "read" (its file), then "unlink" (asked for).
\* Until then its answer is still to come.
At(i, step) == proc[i] # Nothing /\ proc[i].step = step
Doing(i)    == proc[i] # Nothing
Active(i)   == Doing(i) /\ proc[i].step # "unlink"

\* Check i and one of d on this file get in the way of each other.
Meets(i, d, file) ==
  Doing(i) /\ \/ Active(i) /\ proc[i].doc = d
              \/ file # Nothing /\ proc[i].file = file

Way(i, d, file) ==
  IF Meets(i, d, file) THEN {IF proc[i].doc = d THEN "overlap" ELSE "shared"} ELSE {}

\* History: h gets in the way of the checks of S whose answer is to come.
Spoil(S, h) ==
  [i \in Procs |-> IF Active(i) /\ i \in S THEN spoilt[i] \cup {h} ELSE spoilt[i]]

\* cp.execFile on a file: a temporary one, or Nothing for the document's own.
Start(d, file) ==
  /\ \E i \in Procs : proc[i] = Nothing
  /\ LET new == CHOOSE i \in Procs : proc[i] = Nothing IN
     /\ proc' = [proc EXCEPT ![new] =
                   [doc |-> d, file |-> file, step |-> "started", got |-> Nothing]]
     /\ spoilt' = [i \in Procs |->
          IF i = new THEN UNION {Way(j, d, file) : j \in Procs}
          ELSE spoilt[i] \cup (IF Active(i) THEN Way(i, d, file) ELSE {})]
  /\ UNCHANGED stale

\* fs.writeFileSync fails: the file could not be opened, or what is in it now is
\* a part of the text.  check returns, and nobody removes the file.
WriteFails(d) ==
  /\ \/ UNCHANGED <<temp, left>>
     \/ /\ temp' = [temp EXCEPT ![TempOf(d)] = Text(d, Torn)]
        /\ left' = left \cup {TempOf(d)}
  /\ stale' = [stale EXCEPT ![d] = @ \cup {"failure"}]
  /\ spoilt' = Spoil({i \in Procs : Meets(i, d, TempOf(d))}, "failure")
  /\ UNCHANGED proc

\* Mutation of Check: the file of a dirty document is checked as it is on disk.
CheckSaved(d) == Start(d, Nothing) /\ UNCHANGED <<temp, left>>

\* Mutation of Check: the temporary file is not written.
CheckUnwritten(d) ==
  Start(d, IF Dirty(d)' THEN TempOf(d) ELSE Nothing) /\ UNCHANGED <<temp, left>>

\* check(doc): a buffer with unsaved changes is written to its temporary file
\* before the process is started.
Check(d) ==
  IF Dirty(d)'
  THEN \/ /\ temp' = [temp EXCEPT ![TempOf(d)] = Text(d, text'[d])]
          /\ left' = left \ {TempOf(d)}
          /\ Start(d, TempOf(d))
       \/ WriteFails(d)
  ELSE Start(d, Nothing) /\ UNCHANGED <<temp, left>>

\* maybeCheck(doc, fromType) on an open or a save.
CheckNow(d) ==
  CASE mode = "off"    -> UNCHANGED <<timer, temp, proc, history>>
    [] mode = "onType" -> Check(d) /\ UNCHANGED timer
    [] mode = "onSave" -> timer' = timer \cup {d} /\ UNCHANGED <<temp, proc, history>>

\* maybeCheck(doc, fromType) on a keystroke: the timer starts again.
CheckLater(d) ==
  /\ timer' = IF mode = "onType" THEN timer \cup {d} ELSE timer
  /\ UNCHANGED <<temp, proc, history>>
-----------------------------------------------------------------------------
(* What the user does. *)

Open(d) ==
  /\ d \notin open
  /\ open' = open \cup {d}
  /\ text' = [text EXCEPT ![d] = disk[d]]
  /\ UNCHANGED <<edits, disk>>
  /\ CheckNow(d)
  /\ UNCHANGED <<mode, shown>>

Edit(d) ==
  /\ d \in open
  /\ edits < MaxEdits
  /\ edits' = edits + 1
  /\ text' = [text EXCEPT ![d] = edits']
  /\ UNCHANGED <<disk, open>>
  /\ CheckLater(d)
  /\ UNCHANGED <<mode, shown>>

Save(d) ==
  /\ d \in open
  /\ disk' = [disk EXCEPT ![d] = text[d]]
  /\ UNCHANGED <<edits, text, open>>
  /\ CheckNow(d)
  /\ UNCHANGED <<mode, shown>>

\* onDidCloseTextDocument: diagnostics and timer go, running processes stay.
Close(d) ==
  /\ d \in open
  /\ open' = open \ {d}
  /\ shown' = [shown EXCEPT ![d] = Nothing]
  /\ timer' = timer \ {d}
  /\ spoilt' = Spoil({i \in Procs : Doing(i) /\ proc[i].doc = d}, "overlap")
  /\ UNCHANGED <<mode, edits, text, disk, temp, proc, stale, left>>

\* The command la3.check.
Command(d) ==
  /\ d \in open
  /\ UNCHANGED docs
  /\ Check(d)
  /\ UNCHANGED <<mode, timer, shown>>
-----------------------------------------------------------------------------
(* What happens by itself. *)

TimerFires(d) ==
  /\ d \in timer
  /\ timer' = timer \ {d}
  /\ UNCHANGED docs
  /\ Check(d)
  /\ UNCHANGED <<mode, shown>>

\* The process reads its file; a missing file yields no diagnostic line.
Read(i) ==
  /\ At(i, "started")
  /\ LET p == proc[i]
         t == IF p.file = Nothing THEN Text(p.doc, disk[p.doc]) ELSE temp[p.file]
     IN proc' = [proc EXCEPT ![i].step = "read", ![i].got = t]
  /\ UNCHANGED <<mode, docs, timer, temp, shown, history>>

\* Mutation of AskUnlink: the temporary file is left behind.
AskNothing(i) ==
  proc' = [proc EXCEPT ![i] = Nothing] /\ spoilt' = [spoilt EXCEPT ![i] = {}]

\* Mutation of AskUnlink: the test `if (temp)` is missing.
AskAlways(i) ==
  /\ proc' = [proc EXCEPT ![i].step = "unlink", ![i].got = Nothing]
  /\ spoilt' = [spoilt EXCEPT ![i] = {}]

\* The callback's first line asks for the removal of the temporary file.
AskUnlink(i) ==
  /\ proc' = [proc EXCEPT ![i] = IF @.file = Nothing THEN Nothing
                                 ELSE [@ EXCEPT !.step = "unlink", !.got = Nothing]]
  /\ spoilt' = [spoilt EXCEPT ![i] = {}]

\* History: the check of d that ends was one that h got in the way of, or h is
\* empty and it makes up for those before it.
Ended(d, h) == stale' = [stale EXCEPT ![d] = IF h = {} THEN {} ELSE @ \cup h]

\* Mutation of Report: a result is only published where none is shown yet.
ReportOnce(i) ==
  /\ At(i, "read")
  /\ shown' = IF shown[proc[i].doc] = Nothing
              THEN [shown EXCEPT ![proc[i].doc] = proc[i].got] ELSE shown
  /\ Ended(proc[i].doc, spoilt[i])
  /\ AskUnlink(i)
  /\ UNCHANGED <<mode, docs, timer, temp, left>>

\* The callback of a finished process: diagnostics.set, whoever else was heard
\* in the meantime.
Report(i) ==
  /\ At(i, "read")
  /\ shown' = [shown EXCEPT ![proc[i].doc] = proc[i].got]
  /\ Ended(proc[i].doc, spoilt[i])
  /\ AskUnlink(i)
  /\ UNCHANGED <<mode, docs, timer, temp, left>>

\* The callback of a process killed by the timeout: stderr is empty.
Killed(i) ==
  /\ At(i, "started") \/ At(i, "read")
  /\ shown' = [shown EXCEPT ![proc[i].doc] = Nothing]
  /\ Ended(proc[i].doc, {"failure"})
  /\ AskUnlink(i)
  /\ UNCHANGED <<mode, docs, timer, temp, left>>

\* ENOENT: there was no process, and the diagnostics stay.
NotStarted(i) ==
  /\ At(i, "started")
  /\ Ended(proc[i].doc, {"failure"})
  /\ AskUnlink(i)
  /\ UNCHANGED <<mode, docs, timer, temp, shown, left>>

\* fs.unlink takes effect, or fails, which is ignored.
Unlink(i) ==
  /\ At(i, "unlink")
  /\ \/ /\ temp' = [temp EXCEPT ![proc[i].file] = Nothing]
        /\ left' = left \ {proc[i].file}
     \/ left' = left \cup {proc[i].file} /\ UNCHANGED temp
  /\ proc' = [proc EXCEPT ![i] = Nothing]
  /\ UNCHANGED <<mode, docs, timer, shown, spoilt, stale>>

User == \E d \in Docs : Open(d) \/ Edit(d) \/ Save(d) \/ Close(d) \/ Command(d)

Process(i) == Read(i) \/ Report(i) \/ Killed(i) \/ NotStarted(i) \/ Unlink(i)

Next ==
  \/ User
  \/ \E d \in Docs : TimerFires(d)
  \/ \E i \in Procs : Process(i)

(***************************************************************************)
(* Timers expire, every process ends by itself or by its timeout, and the  *)
(* event loop gets to every callback.  The user owes nothing.              *)
(***************************************************************************)
Fairness ==
  /\ \A d \in Docs : SF_vars(TimerFires(d))
  /\ \A i \in Procs : WF_vars(Process(i))

Spec == Init /\ [][Next]_vars /\ Fairness
-----------------------------------------------------------------------------
Processes ==
  [doc : Docs, file : Prefixes \cup {Nothing}, step : {"started", "read"},
   got : Texts \cup {Nothing}]
  \cup [doc : Docs, file : Prefixes, step : {"unlink"}, got : {Nothing}]

ASSUME NothingAssumption == Nothing \notin Processes \cup Texts

\* The state of the extension is well formed.
TypeOK ==
  /\ mode \in {"onType", "onSave", "off"}
  /\ edits \in 0..MaxEdits
  /\ text \in [Docs -> 0..MaxEdits]
  /\ disk \in [Docs -> 0..MaxEdits]
  /\ open \in SUBSET Docs
  /\ timer \in SUBSET Docs
  /\ temp \in [Prefixes -> Texts \cup {Nothing}]
  /\ proc \in [Procs -> Processes \cup {Nothing}]
  /\ shown \in [Docs -> Texts \cup {Nothing}]
  /\ spoilt \in [Procs -> SUBSET Harms]
  /\ stale \in [Docs -> SUBSET Harms]
  /\ left \in SUBSET Prefixes

\* No timer and no check is under way.
Quiet == timer = {} /\ \A i \in Procs : proc[i] = Nothing

\* The timer of a document that was closed never fires: only open documents
\* have one (maybeCheck, onDidCloseTextDocument).
TimersAreOfOpen == timer \subseteq open

\* A temporary file that outlives its last check is one whose last write or
\* removal failed, however checks and failures of the same name overlap (check).
NoTempLeft == Quiet => \A p \in Prefixes : temp[p] # Nothing => p \in left

\* d shows what the checker says of its text (of what was saved last or a later
\* text in mode onSave).
Agrees(d) ==
  /\ shown[d] # Nothing /\ shown[d].doc = d
  /\ shown[d].rev >= disk[d]
  /\ mode = "onType" => shown[d].rev = text[d]

\* When nothing is under way, an open document that nothing got in the way of
\* shows what the checker says of its text: whatever happened before, one check
\* that nothing gets in the way of makes up for it (check, maybeCheck).
Agreement ==
  Quiet /\ mode # "off" => \A d \in open : stale[d] = {} => Agrees(d)

\* The file header: the editor and the command line never disagree.  When
\* nothing is under way, nothing failed and no two checks of one document
\* overlapped, an open document shows what the checker says of its text, whatever
\* other documents are checked (check).
AgreementAmongDocuments ==
  Quiet /\ mode # "off" /\ (\A d \in Docs : stale[d] \subseteq {"shared"}) =>
    \A d \in open : Agrees(d)

\* As long as nothing gets in the way of its checks, the diagnostics of an open
\* document never go back to those of an older text of it (check's callback).
NeverOlder ==
  [][\A d \in Docs :
       stale[d] = {} /\ stale'[d] = {} /\ d \in open' /\ shown[d] # Nothing =>
         shown'[d] # Nothing /\ shown'[d].rev >= shown[d].rev]_vars

\* Every edit is answered in mode onType: the document ends up showing the
\* diagnostics of that text or a later one, or is closed, unless something gets
\* in the way of every check of it from some time on.
EditAnswered ==
  \A d \in Docs : \A v \in 1..MaxEdits :
    mode = "onType" /\ d \in open /\ text[d] = v ~>
      \/ d \notin open
      \/ shown[d] # Nothing /\ shown[d].rev >= v
      \/ [](stale[d] # {})
=============================================================================
