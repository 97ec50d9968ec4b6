----------------------------- MODULE EditorProofs -----------------------------
(***************************************************************************)
(* Theorems about Editor: its types, its timers, its temporary files and   *)
(* what it shows, for any documents, names of temporary files and numbers  *)
(* of processes.                                                           *)
(***************************************************************************)
EXTENDS Editor, TLAPS

(* What the parts of a step do to timers, files and processes. *)

\* The name of a temporary file is one, and the rest of a text is a text.
LEMMA Names ==
  ASSUME NEW d \in Docs
  PROVE  TempOf(d) \in Prefixes /\ TempOf(d) # Nothing /\ Text(d, Torn) \in Texts
  BY EditorAssumption DEF TempOf, Text, Texts, Torn

\* A process started is a process, no other process changes, and the history
\* says which checks are in each other's way.
LEMMA StartStarts ==
  ASSUME TypeOK, NEW d \in Docs, NEW file \in Prefixes \cup {Nothing}, Start(d, file)
  PROVE  /\ proc' \in [Procs -> Processes \cup {Nothing}]
         /\ spoilt' \in [Procs -> SUBSET Harms]
         /\ stale' = stale
         /\ \E i \in Procs :
              /\ ~Doing(i) /\ Active(i)'
              /\ proc'[i].doc = d /\ proc'[i].file = file /\ proc'[i].step = "started"
              /\ \A j \in Procs : j # i => proc'[j] = proc[j]
              /\ spoilt'[i] = {} => \A j \in Procs : ~Meets(j, d, file)
              /\ \A j \in Procs : j # i /\ Active(j) /\ spoilt'[j] = {} =>
                    spoilt[j] = {} /\ ~Meets(j, d, file)
<1> DEFINE p == [doc |-> d, file |-> file, step |-> "started", got |-> Nothing]
           h(i) == [j \in Procs |->
                      IF j = i THEN UNION {Way(k, d, file) : k \in Procs}
                      ELSE spoilt[j] \cup (IF Active(j) THEN Way(j, d, file) ELSE {})]
<1>1. PICK i \in Procs : /\ proc[i] = Nothing
                        /\ proc' = [proc EXCEPT ![i] = p] /\ spoilt' = h(i) /\ stale' = stale
  BY DEF Start
<1>2. proc[i] = Nothing /\ proc' = [proc EXCEPT ![i] = p] /\ spoilt' = h(i) /\ stale' = stale
  BY <1>1
<1>3. p \in Processes /\ p # Nothing
      /\ p.doc = d /\ p.file = file /\ p.step = "started"
  BY NothingAssumption DEF Processes
<1> HIDE DEF p
<1>4. /\ proc' \in [Procs -> Processes \cup {Nothing}]
      /\ proc'[i] = p /\ \A j \in Procs : j # i => proc'[j] = proc[j]
  BY <1>1, <1>2, <1>3 DEF TypeOK
<1>5. ~Doing(i) /\ ~Active(i) /\ Active(i)'
  BY <1>1, <1>3, <1>4 DEF Doing, Active
<1>6. \A j \in Procs : Way(j, d, file) \in SUBSET Harms /\ (Way(j, d, file) = {} => ~Meets(j, d, file))
  BY DEF Way, Harms
<1>7. spoilt'[i] = UNION {Way(k, d, file) : k \in Procs}
  BY <1>1, <1>2
<1>8. \A j \in Procs : j # i => 
         spoilt'[j] = spoilt[j] \cup (IF Active(j) THEN Way(j, d, file) ELSE {})
  BY <1>2
<1>9. \A j \in Procs : spoilt'[j] \in SUBSET Harms
  <2> SUFFICES ASSUME NEW j \in Procs PROVE spoilt'[j] \in SUBSET Harms
    OBVIOUS
  <2>1. CASE j = i
    BY <1>6, <1>7, <2>1
  <2>2. CASE j # i
    BY <1>6, <1>8, <2>2 DEF TypeOK
  <2> QED
    BY <2>1, <2>2
<1>10. spoilt' \in [Procs -> SUBSET Harms]
  BY <1>2, <1>9
<1>11. spoilt'[i] = {} => \A j \in Procs : ~Meets(j, d, file)
  BY <1>6, <1>7
<1>12. \A j \in Procs : j # i /\ Active(j) /\ spoilt'[j] = {} =>
         spoilt[j] = {} /\ ~Meets(j, d, file)
  BY <1>6, <1>8
<1> QED
  BY <1>1, <1>2, <1>3, <1>4, <1>5, <1>10, <1>11, <1>12

\* What spoils checks leaves the history well formed.
LEMMA SpoilSpoils ==
  ASSUME TypeOK, NEW S, NEW h \in Harms, spoilt' = Spoil(S, h)
  PROVE  /\ spoilt' \in [Procs -> SUBSET Harms]
         /\ \A i \in Procs : Active(i) /\ spoilt'[i] = {} => spoilt[i] = {} /\ i \notin S
  BY DEF Spoil, TypeOK

\* A write that fails leaves no process, and the check of the document failed.
LEMMA WriteFailsFails ==
  ASSUME TypeOK, NEW d \in Docs, WriteFails(d)
  PROVE  /\ temp' \in [Prefixes -> Texts \cup {Nothing}] /\ left' \in SUBSET Prefixes
         /\ \A p \in Prefixes : \/ temp'[p] = temp[p] /\ (p \in left => p \in left')
                                \/ p = TempOf(d) /\ p \in left'
         /\ spoilt' \in [Procs -> SUBSET Harms]
         /\ \A i \in Procs : Active(i) /\ spoilt'[i] = {} =>
              spoilt[i] = {} /\ ~Meets(i, d, TempOf(d))
         /\ stale' \in [Docs -> SUBSET Harms]
         /\ stale'[d] # {} /\ \A e \in Docs : e # d => stale'[e] = stale[e]
         /\ proc' = proc
<1>1. TempOf(d) \in Prefixes /\ Text(d, Torn) \in Texts
  BY Names
<1>2. /\ temp' \in [Prefixes -> Texts \cup {Nothing}] /\ left' \in SUBSET Prefixes
      /\ \A p \in Prefixes : \/ temp'[p] = temp[p] /\ (p \in left => p \in left')
                             \/ p = TempOf(d) /\ p \in left'
  <2>1. CASE UNCHANGED <<temp, left>>
    BY <2>1 DEF TypeOK
  <2>2. CASE temp' = [temp EXCEPT ![TempOf(d)] = Text(d, Torn)] /\ left' = left \cup {TempOf(d)}
    BY <1>1, <2>2 DEF TypeOK
  <2> QED
    BY <2>1, <2>2 DEF WriteFails
<1>3. /\ spoilt' \in [Procs -> SUBSET Harms]
      /\ \A i \in Procs : Active(i) /\ spoilt'[i] = {} =>
           spoilt[i] = {} /\ ~Meets(i, d, TempOf(d))
  <2>1. spoilt' = Spoil({i \in Procs : Meets(i, d, TempOf(d))}, "failure") /\ "failure" \in Harms
    BY DEF WriteFails, Harms
  <2> QED
    BY <2>1, SpoilSpoils
<1>4. /\ stale' \in [Docs -> SUBSET Harms]
      /\ stale'[d] # {} /\ \A e \in Docs : e # d => stale'[e] = stale[e]
  BY DEF WriteFails, TypeOK, Harms
<1> QED
  BY <1>2, <1>3, <1>4 DEF WriteFails

\* Check i will answer with this text, if nobody writes or removes its file.
Coming(i) == IF proc[i].step = "read" THEN proc[i].got
             ELSE IF proc[i].file = Nothing THEN Text(proc[i].doc, disk[proc[i].doc])
             ELSE temp[proc[i].file]

\* A check of d that was started: slot i has its process, which will answer with
\* the text of the buffer.
Started(d, i) ==
  /\ ~Doing(i) /\ Active(i)'
  /\ proc'[i].doc = d /\ Coming(i)' = Text(d, text'[d])
  /\ \A j \in Procs : j # i => proc'[j] = proc[j]
  /\ spoilt'[i] = {} => \A j \in Procs : ~Meets(j, d, proc'[i].file)
  /\ \A j \in Procs : Active(j) /\ spoilt'[j] = {} => ~Meets(j, d, proc'[i].file)
  /\ stale' = stale

\* A check of d that failed before there was a process.
Failed(d) ==
  proc' = proc /\ stale'[d] # {} /\ \A e \in Docs : e # d => stale'[e] = stale[e]

\* A check starts or fails; its file is one its process or the history knows; a
\* check that nothing got in the way of is of another document, and will answer
\* what it would have.
LEMMA CheckChecks ==
  ASSUME TypeOK, NEW d \in Docs, Check(d), text' \in [Docs -> 0..MaxEdits]
  PROVE  /\ proc' \in [Procs -> Processes \cup {Nothing}]
         /\ temp' \in [Prefixes -> Texts \cup {Nothing}] /\ left' \in SUBSET Prefixes
         /\ spoilt' \in [Procs -> SUBSET Harms] /\ stale' \in [Docs -> SUBSET Harms]
         /\ Failed(d) \/ \E i \in Procs : Started(d, i)
         /\ \A j \in Procs : Doing(j) => proc'[j] = proc[j]
         /\ \A p \in Prefixes : \/ temp'[p] = temp[p] /\ (p \in left => p \in left')
                                \/ p \in left'
                                \/ \E i \in Procs : Doing(i)' /\ proc'[i].file = p
         /\ \A j \in Procs : Active(j) /\ spoilt'[j] = {} =>
              /\ spoilt[j] = {} /\ proc[j].doc # d
              /\ proc[j].file # Nothing => temp'[proc[j].file] = temp[proc[j].file]
<1>1. TempOf(d) \in Prefixes /\ TempOf(d) # Nothing /\ Text(d, text'[d]) \in Texts
  BY Names DEF Text, Texts
<1>2. \A j \in Procs : Active(j) => /\ proc[j].file \in Prefixes \cup {Nothing}
                                     /\ Doing(j)
  BY DEF Active, Doing, TypeOK, Processes
<1>3. CASE WriteFails(d)
  <2>1. \A j \in Procs : Active(j) /\ spoilt'[j] = {} =>
          /\ spoilt[j] = {} /\ proc[j].doc # d
          /\ proc[j].file # Nothing => temp'[proc[j].file] = temp[proc[j].file]
    BY <1>1, <1>2, <1>3, WriteFailsFails DEF Meets
  <2> QED
    BY <1>3, <2>1, WriteFailsFails DEF Failed, TypeOK
<1>4. CASE /\ Dirty(d)' /\ temp' = [temp EXCEPT ![TempOf(d)] = Text(d, text'[d])]
           /\ left' = left \ {TempOf(d)} /\ Start(d, TempOf(d))
  <2>1. PICK i \in Procs :
              /\ ~Doing(i) /\ Active(i)'
              /\ proc'[i].doc = d /\ proc'[i].file = TempOf(d) /\ proc'[i].step = "started"
              /\ \A j \in Procs : j # i => proc'[j] = proc[j]
              /\ spoilt'[i] = {} => \A j \in Procs : ~Meets(j, d, TempOf(d))
              /\ \A j \in Procs : j # i /\ Active(j) /\ spoilt'[j] = {} =>
                    spoilt[j] = {} /\ ~Meets(j, d, TempOf(d))
    BY <1>1, <1>4, StartStarts
  <2>2. /\ temp' \in [Prefixes -> Texts \cup {Nothing}] /\ temp'[TempOf(d)] = Text(d, text'[d])
        /\ \A p \in Prefixes : p # TempOf(d) => temp'[p] = temp[p]
    BY <1>1, <1>4 DEF TypeOK
  <2>3. Started(d, i) /\ Doing(i)'
    BY <1>1, <1>4, <2>1, <2>2, StartStarts DEF Started, Coming, Active, Doing
  <2>4. \A j \in Procs : Doing(j) => j # i /\ proc'[j] = proc[j]
    BY <2>1
  <2>5. \A j \in Procs : Active(j) /\ spoilt'[j] = {} =>
          /\ spoilt[j] = {} /\ proc[j].doc # d
          /\ proc[j].file # Nothing => temp'[proc[j].file] = temp[proc[j].file]
    BY <1>1, <1>2, <2>1, <2>2, <2>4 DEF Meets
  <2>6. \A p \in Prefixes : \/ temp'[p] = temp[p] /\ (p \in left => p \in left')
                            \/ Doing(i)' /\ proc'[i].file = p
    BY <1>4, <2>1, <2>2, <2>3
  <2>7. left' \in SUBSET Prefixes /\ stale' \in [Docs -> SUBSET Harms]
        /\ proc' \in [Procs -> Processes \cup {Nothing}] /\ spoilt' \in [Procs -> SUBSET Harms]
    BY <1>1, <1>4, StartStarts DEF TypeOK
  <2> QED
    BY <2>2, <2>3, <2>4, <2>5, <2>6, <2>7
<1>5. CASE ~Dirty(d)' /\ Start(d, Nothing) /\ UNCHANGED <<temp, left>>
  <2>1. PICK i \in Procs :
              /\ ~Doing(i) /\ Active(i)'
              /\ proc'[i].doc = d /\ proc'[i].file = Nothing /\ proc'[i].step = "started"
              /\ \A j \in Procs : j # i => proc'[j] = proc[j]
              /\ spoilt'[i] = {} => \A j \in Procs : ~Meets(j, d, Nothing)
              /\ \A j \in Procs : j # i /\ Active(j) /\ spoilt'[j] = {} =>
                    spoilt[j] = {} /\ ~Meets(j, d, Nothing)
    BY <1>5, StartStarts
  <2>2. Started(d, i)
    BY <1>5, <2>1, StartStarts DEF Started, Coming, Dirty
  <2>3. \A j \in Procs : Doing(j) => j # i /\ proc'[j] = proc[j]
    BY <2>1
  <2>4. \A j \in Procs : Active(j) /\ spoilt'[j] = {} => spoilt[j] = {} /\ proc[j].doc # d
    BY <1>2, <2>1, <2>3 DEF Meets
  <2>5. stale' \in [Docs -> SUBSET Harms]
        /\ proc' \in [Procs -> Processes \cup {Nothing}] /\ spoilt' \in [Procs -> SUBSET Harms]
    BY <1>5, StartStarts DEF TypeOK
  <2> QED
    BY <1>5, <2>2, <2>3, <2>4, <2>5 DEF TypeOK
<1> QED
  BY <1>3, <1>4, <1>5 DEF Check

\* The callback of a process leaves it to remove its temporary file, if any.
LEMMA AskAsks ==
  ASSUME TypeOK, NEW i \in Procs, proc[i] # Nothing, proc[i].step # "unlink", AskUnlink(i)
  PROVE  /\ proc' \in [Procs -> Processes \cup {Nothing}]
         /\ \A j \in Procs : j # i => proc'[j] = proc[j] /\ spoilt'[j] = spoilt[j]
         /\ proc[i].file # Nothing => proc'[i] # Nothing /\ proc'[i].file = proc[i].file
         /\ ~Active(i)' /\ (Doing(i)' => proc'[i].file = proc[i].file)
         /\ spoilt' \in [Procs -> SUBSET Harms]
<1> DEFINE p == [proc[i] EXCEPT !.step = "unlink", !.got = Nothing]
<1>1. proc[i] \in Processes /\ proc[i].file \in Prefixes \cup {Nothing}
  BY DEF TypeOK, Processes
<1>2. spoilt' = [spoilt EXCEPT ![i] = {}]
  BY DEF AskUnlink
<1>3. CASE proc[i].file = Nothing
  BY <1>2, <1>3 DEF AskUnlink, TypeOK, Active, Doing
<1>4. CASE proc[i].file # Nothing
  <2>1. p \in Processes /\ p # Nothing /\ p.file = proc[i].file /\ p.step = "unlink"
    BY <1>1, <1>4, NothingAssumption DEF Processes
  <2>2. proc' = [proc EXCEPT ![i] = p]
    BY <1>4 DEF AskUnlink
  <2> HIDE DEF p
  <2> QED
    BY <1>2, <2>1, <2>2 DEF TypeOK, Active, Doing
<1> QED
  BY <1>3, <1>4

\* A check that has ended leaves the history well formed.
LEMMA EndedEnds ==
  ASSUME TypeOK, NEW d \in Docs, NEW h \in SUBSET Harms, Ended(d, h)
  PROVE  /\ stale' \in [Docs -> SUBSET Harms]
         /\ (stale'[d] = {}) <=> (h = {})
         /\ \A e \in Docs : e # d => stale'[e] = stale[e]
  BY DEF Ended, TypeOK

\* A process that reads its file has the text in it, and is otherwise the same.
LEMMA ReadReads ==
  ASSUME TypeOK, NEW i \in Procs, Read(i)
  PROVE  /\ proc[i] \in Processes /\ proc[i] # Nothing /\ proc[i].step = "started"
         /\ proc'[i] \in Processes /\ proc'[i] # Nothing /\ proc'[i].step = "read"
         /\ proc'[i].doc = proc[i].doc /\ proc'[i].file = proc[i].file
         /\ proc'[i].got = IF proc[i].file = Nothing
                           THEN Text(proc[i].doc, disk[proc[i].doc]) ELSE temp[proc[i].file]
         /\ proc' \in [Procs -> Processes \cup {Nothing}]
         /\ \A j \in Procs : j # i => proc'[j] = proc[j]
<1> DEFINE p == proc[i]
           t == IF p.file = Nothing THEN Text(p.doc, disk[p.doc]) ELSE temp[p.file]
           q == [p EXCEPT !.step = "read", !.got = t]
<1>1. p \in Processes /\ p # Nothing /\ p.step = "started"
  BY DEF Read, At, TypeOK
<1>2. t \in Texts \cup {Nothing}
  BY <1>1 DEF TypeOK, Processes, Text, Texts
<1>3. /\ q \in Processes /\ q # Nothing
      /\ q.step = "read" /\ q.doc = p.doc /\ q.file = p.file /\ q.got = t
  <2> HIDE DEF p, t
  <2> QED
    BY <1>1, <1>2, NothingAssumption DEF Processes
<1>4. proc' = [proc EXCEPT ![i] = q]
  BY DEF Read
<1> HIDE DEF q
<1>5. proc'[i] = q /\ proc' \in [Procs -> Processes \cup {Nothing}]
      /\ \A j \in Procs : j # i => proc'[j] = proc[j]
  BY <1>3, <1>4 DEF TypeOK
<1> QED
  BY <1>1, <1>3, <1>5
-----------------------------------------------------------------------------
\* Every temporary file is one that a process under way is to remove, or one
\* whose last write or removal failed.
TempInv == \A p \in Prefixes :
  temp[p] # Nothing => p \in left \/ \E i \in Procs : Doing(i) /\ proc[i].file = p

EditorInv == TypeOK /\ TimersAreOfOpen /\ TempInv

\* At the start there is no timer, no file and no process.
LEMMA InitEditorInv == Init => EditorInv
<1> SUFFICES ASSUME Init PROVE EditorInv
  OBVIOUS
<1>1. TypeOK
  BY EditorAssumption DEF Init, TypeOK
<1> QED
  BY <1>1 DEF Init, EditorInv, TimersAreOfOpen, TempInv

\* A check keeps the invariant's part about files.
LEMMA CheckKeepsFiles ==
  ASSUME EditorInv, NEW d \in Docs, Check(d), text' \in [Docs -> 0..MaxEdits]
  PROVE  TempInv'
<1>1. \A p \in Prefixes : \/ temp'[p] = temp[p] /\ (p \in left => p \in left')
                          \/ p \in left'
                          \/ \E i \in Procs : Doing(i)' /\ proc'[i].file = p
  BY CheckChecks DEF EditorInv
<1>2. \A j \in Procs : Doing(j) => proc'[j] = proc[j] /\ Doing(j)'
  BY CheckChecks DEF EditorInv, Doing
<1> QED
  BY <1>1, <1>2 DEF EditorInv, TempInv

\* What maybeCheck does on an open or a save.
LEMMA CheckNowKeeps ==
  ASSUME EditorInv, NEW d \in Docs, CheckNow(d), text' \in [Docs -> 0..MaxEdits]
  PROVE  /\ timer' \in SUBSET Docs /\ timer' \subseteq timer \cup {d}
         /\ temp' \in [Prefixes -> Texts \cup {Nothing}] /\ left' \in SUBSET Prefixes
         /\ proc' \in [Procs -> Processes \cup {Nothing}]
         /\ spoilt' \in [Procs -> SUBSET Harms] /\ stale' \in [Docs -> SUBSET Harms]
         /\ TempInv'
<1>1. mode \in {"onType", "onSave", "off"} /\ TypeOK
  BY DEF EditorInv, TypeOK
<1>2. CASE mode = "off"
  BY <1>2 DEF CheckNow, EditorInv, TypeOK, TempInv, Doing, history
<1>3. CASE mode = "onType"
  BY <1>1, <1>3, CheckChecks, CheckKeepsFiles DEF CheckNow, TypeOK
<1>4. CASE mode = "onSave"
  BY <1>4 DEF CheckNow, EditorInv, TypeOK, TempInv, Doing, history
<1> QED
  BY <1>1, <1>2, <1>3, <1>4

\* Every step keeps it.
LEMMA NextEditorInv == EditorInv /\ [Next]_vars => EditorInv'
<1> SUFFICES ASSUME EditorInv, [Next]_vars PROVE EditorInv'
  OBVIOUS
<1> USE EditorAssumption DEF docs, history
<1>0. TypeOK /\ TimersAreOfOpen /\ TempInv
  BY DEF EditorInv
<1>1. ASSUME NEW d \in Docs, Open(d) PROVE EditorInv'
  <2>1. text' \in [Docs -> 0..MaxEdits]
    BY <1>0, <1>1 DEF Open, TypeOK
  <2>2. CheckNow(d)
    BY <1>1 DEF Open
  <2> QED
    BY <1>0, <1>1, <2>1, <2>2, CheckNowKeeps DEF Open, EditorInv, TypeOK, TimersAreOfOpen
<1>2. ASSUME NEW d \in Docs, Edit(d) PROVE EditorInv'
  BY <1>0, <1>2 DEF Edit, CheckLater, EditorInv, TypeOK, TimersAreOfOpen, TempInv, Doing
<1>3. ASSUME NEW d \in Docs, Save(d) PROVE EditorInv'
  <2>1. text' \in [Docs -> 0..MaxEdits]
    BY <1>0, <1>3 DEF Save, TypeOK
  <2>2. CheckNow(d)
    BY <1>3 DEF Save
  <2> QED
    BY <1>0, <1>3, <2>1, <2>2, CheckNowKeeps DEF Save, EditorInv, TypeOK, TimersAreOfOpen
<1>4. ASSUME NEW d \in Docs, Close(d) PROVE EditorInv'
  <2>1. spoilt' \in [Procs -> SUBSET Harms]
    BY <1>0, <1>4, SpoilSpoils DEF Close, Harms
  <2> QED
    BY <1>0, <1>4, <2>1 DEF Close, EditorInv, TypeOK, TimersAreOfOpen, TempInv, Doing
<1>5. ASSUME NEW d \in Docs, Command(d) PROVE EditorInv'
  <2>1. text' \in [Docs -> 0..MaxEdits]
    BY <1>0, <1>5 DEF Command, TypeOK
  <2> QED
    BY <1>0, <1>5, <2>1, CheckChecks, CheckKeepsFiles
    DEF Command, EditorInv, TypeOK, TimersAreOfOpen
<1>6. ASSUME NEW d \in Docs, TimerFires(d) PROVE EditorInv'
  <2>1. text' \in [Docs -> 0..MaxEdits]
    BY <1>0, <1>6 DEF TimerFires, TypeOK
  <2> QED
    BY <1>0, <1>6, <2>1, CheckChecks, CheckKeepsFiles
    DEF TimerFires, EditorInv, TypeOK, TimersAreOfOpen
<1>7. ASSUME NEW i \in Procs, Read(i) PROVE EditorInv'
  <2>1. UNCHANGED <<mode, docs, timer, temp, shown, history>>
    BY <1>7 DEF Read
  <2>2. TypeOK'
    BY <1>0, <1>7, <2>1, ReadReads DEF TypeOK
  <2>3. TempInv'
    BY <1>0, <1>7, <2>1, ReadReads DEF TempInv, Doing
  <2> QED
    BY <1>0, <2>1, <2>2, <2>3 DEF EditorInv, TimersAreOfOpen
<1>8. ASSUME NEW i \in Procs, Report(i) \/ Killed(i) \/ NotStarted(i) PROVE EditorInv'
  <2>1. proc[i] # Nothing /\ proc[i].step # "unlink" /\ AskUnlink(i)
    BY <1>8 DEF Report, Killed, NotStarted, At
  <2>2. UNCHANGED <<mode, docs, timer, temp, left>>
    BY <1>8 DEF Report, Killed, NotStarted
  <2>3. proc[i] \in Processes /\ proc[i].doc \in Docs /\ spoilt[i] \in SUBSET Harms
    BY <1>0, <2>1 DEF TypeOK, Processes
  <2>4. shown' \in [Docs -> Texts \cup {Nothing}]
    BY <1>0, <1>8, <2>1, <2>3 DEF Report, Killed, NotStarted, TypeOK, Processes
  <2>5. stale' \in [Docs -> SUBSET Harms]
    BY <1>0, <1>8, <2>3, EndedEnds DEF Report, Killed, NotStarted, Harms
  <2>6. TypeOK'
    BY <1>0, <2>1, <2>2, <2>4, <2>5, AskAsks DEF TypeOK
  <2>7. TempInv'
    BY <1>0, <2>1, <2>2, AskAsks DEF TempInv, Doing
  <2> QED
    BY <1>0, <2>2, <2>6, <2>7 DEF EditorInv, TimersAreOfOpen
<1>9. ASSUME NEW i \in Procs, Unlink(i) PROVE EditorInv'
  <2>1. proc[i] \in Processes /\ proc[i].file \in Prefixes
    BY <1>0, <1>9 DEF Unlink, At, TypeOK, Processes
  <2>2. TypeOK'
    BY <1>0, <1>9, <2>1 DEF Unlink, TypeOK
  <2>3. TempInv'
    BY <1>0, <1>9, <2>1 DEF Unlink, TypeOK, TempInv, Doing
  <2> QED
    BY <1>0, <1>9, <2>2, <2>3 DEF Unlink, EditorInv, TimersAreOfOpen
<1>10. CASE UNCHANGED vars
  BY <1>0, <1>10 DEF vars, EditorInv, TypeOK, TimersAreOfOpen, TempInv, Doing
<1> QED
  BY <1>1, <1>2, <1>3, <1>4, <1>5, <1>6, <1>7, <1>8, <1>9, <1>10
  DEF Next, User, Process
-----------------------------------------------------------------------------
\* The invariant about types, timers and files holds for ever.
LEMMA AlwaysEditorInv == Spec => []EditorInv
  BY InitEditorInv, NextEditorInv, PTL DEF Spec

\* The extension's state is well formed.
THEOREM EditorTypes == Spec => []TypeOK
<1>1. EditorInv => TypeOK
  BY DEF EditorInv
<1> QED
  BY <1>1, AlwaysEditorInv, PTL

\* Only open documents have a pending timer: the one of a closed document never
\* fires (maybeCheck, onDidCloseTextDocument).
THEOREM TimersOfOpenOnly == Spec => []TimersAreOfOpen
<1>1. EditorInv => TimersAreOfOpen
  BY DEF EditorInv
<1> QED
  BY <1>1, AlwaysEditorInv, PTL

\* A temporary file that outlives the last check is one whose last write or
\* removal failed, however many documents share its name and however checks and
\* failures overlap (check).
THEOREM FilesAreRemoved == Spec => []NoTempLeft
<1>1. EditorInv => NoTempLeft
  BY DEF EditorInv, TempInv, NoTempLeft, Quiet, Doing
<1> QED
  BY <1>1, AlwaysEditorInv, PTL
-----------------------------------------------------------------------------
(***************************************************************************)
(* What a document shows, when nothing got in the way of its last check.   *)
(***************************************************************************)

\* A check whose answer is to come and that nothing got in the way of.
Fine(i) == Active(i) /\ spoilt[i] = {}

\* t is a text d has or had, no older than revision v.
AtLeast(t, d, v) == t \in Texts /\ t.doc = d /\ v <= t.rev /\ t.rev <= text[d]

\* The revision d is to show before all is quiet, and the one it may not go below.
Goal(d)  == IF mode = "onType" THEN text[d] ELSE disk[d]
Floor(d) == IF stale[d] = {} /\ shown[d] # Nothing THEN shown[d].rev ELSE 0

\* No other check that could answer for its document, or touch its file.
Alone(i) == \A j \in Procs : j # i =>
  /\ Active(j) => proc[j].doc # proc[i].doc
  /\ Doing(j) => proc[i].file = Nothing \/ proc[j].file # proc[i].file

\* It will answer with a text no older than what is shown, and with the text to
\* be shown unless a timer will start another check.
Answers(i) ==
  /\ AtLeast(Coming(i), proc[i].doc, Floor(proc[i].doc))
  /\ mode # "off" => \/ proc[i].doc \in timer
                     \/ AtLeast(Coming(i), proc[i].doc, Goal(proc[i].doc))

CheckSound(i) == proc[i].doc \in open /\ Alone(i) /\ Answers(i)

Awaited(d) == \E i \in Procs : Active(i) /\ proc[i].doc = d

Ordered(d)    == disk[d] <= text[d] /\ text[d] <= edits
ShownSound(d) == stale[d] = {} => /\ d \notin open => shown[d] = Nothing
                                  /\ shown[d] = Nothing \/ AtLeast(shown[d], d, 0)
Answered(d)   == mode # "off" /\ d \in open =>
  d \in timer \/ stale[d] # {} \/ Awaited(d) \/ AtLeast(shown[d], d, Goal(d))

DocSound(d) == Ordered(d) /\ ShownSound(d) /\ Answered(d)

Sound == /\ \A d \in Docs : DocSound(d)
         /\ \A i \in Procs : Fine(i) => CheckSound(i)

\* Step by step: nothing about e changes but what is under way, and its timer
\* does not stop.
Same(e) ==
  /\ mode' = mode /\ edits <= edits' /\ (e \in open' <=> e \in open)
  /\ text'[e] = text[e] /\ disk'[e] = disk[e] /\ shown'[e] = shown[e]
  /\ e \in timer => e \in timer'

\* What a document shows stays right when only its checks change and it is still
\* awaited.
LEMMA DocStays ==
  ASSUME TypeOK, TypeOK', NEW e \in Docs, Same(e), stale'[e] = stale[e],
         Awaited(e) => Awaited(e)', DocSound(e)
  PROVE  DocSound(e)'
<1>1. Ordered(e)'
  BY DEF Same, DocSound, Ordered, TypeOK
<1>2. ShownSound(e)'
  BY DEF Same, DocSound, ShownSound, AtLeast
<1>3. Answered(e)'
  BY DEF Same, DocSound, Answered, AtLeast, Goal
<1> QED
  BY <1>1, <1>2, <1>3 DEF DocSound

\* What a check will answer stays right when its text and its document do.
LEMMA CheckStays ==
  ASSUME NEW i \in Procs, NEW e \in Docs, proc[i].doc = e, proc'[i].doc = e, Same(e),
         stale'[e] = stale[e], Coming(i)' = Coming(i), Alone(i)', CheckSound(i)
  PROVE  CheckSound(i)'
<1>1. Goal(e)' = Goal(e) /\ Floor(e)' = Floor(e)
  BY DEF Same, Goal, Floor
<1> QED
  BY <1>1 DEF CheckSound, Answers, AtLeast, Same

\* What a check will answer changes only with the file it reads.
LEMMA ComingStays ==
  ASSUME TypeOK, NEW i \in Procs, Active(i), proc'[i] = proc[i],
         disk'[proc[i].doc] = disk[proc[i].doc],
         proc[i].file # Nothing => temp'[proc[i].file] = temp[proc[i].file]
  PROVE  Coming(i)' = Coming(i) /\ Active(i)'
  BY DEF Coming, Active, Doing

\* An active check is of a document, and its file is one or none.
LEMMA Actives ==
  ASSUME TypeOK, NEW i \in Procs, Active(i)
  PROVE  /\ Doing(i) /\ proc[i] \in Processes
         /\ proc[i].doc \in Docs /\ proc[i].file \in Prefixes \cup {Nothing}
  BY DEF Active, Doing, TypeOK, Processes

\* A step that checks d, whatever happened to d's own text before.
LEMMA CheckKeepsSound ==
  ASSUME TypeOK, TypeOK', Sound, NEW d \in Docs, Check(d),
         \A e \in Docs : e # d => Same(e),
         disk'[d] <= text'[d], text'[d] <= edits', Floor(d) <= text'[d],
         d \notin open => ShownSound(d),
         d \in open', shown' = shown, mode' = mode
  PROVE  Sound'
<1>0. text' \in [Docs -> 0..MaxEdits]
  BY DEF TypeOK
<1>1. /\ Failed(d) \/ \E i \in Procs : Started(d, i)
      /\ \A j \in Procs : Doing(j) => proc'[j] = proc[j]
      /\ \A j \in Procs : Active(j) /\ spoilt'[j] = {} =>
           /\ spoilt[j] = {} /\ proc[j].doc # d
           /\ proc[j].file # Nothing => temp'[proc[j].file] = temp[proc[j].file]
  BY <1>0, CheckChecks
<1>2. \A j \in Procs : Active(j) => Active(j)' /\ proc'[j] = proc[j]
  BY <1>1 DEF Active, Doing
<1>3. \A e \in Docs : e # d => stale'[e] = stale[e]
  BY <1>1 DEF Failed, Started
<1>4. ASSUME NEW e \in Docs, e # d
      PROVE  DocSound(e)'
  <2>1. Awaited(e) => Awaited(e)'
    BY <1>2 DEF Awaited
  <2> QED
    BY <1>3, <1>4, <2>1, DocStays DEF Sound
<1>5. DocSound(d)'
  <2>1. Ordered(d)'
    BY DEF Ordered
  <2>2. CASE Failed(d)
    BY <2>1, <2>2 DEF DocSound, ShownSound, Answered, Failed
  <2>3. ASSUME NEW i \in Procs, Started(d, i)
        PROVE  DocSound(d)'
    <3>1. Awaited(d)' /\ stale' = stale
      BY <2>3 DEF Started, Awaited
    <3>2. ASSUME stale[d] = {}, shown[d] # Nothing
          PROVE  AtLeast(shown[d], d, 0)'
      <4>1. AtLeast(shown[d], d, 0)
        BY <3>2 DEF Sound, DocSound, ShownSound
      <4> QED
        BY <3>2, <4>1 DEF AtLeast, Floor
    <3> QED
      BY <2>1, <3>1, <3>2 DEF DocSound, ShownSound, Answered
  <2> QED
    BY <1>1, <2>2, <2>3
<1>6. ASSUME NEW j \in Procs, Fine(j), Fine(j)'
      PROVE  /\ proc'[j] = proc[j] /\ proc[j].doc \in Docs \ {d}
             /\ Coming(j)' = Coming(j) /\ CheckSound(j)
  <2>1. Active(j) /\ proc[j].doc \in Docs /\ spoilt'[j] = {}
    BY <1>6, Actives DEF Fine
  <2>2. proc[j].doc # d /\ (proc[j].file # Nothing => temp'[proc[j].file] = temp[proc[j].file])
    BY <1>1, <2>1
  <2>3. disk'[proc[j].doc] = disk[proc[j].doc]
    BY <2>1, <2>2 DEF Same
  <2> QED
    BY <1>2, <1>6, <2>1, <2>2, <2>3, ComingStays DEF Sound
<1>7. \A j \in Procs : Active(j) /\ Fine(j)' => Fine(j)
  BY <1>1 DEF Fine
<1>8. CASE Failed(d)
  <2> SUFFICES ASSUME NEW j \in Procs, Fine(j)'
               PROVE  CheckSound(j)'
    BY <1>4, <1>5 DEF Sound
  <2>1. proc' = proc
    BY <1>8 DEF Failed
  <2>2. Fine(j)
    BY <1>7, <2>1 DEF Fine, Active, Doing
  <2>3. CheckSound(j) /\ Alone(j)'
    BY <2>1, <2>2 DEF Sound, CheckSound, Alone, Active, Doing
  <2> QED
    BY <1>3, <1>6, <2>2, <2>3, CheckStays
<1>9. ASSUME NEW i \in Procs, Started(d, i)
      PROVE  Sound'
  <2> SUFFICES ASSUME NEW j \in Procs, Fine(j)'
               PROVE  CheckSound(j)'
    BY <1>4, <1>5 DEF Sound
  <2>1. /\ proc'[i].doc = d /\ Coming(i)' = Text(d, text'[d]) /\ Active(i)' /\ stale' = stale
        /\ \A k \in Procs : k # i => proc'[k] = proc[k]
    BY <1>9 DEF Started
  <2>2. \A k \in Procs : k # i => (Active(k)' <=> Active(k)) /\ (Doing(k)' <=> Doing(k))
    BY <2>1 DEF Active, Doing
  <2>3. CASE j = i
    <3>1. \A k \in Procs : ~Meets(k, d, proc'[i].file)
      BY <1>9, <2>3 DEF Started, Fine
    <3>2. Alone(j)'
      BY <2>1, <2>2, <2>3, <3>1 DEF Alone, Meets, Active
    <3>3. Floor(d)' = Floor(d) /\ Floor(d) \in -1..MaxEdits /\ Goal(d)' \in 0..MaxEdits
      BY <2>1, EditorAssumption DEF Floor, Goal, TypeOK, Texts, Torn
    <3>4. Goal(d)' <= text'[d]
      BY DEF Goal, TypeOK
    <3>5. \A v \in -1..MaxEdits : v <= text'[d] => AtLeast(Text(d, text[d]), d, v)'
      BY EditorAssumption DEF AtLeast, Text, Texts, TypeOK
    <3>6. AtLeast(Coming(i), d, Floor(d))' /\ AtLeast(Coming(i), d, Goal(d))'
      BY <2>1, <3>3, <3>4, <3>5 DEF AtLeast
    <3> QED
      BY <2>1, <2>3, <3>2, <3>6 DEF CheckSound, Answers
  <2>4. CASE j # i
    <3>1. Fine(j) /\ Active(j)
      BY <1>7, <2>2, <2>4 DEF Fine
    <3>2. ~Meets(j, d, proc'[i].file)
      BY <1>9, <3>1 DEF Started, Fine
    <3>3. CheckSound(j) /\ proc'[j] = proc[j] /\ proc[j].doc # d
      BY <1>6, <3>1
    <3>4. Alone(j)'
      BY <2>1, <2>2, <3>1, <3>2, <3>3 DEF CheckSound, Alone, Meets, Active
    <3> QED
      BY <1>3, <1>6, <3>1, <3>3, <3>4, CheckStays
  <2> QED
    BY <2>3, <2>4
<1> QED
  BY <1>1, <1>8, <1>9

\* What the user does to the text of d without a check of it.
LEMMA TypingKeepsSound ==
  ASSUME TypeOK, TypeOK', Sound, NEW d \in Docs,
         \A e \in Docs : e # d => Same(e),
         disk'[d] <= text'[d], text'[d] <= edits',
         d \in open => text[d] <= text'[d] /\ disk[d] <= disk'[d],
         d \in timer' \/ (d \in open /\ timer' = timer /\ Goal(d)' = Goal(d)) \/ mode = "off",
         d \in open', UNCHANGED <<mode, temp, proc, shown, history>>
  PROVE  Sound'
<1>1. /\ stale' = stale /\ Floor(d)' = Floor(d)
      /\ \A i \in Procs : (Active(i)' <=> Active(i)) /\ (Fine(i)' <=> Fine(i))
      /\ \A i \in Procs : Alone(i)' <=> Alone(i)
      /\ \A e \in Docs : Awaited(e)' <=> Awaited(e)
  BY DEF history, Floor, Active, Doing, Fine, Alone, Awaited
<1>2. \A e \in Docs : e # d => DocSound(e)'
  BY <1>1, DocStays DEF Sound
<1>3. DocSound(d) /\ Goal(d) \in 0..MaxEdits /\ Floor(d) \in -1..MaxEdits
  BY EditorAssumption DEF Sound, Goal, Floor, TypeOK, Texts, Torn
<1>4. \A t, v : d \in open /\ AtLeast(t, d, v) => AtLeast(t, d, v)'
  BY DEF AtLeast, Texts, Torn, TypeOK
<1>5. DocSound(d)'
  <2>1. Ordered(d)'
    BY DEF Ordered
  <2>2. ShownSound(d)'
    BY <1>1, <1>3, <1>4 DEF DocSound, ShownSound
  <2>3. Answered(d)'
    <3>1. CASE d \in timer' \/ mode = "off"
      BY <3>1 DEF Answered
    <3>2. CASE d \in open /\ timer' = timer /\ Goal(d)' = Goal(d)
      BY <1>1, <1>3, <1>4, <3>2 DEF DocSound, Answered, AtLeast
    <3> QED
      BY <3>1, <3>2
  <2> QED
    BY <2>1, <2>2, <2>3 DEF DocSound
<1>6. ASSUME NEW i \in Procs, Fine(i)
      PROVE  CheckSound(i)'
  <2>1. Active(i) /\ CheckSound(i) /\ proc[i].doc \in Docs /\ proc'[i] = proc[i] /\ Alone(i)'
    BY <1>1, <1>6, Actives DEF Sound, Fine, CheckSound
  <2>2. CASE proc[i].doc # d
    <3>1. Coming(i)' = Coming(i)
      BY <2>1, <2>2, ComingStays DEF Same
    <3> QED
      BY <1>1, <2>1, <2>2, <3>1, CheckStays
  <2>3. CASE proc[i].doc = d
    <3>1. d \in open /\ AtLeast(Coming(i), d, Floor(d))
      BY <2>1, <2>3 DEF CheckSound, Answers
    <3>2. \A v \in -1..MaxEdits : AtLeast(Coming(i), d, v) => AtLeast(Coming(i), d, v)'
      <4>1. CASE Coming(i)' = Coming(i)
        BY <1>4, <3>1, <4>1 DEF AtLeast
      <4>2. CASE Coming(i)' # Coming(i)
        <5>1. Coming(i) = Text(d, disk[d]) /\ Coming(i)' = Text(d, disk'[d])
          BY <2>1, <2>3, <4>2 DEF Coming
        <5>2. /\ disk[d] <= disk'[d] /\ disk'[d] <= text'[d]
              /\ disk'[d] \in 0..MaxEdits /\ disk[d] \in 0..MaxEdits
          BY <3>1 DEF TypeOK
        <5> QED
          BY <5>1, <5>2, EditorAssumption DEF AtLeast, Text, Texts, TypeOK
      <4> QED
        BY <4>1, <4>2
    <3>3. AtLeast(Coming(i), d, Floor(d))'
      BY <1>1, <1>3, <3>1, <3>2 DEF AtLeast
    <3>4. mode' # "off" => d \in timer' \/ AtLeast(Coming(i), d, Goal(d))'
      <4>1. mode = "off" \/ d \in timer' \/ (d \in timer /\ timer' = timer)
            \/ (Goal(d)' = Goal(d) /\ AtLeast(Coming(i), d, Goal(d)))
        BY <2>1, <2>3 DEF CheckSound, Answers
      <4>2. Goal(d)' = Goal(d) /\ AtLeast(Coming(i), d, Goal(d)) => AtLeast(Coming(i), d, Goal(d))'
        BY <1>3, <3>2 DEF AtLeast
      <4> QED
        BY <4>1, <4>2
    <3> QED
      BY <2>1, <2>3, <3>3, <3>4 DEF CheckSound, Answers
  <2> QED
    BY <2>2, <2>3
<1> QED
  BY <1>1, <1>2, <1>5, <1>6 DEF Sound

\* A document that is closed shows nothing, and its checks are spoilt.
LEMMA CloseKeepsSound ==
  ASSUME TypeOK, TypeOK', Sound, NEW d \in Docs, Close(d)
  PROVE  Sound'
<1>1. /\ d \notin open' /\ shown'[d] = Nothing /\ stale' = stale
      /\ UNCHANGED <<text, disk, edits, mode, temp, proc>>
      /\ \A e \in Docs : e # d => Same(e)
  BY DEF Close, Same, TypeOK
<1>2. \A i \in Procs : (Active(i)' <=> Active(i)) /\ (Alone(i)' <=> Alone(i))
  BY <1>1 DEF Active, Doing, Alone
<1>3. \A e \in Docs : e # d => DocSound(e)'
  BY <1>1, <1>2, DocStays DEF Sound, Awaited
<1>4. DocSound(d)'
  BY <1>1 DEF Sound, DocSound, Ordered, ShownSound, Answered
<1>5. ASSUME NEW i \in Procs, Fine(i)'
      PROVE  CheckSound(i)'
  <2>1. Active(i) /\ spoilt'[i] = {}
    BY <1>2, <1>5 DEF Fine
  <2>2. spoilt[i] = {} /\ proc[i].doc # d
    <3>1. spoilt' = Spoil({j \in Procs : Doing(j) /\ proc[j].doc = d}, "overlap")
          /\ "overlap" \in Harms
      BY DEF Close, Harms
    <3>2. spoilt[i] = {} /\ i \notin {j \in Procs : Doing(j) /\ proc[j].doc = d}
      BY <2>1, <3>1, SpoilSpoils
    <3> QED
      BY <2>1, <3>2 DEF Active
  <2>3. CheckSound(i) /\ proc[i].doc \in Docs /\ Coming(i)' = Coming(i) /\ Alone(i)'
    BY <1>1, <1>2, <2>1, <2>2, Actives, ComingStays DEF Sound, Fine, CheckSound
  <2> QED
    BY <1>1, <2>2, <2>3, CheckStays
<1> QED
  BY <1>3, <1>4, <1>5 DEF Sound

\* The callback of check i of d: what it shows is right when nothing got in its
\* way, and is no older than what was shown.
LEMMA CallbackKeepsSound ==
  ASSUME TypeOK, TypeOK', Sound, NEW i \in Procs, NEW d \in Docs, Active(i), proc[i].doc = d,
         AskUnlink(i), UNCHANGED <<mode, docs, timer, temp, left>>,
         \A e \in Docs : e # d => shown'[e] = shown[e] /\ stale'[e] = stale[e],
         stale'[d] = {} => Fine(i) /\ shown'[d] = Coming(i)
  PROVE  /\ Sound'
         /\ stale[d] = {} /\ stale'[d] = {} /\ shown[d] # Nothing =>
              shown'[d] # Nothing /\ shown'[d].rev >= shown[d].rev
<1>1. /\ ~Active(i)' /\ (Doing(i)' => proc'[i].file = proc[i].file)
      /\ \A j \in Procs : j # i => proc'[j] = proc[j] /\ spoilt'[j] = spoilt[j]
  BY AskAsks DEF Active, Doing
<1>2. \A j \in Procs : j # i => /\ Active(j)' <=> Active(j)
                                /\ Doing(j)' <=> Doing(j)
                                /\ Fine(j)' <=> Fine(j)
  BY <1>1 DEF Active, Doing, Fine
<1>3. \A e \in Docs : e # d => Same(e)
  BY DEF Same, docs, TypeOK
<1>4. ASSUME NEW e \in Docs, e # d
      PROVE  DocSound(e)'
  <2>1. Awaited(e) => Awaited(e)'
    <3> SUFFICES ASSUME NEW j \in Procs, Active(j), proc[j].doc = e
                 PROVE  Awaited(e)'
      BY DEF Awaited
    <3> QED
      BY <1>1, <1>2, <1>4 DEF Awaited
  <2> QED
    BY <1>3, <1>4, <2>1, DocStays DEF Sound
<1>5. ASSUME stale'[d] = {}
      PROVE  /\ d \in open /\ AtLeast(shown'[d], d, Floor(d)) /\ shown'[d] # Nothing
             /\ mode # "off" => d \in timer \/ AtLeast(shown'[d], d, Goal(d))
  BY <1>5, NothingAssumption DEF Sound, CheckSound, Answers, AtLeast
<1>6. DocSound(d)'
  <2>1. Ordered(d)'
    BY DEF Sound, DocSound, Ordered, docs
  <2>2. CASE stale'[d] # {}
    BY <2>1, <2>2 DEF DocSound, ShownSound, Answered
  <2>3. CASE stale'[d] = {}
    <3>1. Floor(d) \in Int /\ Goal(d)' = Goal(d) /\ 0 <= Floor(d)
      BY EditorAssumption DEF Floor, Goal, docs, TypeOK, Texts, Torn, Sound, DocSound,
         ShownSound, AtLeast
    <3>2. AtLeast(shown[d], d, 0)'
      BY <1>5, <2>3, <3>1, EditorAssumption DEF AtLeast, docs, Texts, Torn, TypeOK
    <3>3. mode # "off" => d \in timer' \/ AtLeast(shown[d], d, Goal(d))'
      BY <1>5, <2>3, <3>1 DEF AtLeast, docs
    <3> QED
      BY <1>5, <2>1, <2>3, <3>2, <3>3 DEF DocSound, ShownSound, Answered, docs
  <2> QED
    BY <2>2, <2>3
<1>7. ASSUME NEW j \in Procs, Fine(j)'
      PROVE  CheckSound(j)'
  <2>1. j # i /\ Fine(j) /\ Active(j) /\ proc'[j] = proc[j]
    BY <1>1, <1>2, <1>7 DEF Fine
  <2>2. CheckSound(j) /\ proc[j].doc \in Docs \ {d} /\ proc[j].file \in Prefixes \cup {Nothing}
    BY <2>1, Actives DEF Sound, CheckSound, Alone
  <2>3. Alone(j)'
    BY <1>1, <1>2, <2>1, <2>2 DEF CheckSound, Alone, Active
  <2>4. Coming(j)' = Coming(j)
    BY <2>1, <2>2, ComingStays DEF docs
  <2> QED
    BY <1>3, <2>1, <2>2, <2>3, <2>4, CheckStays
<1>8. stale[d] = {} /\ stale'[d] = {} /\ shown[d] # Nothing =>
        shown'[d] # Nothing /\ shown'[d].rev >= shown[d].rev
  <2> SUFFICES ASSUME stale[d] = {}, stale'[d] = {}, shown[d] # Nothing
               PROVE  shown'[d] # Nothing /\ shown'[d].rev >= shown[d].rev
    OBVIOUS
  <2>1. Floor(d) = shown[d].rev /\ shown[d].rev \in Int
    BY EditorAssumption DEF Floor, TypeOK, Texts, Torn
  <2>2. shown'[d].rev \in Int
    BY <1>5, EditorAssumption DEF AtLeast, Texts, Torn
  <2> QED
    BY <1>5, <2>1, <2>2 DEF AtLeast
<1> QED
  BY <1>4, <1>6, <1>7, <1>8 DEF Sound

\* A process that reads its file, or removes it, changes no answer to come.
LEMMA FilesKeepSound ==
  ASSUME TypeOK, TypeOK', Sound, NEW i \in Procs, Read(i) \/ Unlink(i)
  PROVE  Sound'
<1>1. /\ proc[i] \in Processes /\ Doing(i) /\ proc[i].file \in Prefixes \cup {Nothing}
      /\ UNCHANGED <<mode, docs, timer, shown, spoilt, stale>>
      /\ \A j \in Procs : j # i => proc'[j] = proc[j]
  BY DEF Read, Unlink, At, TypeOK, Doing, Processes, history
<1>2. /\ Doing(i)' => proc'[i].doc = proc[i].doc /\ proc'[i].file = proc[i].file
      /\ Active(i)' <=> Active(i)
      /\ Active(i) => Coming(i)' = Coming(i) /\ proc'[i].doc = proc[i].doc
  <2>1. CASE Read(i)
    BY <2>1, ReadReads DEF Active, Doing, Coming
  <2>2. CASE Unlink(i)
    BY <1>1, <2>2 DEF Unlink, At, TypeOK, Active, Doing
  <2> QED
    BY <2>1, <2>2
<1>3. \A j \in Procs : /\ Active(j)' <=> Active(j)
                       /\ Fine(j)' <=> Fine(j)
                       /\ Doing(j)' => /\ Doing(j) /\ proc'[j].doc = proc[j].doc
                                       /\ proc'[j].file = proc[j].file
  BY <1>1, <1>2 DEF Active, Doing, Fine
<1>4. \A e \in Docs : Same(e) /\ stale'[e] = stale[e]
  BY <1>1 DEF Same, docs, TypeOK
<1>5. \A e \in Docs : Awaited(e) => Awaited(e)'
  BY <1>3 DEF Awaited, Active
<1>6. ASSUME NEW j \in Procs, Fine(j)
      PROVE  CheckSound(j)'
  <2>1. /\ Active(j) /\ CheckSound(j) /\ Doing(j)' /\ Doing(j)
        /\ proc[j].doc \in Docs /\ proc[j].file \in Prefixes \cup {Nothing}
    BY <1>3, <1>6, Actives DEF Sound, Fine, Active
  <2>2. Alone(j)'
    BY <1>3, <2>1 DEF CheckSound, Alone, Active
  <2>3. Coming(j)' = Coming(j)
    <3>1. CASE j = i
      BY <1>2, <2>1, <3>1
    <3>2. CASE j # i /\ Read(i)
      BY <1>1, <2>1, <3>2, ComingStays DEF Read, docs
    <3>3. CASE j # i /\ Unlink(i)
      <4>1. proc[j].file = Nothing \/ proc[j].file # proc[i].file
        BY <1>1, <2>1, <3>3 DEF CheckSound, Alone
      <4>2. proc[j].file # Nothing => temp'[proc[j].file] = temp[proc[j].file]
        BY <1>1, <2>1, <3>3, <4>1 DEF Unlink, TypeOK
      <4> QED
        BY <1>1, <2>1, <3>3, <4>2, ComingStays DEF docs
    <3> QED
      BY <3>1, <3>2, <3>3
  <2>4. proc'[j].doc = proc[j].doc
    BY <1>3, <2>1
  <2> QED
    BY <1>4, <2>1, <2>2, <2>3, <2>4, CheckStays
<1> QED
  BY <1>3, <1>4, <1>5, <1>6, DocStays DEF Sound

\* The step of NeverOlder.
NotOlder ==
  \A d \in Docs : stale[d] = {} /\ stale'[d] = {} /\ d \in open' /\ shown[d] # Nothing =>
    shown'[d] # Nothing /\ shown'[d].rev >= shown[d].rev

\* Every step keeps the invariant, and shows nothing older.
LEMMA NextSound ==
  ASSUME EditorInv, EditorInv', Sound, [Next]_vars
  PROVE  Sound' /\ NotOlder
<1>0. TypeOK /\ TypeOK' /\ TimersAreOfOpen
  BY DEF EditorInv
<1>1. shown' = shown => NotOlder
  BY <1>0, EditorAssumption DEF NotOlder, TypeOK, Texts, Torn
<1>2. \A d \in Docs : /\ disk[d] <= text[d] /\ text[d] <= edits
                      /\ disk[d] \in Nat /\ text[d] \in Nat /\ edits \in Nat
                      /\ Floor(d) \in Int /\ Floor(d) <= text[d]
                      /\ ShownSound(d)
                      /\ d \notin open => Floor(d) = 0
  <2> SUFFICES ASSUME NEW d \in Docs
               PROVE  /\ disk[d] <= text[d] /\ text[d] <= edits
                      /\ disk[d] \in Nat /\ text[d] \in Nat /\ edits \in Nat
                      /\ Floor(d) \in Int /\ Floor(d) <= text[d]
                      /\ ShownSound(d)
                      /\ d \notin open => Floor(d) = 0
    OBVIOUS
  <2>1. Ordered(d) /\ ShownSound(d)
    BY DEF Sound, DocSound
  <2>2. disk[d] \in Nat /\ text[d] \in Nat /\ edits \in Nat
    BY <1>0, EditorAssumption DEF TypeOK
  <2>3. Floor(d) \in Int /\ Floor(d) <= text[d] /\ (d \notin open => Floor(d) = 0)
    BY <1>0, <2>1, <2>2, EditorAssumption DEF Floor, ShownSound, AtLeast, Texts, Torn
  <2> QED
    BY <2>1, <2>2, <2>3 DEF Ordered
<1>3. ASSUME NEW d \in Docs, Open(d) PROVE Sound' /\ shown' = shown
  <2>1. /\ d \notin open /\ d \in open' /\ text'[d] = disk[d] /\ disk' = disk /\ edits' = edits
        /\ CheckNow(d) /\ UNCHANGED <<mode, shown>>
        /\ \A e \in Docs : e # d => text'[e] = text[e] /\ (e \in open' <=> e \in open)
    BY <1>0, <1>3 DEF Open, TypeOK
  <2>2. timer \subseteq timer'
    BY <1>0, <2>1 DEF CheckNow, TypeOK
  <2>3. \A e \in Docs : e # d => Same(e)
    BY <1>2, <2>1, <2>2 DEF Same
  <2>4. CASE mode = "onType"
    <3>1. Check(d)
      BY <2>1, <2>4 DEF CheckNow
    <3> QED
      BY <1>0, <1>2, <2>1, <2>3, <3>1, CheckKeepsSound
  <2>5. CASE mode # "onType"
    <3>1. UNCHANGED <<temp, proc, history>> /\ (d \in timer' \/ mode = "off")
      BY <1>0, <2>1, <2>5 DEF CheckNow, TypeOK
    <3> QED
      BY <1>0, <1>2, <2>1, <2>3, <3>1, TypingKeepsSound
  <2> QED
    BY <2>1, <2>4, <2>5
<1>4. ASSUME NEW d \in Docs, Edit(d) PROVE Sound' /\ shown' = shown
  <2>1. /\ d \in open /\ open' = open /\ text'[d] = edits + 1 /\ edits' = edits + 1
        /\ UNCHANGED <<disk, mode, shown, temp, proc, history>>
        /\ timer' = IF mode = "onType" THEN timer \cup {d} ELSE timer
        /\ \A e \in Docs : e # d => text'[e] = text[e]
    BY <1>0, <1>4 DEF Edit, CheckLater, TypeOK
  <2>2. \A e \in Docs : e # d => Same(e)
    BY <1>2, <2>1 DEF Same
  <2>3. d \in timer' \/ (timer' = timer /\ Goal(d)' = Goal(d))
    BY <2>1 DEF Goal
  <2> QED
    BY <1>0, <1>2, <2>1, <2>2, <2>3, TypingKeepsSound
<1>5. ASSUME NEW d \in Docs, Save(d) PROVE Sound' /\ shown' = shown
  <2>1. /\ d \in open /\ open' = open /\ text' = text /\ disk'[d] = text[d] /\ edits' = edits
        /\ CheckNow(d) /\ UNCHANGED <<mode, shown>>
        /\ \A e \in Docs : e # d => disk'[e] = disk[e]
    BY <1>0, <1>5 DEF Save, TypeOK
  <2>2. timer \subseteq timer'
    BY <1>0, <2>1 DEF CheckNow, TypeOK
  <2>3. \A e \in Docs : e # d => Same(e)
    BY <1>2, <2>1, <2>2 DEF Same
  <2>4. CASE mode = "onType"
    <3>1. Check(d)
      BY <2>1, <2>4 DEF CheckNow
    <3> QED
      BY <1>0, <1>2, <2>1, <2>3, <3>1, CheckKeepsSound
  <2>5. CASE mode # "onType"
    <3>1. UNCHANGED <<temp, proc, history>> /\ (d \in timer' \/ mode = "off")
      BY <1>0, <2>1, <2>5 DEF CheckNow, TypeOK
    <3> QED
      BY <1>0, <1>2, <2>1, <2>3, <3>1, TypingKeepsSound
  <2> QED
    BY <2>1, <2>4, <2>5
<1>6. ASSUME NEW d \in Docs, Close(d) PROVE Sound' /\ NotOlder
  <2>1. d \notin open' /\ \A e \in Docs : e # d => shown'[e] = shown[e]
    BY <1>0, <1>6 DEF Close, TypeOK
  <2>2. \A e \in Docs : shown[e] # Nothing => shown[e].rev >= shown[e].rev
    BY <1>0, EditorAssumption DEF TypeOK, Texts, Torn
  <2> QED
    BY <1>0, <1>6, <2>1, <2>2, CloseKeepsSound DEF NotOlder
<1>7. ASSUME NEW d \in Docs, Command(d) \/ TimerFires(d) PROVE Sound' /\ shown' = shown
  <2>1. /\ d \in open /\ Check(d) /\ UNCHANGED <<edits, text, disk, open, mode, shown>>
        /\ timer \ {d} \subseteq timer'
    BY <1>0, <1>7 DEF Command, TimerFires, TimersAreOfOpen, docs
  <2>2. \A e \in Docs : e # d => Same(e)
    BY <1>2, <2>1 DEF Same
  <2> QED
    BY <1>0, <1>2, <2>1, <2>2, CheckKeepsSound
<1>8. ASSUME NEW i \in Procs, Report(i) \/ Killed(i) \/ NotStarted(i) PROVE Sound' /\ NotOlder
  <2>1. PICK d \in Docs : proc[i].doc = d /\ Active(i) /\ spoilt[i] \in SUBSET Harms
    BY <1>0, <1>8 DEF Report, Killed, NotStarted, At, TypeOK, Processes, Active, Doing
  <2>2. AskUnlink(i) /\ UNCHANGED <<mode, docs, timer, temp, left>>
    BY <1>8 DEF Report, Killed, NotStarted
  <2>3. \A e \in Docs : e # d => shown'[e] = shown[e]
    BY <1>0, <1>8, <2>1 DEF Report, Killed, NotStarted, TypeOK
  <2>4. CASE Report(i)
    <3>1. Ended(d, spoilt[i]) /\ proc[i].step = "read"
      BY <2>1, <2>4 DEF Report, At
    <3>2. stale'[d] = {} => Fine(i)
      BY <1>0, <2>1, <3>1, EndedEnds DEF Fine
    <3>3. shown'[d] = Coming(i)
      BY <1>0, <2>1, <2>4, <3>1 DEF Report, TypeOK, Coming
    <3>4. \A e \in Docs : e # d => stale'[e] = stale[e]
      BY <1>0, <2>1, <3>1, EndedEnds
    <3>5. Sound' /\ (stale[d] = {} /\ stale'[d] = {} /\ shown[d] # Nothing =>
                       shown'[d] # Nothing /\ shown'[d].rev >= shown[d].rev)
      BY <1>0, <2>1, <2>2, <2>3, <3>2, <3>3, <3>4, CallbackKeepsSound
    <3>6. \A e \in Docs : shown[e] # Nothing => shown[e].rev >= shown[e].rev
      BY <1>0, EditorAssumption DEF TypeOK, Texts, Torn
    <3> QED
      BY <2>3, <3>5, <3>6 DEF NotOlder
  <2>5. CASE Killed(i) \/ NotStarted(i)
    <3>1. Ended(d, {"failure"}) /\ {"failure"} \in SUBSET Harms
      BY <2>1, <2>5 DEF Killed, NotStarted, Harms
    <3>2. stale'[d] # {} /\ \A e \in Docs : e # d => stale'[e] = stale[e]
      BY <1>0, <3>1, EndedEnds
    <3>3. Sound'
      BY <1>0, <2>1, <2>2, <2>3, <3>2, CallbackKeepsSound
    <3>4. \A e \in Docs : shown[e] # Nothing => shown[e].rev >= shown[e].rev
      BY <1>0, EditorAssumption DEF TypeOK, Texts, Torn
    <3> QED
      BY <2>3, <3>2, <3>3, <3>4 DEF NotOlder
  <2> QED
    BY <1>8, <2>4, <2>5
<1>9. ASSUME NEW i \in Procs, Read(i) \/ Unlink(i) PROVE Sound' /\ shown' = shown
  BY <1>0, <1>9, FilesKeepSound DEF Read, Unlink
<1>10. CASE UNCHANGED vars
  <2>1. UNCHANGED <<mode, edits, text, disk, open, timer, temp, proc, shown, spoilt, stale>>
    BY <1>10 DEF vars, docs, history
  <2>2. \A i \in Procs : (Active(i)' <=> Active(i)) /\ (Fine(i)' <=> Fine(i))
    BY <2>1 DEF Active, Doing, Fine
  <2>3. \A e \in Docs : Same(e) /\ stale'[e] = stale[e] /\ (Awaited(e) => Awaited(e)')
    BY <1>0, <2>1, <2>2, EditorAssumption DEF Same, Awaited, TypeOK
  <2>4. ASSUME NEW i \in Procs, Fine(i) PROVE CheckSound(i)'
    <3>1. CheckSound(i) /\ Active(i) /\ proc[i].doc \in Docs /\ Alone(i)'
      BY <1>0, <2>1, <2>4, Actives DEF Sound, Fine, CheckSound, Alone, Active, Doing
    <3> QED
      BY <1>0, <2>1, <2>3, <3>1, ComingStays, CheckStays
  <2> QED
    BY <1>0, <1>1, <2>1, <2>2, <2>3, <2>4, DocStays DEF Sound
<1> QED
  BY <1>1, <1>3, <1>4, <1>5, <1>6, <1>7, <1>8, <1>9, <1>10 DEF Next, User, Process

\* Both invariants hold for ever.
LEMMA AlwaysSound == Spec => [](EditorInv /\ Sound)
<1>1. Init => Sound
  BY EditorAssumption
  DEF Init, Sound, DocSound, Ordered, ShownSound, Answered, Fine, Active, Doing
<1>2. EditorInv /\ EditorInv' /\ Sound /\ [Next]_vars => Sound'
  BY NextSound
<1> QED
  BY <1>1, <1>2, AlwaysEditorInv, PTL DEF Spec

\* The editor and the command line never disagree (the file header's promise),
\* as far as that is true: when nothing is under way, an open document shows what
\* the checker says of its buffer (in mode onSave: of its file, or of a later
\* text), if nothing got in the way of the last check of it, whatever happened to
\* the other checks.
THEOREM ShowsTheText == Spec => []Agreement
<1>1. EditorInv /\ Sound => Agreement
  <2> SUFFICES ASSUME EditorInv, Sound, Quiet, mode # "off", NEW d \in open, stale[d] = {}
               PROVE  Agrees(d)
    BY DEF Agreement
  <2>1. d \in Docs /\ text[d] \in Nat /\ disk[d] \in Nat
    BY EditorAssumption DEF EditorInv, TypeOK
  <2>2. AtLeast(shown[d], d, Goal(d)) /\ Ordered(d)
    BY <2>1 DEF Sound, DocSound, Answered, Awaited, Quiet, Active, Doing
  <2>3. shown[d] \in Texts /\ shown[d] # Nothing /\ shown[d].rev \in Int
    BY <2>2, NothingAssumption, EditorAssumption DEF AtLeast, Texts, Torn
  <2>4. disk[d] <= Goal(d)
    BY <2>1, <2>2 DEF Goal, Ordered
  <2> QED
    BY <2>1, <2>2, <2>3, <2>4 DEF AtLeast, Goal, Agrees
<1> QED
  BY <1>1, AlwaysSound, PTL

\* As long as nothing gets in the way of its checks, the diagnostics of an open
\* document never go back to those of an older text (check's callback).
THEOREM NeverGoesBack == Spec => NeverOlder
<1>1. EditorInv /\ EditorInv' /\ Sound /\ [Next]_vars =>
        [\A d \in Docs : stale[d] = {} /\ stale'[d] = {} /\ d \in open' /\ shown[d] # Nothing =>
           shown'[d] # Nothing /\ shown'[d].rev >= shown[d].rev]_vars
  BY NextSound DEF NotOlder
<1> QED
  BY <1>1, AlwaysSound, PTL DEF Spec, NeverOlder
=============================================================================
