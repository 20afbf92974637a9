----------------------------- MODULE ChatMemoryProofs -----------------------------
(***************************************************************************)
(* Proofs about ChatMemory: an import happens once and "completed" is true,  *)
(* and a stored turn is neither lost nor doubled by those who regenerate it,  *)
(* for any number of requests, sessions, histories, faults and crashes.       *)
(***************************************************************************)
EXTENDS ChatMemory, FiniteSetTheorems, TLAPS

\* An import task stands inside its history, and there is none before its request has
\* registered it.
Position ==
    \A q \in Requests :
        /\ worker[q].pc \in {"lookup", "batch", "insert", "progress"} =>
             worker[q].at \in 1 .. Total(q)
        /\ chat[q].pc \in {"idle", "check", "register"} =>
             worker[q] = NoWorker /\ written[q] = <<>>

TypeInv == TypeOK /\ Position

LEMMA HistoryLength ==
    ASSUME TypeOK, NEW q \in Requests
    PROVE  /\ Total(q) \in Nat \ {0}
           /\ \A i \in 1 .. Total(q) : Messages(q)[i] \in Texts
           /\ UserText(q) \in Texts
<1>1. chat[q].messages \in Histories
  BY DEF TypeOK, Chat
<1>2. chat[q].messages \in Seq(Texts) /\ chat[q].messages # <<>>
  BY <1>1, HistoryAssumption
<1> QED BY <1>2 DEF Total, Messages, UserText

\* A batch ends at or after each of its messages, and within the history.
LEMMA BatchEndBounds ==
    ASSUME TypeOK, NEW q \in Requests, NEW i \in 1 .. Total(q)
    PROVE  BatchEnd(q, i) \in i .. Total(q)
<1>1. Total(q) \in Nat
  BY HistoryLength
<1> DEFINE d == (i - 1) \div BatchSize
<1>2. d \in Nat /\ i - 1 = BatchSize * d + ((i - 1) % BatchSize)
      /\ (i - 1) % BatchSize \in 0 .. BatchSize - 1
  BY <1>1, BatchAssumption
<1>3. (d + 1) * BatchSize = BatchSize * d + BatchSize
  BY <1>2, BatchAssumption
<1>4. (d + 1) * BatchSize \in Nat /\ (d + 1) * BatchSize >= i
  <2> HIDE DEF d
  <2> QED BY <1>2, <1>3, BatchAssumption
<1> QED BY <1>1, <1>4 DEF BatchEnd

\* A batch that is given up leaves the task at the next one, or at the end.
LEMMA SkipBounds ==
    ASSUME TypeInv, NEW q \in Requests, worker[q].at \in 1 .. Total(q)
    PROVE  /\ SkipBatch(q) \in Worker
           /\ SkipBatch(q).pc \in {"batch", "finalize"}
           /\ SkipBatch(q).pc = "batch" => SkipBatch(q).at \in 1 .. Total(q)
           /\ SkipBatch(q).errors
           /\ SkipBatch(q).id = worker[q].id
<1> DEFINE next == BatchEnd(q, worker[q].at) + 1
           to == BatchFrom(q, next)
<1>1. worker[q] \in Worker
  BY DEF TypeInv, TypeOK
<1>2. next \in Nat /\ next > 0 /\ Total(q) \in Nat
  <2>1. BatchEnd(q, worker[q].at) \in worker[q].at .. Total(q)
    BY BatchEndBounds DEF TypeInv
  <2>2. Total(q) \in Nat
    BY HistoryLength DEF TypeInv
  <2> QED BY <2>1, <2>2
<1>3. to \in {"batch", "finalize"} /\ (to = "batch" => next \in 1 .. Total(q))
  <2> HIDE DEF next
  <2> QED BY <1>2 DEF BatchFrom
<1> HIDE DEF next, to
<1>4. SkipBatch(q) = [worker[q] EXCEPT !.pc = to, !.at = next, !.errors = TRUE]
  BY DEF SkipBatch, next, to
<1> QED BY <1>1, <1>2, <1>3, <1>4 DEF Worker

LEMMA TypeInitially == Init => TypeInv
<1> SUFFICES ASSUME Init PROVE TypeInv
  OBVIOUS
<1>1. NoRequest \in Chat /\ NoRequest.pc = "idle"
  BY SomeAssumption DEF NoRequest, Chat
<1>2. NoWorker \in Worker /\ NoWorker.pc = "none"
  BY DEF NoWorker, Worker
<1>3. <<>> \in Seq(Nat)
  OBVIOUS
<1> QED BY <1>1, <1>2, <1>3 DEF Init, TypeInv, TypeOK, Position

LEMMA RequestTypes ==
    ASSUME TypeInv, NEW q \in Requests,
           \/ \E s \in Sessions, h \in Histories : Arrive(q, s, h)
           \/ CheckImport(q) \/ RegisterImport(q) \/ Generate(q)
           \/ DeleteOldTurn(q) \/ InsertTurn(q)
    PROVE  TypeInv'
<1> USE DEF TypeInv
<1>1. chat[q] \in Chat /\ TurnOf(q) \in Turn
  BY HistoryLength DEF TypeOK, Chat, TurnOf, Turn
<1>2. ASSUME NEW s \in Sessions, NEW h \in Histories, Arrive(q, s, h)
      PROVE  TypeInv'
  <2>1. TypeOK'
    BY <1>2, <1>1 DEF TypeOK, Arrive, Chat, tables, history
  <2>2. Position'
    BY <1>2, <1>1, NoneAssumption
       DEF TypeOK, Position, Arrive, Chat, tables, history, Total, Messages, NoWorker
  <2> QED BY <2>1, <2>2
<1>3. ASSUME NEW pc \in {"idle", "check", "register", "generate", "delete", "insert", "done"},
             Goto(q, pc)
      PROVE  /\ chat' \in [Requests -> Chat]
             /\ chat'[q].pc = pc
             /\ \A p \in Requests : Total(p)' = Total(p) /\ (p # q => chat'[p] = chat[p])
  BY <1>3, <1>1 DEF TypeOK, Goto, Chat, Total, Messages
<1>4. CASE CheckImport(q)
  <2>1. \/ Goto(q, "register")
        \/ Goto(q, "generate")
    BY <1>4 DEF CheckImport
  <2>2. chat[q].pc = "check" /\ faults' \in Nat
    BY <1>4 DEF CheckImport, NoFault, Fault, TypeOK
  <2>3. UNCHANGED <<imports, rows, worker, deleting, deletes, crashes, history>>
    BY <1>4 DEF CheckImport, tables
  <2>4. TypeOK'
    BY <1>3, <2>1, <2>2, <2>3 DEF TypeOK, history
  <2>5. Position'
    BY <1>3, <2>1, <2>2, <2>3 DEF Position, history
  <2> QED BY <2>4, <2>5
<1>5. CASE RegisterImport(q)
  <2>1. chat[q].pc = "register" /\ worker[q] = NoWorker
    BY <1>5 DEF RegisterImport, Position
  <2>2. [id |-> q, status |-> "pending", processed |-> 0] \in Import
    BY DEF Import
  <2>3. [worker[q] EXCEPT !.pc = "lookup"] \in Worker
    <3>1. worker[q] \in Worker
      BY DEF TypeOK
    <3> QED BY <3>1 DEF Worker
  <2>4. Goto(q, "generate") \/ Goto(q, "done")
    BY <1>5 DEF RegisterImport
  <2>5. faults' \in Nat /\ UNCHANGED <<rows, deleting, deletes, crashes, history>>
    BY <1>5 DEF RegisterImport, NoFault, Fault, TypeOK
  <2>6. \/ UNCHANGED <<imports, worker>>
        \/ /\ imports' = [imports EXCEPT ![chat[q].session] =
                 [id |-> q, status |-> "pending", processed |-> 0]]
           /\ worker' = [worker EXCEPT ![q] = [worker[q] EXCEPT !.pc = "lookup"]]
    BY <1>5 DEF RegisterImport, TypeOK
  <2>7. imports' \in [Sessions -> Import \cup {None}] /\ worker' \in [Requests -> Worker]
    BY <1>1, <2>2, <2>3, <2>6 DEF TypeOK
  <2>8. TypeOK'
    BY <1>3, <2>4, <2>5, <2>7 DEF TypeOK, history
  <2>9. /\ worker'[q].pc \in {"none", "lookup"} /\ worker'[q].at = 1
        /\ \A r \in Requests : r # q => worker'[r] = worker[r]
    BY <2>1, <2>6 DEF TypeOK, NoWorker
  <2>10. Position'
    <3> SUFFICES ASSUME NEW r \in Requests
                 PROVE  /\ worker'[r].pc \in {"lookup", "batch", "insert", "progress"} =>
                             worker'[r].at \in 1 .. Total(r)'
                        /\ chat'[r].pc \in {"idle", "check", "register"} =>
                             worker'[r] = NoWorker /\ written'[r] = <<>>
      BY DEF Position
    <3>1. CASE r = q
      <4>1. Total(q)' \in Nat \ {0}
        BY <1>3, <2>4, HistoryLength
      <4> QED BY <1>3, <2>4, <2>9, <3>1, <4>1
    <3>2. CASE r # q
      BY <1>3, <2>4, <2>5, <2>9, <3>2 DEF Position, history
    <3> QED BY <3>1, <3>2
  <2> QED BY <2>8, <2>10
<1>6. CASE Generate(q)
  BY <1>3, <1>6 DEF TypeOK, Position, Generate, tables, history
<1>7. CASE DeleteOldTurn(q)
  <2>1. Goto(q, "insert") \/ Goto(q, "done")
    BY <1>7 DEF DeleteOldTurn
  <2>2. /\ rows' \subseteq rows /\ overlaps' \subseteq overlaps \cup {TurnOf(q)}
        /\ faults' \in Nat
        /\ UNCHANGED <<imports, worker, deleting, deletes, crashes, wiped, written, persisted>>
    BY <1>7 DEF DeleteOldTurn, NoFault, Fault, TypeOK
  <2>3. TypeOK'
    BY <1>1, <1>3, <2>1, <2>2 DEF TypeOK
  <2>4. Position'
    BY <1>3, <2>1, <2>2 DEF Position
  <2> QED BY <2>3, <2>4
<1>8. CASE InsertTurn(q)
  <2>1. NewRows(q) \subseteq Row
    BY <1>1 DEF NewRows, Row, TurnOf, Turn
  <2>2. /\ rows' \subseteq rows \cup NewRows(q)
        /\ persisted' \subseteq persisted \cup {TurnOf(q)}
        /\ faults' \in Nat
        /\ Goto(q, "done")
        /\ UNCHANGED <<imports, worker, deleting, deletes, crashes, wiped, written, overlaps>>
    BY <1>8 DEF InsertTurn, NoFault, Fault, TypeOK
  <2>3. TypeOK'
    BY <1>1, <1>3, <2>1, <2>2 DEF TypeOK
  <2>4. Position'
    BY <1>3, <2>2 DEF Position
  <2> QED BY <2>3, <2>4
<1> QED BY <1>2, <1>4, <1>5, <1>6, <1>7, <1>8

\* A step of an import task that is under way, to a place inside its history.
LEMMA WorkTypes ==
    ASSUME TypeInv, NEW q \in Requests, NEW w \in Worker, Work(q, w),
           worker[q].pc # "none",
           w.pc \in {"lookup", "batch", "insert", "progress"} => w.at \in 1 .. Total(q),
           UNCHANGED chat, \A r \in Requests : r # q => written'[r] = written[r]
    PROVE  worker' \in [Requests -> Worker] /\ Position'
<1>1. worker' \in [Requests -> Worker] /\ worker'[q] = w
      /\ \A r \in Requests : r # q => worker'[r] = worker[r]
  BY DEF TypeInv, TypeOK, Work
<1>2. \A r \in Requests : Total(r)' = Total(r)
  BY DEF Total, Messages
<1>3. chat[q].pc \notin {"idle", "check", "register"}
  BY DEF TypeInv, Position, NoWorker
<1> QED BY <1>1, <1>2, <1>3 DEF TypeInv, Position

LEMMA StatusTypes ==
    ASSUME TypeInv, NEW q \in Requests, NEW n \in Nat,
           NEW status \in {"pending", "processing", "completed", "completed_with_errors",
                           "failed"},
           SetStatus(q, status, n)
    PROVE  imports' \in [Sessions -> Import \cup {None}]
BY DEF TypeInv, TypeOK, Import, SetStatus

LEMMA WorkerTypes ==
    ASSUME TypeInv, NEW q \in Requests, WorkerStep(q)
    PROVE  TypeInv'
<1> DEFINE i == worker[q].at
<1>1. worker[q] \in Worker /\ chat[q].session \in Sessions
  BY DEF TypeInv, TypeOK, Chat
<1>2. Total(q) \in Nat \ {0}
  BY HistoryLength DEF TypeInv
<1>3. ASSUME NEW w \in Worker, Work(q, w), worker[q].pc # "none",
             w.pc \in {"lookup", "batch", "insert", "progress"} => w.at \in 1 .. Total(q),
             imports' \in [Sessions -> Import \cup {None}], rows' \subseteq Row,
             faults' \in Nat, written' \in [Requests -> Seq(Nat)],
             \A r \in Requests : r # q => written'[r] = written[r],
             UNCHANGED <<chat, deleting, deletes, crashes, wiped, persisted, overlaps>>
      PROVE  TypeInv'
  <2>1. worker' \in [Requests -> Worker] /\ Position'
    BY <1>3, WorkTypes
  <2>2. TypeOK'
    BY <1>3, <2>1 DEF TypeInv, TypeOK
  <2> QED BY <2>1, <2>2 DEF TypeInv
<1>4. NoFault \/ Fault => faults' \in Nat
  BY DEF NoFault, Fault, TypeInv, TypeOK
<1>5. ASSUME NEW j \in Nat \ {0}
      PROVE  BatchFrom(q, j) \in {"batch", "finalize"}
             /\ (BatchFrom(q, j) = "batch" => j \in 1 .. Total(q))
  BY <1>2 DEF BatchFrom
<1>6. i \in Nat /\ (worker[q].pc \in {"lookup", "batch", "insert", "progress"} =>
         i \in 1 .. Total(q))
  BY <1>1 DEF Worker, TypeInv, Position
<1> HIDE DEF i
<1>7. CASE LookupImport(q)
  <2> DEFINE found == imports[chat[q].session]
             id == IF found = None THEN None ELSE found.id
  <2>1. id \in Requests \cup {None}
    <3>1. found \in Import \cup {None}
      BY <1>1 DEF TypeInv, TypeOK
    <3> QED BY <3>1 DEF Import
  <2>2. /\ worker[q].pc = "lookup" /\ faults' \in Nat
        /\ UNCHANGED <<tables, chat, deleting, deletes, crashes, history>>
        /\ \/ Work(q, [worker[q] EXCEPT !.pc = BatchFrom(q, 1), !.id = id])
           \/ Work(q, [worker[q] EXCEPT !.pc = "done"])
           \/ Work(q, [worker[q] EXCEPT !.pc = "fatal", !.id = id])
    BY <1>4, <1>7 DEF LookupImport
  <2>3. BatchFrom(q, 1) \in {"batch", "finalize"}
    BY <1>5
  <2> HIDE DEF id
  <2>4. /\ imports' \in [Sessions -> Import \cup {None}] /\ rows' \subseteq Row
        /\ written' = written /\ written' \in [Requests -> Seq(Nat)]
        /\ UNCHANGED <<chat, deleting, deletes, crashes, wiped, persisted, overlaps>>
    BY <2>2 DEF TypeInv, TypeOK, tables, history
  <2>5. PICK w \in {[worker[q] EXCEPT !.pc = BatchFrom(q, 1), !.id = id],
                    [worker[q] EXCEPT !.pc = "done"],
                    [worker[q] EXCEPT !.pc = "fatal", !.id = id]} : Work(q, w)
    BY <2>2
  <2>6. w \in Worker /\ w.at = i
    BY <1>1, <2>1, <2>3, <2>5 DEF Worker, i
  <2> QED BY <1>3, <1>6, <2>2, <2>4, <2>5, <2>6
<1>8. CASE StartBatch(q)
  <2>1. /\ worker[q].pc = "batch" /\ faults' \in Nat
        /\ UNCHANGED <<tables, chat, deleting, deletes, crashes, history>>
    BY <1>4, <1>8 DEF StartBatch
  <2>2. PICK w \in {[worker[q] EXCEPT !.pc = "insert"], SkipBatch(q)} : Work(q, w)
    BY <1>8 DEF StartBatch
  <2>3. w \in Worker /\ (w.pc \in {"lookup", "batch", "insert", "progress"} =>
                          w.at \in 1 .. Total(q))
    BY <1>1, <1>6, <2>1, <2>2, SkipBounds DEF Worker, i
  <2>4. /\ imports' \in [Sessions -> Import \cup {None}] /\ rows' \subseteq Row
        /\ written' = written /\ written' \in [Requests -> Seq(Nat)]
        /\ UNCHANGED <<chat, deleting, deletes, crashes, wiped, persisted, overlaps>>
    BY <2>1 DEF TypeInv, TypeOK, tables, history
  <2> QED BY <1>3, <2>1, <2>2, <2>3, <2>4
<1>9. CASE InsertMessage(q)
  <2>1. /\ worker[q].pc = "insert" /\ faults' \in Nat
        /\ UNCHANGED <<imports, chat, deleting, deletes, crashes, wiped, persisted, overlaps>>
    BY <1>4, <1>9 DEF InsertMessage
  <2>2. i \in 1 .. Total(q) /\ (i # BatchEnd(q, i) => i + 1 \in 1 .. Total(q))
    BY <1>2, <1>6, <2>1, BatchEndBounds DEF TypeInv
  <2>3. CASE /\ rows' = rows \cup {[session |-> chat[q].session, input |-> Messages(q)[i],
                                    by |-> q, place |-> i]}
             /\ written' = [written EXCEPT ![q] = Append(@, i)]
             /\ IF i = BatchEnd(q, i) THEN Work(q, [worker[q] EXCEPT !.pc = "progress"])
                ELSE Work(q, [worker[q] EXCEPT !.at = i + 1])
    <3>1. rows' \subseteq Row
      <4>1. Messages(q)[i] \in Texts
        BY <2>2, HistoryLength DEF TypeInv
      <4> QED BY <1>1, <1>6, <2>3, <4>1 DEF Row, TypeInv, TypeOK
    <3>2. /\ written' \in [Requests -> Seq(Nat)]
          /\ \A r \in Requests : r # q => written'[r] = written[r]
      <4>1. Append(written[q], i) \in Seq(Nat)
        BY <1>6 DEF TypeInv, TypeOK
      <4> QED BY <2>3, <4>1 DEF TypeInv, TypeOK
    <3>3. imports' \in [Sessions -> Import \cup {None}]
      BY <2>1 DEF TypeInv, TypeOK
    <3>4. CASE i = BatchEnd(q, i)
      <4> DEFINE w == [worker[q] EXCEPT !.pc = "progress"]
      <4>1. w \in Worker /\ w.at \in 1 .. Total(q)
        BY <1>1, <2>2 DEF Worker, i
      <4>2. Work(q, w)
        BY <2>3, <3>4
      <4> HIDE DEF w
      <4> QED BY <1>3, <2>1, <3>1, <3>2, <3>3, <4>1, <4>2
    <3>5. CASE i # BatchEnd(q, i)
      <4> DEFINE w == [worker[q] EXCEPT !.at = i + 1]
      <4>1. w \in Worker /\ w.at \in 1 .. Total(q)
        BY <1>1, <1>6, <2>2, <3>5 DEF Worker
      <4>2. Work(q, w)
        BY <2>3, <3>5
      <4> HIDE DEF w
      <4> QED BY <1>3, <2>1, <3>1, <3>2, <3>3, <4>1, <4>2
    <3> QED BY <3>4, <3>5
  <2>4. CASE Work(q, SkipBatch(q)) /\ UNCHANGED <<rows, written>>
    BY <1>3, <1>6, <2>1, <2>2, <2>4, SkipBounds DEF TypeInv, TypeOK, i
  <2> QED BY <1>9, <2>3, <2>4 DEF InsertMessage, i
<1>10. CASE UpdateProgress(q)
  <2>1. /\ worker[q].pc = "progress" /\ faults' \in Nat
        /\ UNCHANGED <<rows, chat, deleting, deletes, crashes, history>>
    BY <1>4, <1>10 DEF UpdateProgress
  <2>2. i \in 1 .. Total(q)
    BY <1>6, <2>1
  <2>3. /\ rows' \subseteq Row
        /\ written' = written /\ written' \in [Requests -> Seq(Nat)]
        /\ UNCHANGED <<chat, deleting, deletes, crashes, wiped, persisted, overlaps>>
    BY <2>1 DEF TypeInv, TypeOK, history
  <2>4. CASE /\ SetStatus(q, "processing", i)
             /\ Work(q, [worker[q] EXCEPT !.pc = BatchFrom(q, i + 1), !.at = i + 1])
    <3> DEFINE next == i + 1
               to == BatchFrom(q, next)
               w == [worker[q] EXCEPT !.pc = to, !.at = next]
    <3>1. /\ next \in Nat \ {0} /\ to \in {"batch", "finalize"}
          /\ to = "batch" => next \in 1 .. Total(q)
      <4>1. next \in Nat \ {0}
        BY <1>6
      <4> HIDE DEF next
      <4> QED BY <1>5, <4>1
    <3>2. w \in Worker /\ w.pc = to /\ w.at = next
      <4> HIDE DEF next, to
      <4> QED BY <1>1, <3>1 DEF Worker
    <3>3. imports' \in [Sessions -> Import \cup {None}]
      BY <1>6, <2>4, StatusTypes
    <3>4. Work(q, w)
      BY <2>4
    <3> HIDE DEF w, to, next
    <3> QED BY <1>3, <2>1, <2>3, <3>1, <3>2, <3>3, <3>4
  <2>5. CASE Work(q, SkipBatch(q)) /\ UNCHANGED imports
    BY <1>3, <2>1, <2>2, <2>3, <2>5, SkipBounds DEF TypeInv, TypeOK, i
  <2> QED BY <1>10, <2>4, <2>5 DEF UpdateProgress, i
<1>11. CASE FinalizeImport(q) \/ FailImport(q)
  <2>1. /\ worker[q].pc \in {"finalize", "fatal"} /\ faults' \in Nat
        /\ UNCHANGED <<rows, chat, deleting, deletes, crashes, history>>
    BY <1>4, <1>11 DEF FinalizeImport, FailImport
  <2>2. /\ rows' \subseteq Row
        /\ written' = written /\ written' \in [Requests -> Seq(Nat)]
        /\ UNCHANGED <<chat, deleting, deletes, crashes, wiped, persisted, overlaps>>
    BY <2>1 DEF TypeInv, TypeOK, history
  <2>3. imports' \in [Sessions -> Import \cup {None}]
    <3>1. FinalStatus(q) \in {"completed_with_errors", "completed"}
      BY DEF FinalStatus
    <3>2. CASE FinalizeImport(q)
      BY <1>2, <3>1, <3>2, StatusTypes DEF FinalizeImport, TypeInv, TypeOK
    <3>3. CASE FailImport(q)
      BY <3>3, ZenonT(40) DEF FailImport, TypeInv, TypeOK, Import
    <3> QED BY <1>11, <3>2, <3>3
  <2>4. ASSUME NEW pc \in {"done", "fatal"}, Work(q, [worker[q] EXCEPT !.pc = pc])
        PROVE  TypeInv'
    <3> DEFINE w == [worker[q] EXCEPT !.pc = pc]
    <3>1. w \in Worker /\ w.pc = pc
      BY <1>1 DEF Worker
    <3>2. Work(q, w)
      BY <2>4
    <3> HIDE DEF w
    <3> QED BY <1>3, <2>1, <2>2, <2>3, <3>1, <3>2
  <2> QED BY <1>11, <2>4 DEF FinalizeImport, FailImport
<1> QED BY <1>7, <1>8, <1>9, <1>10, <1>11 DEF WorkerStep

LEMMA TypeStep == TypeInv /\ [Next]_vars => TypeInv'
<1> SUFFICES ASSUME TypeInv, [Next]_vars PROVE TypeInv'
  OBVIOUS
<1> USE DEF TypeInv
<1>1. ASSUME NEW s \in Sessions, DeleteImportRecord(s) PROVE TypeInv'
  <2>1. \A r \in Requests : Total(r)' = Total(r)
    BY <1>1 DEF DeleteImportRecord, Total, Messages
  <2> QED BY <1>1, <2>1 DEF DeleteImportRecord, TypeOK, Position
<1>2. CASE DeleteMemories
  <2>1. \A r \in Requests : Total(r)' = Total(r)
    BY <1>2 DEF DeleteMemories, Total, Messages
  <2> QED BY <1>2, <2>1 DEF DeleteMemories, TypeOK, Position, NoFault, Fault, history
<1>3. CASE Crash
  <2>1. chat' \in [Requests -> Chat]
    BY <1>3 DEF Crash, TypeOK, Chat
  <2>2. NoWorker \in Worker
    BY DEF NoWorker, Worker
  <2>3. worker' \in [Requests -> Worker]
    BY <1>3, <2>2 DEF Crash, TypeOK, Worker
  <2>4. TypeOK'
    BY <1>3, <2>1, <2>3 DEF Crash, TypeOK, tables, history
  <2>5. \A q \in Requests : /\ worker'[q].pc \in {"none", "done"}
                            /\ worker[q].pc = "none" => worker'[q] = NoWorker
                            /\ chat'[q].pc \in {"idle", "done"}
                            /\ chat'[q].pc = "idle" => chat[q].pc = "idle"
    BY <1>3 DEF Crash, TypeOK, NoWorker, Worker, Chat
  <2>6. UNCHANGED written
    BY <1>3 DEF Crash, history
  <2>7. \A q \in Requests : chat'[q].pc \in {"idle", "check", "register"} =>
                             worker'[q] = NoWorker /\ written'[q] = <<>>
    <3> SUFFICES ASSUME NEW q \in Requests, chat'[q].pc \in {"idle", "check", "register"}
                 PROVE  worker'[q] = NoWorker /\ written'[q] = <<>>
      OBVIOUS
    <3>1. chat[q].pc = "idle"
      BY <2>5
    <3>2. worker[q] = NoWorker /\ written[q] = <<>>
      BY <3>1 DEF Position
    <3>3. worker[q].pc = "none"
      BY <3>2 DEF NoWorker
    <3> QED BY <2>5, <2>6, <3>2, <3>3
  <2>8. Position'
    BY <2>5, <2>7 DEF Position
  <2> QED BY <2>4, <2>8
<1>4. CASE UNCHANGED vars
  <2>1. \A r \in Requests : Total(r)' = Total(r)
    BY <1>4 DEF vars, Total, Messages
  <2> QED BY <1>4, <2>1 DEF vars, tables, history, TypeOK, Position
<1> QED BY <1>1, <1>2, <1>3, <1>4, RequestTypes, WorkerTypes DEF Next

\* Every state of the module is of its type.
THEOREM TypeCorrect == Spec => []TypeOK
<1>1. TypeInv => TypeOK
  BY DEF TypeInv
<1> QED BY <1>1, TypeInitially, TypeStep, PTL DEF Spec

------------------------------------------------------------------------------------
\* Imports

Started(q) == worker[q].pc # "none"

\* The record of a session that was never deleted is that of its one import task; and
\* whatever record a task writes to belongs to its own session.
OwnerInv ==
    /\ \A q \in Requests : Started(q) /\ chat[q].session \notin wiped =>
         imports[chat[q].session] # None /\ imports[chat[q].session].id = q
    /\ \A s \in Sessions : imports[s] # None =>
         chat[imports[s].id].session = s /\ Started(imports[s].id)
    /\ \A q \in Requests : worker[q].id # None =>
         /\ Started(q) /\ Started(worker[q].id)
         /\ chat[worker[q].id].session = chat[q].session

UpTo(n) == [i \in 1 .. n |-> i]

\* A task that noted no error has inserted all it has passed.
ProgressInv ==
    \A q \in Requests : ~worker[q].errors =>
        /\ worker[q].pc = "lookup" => worker[q].at = 1 /\ written[q] = <<>>
        /\ worker[q].pc \in {"batch", "insert"} => written[q] = UpTo(worker[q].at - 1)
        /\ worker[q].pc = "progress" => written[q] = UpTo(worker[q].at)
        /\ worker[q].pc = "finalize" => written[q] = UpTo(Total(q))

\* Only a task that is over leaves "completed" behind.
TruthInv ==
    \A s \in Sessions \ wiped :
        imports[s] # None /\ imports[s].status = "completed" =>
            /\ worker[imports[s].id].pc = "done"
            /\ written[imports[s].id] = UpTo(Total(imports[s].id))

ImportInv == TypeInv /\ OwnerInv /\ ProgressInv /\ TruthInv

LEMMA ImportInitially == Init => OwnerInv /\ ProgressInv /\ TruthInv
BY DEF Init, OwnerInv, ProgressInv, TruthInv, Started, NoWorker

\* Steps that have nothing to do with imports.
LEMMA QuietKeeps ==
    ASSUME ImportInv, UNCHANGED <<imports, worker, wiped, written>>,
           \A q \in Requests : Started(q) => chat'[q].session = chat[q].session
                                             /\ chat'[q].messages = chat[q].messages
    PROVE  (OwnerInv /\ ProgressInv /\ TruthInv)'
<1>1. \A q \in Requests : Started(q) => Total(q)' = Total(q)
  BY DEF Total, Messages
<1>2. \A s \in Sessions : imports[s] # None => imports[s].id \in Requests
  BY DEF ImportInv, TypeInv, TypeOK, Import
<1>3. \A q \in Requests : worker[q].id # None => worker[q].id \in Requests
  BY DEF ImportInv, TypeInv, TypeOK, Worker
<1>4. OwnerInv'
  BY <1>2, <1>3 DEF ImportInv, OwnerInv, Started
<1>5. ProgressInv'
  BY <1>1 DEF ImportInv, ProgressInv, Started
<1>6. TruthInv'
  BY <1>1, <1>2 DEF ImportInv, OwnerInv, TruthInv, Started
<1> QED BY <1>4, <1>5, <1>6

\* A chat request leaves its own import and those of others alone, but for registering.
LEMMA RequestQuiet ==
    ASSUME ImportInv, NEW q \in Requests,
           \/ \E s \in Sessions, h \in Histories : Arrive(q, s, h)
           \/ CheckImport(q) \/ Generate(q)
           \/ DeleteOldTurn(q) \/ InsertTurn(q)
    PROVE  (OwnerInv /\ ProgressInv /\ TruthInv)'
<1>1. UNCHANGED <<imports, worker, wiped, written>>
  BY DEF Arrive, CheckImport, Generate, DeleteOldTurn, InsertTurn, tables, history
<1>2. \A r \in Requests : Started(r) => chat'[r].session = chat[r].session
                                        /\ chat'[r].messages = chat[r].messages
  <2>1. ASSUME NEW s \in Sessions, NEW h \in Histories, Arrive(q, s, h)
        PROVE  <1>2!:
    BY <2>1 DEF Arrive, ImportInv, TypeInv, TypeOK, Position, Started, NoWorker
  <2>2. ASSUME NEW pc, Goto(q, pc) PROVE <1>2!:
    BY <2>2 DEF Goto, ImportInv, TypeInv, TypeOK, Chat
  <2> QED BY <2>1, <2>2 DEF CheckImport, Generate, DeleteOldTurn, InsertTurn
<1> QED BY <1>1, <1>2, QuietKeeps

LEMMA RegisterKeeps ==
    ASSUME ImportInv, NEW q \in Requests, RegisterImport(q)
    PROVE  (OwnerInv /\ ProgressInv /\ TruthInv)'
<1> DEFINE mine == chat[q].session
<1>0. TypeOK
  BY DEF ImportInv, TypeInv
<1>1. /\ UNCHANGED <<wiped, written>>
      /\ \A r \in Requests : chat'[r].session = chat[r].session
                             /\ chat'[r].messages = chat[r].messages
  <2>1. Goto(q, "generate") \/ Goto(q, "done")
    BY DEF RegisterImport
  <2>2. ASSUME NEW pc, Goto(q, pc)
        PROVE  \A r \in Requests : chat'[r].session = chat[r].session
                                   /\ chat'[r].messages = chat[r].messages
    BY <1>0, <2>2 DEF Goto, TypeOK, Chat
  <2> QED BY <2>1, <2>2 DEF RegisterImport, history
<1>2. CASE UNCHANGED <<imports, worker>>
  BY <1>1, <1>2, QuietKeeps
<1>3. CASE /\ Unregistered(q)
           /\ imports' = [imports EXCEPT ![mine] =
                [id |-> q, status |-> "pending", processed |-> 0]]
           /\ worker' = [worker EXCEPT ![q].pc = "lookup"]
  <2>1. mine \in Sessions /\ imports[mine] = None
    BY <1>0, <1>3 DEF TypeOK, Chat, Unregistered
  <2>2. worker[q] = NoWorker /\ written[q] = <<>>
    BY DEF RegisterImport, ImportInv, TypeInv, Position
  <2>3. /\ worker'[q].pc = "lookup" /\ worker'[q].id = None /\ worker'[q].at = 1
        /\ \A r \in Requests : r # q => worker'[r] = worker[r]
    BY <1>0, <1>3, <2>2 DEF TypeOK, NoWorker
  <2>4. /\ imports'[mine].id = q /\ imports'[mine].status = "pending"
        /\ imports'[mine] # None
        /\ \A s \in Sessions : s # mine => imports'[s] = imports[s]
    <3>1. [id |-> q, status |-> "pending", processed |-> 0] # None
      BY NoneAssumption DEF Import
    <3> QED BY <1>0, <1>3, <2>1, <3>1 DEF TypeOK
  <2>5. \A s \in Sessions : imports[s] # None => imports[s].id \in Requests \ {q}
    BY <1>0, <2>2 DEF ImportInv, OwnerInv, Started, NoWorker, TypeOK, Import
  <2>6. \A r \in Requests : worker[r].id # None => worker[r].id \in Requests \ {q}
    BY <1>0, <2>2 DEF ImportInv, OwnerInv, Started, NoWorker, TypeOK, Worker
  <2>7. OwnerInv'
    <3>1. \A r \in Requests : Started(r)' /\ chat'[r].session \notin wiped' =>
             imports'[chat'[r].session] # None /\ imports'[chat'[r].session].id = r
      <4> SUFFICES ASSUME NEW r \in Requests, Started(r)', chat[r].session \notin wiped
                   PROVE  imports'[chat[r].session] # None /\ imports'[chat[r].session].id = r
        BY <1>1
      <4>1. CASE r = q
        BY <2>4, <4>1
      <4>2. CASE r # q
        <5>1. imports[chat[r].session] # None /\ imports[chat[r].session].id = r
          BY <2>3, <4>2 DEF ImportInv, OwnerInv, Started
        <5>2. chat[r].session \in Sessions
          BY <1>0 DEF TypeOK, Chat
        <5> QED BY <2>1, <2>4, <5>1, <5>2
      <4> QED BY <4>1, <4>2
    <3>2. \A s \in Sessions : imports'[s] # None =>
             chat'[imports'[s].id].session = s /\ worker'[imports'[s].id].pc # "none"
      BY <1>1, <2>1, <2>3, <2>4, <2>5 DEF ImportInv, OwnerInv, Started
    <3>3. \A r \in Requests : worker'[r].id # None =>
             /\ Started(r)' /\ worker'[worker'[r].id].pc # "none"
             /\ chat'[worker'[r].id].session = chat'[r].session
      BY <1>1, <2>3, <2>6 DEF ImportInv, OwnerInv, Started
    <3> QED BY <3>1, <3>2, <3>3 DEF OwnerInv, Started
  <2>8. \A r \in Requests : Total(r)' = Total(r)
    BY <1>1 DEF Total, Messages
  <2>9. ProgressInv'
    BY <1>1, <2>2, <2>3, <2>8 DEF ImportInv, ProgressInv
  <2>10. TruthInv'
    BY <1>1, <2>3, <2>4, <2>5, <2>8 DEF ImportInv, TruthInv
  <2> QED BY <2>7, <2>9, <2>10
<1> QED BY <1>2, <1>3 DEF RegisterImport

\* A step of a task to w: it may find its record, move on and write a status to it.
LEMMA WorkKeeps ==
    ASSUME ImportInv, NEW q \in Requests, NEW w \in Worker, Work(q, w),
           worker[q].pc \notin {"none", "done"}, w.pc # "none",
           UNCHANGED <<chat, wiped>>,
           \A r \in Requests : r # q => written'[r] = written[r],
           \/ w.id \in {worker[q].id, None}
           \/ imports[chat[q].session] # None /\ w.id = imports[chat[q].session].id,
           \A s \in Sessions : imports[s] = None => imports'[s] = None,
           \A s \in Sessions : imports[s] # None =>
             imports'[s] # None /\ imports'[s].id = imports[s].id,
           \A s \in Sessions \ wiped :
             imports[s] # None /\ imports'[s].status = "completed" =>
               \/ imports[s].status = "completed"
               \/ imports[s].id = q /\ w.pc = "done" /\ written'[q] = UpTo(Total(q)),
           ~w.errors =>
             /\ w.pc = "lookup" => w.at = 1 /\ written'[q] = <<>>
             /\ w.pc \in {"batch", "insert"} => written'[q] = UpTo(w.at - 1)
             /\ w.pc = "progress" => written'[q] = UpTo(w.at)
             /\ w.pc = "finalize" => written'[q] = UpTo(Total(q))
    PROVE  (OwnerInv /\ ProgressInv /\ TruthInv)'
<1>1. worker'[q] = w /\ \A r \in Requests : r # q => worker'[r] = worker[r]
  BY DEF Work, ImportInv, TypeInv, TypeOK
<1>2. \A r \in Requests : Total(r)' = Total(r)
  BY DEF Total, Messages
<1>3. \A s \in Sessions : imports[s] # None => imports[s].id \in Requests
  BY DEF ImportInv, TypeInv, TypeOK, Import
<1>4. \A r \in Requests : chat[r].session \in Sessions
  BY DEF ImportInv, TypeInv, TypeOK, Chat
<1>5. \A r \in Requests : worker[r].id # None => worker[r].id \in Requests
  BY DEF ImportInv, TypeInv, TypeOK, Worker
<1>6. \A r \in Requests : Started(r)' <=> Started(r)
  BY <1>1 DEF Started
<1>7. OwnerInv'
  <2>1. \A r \in Requests : Started(r) /\ chat[r].session \notin wiped =>
           imports'[chat[r].session] # None /\ imports'[chat[r].session].id = r
    BY <1>4 DEF ImportInv, OwnerInv
  <2>2. \A s \in Sessions : imports'[s] # None =>
           /\ imports'[s].id \in Requests
           /\ chat[imports'[s].id].session = s
           /\ worker'[imports'[s].id].pc # "none"
    BY <1>3, <1>6 DEF ImportInv, OwnerInv, Started
  <2>3. ASSUME NEW r \in Requests, worker'[r].id # None
        PROVE  /\ Started(r)'
               /\ worker'[worker'[r].id].pc # "none"
               /\ chat[worker'[r].id].session = chat[r].session
    <3>1. CASE worker'[r].id = worker[r].id
      BY <1>5, <1>6, <2>3, <3>1 DEF ImportInv, OwnerInv, Started
    <3>2. CASE r = q /\ imports[chat[q].session] # None
               /\ worker'[r].id = imports[chat[q].session].id
      BY <1>1, <1>3, <1>4, <1>6, <3>2 DEF ImportInv, OwnerInv, Started
    <3> QED BY <1>1, <2>3, <3>1, <3>2
  <2> QED BY <1>6, <2>1, <2>2, <2>3 DEF OwnerInv, Started
<1>8. ProgressInv'
  BY <1>1, <1>2 DEF ImportInv, ProgressInv
<1>9. TruthInv'
  <2> SUFFICES ASSUME NEW s \in Sessions \ wiped, imports'[s] # None,
                      imports'[s].status = "completed"
               PROVE  /\ worker'[imports'[s].id].pc = "done"
                      /\ written'[imports'[s].id] = UpTo(Total(imports[s].id))
    BY <1>2, <1>3 DEF TruthInv
  <2>1. imports[s] # None /\ imports'[s].id = imports[s].id /\ imports[s].id \in Requests
    BY <1>3
  <2>2. CASE imports[s].status = "completed"
    BY <1>1, <2>1, <2>2 DEF ImportInv, TruthInv
  <2>3. CASE imports[s].id = q /\ w.pc = "done" /\ written'[q] = UpTo(Total(q))
    BY <1>1, <2>1, <2>3
  <2> QED BY <2>1, <2>2, <2>3
<1> QED BY <1>7, <1>8, <1>9

\* What writing a status does to the records.
LEMMA StatusWritten ==
    ASSUME TypeOK, NEW q \in Requests, NEW n \in Nat,
           NEW status \in {"processing", "completed", "completed_with_errors"},
           SetStatus(q, status, n)
    PROVE  /\ \A s \in Sessions : imports[s] = None => imports'[s] = None
           /\ \A s \in Sessions : imports[s] # None =>
                /\ imports'[s] # None /\ imports'[s].id = imports[s].id
                /\ imports'[s].status # imports[s].status =>
                     imports[s].id = worker[q].id /\ imports'[s].status = status
<1> SUFFICES ASSUME NEW s \in Sessions
             PROVE  /\ imports[s] = None => imports'[s] = None
                    /\ imports[s] # None =>
                         /\ imports'[s] # None /\ imports'[s].id = imports[s].id
                         /\ imports'[s].status # imports[s].status =>
                              imports[s].id = worker[q].id /\ imports'[s].status = status
  OBVIOUS
<1>1. imports[s] \in Import \cup {None}
  BY DEF TypeOK
<1>2. CASE imports[s] # None /\ imports[s].id = worker[q].id
  <2>1. imports'[s] = [imports[s] EXCEPT !.status = status, !.processed = n]
    BY <1>2 DEF SetStatus
  <2>2. /\ imports'[s] \in Import /\ imports'[s].id = imports[s].id
        /\ imports'[s].status = status
    BY <1>1, <1>2, <2>1 DEF Import
  <2> QED BY <1>2, <2>2, NoneAssumption
<1>3. CASE ~(imports[s] # None /\ imports[s].id = worker[q].id)
  BY <1>3 DEF SetStatus
<1> QED BY <1>2, <1>3

LEMMA WorkerKeeps ==
    ASSUME ImportInv, NEW q \in Requests, WorkerStep(q)
    PROVE  (OwnerInv /\ ProgressInv /\ TruthInv)'
<1> DEFINE i == worker[q].at
<1>0. TypeOK /\ TypeInv
  BY DEF ImportInv, TypeInv
<1>1. worker[q] \in Worker /\ chat[q].session \in Sessions /\ i \in Nat
  BY <1>0 DEF TypeOK, Chat, Worker
<1>2. Total(q) \in Nat \ {0}
  BY <1>0, HistoryLength
<1>3. worker[q].pc \in {"lookup", "batch", "insert", "progress"} => i \in 1 .. Total(q)
  BY <1>0 DEF TypeInv, Position
<1>4. ~worker[q].errors =>
        /\ worker[q].pc = "lookup" => i = 1 /\ written[q] = <<>>
        /\ worker[q].pc \in {"batch", "insert"} => written[q] = UpTo(i - 1)
        /\ worker[q].pc = "progress" => written[q] = UpTo(i)
        /\ worker[q].pc = "finalize" => written[q] = UpTo(Total(q))
  BY DEF ImportInv, ProgressInv
<1>5. <<>> = UpTo(0) /\ UpTo(0) = <<>>
  BY DEF UpTo
<1> HIDE DEF i
\* Where it goes on from the first message that it has not passed.
<1>6. ASSUME NEW j \in 1 .. Total(q) + 1
      PROVE  /\ BatchFrom(q, j) \in {"batch", "finalize"}
             /\ BatchFrom(q, j) = "finalize" => j - 1 = Total(q)
  BY <1>2, <1>6 DEF BatchFrom
\* Giving up the rest of a batch.
<1>7. ASSUME worker[q].pc \in {"batch", "insert", "progress"}, Work(q, SkipBatch(q)),
             UNCHANGED <<imports, chat, wiped, written>>
      PROVE  (OwnerInv /\ ProgressInv /\ TruthInv)'
  <2>1. /\ SkipBatch(q) \in Worker /\ SkipBatch(q).pc \in {"batch", "finalize"}
        /\ SkipBatch(q).errors /\ SkipBatch(q).id = worker[q].id
    BY <1>0, <1>3, <1>7, SkipBounds DEF i
  <2> QED BY <1>7, <2>1, WorkKeeps
<1>8. CASE LookupImport(q)
  <2> DEFINE found == imports[chat[q].session]
             id == IF found = None THEN None ELSE found.id
  <2>1. worker[q].pc = "lookup" /\ UNCHANGED <<imports, chat, wiped, written>>
    BY <1>8 DEF LookupImport, tables, history
  <2>2. /\ id \in Requests \cup {None}
        /\ \/ id = None
           \/ imports[chat[q].session] # None /\ id = imports[chat[q].session].id
    BY <1>0, <1>1 DEF TypeOK, Import
  <2>3. \/ Work(q, [worker[q] EXCEPT !.pc = BatchFrom(q, 1), !.id = id])
        \/ Work(q, [worker[q] EXCEPT !.pc = "done"])
        \/ Work(q, [worker[q] EXCEPT !.pc = "fatal", !.id = id])
    BY <1>8 DEF LookupImport
  <2> HIDE DEF id
  <2>4. /\ BatchFrom(q, 1) \in {"batch", "finalize"}
        /\ BatchFrom(q, 1) = "finalize" => FALSE
    BY <1>2, <1>6
  <2>5. CASE Work(q, [worker[q] EXCEPT !.pc = BatchFrom(q, 1), !.id = id])
    <3> DEFINE w == [worker[q] EXCEPT !.pc = BatchFrom(q, 1), !.id = id]
    <3>1. /\ w \in Worker /\ w.id = id /\ w.pc = "batch" /\ w.at = i
          /\ w.errors = worker[q].errors
      BY <1>1, <2>2, <2>4 DEF Worker, i
    <3>2. ~w.errors => written'[q] = UpTo(w.at - 1)
      BY <1>4, <1>5, <2>1, <3>1
    <3>3. Work(q, w)
      BY <2>5
    <3> HIDE DEF w
    <3> QED BY <2>1, <2>2, <3>1, <3>2, <3>3, WorkKeeps
  <2>6. ASSUME NEW pc \in {"done", "fatal"}, NEW o \in {id, worker[q].id},
               Work(q, [worker[q] EXCEPT !.pc = pc, !.id = o])
        PROVE  (OwnerInv /\ ProgressInv /\ TruthInv)'
    <3> DEFINE w == [worker[q] EXCEPT !.pc = pc, !.id = o]
    <3>1. w \in Worker /\ w.id = o /\ w.pc = pc
      BY <1>1, <2>2 DEF Worker
    <3>2. Work(q, w)
      BY <2>6
    <3> HIDE DEF w
    <3> QED BY <2>1, <2>2, <3>1, <3>2, WorkKeeps
  <2>7. [worker[q] EXCEPT !.pc = "done"] = [worker[q] EXCEPT !.pc = "done", !.id = worker[q].id]
    BY <1>1 DEF Worker
  <2> QED BY <2>3, <2>5, <2>6, <2>7
<1>9. CASE StartBatch(q)
  <2>1. worker[q].pc = "batch" /\ UNCHANGED <<imports, chat, wiped, written>>
    BY <1>9 DEF StartBatch, tables, history
  <2>2. CASE Work(q, [worker[q] EXCEPT !.pc = "insert"])
    <3> DEFINE w == [worker[q] EXCEPT !.pc = "insert"]
    <3>1. /\ w \in Worker /\ w.id = worker[q].id /\ w.pc = "insert" /\ w.at = i
          /\ w.errors = worker[q].errors
      BY <1>1 DEF Worker, i
    <3>2. Work(q, w)
      BY <2>2
    <3> HIDE DEF w
    <3> QED BY <1>4, <2>1, <3>1, <3>2, WorkKeeps
  <2> QED BY <1>7, <1>9, <2>1, <2>2 DEF StartBatch
<1>10. CASE InsertMessage(q)
  <2>1. worker[q].pc = "insert" /\ UNCHANGED <<imports, chat, wiped>>
    BY <1>10 DEF InsertMessage
  <2>2. i \in 1 .. Total(q)
    BY <1>3, <2>1
  <2>3. CASE /\ written' = [written EXCEPT ![q] = Append(@, i)]
             /\ IF i = BatchEnd(q, i) THEN Work(q, [worker[q] EXCEPT !.pc = "progress"])
                ELSE Work(q, [worker[q] EXCEPT !.at = i + 1])
    <3>1. \A r \in Requests : r # q => written'[r] = written[r]
      BY <1>0, <2>3 DEF TypeOK
    <3>2. ~worker[q].errors => written'[q] = UpTo(i)
      <4>1. ASSUME ~worker[q].errors PROVE written[q] = UpTo(i - 1)
        BY <1>4, <2>1, <4>1
      <4>2. Append(UpTo(i - 1), i) = UpTo(i)
        BY <1>1, <2>2 DEF UpTo
      <4>3. written'[q] = Append(written[q], i)
        BY <1>0, <2>3 DEF TypeOK
      <4> QED BY <4>1, <4>2, <4>3
    <3>3. CASE Work(q, [worker[q] EXCEPT !.pc = "progress"])
      <4> DEFINE w == [worker[q] EXCEPT !.pc = "progress"]
      <4>1. /\ w \in Worker /\ w.id = worker[q].id /\ w.pc = "progress" /\ w.at = i
            /\ w.errors = worker[q].errors
        BY <1>1 DEF Worker, i
      <4>2. Work(q, w)
        BY <3>3
      <4> HIDE DEF w
      <4> QED BY <2>1, <3>1, <3>2, <4>1, <4>2, WorkKeeps
    <3>4. CASE Work(q, [worker[q] EXCEPT !.at = i + 1])
      <4> DEFINE w == [worker[q] EXCEPT !.at = i + 1]
      <4>1. /\ w \in Worker /\ w.id = worker[q].id /\ w.pc = "insert" /\ w.at = i + 1
            /\ w.errors = worker[q].errors
        BY <1>1, <2>1 DEF Worker
      <4>2. Work(q, w) /\ w.at - 1 = i
        BY <1>1, <3>4, <4>1
      <4> HIDE DEF w
      <4> QED BY <2>1, <3>1, <3>2, <4>1, <4>2, WorkKeeps
    <3> QED BY <2>3, <3>3, <3>4
  <2> QED BY <1>7, <1>10, <2>1, <2>3 DEF InsertMessage, i
<1>11. CASE UpdateProgress(q)
  <2>1. worker[q].pc = "progress" /\ UNCHANGED <<chat, wiped, written>>
    BY <1>11 DEF UpdateProgress, history
  <2>2. CASE /\ SetStatus(q, "processing", i)
             /\ Work(q, [worker[q] EXCEPT !.pc = BatchFrom(q, i + 1), !.at = i + 1])
    <3> DEFINE next == i + 1
               to == BatchFrom(q, next)
               w == [worker[q] EXCEPT !.pc = to, !.at = next]
    <3>1. next \in 1 .. Total(q) + 1 /\ next - 1 = i
      BY <1>1, <1>2, <1>3, <2>1
    <3>2. to \in {"batch", "finalize"} /\ (to = "finalize" => i = Total(q))
      <4> HIDE DEF next
      <4> QED BY <1>6, <3>1
    <3>3. /\ w \in Worker /\ w.id = worker[q].id /\ w.pc = to /\ w.at = next
          /\ w.errors = worker[q].errors
      <4>1. next \in Nat
        BY <3>1
      <4> HIDE DEF next, to
      <4>2. w \in Worker /\ w.pc = to /\ w.at = next
        BY <1>1, <3>2, <4>1 DEF Worker
      <4>3. w.id = worker[q].id /\ w.errors = worker[q].errors
        BY <1>1 DEF Worker
      <4> QED BY <4>2, <4>3
    <3>4. /\ \A s \in Sessions : imports[s] = None => imports'[s] = None
          /\ \A s \in Sessions : imports[s] # None =>
                /\ imports'[s] # None /\ imports'[s].id = imports[s].id
                /\ imports'[s].status = "completed" => imports[s].status = "completed"
      BY <1>0, <1>1, <2>2, StatusWritten
    <3>5. Work(q, w)
      BY <2>2
    <3> HIDE DEF w, next, to
    <3> QED BY <1>4, <2>1, <3>1, <3>2, <3>3, <3>4, <3>5, WorkKeeps
  <2> QED BY <1>7, <1>11, <2>1, <2>2 DEF UpdateProgress, i
<1>12. ASSUME NEW pc \in {"done", "fatal"}, worker[q].pc \in {"finalize", "fatal"},
              Work(q, [worker[q] EXCEPT !.pc = pc]), UNCHANGED <<chat, wiped, written>>,
              \A s \in Sessions : imports[s] = None => imports'[s] = None,
              \A s \in Sessions : imports[s] # None =>
                imports'[s] # None /\ imports'[s].id = imports[s].id,
              \A s \in Sessions \ wiped :
                imports[s] # None /\ imports'[s].status = "completed" =>
                  \/ imports[s].status = "completed"
                  \/ imports[s].id = q /\ pc = "done" /\ written[q] = UpTo(Total(q))
       PROVE  (OwnerInv /\ ProgressInv /\ TruthInv)'
  <2> DEFINE w == [worker[q] EXCEPT !.pc = pc]
  <2>1. w \in Worker /\ w.id = worker[q].id /\ w.pc = pc
    BY <1>1 DEF Worker
  <2>2. Work(q, w)
    BY <1>12
  <2> HIDE DEF w
  <2> QED BY <1>12, <2>1, <2>2, WorkKeeps
<1>13. CASE FinalizeImport(q)
  <2>1. worker[q].pc = "finalize" /\ UNCHANGED <<chat, wiped, written>>
    BY <1>13 DEF FinalizeImport, history
  <2>2. CASE SetStatus(q, FinalStatus(q), Total(q)) /\ Work(q, [worker[q] EXCEPT !.pc = "done"])
    <3>1. /\ FinalStatus(q) \in {"completed_with_errors", "completed"}
          /\ FinalStatus(q) = "completed" => ~worker[q].errors
      BY DEF FinalStatus
    <3>2. ASSUME NEW s \in Sessions \ wiped, imports[s] # None, imports[s].id = worker[q].id
          PROVE  imports[s].id = q
      <4>1. worker[q].id # None
        BY <1>0, <3>2, NoneAssumption DEF TypeOK, Import
      <4>2. chat[q].session = s /\ Started(q)
        BY <3>2, <4>1 DEF ImportInv, OwnerInv
      <4> QED BY <3>2, <4>2 DEF ImportInv, OwnerInv
    <3>3. /\ \A s \in Sessions : imports[s] = None => imports'[s] = None
          /\ \A s \in Sessions : imports[s] # None =>
                /\ imports'[s] # None /\ imports'[s].id = imports[s].id
                /\ imports'[s].status # imports[s].status =>
                     imports[s].id = worker[q].id /\ imports'[s].status = FinalStatus(q)
      BY <1>0, <1>2, <2>2, <3>1, StatusWritten
    <3> QED BY <1>4, <1>12, <2>1, <2>2, <3>1, <3>2, <3>3
  <2>3. CASE Work(q, [worker[q] EXCEPT !.pc = "fatal"]) /\ UNCHANGED imports
    BY <1>12, <2>1, <2>3
  <2> QED BY <1>13, <2>2, <2>3 DEF FinalizeImport
<1>14. CASE FailImport(q)
  <2>1. /\ worker[q].pc = "fatal" /\ UNCHANGED <<chat, wiped, written>>
        /\ Work(q, [worker[q] EXCEPT !.pc = "done"])
    BY <1>14 DEF FailImport, history
  <2>2. \A s \in Sessions :
          /\ imports[s] = None => imports'[s] = None
          /\ imports[s] # None =>
               /\ imports'[s] # None /\ imports'[s].id = imports[s].id
               /\ imports'[s].status = "completed" => imports[s].status = "completed"
    <3>1. CASE UNCHANGED imports
      BY <3>1
    <3>2. CASE imports' = [s \in Sessions |->
               IF imports[s] # None /\ imports[s].id = worker[q].id
               THEN [imports[s] EXCEPT !.status = "failed"] ELSE imports[s]]
      <4> SUFFICES ASSUME NEW s \in Sessions
                   PROVE  /\ imports[s] = None => imports'[s] = None
                          /\ imports[s] # None =>
                               /\ imports'[s] # None /\ imports'[s].id = imports[s].id
                               /\ imports'[s].status = "completed" =>
                                    imports[s].status = "completed"
        OBVIOUS
      <4>1. imports[s] # None =>
              /\ [imports[s] EXCEPT !.status = "failed"] \in Import
              /\ [imports[s] EXCEPT !.status = "failed"].id = imports[s].id
              /\ [imports[s] EXCEPT !.status = "failed"].status = "failed"
        BY <1>0 DEF TypeOK, Import
      <4> QED BY <3>2, <4>1, NoneAssumption
    <3> QED BY <1>14, <3>1, <3>2 DEF FailImport
  <2> QED BY <1>12, <2>1, <2>2
<1> QED BY <1>8, <1>9, <1>10, <1>11, <1>13, <1>14 DEF WorkerStep

LEMMA ImportStep == ImportInv /\ [Next]_vars => ImportInv'
<1> SUFFICES ASSUME ImportInv, [Next]_vars PROVE ImportInv'
  OBVIOUS
<1>0. TypeInv' /\ TypeOK
  BY TypeStep DEF ImportInv, TypeInv
<1>1. ASSUME NEW s \in Sessions, DeleteImportRecord(s)
      PROVE  ImportInv'
  <2>1. /\ imports'[s] = None /\ wiped' = wiped \cup {s}
        /\ \A t \in Sessions : t # s => imports'[t] = imports[t]
        /\ UNCHANGED <<chat, worker, written>>
    BY <1>0, <1>1 DEF DeleteImportRecord, TypeOK
  <2>2. \A q \in Requests : Total(q)' = Total(q) /\ chat[q].session \in Sessions
    BY <1>0, <2>1 DEF Total, Messages, TypeOK, Chat
  <2>3. OwnerInv'
    BY <2>1, <2>2 DEF ImportInv, OwnerInv, Started
  <2>4. ProgressInv'
    BY <2>1, <2>2 DEF ImportInv, ProgressInv
  <2>5. \A t \in Sessions : imports[t] # None => imports[t].id \in Requests
    BY <1>0 DEF TypeOK, Import
  <2>6. TruthInv'
    BY <2>1, <2>2, <2>5 DEF ImportInv, TruthInv
  <2> QED BY <1>0, <2>3, <2>4, <2>6 DEF ImportInv
<1>2. CASE DeleteMemories
  BY <1>0, <1>2, QuietKeeps DEF DeleteMemories, history, ImportInv
<1>3. CASE Crash
  <2>1. \A q \in Requests :
          /\ Started(q)' <=> Started(q)
          /\ worker'[q].pc \in {"none", "done"} /\ worker'[q].id = worker[q].id
          /\ worker[q].pc = "done" => worker'[q].pc = "done"
          /\ chat'[q].session = chat[q].session /\ chat'[q].messages = chat[q].messages
    <3> SUFFICES ASSUME NEW q \in Requests
                 PROVE  /\ Started(q)' <=> Started(q)
                        /\ worker'[q].pc \in {"none", "done"} /\ worker'[q].id = worker[q].id
                        /\ worker[q].pc = "done" => worker'[q].pc = "done"
                        /\ chat'[q].session = chat[q].session
                        /\ chat'[q].messages = chat[q].messages
      OBVIOUS
    <3>1. worker[q] \in Worker /\ chat[q] \in Chat
      BY <1>0 DEF TypeOK
    <3>2. chat'[q].session = chat[q].session /\ chat'[q].messages = chat[q].messages
      BY <1>3, <3>1 DEF Crash, Chat
    <3>3. CASE worker[q].pc = "none"
      <4>1. worker'[q] = NoWorker
        BY <1>3, <3>3 DEF Crash
      <4>2. worker[q].id = None
        BY <3>3 DEF ImportInv, OwnerInv, Started
      <4> QED BY <3>2, <3>3, <4>1, <4>2 DEF Started, NoWorker
    <3>4. CASE worker[q].pc # "none"
      <4>1. worker'[q] = [worker[q] EXCEPT !.pc = "done"]
        BY <1>3, <3>4 DEF Crash
      <4>2. worker'[q].pc = "done" /\ worker'[q].id = worker[q].id
        BY <3>1, <4>1 DEF Worker
      <4> QED BY <3>2, <3>4, <4>2 DEF Started
    <3> QED BY <3>3, <3>4
  <2>2. UNCHANGED <<imports, wiped, written>>
    BY <1>3 DEF Crash, tables, history
  <2>3. \A q \in Requests : Total(q)' = Total(q)
    BY <2>1 DEF Total, Messages
  <2>4. \A s \in Sessions : imports[s] # None => imports[s].id \in Requests
    BY <1>0 DEF TypeOK, Import
  <2>5. \A q \in Requests : worker[q].id # None => worker[q].id \in Requests
    BY <1>0 DEF TypeOK, Worker
  <2>6. OwnerInv'
    BY <2>1, <2>2, <2>4, <2>5 DEF ImportInv, OwnerInv, Started
  <2>7. ProgressInv'
    BY <2>1 DEF ProgressInv
  <2>8. TruthInv'
    BY <2>1, <2>2, <2>3, <2>4 DEF ImportInv, TruthInv
  <2> QED BY <1>0, <2>6, <2>7, <2>8 DEF ImportInv
<1>4. CASE UNCHANGED vars
  BY <1>0, <1>4, QuietKeeps DEF vars, tables, history, ImportInv
<1>5. ASSUME NEW q \in Requests,
             \/ \E s \in Sessions, h \in Histories : Arrive(q, s, h)
             \/ CheckImport(q) \/ Generate(q) \/ DeleteOldTurn(q) \/ InsertTurn(q)
      PROVE  ImportInv'
  BY <1>0, <1>5, RequestQuiet DEF ImportInv
<1>6. ASSUME NEW q \in Requests, RegisterImport(q) \/ WorkerStep(q) PROVE ImportInv'
  BY <1>0, <1>6, RegisterKeeps, WorkerKeeps DEF ImportInv
<1> QED BY <1>1, <1>2, <1>3, <1>4, <1>5, <1>6 DEF Next

\* The first requests of a new session may race: its history is imported by one task.
THEOREM OneImport == Spec => []ImportedOnce
<1>1. Init => ImportInv
  BY TypeInitially, ImportInitially DEF ImportInv
<1>2. ImportInv => ImportedOnce
  BY DEF ImportInv, OwnerInv, Started, ImportedOnce
<1> QED BY <1>1, <1>2, ImportStep, PTL DEF Spec

\* "completed" can be trusted: every message of the history was inserted, in order and once.
THEOREM CompletedIsTrue == Spec => []CompletedMeansImported
<1>1. Init => ImportInv
  BY TypeInitially, ImportInitially DEF ImportInv
<1>2. ImportInv => CompletedMeansImported
  BY DEF ImportInv, TruthInv, UpTo, CompletedMeansImported
<1> QED BY <1>1, <1>2, ImportStep, PTL DEF Spec

------------------------------------------------------------------------------------
\* Turns

\* Until two requests were between their statements at the same time, the one that is has
\* no row of its turn besides it, and a turn has one row.
TurnInv ==
    /\ deleting \in wiped \cup {None}
    /\ \A t \in Turn \ overlaps :
         /\ \A p, q \in Persisting(t) : p = q
         /\ Persisting(t) # {} => TurnRows(t) = {}
         /\ \A r1, r2 \in TurnRows(t) : r1 = r2

MemoryInv == TypeInv /\ TurnInv /\ RegenerationKeepsTurn

LEMMA TurnInitially == Init => TurnInv /\ RegenerationKeepsTurn
BY DEF Init, TurnInv, RegenerationKeepsTurn, Persisting, TurnRows, NoRequest

\* Steps that neither store nor delete rows, and let no request in between the statements
\* of a turn nor out again.
LEMMA TurnsUntouched ==
    ASSUME MemoryInv, UNCHANGED <<rows, wiped, persisted, overlaps>>,
           deleting' \in wiped \cup {None},
           faults > 0 => faults' > 0, crashes > 0 => crashes' > 0,
           \A q \in Requests : (chat[q].pc = "insert" <=> chat'[q].pc = "insert")
                             /\ (chat[q].pc = "insert" => chat'[q] = chat[q])
    PROVE  (TurnInv /\ RegenerationKeepsTurn)'
<1>1. \A t : Persisting(t)' = Persisting(t) /\ TurnRows(t)' = TurnRows(t)
  BY DEF Persisting, TurnRows, TurnOf, UserText, Messages
<1>2. TurnInv'
  BY <1>1 DEF MemoryInv, TurnInv
<1>3. RegenerationKeepsTurn'
  BY <1>1 DEF MemoryInv, RegenerationKeepsTurn
<1> QED BY <1>2, <1>3

\* A fault, or none, is remembered.
LEMMA FaultsGrow == TypeOK /\ (NoFault \/ Fault) => (faults > 0 => faults' > 0)
BY DEF TypeOK, NoFault, Fault

LEMMA DeleteTurnKeeps ==
    ASSUME MemoryInv, NEW q \in Requests, DeleteOldTurn(q)
    PROVE  (TurnInv /\ RegenerationKeepsTurn)'
<1>0. TypeOK
  BY DEF MemoryInv, TypeInv
<1>9. PICK t0 : t0 = TurnOf(q)
  OBVIOUS
<1>1. /\ chat[q].pc = "delete" /\ UNCHANGED <<deleting, crashes, wiped, persisted>>
      /\ NoFault \/ Fault
  BY DEF DeleteOldTurn
<1>2. CASE Goto(q, "done") /\ UNCHANGED <<rows, overlaps>>
  <2>1. \A r \in Requests : (chat[r].pc = "insert" <=> chat'[r].pc = "insert")
                            /\ (chat[r].pc = "insert" => chat'[r] = chat[r])
    BY <1>0, <1>1, <1>2 DEF Goto, TypeOK, Chat
  <2>2. deleting' \in wiped \cup {None}
    BY <1>1 DEF MemoryInv, TurnInv
  <2> QED BY <1>0, <1>1, <1>2, <2>1, <2>2, FaultsGrow, TurnsUntouched
<1>3. CASE /\ NoFault
           /\ rows' = rows \ OldRows(q)
           /\ overlaps' = IF Persisting(t0) = {} THEN overlaps ELSE overlaps \cup {t0}
           /\ Goto(q, "insert")
  <2>1. /\ chat'[q].pc = "insert" /\ TurnOf(q)' = TurnOf(q)
        /\ \A r \in Requests : r # q => chat'[r] = chat[r] /\ TurnOf(r)' = TurnOf(r)
    BY <1>0, <1>3 DEF Goto, TypeOK, Chat, TurnOf, UserText, Messages
  <2>2. Persisting(t0)' = Persisting(t0) \cup {q}
    BY <1>9, <2>1 DEF Persisting
  <2>3. \A t : t # t0 => Persisting(t)' = Persisting(t)
    BY <1>9, <1>1, <2>1 DEF Persisting
  <2>4. TurnRows(t0)' = {}
    BY <1>9, <1>3, <2>1 DEF TurnRows, OldRows, TurnOf
  <2>5. \A t \in Turn : t # t0 => TurnRows(t)' = TurnRows(t)
    BY <1>9, <1>3 DEF TurnRows, OldRows, TurnOf, Turn
  <2>6. TurnInv'
    <3> SUFFICES ASSUME NEW t \in Turn \ overlaps'
                 PROVE  /\ \A p, r \in Persisting(t)' : p = r
                        /\ Persisting(t)' # {} => TurnRows(t)' = {}
                        /\ \A r1, r2 \in TurnRows(t)' : r1 = r2
      BY <1>1 DEF MemoryInv, TurnInv
    <3>1. CASE t = t0
      <4>1. Persisting(t0) = {}
        BY <1>3, <3>1
      <4> QED BY <2>2, <2>4, <3>1, <4>1
    <3>2. CASE t # t0
      BY <1>3, <2>3, <2>5, <3>2 DEF MemoryInv, TurnInv
    <3> QED BY <3>1, <3>2
  <2>7. RegenerationKeepsTurn'
    <3> SUFFICES ASSUME NEW t \in persisted
                 PROVE  \/ TurnRows(t)' # {} \/ Persisting(t)' # {}
                        \/ faults' > 0 \/ crashes' > 0 \/ t.session \in wiped'
      BY <1>1 DEF RegenerationKeepsTurn
    <3>1. CASE t = t0
      BY <2>2, <3>1
    <3>2. CASE t # t0
      <4>1. t \in Turn
        BY <1>0 DEF TypeOK
      <4> QED BY <1>1, <1>3, <2>3, <2>5, <3>2, <4>1
                 DEF MemoryInv, RegenerationKeepsTurn, NoFault
    <3> QED BY <3>1, <3>2
  <2> QED BY <2>6, <2>7
<1> QED BY <1>9, <1>2, <1>3 DEF DeleteOldTurn

LEMMA InsertTurnKeeps ==
    ASSUME MemoryInv, NEW q \in Requests, InsertTurn(q)
    PROVE  (TurnInv /\ RegenerationKeepsTurn)'
<1>0. TypeOK
  BY DEF MemoryInv, TypeInv
<1>9. PICK t0 : t0 = TurnOf(q)
  OBVIOUS
<1>1. /\ chat[q].pc = "insert" /\ UNCHANGED <<deleting, crashes, wiped, overlaps>>
      /\ Goto(q, "done")
  BY DEF InsertTurn
<1>2. /\ chat'[q].pc = "done"
      /\ \A r \in Requests : r # q => chat'[r] = chat[r] /\ TurnOf(r)' = TurnOf(r)
  BY <1>0, <1>1 DEF Goto, TypeOK, Chat, TurnOf, UserText, Messages
<1>3. \A t : Persisting(t)' = Persisting(t) \ {q}
  BY <1>2 DEF Persisting
<1>4. \A t : t # t0 => q \notin Persisting(t)
  BY <1>9 DEF Persisting
<1>5. q \in Persisting(t0)
  BY <1>9, <1>1 DEF Persisting
<1>6. CASE NoFault /\ rows' = rows \cup NewRows(q) /\ persisted' = persisted \cup {t0}
  <2> DEFINE new == [session |-> chat[q].session, input |-> UserText(q), by |-> q, place |-> 0]
  <2>1. TurnRows(t0)' = TurnRows(t0) \cup {new}
    <3>1. new.session = t0.session /\ new.input = t0.input /\ new.place = 0
      BY <1>9 DEF TurnOf
    <3>2. rows' = rows \cup {new}
      BY <1>6 DEF NewRows
    <3> HIDE DEF new
    <3> QED BY <3>1, <3>2 DEF TurnRows
  <2>2. \A t \in Turn : t # t0 => TurnRows(t)' = TurnRows(t)
    BY <1>9, <1>6 DEF TurnRows, NewRows, TurnOf, Turn
  <2> HIDE DEF new
  <2>3. TurnInv'
    <3> SUFFICES ASSUME NEW t \in Turn \ overlaps
                 PROVE  /\ \A p, r \in Persisting(t)' : p = r
                        /\ Persisting(t)' # {} => TurnRows(t)' = {}
                        /\ \A r1, r2 \in TurnRows(t)' : r1 = r2
      BY <1>1 DEF MemoryInv, TurnInv
    <3>1. CASE t = t0
      <4>1. TurnRows(t0) = {} /\ Persisting(t0) \subseteq {q}
        BY <1>5, <3>1 DEF MemoryInv, TurnInv
      <4> QED BY <1>3, <2>1, <3>1, <4>1
    <3>2. CASE t # t0
      BY <1>3, <1>4, <2>2, <3>2 DEF MemoryInv, TurnInv
    <3> QED BY <3>1, <3>2
  <2>4. RegenerationKeepsTurn'
    <3> SUFFICES ASSUME NEW t \in persisted \cup {t0}
                 PROVE  \/ TurnRows(t)' # {} \/ Persisting(t)' # {}
                        \/ faults' > 0 \/ crashes' > 0 \/ t.session \in wiped'
      BY <1>6 DEF RegenerationKeepsTurn
    <3>1. CASE t = t0
      BY <2>1, <3>1
    <3>2. CASE t # t0
      <4>1. t \in Turn
        BY <1>0, <3>2 DEF TypeOK
      <4> QED BY <1>1, <1>3, <1>4, <1>6, <2>2, <3>2, <4>1
                 DEF MemoryInv, RegenerationKeepsTurn, NoFault
    <3> QED BY <3>1, <3>2
  <2> QED BY <2>3, <2>4
<1>7. CASE Fault /\ UNCHANGED <<rows, persisted>>
  <2>1. \A t : TurnRows(t)' = TurnRows(t)
    BY <1>7 DEF TurnRows
  <2>2. TurnInv'
    BY <1>1, <1>3, <2>1 DEF MemoryInv, TurnInv
  <2>3. faults' > 0
    BY <1>0, <1>7 DEF Fault, TypeOK
  <2> QED BY <2>2, <2>3 DEF RegenerationKeepsTurn
<1> QED BY <1>9, <1>6, <1>7 DEF InsertTurn

\* Chat requests before and after their turn's statements.
LEMMA OtherStepsKeep ==
    ASSUME MemoryInv, NEW q \in Requests,
           \/ \E s \in Sessions, h \in Histories : Arrive(q, s, h)
           \/ CheckImport(q) \/ RegisterImport(q) \/ Generate(q)
    PROVE  (TurnInv /\ RegenerationKeepsTurn)'
<1>0. TypeOK
  BY DEF MemoryInv, TypeInv
<1>1. UNCHANGED <<rows, wiped, persisted, overlaps, deleting, crashes>>
      /\ (faults > 0 => faults' > 0)
  BY <1>0, FaultsGrow DEF Arrive, CheckImport, RegisterImport, Generate, tables, history
<1>2. chat[q].pc # "insert"
  BY DEF Arrive, CheckImport, RegisterImport, Generate
<1>3. chat'[q].pc # "insert" /\ \A r \in Requests : r # q => chat'[r] = chat[r]
  <2>1. ASSUME NEW s \in Sessions, NEW h \in Histories, Arrive(q, s, h) PROVE <1>3!:
    BY <1>0, <2>1 DEF Arrive, TypeOK
  <2>2. ASSUME NEW pc \in {"register", "generate", "delete", "done"}, Goto(q, pc) PROVE <1>3!:
    BY <1>0, <2>2 DEF Goto, TypeOK, Chat
  <2> QED BY <2>1, <2>2 DEF CheckImport, RegisterImport, Generate
<1>4. deleting' \in wiped \cup {None}
  BY <1>1 DEF MemoryInv, TurnInv
<1> QED BY <1>1, <1>2, <1>3, <1>4, TurnsUntouched

\* A turn is stored by chat requests only: an import's rows have another place.
LEMMA WorkerLeavesTurns ==
    ASSUME MemoryInv, NEW q \in Requests, WorkerStep(q)
    PROVE  (TurnInv /\ RegenerationKeepsTurn)'
<1>0. TypeOK /\ TypeInv
  BY DEF MemoryInv, TypeInv
<1>1. /\ UNCHANGED <<chat, wiped, persisted, overlaps, deleting, crashes>>
      /\ NoFault \/ Fault
  BY DEF WorkerStep, LookupImport, StartBatch, InsertMessage, UpdateProgress, FinalizeImport,
         FailImport, tables, history
<1>2. \A t : TurnRows(t)' = TurnRows(t)
  <2>1. CASE UNCHANGED rows
    BY <2>1 DEF TurnRows
  <2>2. CASE InsertMessage(q)
    <3>1. worker[q].at # 0
      BY <1>0, <2>2 DEF TypeInv, Position, InsertMessage
    <3> DEFINE new == [session |-> chat[q].session, input |-> Messages(q)[worker[q].at],
                       by |-> q, place |-> worker[q].at]
    <3>2. new.place # 0
      BY <3>1
    <3>3. UNCHANGED rows \/ rows' = rows \cup {new}
      BY <2>2 DEF InsertMessage
    <3> HIDE DEF new
    <3> QED BY <3>2, <3>3 DEF TurnRows
  <2> QED BY <2>1, <2>2 DEF WorkerStep, LookupImport, StartBatch, UpdateProgress,
                            FinalizeImport, FailImport, tables
<1>3. \A t : Persisting(t)' = Persisting(t)
  BY <1>1 DEF Persisting, TurnOf, UserText, Messages
<1>4. TurnInv'
  BY <1>1, <1>2, <1>3 DEF MemoryInv, TurnInv
<1>5. RegenerationKeepsTurn'
  BY <1>0, <1>1, <1>2, <1>3, FaultsGrow DEF MemoryInv, RegenerationKeepsTurn
<1> QED BY <1>4, <1>5

LEMMA MemoryStep == MemoryInv /\ [Next]_vars => MemoryInv'
<1> SUFFICES ASSUME MemoryInv, [Next]_vars PROVE MemoryInv'
  OBVIOUS
<1>0. TypeInv' /\ TypeOK
  BY TypeStep DEF MemoryInv, TypeInv
<1>1. ASSUME NEW s \in Sessions, DeleteImportRecord(s) PROVE MemoryInv'
  <2>1. /\ UNCHANGED <<rows, chat, faults, crashes, persisted, overlaps>>
        /\ deleting' \in wiped' \cup {None} /\ wiped' = wiped \cup {s}
    BY <1>1 DEF DeleteImportRecord
  <2>2. \A t : Persisting(t)' = Persisting(t) /\ TurnRows(t)' = TurnRows(t)
    BY <2>1 DEF Persisting, TurnRows, TurnOf, UserText, Messages
  <2>3. TurnInv'
    BY <2>1, <2>2 DEF MemoryInv, TurnInv
  <2>4. RegenerationKeepsTurn'
    BY <2>1, <2>2 DEF MemoryInv, RegenerationKeepsTurn
  <2> QED BY <1>0, <2>3, <2>4 DEF MemoryInv
<1>2. CASE DeleteMemories
  <2>1. /\ UNCHANGED <<chat, crashes, wiped, persisted, overlaps>>
        /\ deleting' = None /\ deleting \in wiped
        /\ NoFault \/ Fault
    BY <1>2 DEF DeleteMemories, history, MemoryInv, TurnInv
  <2>2. \A t : Persisting(t)' = Persisting(t)
    BY <2>1 DEF Persisting, TurnOf, UserText, Messages
  <2>3. \A t : TurnRows(t)' \subseteq TurnRows(t)
               /\ (t.session # deleting => TurnRows(t)' = TurnRows(t))
    BY <1>2 DEF DeleteMemories, TurnRows
  <2>4. TurnInv'
    BY <2>1, <2>2, <2>3 DEF MemoryInv, TurnInv
  <2>5. RegenerationKeepsTurn'
    BY <1>0, <2>1, <2>2, <2>3, FaultsGrow DEF MemoryInv, RegenerationKeepsTurn
  <2> QED BY <1>0, <2>4, <2>5 DEF MemoryInv
<1>3. CASE Crash
  <2>1. /\ UNCHANGED <<rows, wiped, persisted, overlaps>> /\ deleting' = None
        /\ crashes' > 0
    BY <1>0, <1>3 DEF Crash, tables, history, TypeOK
  <2>2. \A t : TurnRows(t)' = TurnRows(t) /\ Persisting(t)' = {}
    <3>1. \A q \in Requests : chat'[q].pc # "insert"
      BY <1>0, <1>3 DEF Crash, TypeOK, Chat
    <3> QED BY <2>1, <3>1 DEF TurnRows, Persisting
  <2>3. TurnInv'
    BY <2>1, <2>2 DEF MemoryInv, TurnInv
  <2>4. RegenerationKeepsTurn'
    BY <2>1 DEF RegenerationKeepsTurn
  <2> QED BY <1>0, <2>3, <2>4 DEF MemoryInv
<1>4. CASE UNCHANGED vars
  <2>1. deleting' \in wiped \cup {None}
    BY <1>4 DEF MemoryInv, TurnInv, vars
  <2> QED BY <1>0, <1>4, <2>1, TurnsUntouched DEF vars, tables, history, MemoryInv
<1>5. ASSUME NEW q \in Requests,
             \/ \E s \in Sessions, h \in Histories : Arrive(q, s, h)
             \/ CheckImport(q) \/ RegisterImport(q) \/ Generate(q)
      PROVE  MemoryInv'
  BY <1>0, <1>5, OtherStepsKeep DEF MemoryInv
<1>6. ASSUME NEW q \in Requests, DeleteOldTurn(q) \/ InsertTurn(q) PROVE MemoryInv'
  BY <1>0, <1>6, DeleteTurnKeeps, InsertTurnKeeps DEF MemoryInv
<1>7. ASSUME NEW q \in Requests, WorkerStep(q) PROVE MemoryInv'
  BY <1>0, <1>7, WorkerLeavesTurns DEF MemoryInv
<1> QED BY <1>1, <1>2, <1>3, <1>4, <1>5, <1>6, <1>7 DEF Next

\* A stored turn survives its regenerations but for faults, crashes and deletions.
THEOREM TurnSurvives == Spec => []RegenerationKeepsTurn
<1>1. Init => MemoryInv
  BY TypeInitially, TurnInitially DEF MemoryInv
<1>2. MemoryInv => RegenerationKeepsTurn
  BY DEF MemoryInv
<1> QED BY <1>1, <1>2, MemoryStep, PTL DEF Spec

\* A turn is doubled only by two requests between their DELETE and their INSERT at once.
THEOREM NoDoubleWithoutOverlap == Spec => []DuplicatesNeedOverlap
<1>1. Init => MemoryInv
  BY TypeInitially, TurnInitially DEF MemoryInv
<1>2. MemoryInv => DuplicatesNeedOverlap
  <2> SUFFICES ASSUME MemoryInv, NEW t \in Turn \ overlaps
               PROVE  ~(Cardinality(TurnRows(t)) > 1)
    BY DEF DuplicatesNeedOverlap
  <2>1. CASE TurnRows(t) = {}
    BY <2>1, FS_EmptySet
  <2>2. CASE TurnRows(t) # {}
    <3>1. PICK r : r \in TurnRows(t)
      BY <2>2
    <3>2. TurnRows(t) = {r}
      BY <3>1 DEF MemoryInv, TurnInv
    <3>3. Cardinality({r}) = 1
      BY FS_Singleton
    <3> QED BY <3>2, <3>3
  <2> QED BY <2>1, <2>2
<1> QED BY <1>1, <1>2, MemoryStep, PTL DEF Spec
===================================================================================
