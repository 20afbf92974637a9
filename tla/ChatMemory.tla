--------------------------------- MODULE ChatMemory ---------------------------------
(***************************************************************************)
(* What chat requests write to a character's memory table: the turn they      *)
(* finish (proxy/api/routes.py, chat_completions) and the history they bring  *)
(* along when their session is new (_check_bulk_import and                    *)
(* proxy/rag/import_worker.py), beside the administrator's delete_session     *)
(* (proxy/api/admin_routes.py).                                               *)
(*                                                                            *)
(* Handlers and background tasks share one asyncio process and every SQL      *)
(* statement is an await that commits by itself, so each statement is one     *)
(* step and anything may happen between two of them: a statement fails, the   *)
(* client goes away, the process dies.  Texts that differ in case only are    *)
(* one text; one character and its table stand for all.                       *)
(***************************************************************************)
EXTENDS Integers, Sequences, FiniteSets

CONSTANTS Requests,     \* chat requests, each sent once
          Sessions,     \* session ids
          Texts,        \* contents of messages
          Histories,    \* the messages of a request; the last is the user's text
          Threshold,    \* BULK_IMPORT_THRESHOLD
          BatchSize,    \* _compute_dynamic_batch_size()
          MaxTrouble,   \* bound for TLC: statements and embeddings that fail, clients
                        \* that go away, deletions of a session and deaths of the process
          None          \* no import registered, no import_id

ASSUME HistoryAssumption == Histories \subseteq Seq(Texts) /\ <<>> \notin Histories
ASSUME BatchAssumption == Threshold \in Nat /\ BatchSize \in Nat \ {0}
ASSUME TroubleAssumption == MaxTrouble \in Nat
ASSUME SomeAssumption == Sessions # {} /\ Histories # {}

VARIABLES imports,      \* spm_chat_imports: session_id is unique
          rows,         \* csa_memory_<char>
          chat,         \* chat requests
          worker,       \* the import task a request has spawned
          deleting,     \* the session delete_session is at work on, or None
          faults, deletes, crashes,
          wiped,        \* sessions that were ever deleted
          written,      \* the messages a worker has inserted, in order
          persisted,    \* turns that were ever stored
          overlaps      \* turns that two requests were persisting at the same time

tables == <<imports, rows>>
history == <<wiped, written, persisted, overlaps>>
vars == <<tables, chat, worker, deleting, faults, deletes, crashes, history>>

Turn == [session : Sessions, input : Texts]

\* place 0: the turn of request by; otherwise message number place of its history.
Row == [session : Sessions, input : Texts, by : Requests, place : Nat]

Import == [id : Requests, status : {"pending", "processing", "completed",
             "completed_with_errors", "failed"}, processed : Nat]

ASSUME NoneAssumption == None \notin Requests \cup Import

Chat == [pc : {"idle", "check", "register", "generate", "delete", "insert", "done"},
         session : Sessions, messages : Histories]

Worker == [pc : {"none", "lookup", "batch", "insert", "progress", "finalize", "fatal", "done"},
           id : Requests \cup {None}, at : Nat, errors : BOOLEAN]

TypeOK ==
    /\ imports \in [Sessions -> Import \cup {None}]
    /\ rows \subseteq Row
    /\ chat \in [Requests -> Chat]
    /\ worker \in [Requests -> Worker]
    /\ deleting \in Sessions \cup {None}
    /\ faults \in Nat /\ deletes \in Nat /\ crashes \in Nat
    /\ wiped \subseteq Sessions
    /\ written \in [Requests -> Seq(Nat)]
    /\ persisted \subseteq Turn /\ overlaps \subseteq Turn

Messages(q) == chat[q].messages
UserText(q) == Messages(q)[Len(Messages(q))]
TurnOf(q) == [session |-> chat[q].session, input |-> UserText(q)]

NoRequest == [pc |-> "idle", session |-> CHOOSE s \in Sessions : TRUE,
              messages |-> CHOOSE h \in Histories : TRUE]
NoWorker == [pc |-> "none", id |-> None, at |-> 1, errors |-> FALSE]

Init ==
    /\ imports = [s \in Sessions |-> None]
    /\ rows = {}
    /\ chat = [q \in Requests |-> NoRequest]
    /\ worker = [q \in Requests |-> NoWorker]
    /\ deleting = None
    /\ faults = 0 /\ deletes = 0 /\ crashes = 0
    /\ wiped = {} /\ persisted = {} /\ overlaps = {}
    /\ written = [q \in Requests |-> <<>>]

MayTrouble == faults + deletes + crashes < MaxTrouble

\* A statement or an embedding raises an exception, or the client of a streamed answer
\* goes away and the task that is storing the turn is cancelled.
Fault == MayTrouble /\ faults' = faults + 1
NoFault == UNCHANGED faults

Goto(q, pc) == chat' = [chat EXCEPT ![q].pc = pc]

------------------------------------------------------------------------------------
\* A chat request

Arrive(q, s, h) ==
    /\ chat[q].pc = "idle"
    /\ chat' = [chat EXCEPT ![q] = [pc |-> "check", session |-> s, messages |-> h]]
    /\ UNCHANGED <<tables, worker, deleting, faults, deletes, crashes, history>>

\* _check_bulk_import: a session that is known, or a query that fails, imports nothing.
CheckImport(q) ==
    /\ chat[q].pc = "check"
    /\ \/ NoFault /\ Goto(q, IF imports[chat[q].session] = None /\ Len(Messages(q)) > Threshold
                               THEN "register" ELSE "generate")
       \/ Fault /\ Goto(q, "generate")
    /\ UNCHANGED <<tables, worker, deleting, deletes, crashes, history>>

\* Mutant: INSERT ... ON CONFLICT (session_id) DO UPDATE.
Upsert(q) == TRUE

\* The unique session_id lets the INSERT pass.
Unregistered(q) == imports[chat[q].session] = None

\* register_import_job, and a task is spawned.  An exception is not handled: status 500.
RegisterImport(q) ==
    /\ chat[q].pc = "register"
    /\ \/ /\ Unregistered(q)
          /\ imports' = [imports EXCEPT ![chat[q].session] =
               [id |-> q, status |-> "pending", processed |-> 0]]
          /\ worker' = [worker EXCEPT ![q].pc = "lookup"]
          /\ Goto(q, "generate") /\ NoFault
       \/ ~Unregistered(q) /\ Goto(q, "done") /\ NoFault /\ UNCHANGED <<imports, worker>>
       \/ Fault /\ Goto(q, "done") /\ UNCHANGED <<imports, worker>>
    /\ UNCHANGED <<rows, deleting, deletes, crashes, history>>

\* World, retrieval and generation.  The turn is not persisted if it is bypassed, if its
\* public text is empty, or if the client of a streamed answer goes away before its end.
Generate(q) ==
    /\ chat[q].pc = "generate"
    /\ \E pc \in {"delete", "done"} : Goto(q, pc)
    /\ UNCHANGED <<tables, worker, deleting, faults, deletes, crashes, history>>

\* Requests that are between the two statements of the same turn.
Persisting(t) == {q \in Requests : chat[q].pc = "insert" /\ TurnOf(q) = t}

\* Mutant: "LOWER(sensory_input) = $2" finds nothing.
NoOldRows(q) == {}

\* Earlier rows of this text in this session, turns and imported messages.
OldRows(q) == {r \in rows : r.session = chat[q].session /\ r.input = UserText(q)}

\* DELETE: what the turn replaces.
DeleteOldTurn(q) ==
    /\ chat[q].pc = "delete"
    /\ \/ /\ NoFault
          /\ rows' = rows \ OldRows(q)
          /\ overlaps' = IF Persisting(TurnOf(q)) = {} THEN overlaps
                         ELSE overlaps \cup {TurnOf(q)}
          /\ Goto(q, "insert")
       \/ Fault /\ Goto(q, "done") /\ UNCHANGED <<rows, overlaps>>
    /\ UNCHANGED <<imports, worker, deleting, deletes, crashes, wiped, written, persisted>>

\* Mutant: a turn that was stored before is taken to be still there.
NewRowsOnce(q) ==
    IF TurnOf(q) \in persisted THEN {}
    ELSE {[session |-> chat[q].session, input |-> UserText(q), by |-> q, place |-> 0]}

NewRows(q) ==
    {[session |-> chat[q].session, input |-> UserText(q), by |-> q, place |-> 0]}

\* The embedding and the INSERT; after an exception or a cancellation the old row is gone.
InsertTurn(q) ==
    /\ chat[q].pc = "insert"
    /\ \/ /\ NoFault
          /\ rows' = rows \cup NewRows(q)
          /\ persisted' = persisted \cup {TurnOf(q)}
       \/ Fault /\ UNCHANGED <<rows, persisted>>
    /\ Goto(q, "done")
    /\ UNCHANGED <<imports, worker, deleting, deletes, crashes, wiped, written, overlaps>>

------------------------------------------------------------------------------------
\* The import task of request q: process_bulk_import_background

Total(q) == Len(Messages(q))

\* The last message of the batch that message i is in.
BatchEnd(q, i) ==
    LET e == ((i - 1) \div BatchSize + 1) * BatchSize IN IF e < Total(q) THEN e ELSE Total(q)

\* Where the loop over the batches goes on from message i.
BatchFrom(q, i) == IF i > Total(q) THEN "finalize" ELSE "batch"

Work(q, w) == worker' = [worker EXCEPT ![q] = w]

\* Mutant: COALESCE keeps the old status.
SetProgress(q, status, processed) ==
    imports' = [s \in Sessions |->
        IF imports[s] # None /\ imports[s].id = worker[q].id
        THEN [imports[s] EXCEPT !.processed = processed] ELSE imports[s]]

\* update_import_status: no row is updated if the import was deleted meanwhile.
SetStatus(q, status, processed) ==
    imports' = [s \in Sessions |->
        IF imports[s] # None /\ imports[s].id = worker[q].id
        THEN [imports[s] EXCEPT !.status = status, !.processed = processed]
        ELSE imports[s]]

\* The import_id is that of the session's row, if there is one.  If this query fails
\* nothing more happens, and if the table cannot be created the import has failed.
LookupImport(q) ==
    /\ worker[q].pc = "lookup"
    /\ LET found == imports[chat[q].session]
           id == IF found = None THEN None ELSE found.id
       IN \/ NoFault /\ Work(q, [worker[q] EXCEPT !.pc = BatchFrom(q, 1), !.id = id])
          \/ Fault /\ Work(q, [worker[q] EXCEPT !.pc = "done"])
          \/ Fault /\ Work(q, [worker[q] EXCEPT !.pc = "fatal", !.id = id])
    /\ UNCHANGED <<tables, chat, deleting, deletes, crashes, history>>

\* Mutant: the batch is skipped but its error is not noted.
SkipSilently(q) == [worker[q] EXCEPT !.pc = BatchFrom(q, BatchEnd(q, worker[q].at) + 1),
                                     !.at = BatchEnd(q, worker[q].at) + 1]

\* A batch that fails is noted, and what is left of it skipped.
SkipBatch(q) == [worker[q] EXCEPT !.pc = BatchFrom(q, BatchEnd(q, worker[q].at) + 1),
                                  !.at = BatchEnd(q, worker[q].at) + 1,
                                  !.errors = TRUE]

\* The embeddings of a batch.
StartBatch(q) ==
    /\ worker[q].pc = "batch"
    /\ \/ NoFault /\ Work(q, [worker[q] EXCEPT !.pc = "insert"])
       \/ Fault /\ Work(q, SkipBatch(q))
    /\ UNCHANGED <<tables, chat, deleting, deletes, crashes, history>>

InsertMessage(q) ==
    /\ worker[q].pc = "insert"
    /\ LET i == worker[q].at IN
        \/ /\ NoFault
           /\ rows' = rows \cup {[session |-> chat[q].session, input |-> Messages(q)[i],
                                  by |-> q, place |-> i]}
           /\ written' = [written EXCEPT ![q] = Append(@, i)]
           /\ IF i = BatchEnd(q, i) THEN Work(q, [worker[q] EXCEPT !.pc = "progress"])
              ELSE Work(q, [worker[q] EXCEPT !.at = i + 1])
        \/ Fault /\ Work(q, SkipBatch(q)) /\ UNCHANGED <<rows, written>>
    /\ UNCHANGED <<imports, chat, deleting, deletes, crashes, wiped, persisted, overlaps>>

\* The progress of the batch that ends at worker[q].at.
UpdateProgress(q) ==
    /\ worker[q].pc = "progress"
    /\ \/ /\ NoFault
          /\ SetStatus(q, "processing", worker[q].at)
          /\ Work(q, [worker[q] EXCEPT !.pc = BatchFrom(q, worker[q].at + 1), !.at = @ + 1])
       \/ Fault /\ Work(q, SkipBatch(q)) /\ UNCHANGED imports
    /\ UNCHANGED <<rows, chat, deleting, deletes, crashes, history>>

\* Mutant: a status nobody knows.
PartialStatus(q) == IF worker[q].errors THEN "partial" ELSE "completed"

FinalStatus(q) == IF worker[q].errors THEN "completed_with_errors" ELSE "completed"

\* The final status; failed batches count as processed.
FinalizeImport(q) ==
    /\ worker[q].pc = "finalize"
    /\ \/ /\ NoFault
          /\ SetStatus(q, FinalStatus(q), Total(q))
          /\ Work(q, [worker[q] EXCEPT !.pc = "done"])
       \/ Fault /\ Work(q, [worker[q] EXCEPT !.pc = "fatal"]) /\ UNCHANGED imports
    /\ UNCHANGED <<rows, chat, deleting, deletes, crashes, history>>

\* The outer exception handler.
FailImport(q) ==
    /\ worker[q].pc = "fatal"
    /\ \/ /\ NoFault
          /\ imports' = [s \in Sessions |->
               IF imports[s] # None /\ imports[s].id = worker[q].id
               THEN [imports[s] EXCEPT !.status = "failed"] ELSE imports[s]]
       \/ Fault /\ UNCHANGED imports
    /\ Work(q, [worker[q] EXCEPT !.pc = "done"])
    /\ UNCHANGED <<rows, chat, deleting, deletes, crashes, history>>

WorkerStep(q) ==
    \/ LookupImport(q) \/ StartBatch(q) \/ InsertMessage(q)
    \/ UpdateProgress(q) \/ FinalizeImport(q) \/ FailImport(q)

------------------------------------------------------------------------------------
\* The administrator and the process

\* delete_session: first the import record, then the memories.
DeleteImportRecord(s) ==
    /\ deleting = None /\ MayTrouble
    /\ imports' = [imports EXCEPT ![s] = None]
    /\ deleting' = s /\ deletes' = deletes + 1 /\ wiped' = wiped \cup {s}
    /\ UNCHANGED <<rows, chat, worker, faults, crashes, written, persisted, overlaps>>

DeleteMemories ==
    /\ deleting # None
    /\ \/ NoFault /\ rows' = {r \in rows : r.session # deleting}
       \/ Fault /\ UNCHANGED rows
    /\ deleting' = None
    /\ UNCHANGED <<imports, chat, worker, deletes, crashes, history>>

\* The process dies and is restarted; only the database remembers anything.
Crash ==
    /\ MayTrouble /\ crashes' = crashes + 1
    /\ chat' = [q \in Requests |-> IF chat[q].pc = "idle" THEN chat[q]
                                   ELSE [chat[q] EXCEPT !.pc = "done"]]
    /\ worker' = [q \in Requests |-> IF worker[q].pc = "none" THEN NoWorker
                                     ELSE [worker[q] EXCEPT !.pc = "done"]]
    /\ deleting' = None
    /\ UNCHANGED <<tables, faults, deletes, history>>

Next ==
    \/ \E q \in Requests, s \in Sessions, h \in Histories : Arrive(q, s, h)
    \/ \E q \in Requests : CheckImport(q) \/ RegisterImport(q) \/ Generate(q)
    \/ \E q \in Requests : DeleteOldTurn(q) \/ InsertTurn(q)
    \/ \E q \in Requests : WorkerStep(q)
    \/ \E s \in Sessions : DeleteImportRecord(s)
    \/ DeleteMemories \/ Crash

Spec == Init /\ [][Next]_vars

\* asyncio runs a task that is ready: an import goes on until it is done or the process
\* dies.  Nobody owes anything else.
FairSpec == Spec /\ \A q \in Requests : WF_vars(WorkerStep(q))

------------------------------------------------------------------------------------
\* Properties

Settled == {"completed", "completed_with_errors", "failed"}

\* "completed" can be trusted: each message of the history was inserted, in order and
\* once, in spite of failing batches, a concurrent first request and a crash.  (Once the
\* session was deleted a record may belong to another import than its worker.)
CompletedMeansImported ==
    \A s \in Sessions \ wiped :
        imports[s] # None /\ imports[s].status = "completed" =>
            LET q == imports[s].id IN written[q] = [i \in 1 .. Total(q) |-> i]

\* A session's history is imported by one task at most, however many requests of the new
\* session found it unregistered, and after a crash too.
ImportedOnce ==
    \A p, q \in Requests :
        /\ worker[p].pc # "none" /\ worker[q].pc # "none"
        /\ chat[p].session = chat[q].session /\ chat[p].session \notin wiped
        => p = q

TurnRows(t) == {r \in rows : r.session = t.session /\ r.input = t.input /\ r.place = 0}

\* A regenerated turn replaces the one before: there are two of it only if two requests
\* were between their DELETE and their INSERT at the same time.
DuplicatesNeedOverlap ==
    \A t \in Turn : Cardinality(TurnRows(t)) > 1 => t \in overlaps

\* A turn once stored stays stored while it is regenerated, up to the moment between the
\* two statements: it is missing for good only if a statement failed, a client went away,
\* the process died or the session was deleted.
RegenerationKeepsTurn ==
    \A t \in persisted :
        \/ TurnRows(t) # {}
        \/ Persisting(t) # {}
        \/ faults > 0 \/ crashes > 0 \/ t.session \in wiped

\* "Updates status to 'completed' or 'failed'" (import_worker.py:183): an import that was
\* registered is settled some day, unless the process dies, a statement fails or the
\* session is deleted.
ImportSettles ==
    \A s \in Sessions :
        imports[s] # None ~>
            \/ imports[s] # None /\ imports[s].status \in Settled
            \/ faults > 0 \/ crashes > 0 \/ s \in wiped

\* "Persist finalized turn without duplicate bleed on regeneration" (routes.py:495).
NoDuplicateTurn == \A t \in Turn : Cardinality(TurnRows(t)) <= 1
====================================================================================
