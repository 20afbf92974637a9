-------------------------------- MODULE TierManager --------------------------------
(***************************************************************************)
(* proxy/rag/tier_manager.py: archive_old_memories moves old volatile rows *)
(* to a file, reconstitute_cold_archive moves a file's rows back.  Neither *)
(* uses a transaction, any number of requests run at once, and each may    *)
(* end between any two of its steps (an exception, or the process dies).   *)
(*                                                                         *)
(* Archivers and Restorers are the requests being served.  A memory row is *)
(* written by whoever writes one (Remember).                               *)
(***************************************************************************)
EXTENDS MemoryStore

CONSTANTS Archivers,    \* concurrent POST /v1/memories/archive requests
          Restorers,    \* concurrent POST /v1/memories/reconstitute requests
          ArchiveAge,   \* max_age_days, in clock units
          BatchLimit,   \* max_records
          MaxFaults     \* bound on the inserts that fail for a reason of their own

ASSUME ArchiveAgeAssumption == ArchiveAge \in Nat

VARIABLES archivers,    \* archivers[p]: where request p is, and its locals
          restorers,
          faults,       \* number of failed inserts so far
          stored,       \* history: ids of all rows ever written
          usedPaths,    \* history: paths ever written
          reusedPaths,  \* history: paths written more than once
          excused       \* history: ids that an overwritten file or a failed insert hit

tierVars == <<archivers, restorers, faults, stored, usedPaths, reusedPaths, excused>>
vars == <<hot, registry, files, now, usedIds, usedArchiveIds,
          archivers, restorers, faults, stored, usedPaths, reusedPaths, excused>>

ArchiverState ==
    [pc : {"idle", "write", "register", "delete"}, char : Chars \cup {None},
     sess : Sessions \cup {None}, batch : SUBSET Row, path : Path \cup {None},
     aid : ArchiveIds \cup {None}]
RestorerState ==
    [pc : {"idle", "open", "insert", "remove"}, aid : ArchiveIds \cup {None},
     char : Chars \cup {None}, entry : Entry \cup {None},
     todo : SUBSET Row, errors : SUBSET Ids]

IdleArchiver == [pc |-> "idle", char |-> None, sess |-> None, batch |-> {},
                 path |-> None, aid |-> None]
IdleRestorer == [pc |-> "idle", aid |-> None, char |-> None, entry |-> None,
                 todo |-> {}, errors |-> {}]

TypeOK ==
    /\ StoreTypeOK
    /\ archivers \in [Archivers -> ArchiverState]
    /\ restorers \in [Restorers -> RestorerState]
    /\ faults \in Nat
    /\ stored \subseteq Ids
    /\ usedPaths \subseteq Path
    /\ reusedPaths \subseteq usedPaths
    /\ excused \subseteq Ids

Init ==
    /\ StoreInit
    /\ archivers = [p \in Archivers |-> IdleArchiver]
    /\ restorers = [q \in Restorers |-> IdleRestorer]
    /\ faults = 0
    /\ stored = {}
    /\ usedPaths = {}
    /\ reusedPaths = {}
    /\ excused = {}

\* Some part of the program stores a memory: INSERT with a fresh id and the current
\* time.  Turns and imports write volatile rows, the sleep cycle core ones.
Remember(c, s, x, core) ==
    \E i \in Ids \ usedIds :
        /\ hot' = hot \cup {[id |-> i, char |-> c, sess |-> s, ts |-> now, text |-> x,
                             core |-> core, vec |-> TRUE]}
        /\ usedIds' = usedIds \cup {i}
        /\ stored' = stored \cup {i}
        /\ UNCHANGED <<registry, files, now, usedArchiveIds, archivers, restorers,
                       faults, usedPaths, reusedPaths, excused>>

------------------------------------------------------------------------------------
\* archive_old_memories

\* Mutant: the SELECT forgets is_core_memory = FALSE.
EligibleWithCore(c, s) ==
    {r \in hot : r.char = c /\ r.sess = s /\ r.ts <= now - ArchiveAge}

\* WHERE session_id = $1 AND is_core_memory = FALSE AND timestamp <= cutoff
Eligible(c, s) ==
    {r \in hot : r.char = c /\ r.sess = s /\ ~r.core /\ r.ts <= now - ArchiveAge}

\* ORDER BY timestamp ASC LIMIT max_records: rows of the same time in any order.
OldestFirst(rows) ==
    {batch \in SUBSET rows :
        /\ Cardinality(batch) <= BatchLimit
        /\ Cardinality(batch) < BatchLimit => batch = rows
        /\ \A r \in batch, q \in rows \ batch : r.ts <= q.ts}

\* The request fetches its rows.  With none it returns without another step.
SelectRows(p, c, s) ==
    /\ archivers[p].pc = "idle"
    /\ \E batch \in OldestFirst(Eligible(c, s)) \ {{}} :
        archivers' = [archivers EXCEPT ![p] =
            [pc |-> "write", char |-> c, sess |-> s, batch |-> batch,
             path |-> None, aid |-> None]]
    /\ UNCHANGED <<storeVars, restorers, faults, stored, usedPaths, reusedPaths, excused>>

\* gzip.open(path, "wt"): the file of this second is created, or overwritten.
WriteFile(p) ==
    LET job == archivers[p]
        path == [char |-> job.char, sess |-> job.sess, second |-> now]
    IN /\ job.pc = "write"
       /\ files' = [files EXCEPT ![path] = job.batch]
       /\ archivers' = [archivers EXCEPT ![p].pc = "register", ![p].path = path]
       /\ usedPaths' = usedPaths \cup {path}
       /\ \/ path \notin usedPaths /\ UNCHANGED <<reusedPaths, excused>>
          \/ /\ path \in usedPaths
             /\ reusedPaths' = reusedPaths \cup {path}
             /\ excused' = excused \cup IdsOf(job.batch) \cup IdsOf(files[path])
       /\ UNCHANGED <<hot, registry, now, usedIds, usedArchiveIds, restorers, faults, stored>>

\* INSERT INTO spm_cold_archives ... RETURNING archive_id
Register(p) ==
    LET job == archivers[p]
    IN /\ job.pc = "register"
       /\ \E a \in ArchiveIds \ usedArchiveIds :
            /\ registry' = [registry EXCEPT ![a] =
                 [char |-> job.char, sess |-> job.sess, path |-> job.path,
                  count |-> Cardinality(job.batch)]]
            /\ usedArchiveIds' = usedArchiveIds \cup {a}
            /\ archivers' = [archivers EXCEPT ![p].pc = "delete", ![p].aid = a]
       /\ UNCHANGED <<hot, files, now, usedIds, restorers, faults, stored, usedPaths, reusedPaths, excused>>

\* Mutant: the DELETE repeats the condition of the SELECT, without its limit.
DeleteByAge(p) ==
    LET job == archivers[p]
    IN /\ job.pc = "delete"
       /\ hot' = hot \ Eligible(job.char, job.sess)
       /\ archivers' = [archivers EXCEPT ![p] = IdleArchiver]
       /\ UNCHANGED <<registry, files, now, usedIds, usedArchiveIds, restorers, faults,
                      stored, usedPaths, reusedPaths, excused>>

\* DELETE ... WHERE id = ANY(ids) AND is_core_memory = FALSE; the reply is sent.
DeleteRows(p) ==
    LET job == archivers[p]
    IN /\ job.pc = "delete"
       /\ hot' = {r \in hot : ~(r.char = job.char /\ r.id \in IdsOf(job.batch) /\ ~r.core)}
       /\ archivers' = [archivers EXCEPT ![p] = IdleArchiver]
       /\ UNCHANGED <<registry, files, now, usedIds, usedArchiveIds, restorers, faults,
                      stored, usedPaths, reusedPaths, excused>>

\* The request ends early: an exception, or the process dies.
AbortArchive(p) ==
    /\ archivers[p].pc # "idle"
    /\ archivers' = [archivers EXCEPT ![p] = IdleArchiver]
    /\ UNCHANGED <<storeVars, restorers, faults, stored, usedPaths, reusedPaths, excused>>

------------------------------------------------------------------------------------
\* reconstitute_cold_archive

\* A client learns an archive's id from the reply to its request; nobody can name the
\* archive of a request still running.
Disclosed(a) == \A p \in Archivers : archivers[p].aid # a

\* The registry row is fetched and its file exists; otherwise ValueError or
\* FileNotFoundError, with no state changed.  The character is the caller's choice.
Lookup(q, a, c) ==
    /\ restorers[q].pc = "idle"
    /\ Disclosed(a)
    /\ Registered(a)
    /\ FileExists(registry[a].path)
    /\ restorers' = [restorers EXCEPT ![q] =
         [pc |-> "open", aid |-> a, char |-> c, entry |-> registry[a],
          todo |-> {}, errors |-> {}]]
    /\ UNCHANGED <<storeVars, archivers, faults, stored, usedPaths, reusedPaths, excused>>

\* gzip.open(path, "rt"): what the file holds now is what will be inserted.
OpenFile(q) ==
    LET job == restorers[q]
    IN /\ job.pc = "open"
       /\ FileExists(job.entry.path)
       /\ restorers' = [restorers EXCEPT ![q].pc = "insert",
                                         ![q].todo = files[job.entry.path]]
       /\ UNCHANGED <<storeVars, archivers, faults, stored, usedPaths, reusedPaths, excused>>

\* Mutant: the registry row is passed where its session id is expected.
RestoredWithEntry(r, job) ==
    [r EXCEPT !.char = job.char, !.sess = job.entry, !.vec = FALSE]

\* The row _insert_memory_record writes for a line of the file: the old id and time,
\* the archive's session, the caller's character.  The SELECT that filled the file
\* leaves public_response out, and the embedding (a pgvector text, for asyncpg) does
\* not survive _embedding_to_list: both come back as NULL.
RestoredRow(r, job) ==
    [r EXCEPT !.char = job.char, !.sess = job.entry.sess, !.vec = FALSE]

\* One line of the file: the insert succeeds, meets its own primary key in the table,
\* or fails for another reason.  Every exception is caught and counted.
InsertRow(q) ==
    LET job == restorers[q]
    IN /\ job.pc = "insert"
       /\ \E r \in job.todo :
            \/ /\ ~KeyTaken(job.char, r.id)
               /\ hot' = hot \cup {RestoredRow(r, job)}
               /\ restorers' = [restorers EXCEPT ![q].todo = @ \ {r}]
               /\ UNCHANGED <<faults, excused>>
            \/ /\ KeyTaken(job.char, r.id)
               /\ restorers' = [restorers EXCEPT ![q].todo = @ \ {r},
                                                 ![q].errors = @ \cup {r.id}]
               /\ UNCHANGED <<hot, faults, excused>>
            \/ /\ faults < MaxFaults
               /\ restorers' = [restorers EXCEPT ![q].todo = @ \ {r},
                                                 ![q].errors = @ \cup {r.id}]
               /\ faults' = faults + 1
               /\ excused' = excused \cup {r.id}
               /\ UNCHANGED hot
       /\ UNCHANGED <<registry, files, now, usedIds, usedArchiveIds, archivers, stored,
                      usedPaths, reusedPaths>>

\* Mutant: the registry row goes before the loop over the file has ended.
UnregisterEarly(q) ==
    LET job == restorers[q]
    IN /\ job.pc = "insert"
       /\ registry' = [registry EXCEPT ![job.aid] = None]
       /\ restorers' = [restorers EXCEPT ![q].pc = "remove"]
       /\ UNCHANGED <<hot, files, now, usedIds, usedArchiveIds, archivers, faults, stored,
                      usedPaths, reusedPaths, excused>>

\* DELETE FROM spm_cold_archives, whatever the number of errors.
Unregister(q) ==
    LET job == restorers[q]
    IN /\ job.pc = "insert"
       /\ job.todo = {}
       /\ registry' = [registry EXCEPT ![job.aid] = None]
       /\ restorers' = [restorers EXCEPT ![q].pc = "remove"]
       /\ UNCHANGED <<hot, files, now, usedIds, usedArchiveIds, archivers, faults, stored,
                      usedPaths, reusedPaths, excused>>

\* Mutant: the file goes first, and a request cut off there leaves its registry row.
RemoveBeforeUnregister(q) ==
    LET job == restorers[q]
    IN /\ job.pc = "insert"
       /\ job.todo = {}
       /\ files' = [files EXCEPT ![job.entry.path] = {}]
       /\ restorers' = [restorers EXCEPT ![q].pc = "remove"]
       /\ UNCHANGED <<hot, registry, now, usedIds, usedArchiveIds, archivers, faults,
                      stored, usedPaths, reusedPaths, excused>>

\* os.remove(path), an OSError ignored; the reply is sent.
RemoveFile(q) ==
    LET job == restorers[q]
    IN /\ job.pc = "remove"
       /\ files' = [files EXCEPT ![job.entry.path] = {}]
       /\ restorers' = [restorers EXCEPT ![q] = IdleRestorer]
       /\ UNCHANGED <<hot, registry, now, usedIds, usedArchiveIds, archivers, faults,
                      stored, usedPaths, reusedPaths, excused>>

\* An exception nothing catches (the file went away before it was opened, the pool is
\* closed), or the process dies.
AbortRestore(q) ==
    /\ restorers[q].pc # "idle"
    /\ restorers' = [restorers EXCEPT ![q] = IdleRestorer]
    /\ UNCHANGED <<storeVars, archivers, faults, stored, usedPaths, reusedPaths, excused>>

------------------------------------------------------------------------------------
ArchiveStep(p) ==
    \/ \E c \in Chars, s \in Sessions : SelectRows(p, c, s)
    \/ WriteFile(p)
    \/ Register(p)
    \/ DeleteRows(p)
    \/ AbortArchive(p)

RestoreStep(q) ==
    \/ \E a \in ArchiveIds, c \in Chars : Lookup(q, a, c)
    \/ OpenFile(q)
    \/ InsertRow(q)
    \/ Unregister(q)
    \/ RemoveFile(q)
    \/ AbortRestore(q)

Next ==
    \/ \E c \in Chars, s \in Sessions, x \in Texts, core \in BOOLEAN :
        Remember(c, s, x, core)
    \/ \E p \in Archivers : ArchiveStep(p)
    \/ \E q \in Restorers : RestoreStep(q)
    \/ Tick /\ UNCHANGED tierVars

Spec == Init /\ [][Next]_vars

------------------------------------------------------------------------------------
\* Properties

InHot(i) == \E r \in hot : r.id = i

\* Row i can be brought back from archive a.
InArchive(i, a) ==
    /\ Registered(a)
    /\ FileExists(registry[a].path)
    /\ i \in IdsOf(files[registry[a].path])

\* Archiving and restoring move memories and never drop them: every row ever stored is
\* in a table or in the file of a registered archive, whichever requests overlap and
\* wherever they are cut off.  The only rows excused are those of a file written twice
\* in one second, and those whose insert failed during a restoration.
NoSilentLoss ==
    \A i \in stored :
        InHot(i) \/ i \in excused \/ \E a \in ArchiveIds : InArchive(i, a)

\* The same with no excuse: what the test of the archive and reconstitute cycle states
\* ("should restore all original records", tests/test_fr003_tiered_lifecycle.py:383).
NothingLost ==
    \A i \in stored : InHot(i) \/ \E a \in ArchiveIds : InArchive(i, a)

\* Core Memory Immunity (tier_manager.py:10): no step takes a core row out of its table
\* or changes it, and no archive file ever holds one.
CoreImmunity ==
    [][/\ \A r \in hot : r.core => r \in hot'
       /\ \A path \in Path : \A r \in files'[path] : ~r.core]_vars

\* A registered archive can be restored in full: whatever was cut off in between, its
\* file exists and holds as many rows as the registry says (unless its path was
\* written twice).
ArchiveRestorable ==
    \A a \in ArchiveIds :
        Registered(a) /\ registry[a].path \notin reusedPaths =>
            /\ FileExists(registry[a].path)
            /\ Cardinality(files[registry[a].path]) = registry[a].count

------------------------------------------------------------------------------------
\* The inductive invariant behind NoSilentLoss

\* Row i is safe in archive a: its file has the row, and no restoration of a, which
\* will end by dropping a, has already been past the row.
SafeIn(i, a) ==
    /\ InArchive(i, a)
    /\ \A q \in Restorers :
        restorers[q].pc = "insert" /\ restorers[q].aid = a => i \in IdsOf(restorers[q].todo)

RowsSafe ==
    \A i \in stored : InHot(i) \/ i \in excused \/ \E a \in ArchiveIds : SafeIn(i, a)

\* What an archiving request knows.  Before it registers its file, the file holds its rows,
\* or was written twice.  Until it deletes its rows, they are in the file of its registered
\* archive, or excused: the archive may be dropped from under it (Lifecycle).
ArchiverOK(p) == LET job == archivers[p] IN
    /\ job.pc # "delete" <=> job.aid = None
    /\ job.pc # "idle" => job.char \in Chars /\ job.sess \in Sessions /\ job.batch # {}
    /\ job.pc \in {"register", "delete"} => job.path \in usedPaths
    /\ job.pc = "register" =>
        /\ job.path \notin reusedPaths => files[job.path] = job.batch
        /\ job.path \in reusedPaths => IdsOf(job.batch) \subseteq excused
    /\ job.pc = "delete" =>
        \/ IdsOf(job.batch) \subseteq excused
        \/ /\ Registered(job.aid) /\ registry[job.aid].path = job.path
           /\ job.path \notin reusedPaths /\ files[job.path] = job.batch

ArchiverInv == \A p \in Archivers : ArchiverOK(p)

\* What a restoration knows: its archive has its entry or is gone for good, and it
\* removes the file only of an archive that is gone.
RestorerOK(q) == LET job == restorers[q] IN
    job.pc # "idle" =>
        /\ job.aid \in usedArchiveIds
        /\ job.char \in Chars
        /\ job.entry \in Entry
        /\ job.entry.path \in usedPaths
        /\ Registered(job.aid) => registry[job.aid] = job.entry
        /\ job.pc = "remove" => ~Registered(job.aid)
        /\ Disclosed(job.aid)

RestorerInv == \A q \in Restorers : RestorerOK(q)

\* A path written once belongs to one archive: at most one registered archive, one
\* request about to register it, or the restorations of that archive.
PathsInv ==
    /\ \A a, b \in ArchiveIds :
        /\ Registered(a) /\ Registered(b) /\ a # b /\ registry[a].path = registry[b].path
        => registry[a].path \in reusedPaths
    /\ \A a \in ArchiveIds, p \in Archivers :
        /\ Registered(a) /\ archivers[p].pc = "register" /\ registry[a].path = archivers[p].path
        => registry[a].path \in reusedPaths
    /\ \A p, r \in Archivers :
        /\ archivers[p].pc = "register" /\ archivers[r].pc = "register" /\ p # r
        /\ archivers[p].path = archivers[r].path
        => archivers[p].path \in reusedPaths
    /\ \A a \in ArchiveIds, q \in Restorers :
        /\ Registered(a) /\ restorers[q].pc # "idle" /\ restorers[q].aid # a
        /\ registry[a].path = restorers[q].entry.path
        => registry[a].path \in reusedPaths
    /\ \A p \in Archivers, q \in Restorers :
        /\ archivers[p].pc = "register" /\ restorers[q].pc # "idle"
        /\ archivers[p].path = restorers[q].entry.path
        => archivers[p].path \in reusedPaths

\* The file of a path written twice holds excused rows only.
ReusedInv ==
    \A path \in reusedPaths : IdsOf(files[path]) \subseteq excused

\* A registered archive has been given its id and its path.
RegistryInv ==
    \A a \in ArchiveIds :
        Registered(a) => a \in usedArchiveIds /\ registry[a].path \in usedPaths

\* Only volatile rows are in flight or in files.
VolatileInv ==
    /\ \A p \in Archivers : \A r \in archivers[p].batch : ~r.core
    /\ \A q \in Restorers : \A r \in restorers[q].todo : ~r.core
    /\ \A path \in Path : \A r \in files[path] : ~r.core

\* Tables and batches are finite, so that a batch has a number of rows.
FiniteInv == IsFiniteSet(hot) /\ \A p \in Archivers : IsFiniteSet(archivers[p].batch)

TierInv ==
    /\ TypeOK
    /\ FiniteInv
    /\ RowsSafe
    /\ ArchiverInv
    /\ RestorerInv
    /\ PathsInv
    /\ ReusedInv
    /\ RegistryInv
    /\ ArchiveRestorable
    /\ VolatileInv
====================================================================================
