-------------------------------- MODULE MemoryStore --------------------------------
(***************************************************************************)
(* The storage the memory life cycle works on: the csa_memory_<char>       *)
(* tables, the spm_cold_archives table (both scripts/init_db.sql) and the  *)
(* directory of archive files (proxy/rag/tier_manager.py).  TierManager     *)
(* acts on these variables one SQL statement or file operation at a time.  *)
(*                                                                         *)
(* Statements of one connection that are not in a transaction commit one   *)
(* by one, and each of them is an await: everything else may happen in     *)
(* between.                                                                *)
(***************************************************************************)
EXTENDS Integers, FiniteSets

CONSTANTS Chars,        \* character ids, lower case: one memory table each
          Sessions,     \* session ids
          Texts,        \* sensory inputs
          Ids,          \* uuids of memory rows: gen_random_uuid() draws fresh ones
          ArchiveIds,   \* uuids of spm_cold_archives rows
          MaxTime,      \* bound of the clock, for TLC
          None          \* SQL NULL, Python None

ASSUME MaxTimeAssumption == MaxTime \in Nat
ASSUME NoneAssumption == None \notin Chars \cup Sessions \cup ArchiveIds

VARIABLES hot,          \* the rows of all csa_memory tables
          registry,     \* spm_cold_archives: its row for an archive id, or None
          files,        \* the archive files: the rows in the file at a path
          now,          \* wall clock, in units of the file name's second
          usedIds,      \* uuids drawn for memory rows
          usedArchiveIds

storeVars == <<hot, registry, files, now, usedIds, usedArchiveIds>>

Times == 0 .. MaxTime

\* A row of a memory table.  "vec": it has its embedding and its public response.
Row == [id : Ids, char : Chars, sess : Sessions, ts : Times, text : Texts,
        core : BOOLEAN, vec : BOOLEAN]

\* f"{session_id}_{ts}.jsonl.gz" in the character's directory, ts in whole seconds.
Path == [char : Chars, sess : Sessions, second : Times]

\* A row of spm_cold_archives.
Entry == [char : Chars, sess : Sessions, path : Path, count : Nat]

ASSUME NullAssumption == None \notin Path /\ None \notin Entry

IdsOf(rows) == {r.id : r \in rows}

\* The table of character c has the primary key i.
KeyTaken(c, i) == \E r \in hot : r.char = c /\ r.id = i

Registered(a) == registry[a] # None

\* An archive without rows is never written: {} stands for a path with no file.
FileExists(path) == files[path] # {}

StoreTypeOK ==
    /\ hot \subseteq Row
    /\ registry \in [ArchiveIds -> Entry \cup {None}]
    /\ files \in [Path -> SUBSET Row]
    /\ now \in Times
    /\ usedIds \subseteq Ids
    /\ usedArchiveIds \subseteq ArchiveIds

StoreInit ==
    /\ hot = {}
    /\ registry = [a \in ArchiveIds |-> None]
    /\ files = [p \in Path |-> {}]
    /\ now = 0
    /\ usedIds = {}
    /\ usedArchiveIds = {}

Tick ==
    /\ now < MaxTime
    /\ now' = now + 1
    /\ UNCHANGED <<hot, registry, files, usedIds, usedArchiveIds>>
====================================================================================
