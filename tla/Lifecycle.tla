--------------------------------- MODULE Lifecycle ---------------------------------
(***************************************************************************)
(* The whole life of a memory row.  TierManager's requests share the tables  *)
(* with the two parts of the system that destroy rows: the sleep cycle       *)
(* (scripts/sleep_cycle.py), a process of its own that a timer starts every  *)
(* night, and the administrator's delete_session and factory_reset           *)
(* (proxy/api/admin_routes.py).                                              *)
(*                                                                           *)
(* The sleep cycle is the only code that uses a transaction: its INSERT and  *)
(* its DELETE are one step.  The administrator's statements commit one by    *)
(* one, and both may be cut off between any two steps.                       *)
(***************************************************************************)
EXTENDS TierManager

CONSTANTS Consolidated, \* 'sleep_cycle_consolidated', the session of summary nodes
          Node,         \* the text of a summary node
          Day,          \* INTERVAL '24 hours', in clock units
          Patience,     \* the longest a model call takes: httpx timeout, then a fallback
          Scopes,       \* what requests clear: the session that delete_session names, or
                        \* every session (factory_reset)
          MaxRounds     \* bound for TLC: runs of the sleep cycle and administrator's requests

ASSUME ConsolidatedAssumption == Consolidated \in Sessions /\ Node \in Texts
ASSUME ScopesAssumption == Scopes \subseteq SUBSET Sessions
ASSUME DayAssumption == Day \in Nat /\ Patience \in 0 .. Day

VARIABLES sleeper,      \* tonight's run
          lastLook,     \* when the last finished look at a table selected its rows
          admin,        \* the administrator's request
          rounds,
          summarised,   \* history: ids of rows that a stored summary was made from
          late,         \* history: tables that a night came to after more than a day
          unseen,       \* history: ids pruned on time, and yet before any summary
          wiped         \* history: ids that a deletion reported as done has removed

sleepVars == <<sleeper, lastLook, summarised, late, unseen>>
adminVars == <<admin, wiped>>
allVars == <<vars, sleepVars, adminVars, rounds>>

\* todo: tables still to come; char: the table whose logs the model is summarising.
SleeperState ==
    [todo : SUBSET Chars, char : Chars \cup {None}, logs : SUBSET Ids, since : Times]
\* todo: tables still to clear; doomed: rows that will be gone when all are.
AdminState == [scope : SUBSET Sessions, todo : SUBSET Chars, doomed : SUBSET Ids]

Asleep == [todo |-> {}, char |-> None, logs |-> {}, since |-> 0]
NoRequest == [scope |-> {}, todo |-> {}, doomed |-> {}]

\* TypeOK of TierManager goes for the other variables.
LifeTypeOK ==
    /\ sleeper \in SleeperState
    /\ lastLook \in [Chars -> Times]
    /\ admin \in AdminState
    /\ rounds \in Nat
    /\ summarised \cup unseen \cup wiped \subseteq Ids
    /\ late \subseteq Chars

LifeInit ==
    /\ Init
    /\ sleeper = Asleep
    /\ lastLook = [c \in Chars |-> 0]
    /\ admin = NoRequest
    /\ rounds = 0
    /\ summarised = {} /\ late = {} /\ unseen = {} /\ wiped = {}

------------------------------------------------------------------------------------
\* scripts/sleep_cycle.py

\* run: the tables are listed, then taken one after another.
FallAsleep ==
    /\ sleeper = Asleep
    /\ rounds < MaxRounds /\ rounds' = rounds + 1
    /\ sleeper' = [Asleep EXCEPT !.todo = Chars]
    /\ UNCHANGED <<vars, lastLook, summarised, late, unseen>>

\* Mutant: the start of the window is taken for the time of the look.
WindowStart == now - Day

\* NOW() of the SELECT
LookTime == now

\* Mutant: the window is open at its older end.
LogsOfShortDay(c) == {r \in hot : r.char = c /\ ~r.core /\ r.ts > now - Day}

\* WHERE is_core_memory = FALSE AND timestamp >= NOW() - INTERVAL '24 hours'
LogsOfDay(c) == {r \in hot : r.char = c /\ ~r.core /\ r.ts >= now - Day}

\* process_character_sleep_cycle fetches the logs of the day.  Without any it returns,
\* and prunes nothing.
SelectDay(c) ==
    /\ sleeper.char = None
    /\ c \in sleeper.todo
    /\ late' = IF now - lastLook[c] > Day THEN late \cup {c} ELSE late
    /\ \/ /\ LogsOfDay(c) = {}
          /\ sleeper' = [sleeper EXCEPT !.todo = @ \ {c}]
          /\ lastLook' = [lastLook EXCEPT ![c] = LookTime]
       \/ /\ LogsOfDay(c) # {}
          /\ sleeper' = [todo |-> sleeper.todo \ {c}, char |-> c,
                         logs |-> IdsOf(LogsOfDay(c)), since |-> LookTime]
          /\ UNCHANGED lastLook
    /\ UNCHANGED <<vars, summarised, unseen, rounds>>

\* Mutant: DELETE without is_core_memory = FALSE.
ExpiredWithCore(c) == {r \in hot : r.char = c /\ r.ts < now - Day}

\* DELETE ... WHERE is_core_memory = FALSE AND timestamp < NOW() - INTERVAL '24 hours'
Expired(c) == {r \in hot : r.char = c /\ ~r.core /\ r.ts < now - Day}

\* The model has answered, or failed and left the fallback sentence.  One transaction
\* stores the node and removes what is older than a day by now.  Of the rows that were
\* never restored and whose table no night was late for, a summary should know.
ConsolidateAndPrune ==
    LET c == sleeper.char
        known == summarised \cup sleeper.logs
    IN /\ c # None
       /\ \E i \in Ids \ usedIds :
            /\ hot' = (hot \ Expired(c)) \cup
                 {[id |-> i, char |-> c, sess |-> Consolidated, ts |-> now, text |-> Node,
                   core |-> TRUE, vec |-> FALSE]}
            /\ usedIds' = usedIds \cup {i}
            /\ stored' = stored \cup {i}
       /\ excused' = excused \cup IdsOf({r \in Expired(c) : ~r.core})
       /\ unseen' = unseen \cup
            {i \in IdsOf({r \in Expired(c) : r.vec /\ c \notin late}) : i \notin known}
       /\ summarised' = known \cap IdsOf(hot')
       /\ lastLook' = [lastLook EXCEPT ![c] = sleeper.since]
       /\ sleeper' = [Asleep EXCEPT !.todo = sleeper.todo]
       /\ UNCHANGED <<registry, files, now, usedArchiveIds, archivers, restorers, faults,
                      usedPaths, reusedPaths, late, rounds>>

\* The process ends before it is through.
AbortSleep ==
    /\ sleeper # Asleep
    /\ sleeper' = Asleep
    /\ UNCHANGED <<vars, lastLook, summarised, late, unseen, rounds>>

------------------------------------------------------------------------------------
\* proxy/api/admin_routes.py

ArchivesOf(scope) == {a \in ArchiveIds : Registered(a) /\ registry[a].sess \in scope}

ArchivedIn(archives) == UNION {IdsOf(files[registry[a].path]) : a \in archives}

\* Restorations that are about to read their file.
Opening == {q \in Restorers : restorers[q].pc = "open"}

\* Archiving requests that are about to register their file, which another request may
\* have overwritten within the same second.
Registering == {p \in Archivers : archivers[p].pc = "register"}

\* The rows that an archiving or a restoring request has hold of.
UnderWay ==
    (UNION {IdsOf(archivers[p].batch) : p \in Archivers}) \cup
    (UNION {IdsOf(files[archivers[p].path]) : p \in Registering}) \cup
    (UNION {IdsOf(restorers[q].todo) : q \in Restorers}) \cup
    (UNION {IdsOf(files[restorers[q].entry.path]) : q \in Opening})

\* What a request clears, but for the rows that someone has hold of.
Doomed(scope) ==
    (IdsOf({r \in hot : r.sess \in scope}) \cup ArchivedIn(ArchivesOf(scope))) \ UnderWay

\* Mutant: the archive records of the session are forgotten.
KeepArchives(scope) ==
    /\ admin = NoRequest
    /\ rounds < MaxRounds /\ rounds' = rounds + 1
    /\ admin' = [scope |-> scope, todo |-> Chars, doomed |-> Doomed(scope)]
    /\ UNCHANGED <<vars, wiped>>

\* DELETE FROM spm_cold_archives (TRUNCATE for a reset), after the import records, which
\* are ChatMemory's.  The archive files stay on disk.
DropArchives(scope) ==
    /\ admin = NoRequest
    /\ rounds < MaxRounds /\ rounds' = rounds + 1
    /\ registry' = [a \in ArchiveIds |->
                      IF a \in ArchivesOf(scope) THEN None ELSE registry[a]]
    /\ excused' = excused \cup ArchivedIn(ArchivesOf(scope))
    /\ admin' = [scope |-> scope, todo |-> Chars, doomed |-> Doomed(scope)]
    /\ UNCHANGED <<hot, files, now, usedIds, usedArchiveIds, archivers, restorers, faults,
                   stored, usedPaths, reusedPaths, wiped>>

\* The rows of table c that are to go.
Condemned(c) == {r \in hot : r.char = c /\ r.sess \in admin.scope}

\* After the last table the reply says "success".
TableCleared(c) ==
    /\ admin' = IF admin.todo = {c} THEN NoRequest ELSE [admin EXCEPT !.todo = @ \ {c}]
    /\ wiped' = IF admin.todo = {c} THEN wiped \cup admin.doomed ELSE wiped

\* Mutant: the DELETE of a table has no condition.
ClearWholeTable(c) ==
    /\ c \in admin.todo
    /\ hot' = {r \in hot : r.char # c}
    /\ excused' = excused \cup IdsOf(Condemned(c))
    /\ TableCleared(c)
    /\ UNCHANGED <<registry, files, now, usedIds, usedArchiveIds, archivers, restorers,
                   faults, stored, usedPaths, reusedPaths, rounds>>

\* DELETE FROM csa_memory_<c> WHERE session_id = $1, or TRUNCATE: core rows as well.
ClearTable(c) ==
    /\ c \in admin.todo
    /\ hot' = hot \ Condemned(c)
    /\ excused' = excused \cup IdsOf(Condemned(c))
    /\ TableCleared(c)
    /\ UNCHANGED <<registry, files, now, usedIds, usedArchiveIds, archivers, restorers,
                   faults, stored, usedPaths, reusedPaths, rounds>>

\* A statement fails (status 500), or the process dies.
AbortDelete ==
    /\ admin # NoRequest
    /\ admin' = NoRequest
    /\ UNCHANGED <<vars, wiped, rounds>>

------------------------------------------------------------------------------------
SleepStep ==
    \/ FallAsleep
    \/ \E c \in Chars : SelectDay(c)
    \/ ConsolidateAndPrune
    \/ AbortSleep

AdminStep ==
    \/ \E scope \in Scopes : DropArchives(scope)
    \/ \E c \in Chars : ClearTable(c)
    \/ AbortDelete

\* The steps of the requests: turns and imports store volatile rows.
RequestStep ==
    \/ \E c \in Chars, s \in Sessions \ {Consolidated}, x \in Texts \ {Node} :
        Remember(c, s, x, FALSE)
    \/ \E p \in Archivers : ArchiveStep(p)
    \/ \E q \in Restorers : RestoreStep(q)

\* Time does not overtake a model call beyond its timeout.
PassTime ==
    /\ sleeper.char # None => now < sleeper.since + Patience
    /\ Tick
    /\ UNCHANGED tierVars

\* A request that has hold of a row at any time of a deletion may carry it across.
Escort == admin' = [admin EXCEPT !.doomed = @ \ (UnderWay \cup UnderWay')]

RowStep ==
    \/ SleepStep
    \/ (RequestStep \/ PassTime) /\ UNCHANGED <<sleepVars, rounds>>

LifeNext ==
    \/ RowStep /\ Escort /\ UNCHANGED wiped
    \/ AdminStep /\ UNCHANGED sleepVars

LifeSpec == LifeInit /\ [][LifeNext]_allVars

------------------------------------------------------------------------------------
\* Properties

\* NoSilentLoss of the composition: "excused" are, beside TierManager's, the old volatile
\* rows the nightly prune takes and what an administrator's statements hit of the sessions
\* to be cleared, in the tables and in their archives.

\* The nights see everything before they prune it (sleep_cycle.py:4, "Summarizes ...
\* and prunes"): as long as each night looks at a table within a day of the last finished
\* look, only a row that came back from an archive is pruned unseen.
PrunedWasSummarised == unseen = {}

\* "Hard delete all records for a specific session across all memory tables"
\* (admin_routes.py:151): a row of a session whose deletion was reported as done is in no
\* table and in no archive that can be restored, unless a request had hold of it while
\* the deletion ran.  The files that stay on disk are out of everyone's reach.
DeletedStaysDeleted ==
    \A i \in wiped : ~InHot(i) /\ \A a \in ArchiveIds : ~InArchive(i, a)

\* Core rows outlive nights, archives and restorations: only an administrator's request
\* for their session removes one ("NEVER prune is_core_memory = TRUE", sleep_cycle.py:119).
CoreOnlyByAdmin ==
    [][\A r \in hot : r.core /\ r \notin hot' =>
        r.sess \in admin.scope /\ r.char \in admin.todo]_allVars
====================================================================================
