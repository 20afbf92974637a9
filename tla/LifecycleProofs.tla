------------------------------ MODULE LifecycleProofs ------------------------------
(***************************************************************************)
(* Nights and deletions: what is pruned was summarised, core rows fall to an *)
(* administrator only, no row is lost but for a named reason, and a deleted  *)
(* one never comes back; for any numbers of rows, tables and requests, any   *)
(* length of the day and any model call that is shorter.                     *)
(***************************************************************************)
EXTENDS Lifecycle, TierManagerProofs

\* The times of the looks lie in the past, and the present one is not long ago.
ClockInv ==
    /\ \A c \in Chars : lastLook[c] <= now
    /\ sleeper.char # None => sleeper.since <= now /\ now <= sleeper.since + Patience

\* A volatile row that never left its table is the business of the nights.
Nightly(r) == ~r.core /\ r.vec /\ r.char \notin late

\* Of these rows a summary knows all that are older than the last finished look.
LookedInv == \A r \in hot : Nightly(r) =>
    r.id \in summarised \/ lastLook[r.char] <= r.ts

\* When the look under way ends, it knows all that are older than its SELECT.
LookingInv == sleeper.char # None =>
    \A r \in hot : Nightly(r) /\ r.char = sleeper.char =>
        r.id \in summarised \cup sleeper.logs \/ sleeper.since <= r.ts

LifeInv ==
    TierInv /\ LifeTypeOK /\ ClockInv /\ LookedInv /\ LookingInv /\ PrunedWasSummarised

LEMMA InitLifeInv == LifeInit => LifeInv
<1> SUFFICES ASSUME LifeInit PROVE LifeInv
  OBVIOUS
<1> USE DEF LifeInit, Init, StoreInit
<1>1. TierInv
  BY InitTierInv
<1>2. LifeTypeOK
  BY MaxTimeAssumption DEF LifeTypeOK, SleeperState, AdminState, Asleep, NoRequest, Times
<1>3. ClockInv /\ LookedInv /\ LookingInv /\ PrunedWasSummarised
  BY DEF ClockInv, LookedInv, LookingInv, PrunedWasSummarised, Asleep
<1> QED
  BY <1>1, <1>2, <1>3 DEF LifeInv

------------------------------------------------------------------------------------
\* Nothing is lost, whatever joins the requests

LEMMA RequestTierInv ==
  ASSUME TierInv, RequestStep
  PROVE  TierInv'
<1>1. CASE \E c \in Chars, s \in Sessions \ {Consolidated}, x \in Texts \ {Node} :
             Remember(c, s, x, FALSE)
  BY <1>1, RememberTierInv
<1>2. CASE \E p \in Archivers : ArchiveStep(p)
  <2>1. PICK p \in Archivers : ArchiveStep(p)
    BY <1>2
  <2> QED
    BY <2>1, SelectTierInv, WriteTierInv, RegisterTierInv, DeleteTierInv, AbortArchiveTierInv
       DEF ArchiveStep
<1>3. CASE \E q \in Restorers : RestoreStep(q)
  <2>1. PICK q \in Restorers : RestoreStep(q)
    BY <1>3
  <2> QED
    BY <2>1, LookupTierInv, OpenTierInv, InsertTierInv, UnregisterTierInv, RemoveTierInv,
       AbortRestoreTierInv DEF RestoreStep
<1> QED
  BY <1>1, <1>2, <1>3 DEF RequestStep

LEMMA TimeTierInv ==
  ASSUME TierInv, PassTime
  PROVE  TierInv'
  BY TickTierInv DEF PassTime

\* A step that only takes rows out of the tables, excuses them and may add new ones.
LEMMA TablesTierInv ==
  ASSUME TierInv,
         UNCHANGED <<registry, files, now, usedArchiveIds, archivers, restorers, faults,
                     usedPaths, reusedPaths>>,
         hot' \subseteq Row, IsFiniteSet(hot'), usedIds' \subseteq Ids, stored' \subseteq Ids,
         excused \subseteq excused', excused' \subseteq Ids,
         \A i \in stored' : i \in stored \/ InHot(i)',
         \A i : InHot(i) => InHot(i)' \/ i \in excused'
  PROVE  TierInv'
<1>1. TypeOK'
  BY DEF TierInv, TypeOK, StoreTypeOK
<1>2. RowsSafe'
  <2>1. \A i, a : SafeIn(i, a) <=> SafeIn(i, a)'
    BY SafeInFrame
  <2> QED
    BY <2>1 DEF TierInv, RowsSafe
<1>3. ArchiverInv' /\ ReusedInv' /\ RegistryInv' /\ ArchiveRestorable'
  BY ArchivesFrame
<1>4. RestorerInv' /\ PathsInv' /\ VolatileInv' /\ FiniteInv'
  BY DEF TierInv, RestorerInv, RestorerOK, PathsInv, VolatileInv, FiniteInv, Registered, Disclosed
<1> QED
  BY <1>1, <1>2, <1>3, <1>4 DEF TierInv

LEMMA PruneTierInv ==
  ASSUME TierInv, LifeTypeOK, ConsolidateAndPrune
  PROVE  TierInv'
<1> DEFINE c == sleeper.char
           node(i) == [id |-> i, char |-> c, sess |-> Consolidated, ts |-> now, text |-> Node,
                       core |-> TRUE, vec |-> FALSE]
<1>1. PICK i \in Ids \ usedIds :
        /\ hot' = (hot \ Expired(c)) \cup {node(i)}
        /\ usedIds' = usedIds \cup {i}
        /\ stored' = stored \cup {i}
  BY DEF ConsolidateAndPrune
<1>2. /\ c # None
      /\ excused' = excused \cup IdsOf({r \in Expired(c) : ~r.core})
      /\ UNCHANGED <<registry, files, now, usedArchiveIds, archivers, restorers, faults,
                     usedPaths, reusedPaths>>
  BY DEF ConsolidateAndPrune
<1>3. c \in Chars /\ node(i) \in Row
  BY <1>1, <1>2, ConsolidatedAssumption
     DEF LifeTypeOK, SleeperState, Row, TierInv, TypeOK, StoreTypeOK
<1>4. hot' \subseteq Row /\ IsFiniteSet(hot')
  <2>1. IsFiniteSet(hot \ Expired(c))
    BY FS_Difference DEF TierInv, FiniteInv
  <2> QED
    BY <1>1, <1>3, <2>1, FS_AddElement DEF TierInv, TypeOK, StoreTypeOK
<1>5. excused' \subseteq Ids /\ usedIds' \subseteq Ids /\ stored' \subseteq Ids
  BY <1>1, <1>2 DEF IdsOf, Expired, Row, TierInv, TypeOK, StoreTypeOK
<1>6. InHot(i)'
  <2>1. node(i) \in hot' /\ node(i).id = i
    BY <1>1
  <2> HIDE DEF node
  <2> QED
    BY <2>1 DEF InHot
<1>7. \A j : InHot(j) => InHot(j)' \/ j \in excused'
  BY <1>1, <1>2 DEF InHot, IdsOf, Expired
<1> QED
  BY <1>1, <1>2, <1>4, <1>5, <1>6, <1>7, TablesTierInv

\* Rows of archives that a request drops.
LEMMA ArchivedTyped ==
  ASSUME TypeOK, NEW scope
  PROVE  ArchivedIn(ArchivesOf(scope)) \subseteq Ids
<1> SUFFICES ASSUME NEW a \in ArchivesOf(scope) PROVE IdsOf(files[registry[a].path]) \subseteq Ids
  BY DEF ArchivedIn
<1>1. a \in ArchiveIds /\ registry[a].path \in Path
  BY EntryTyped DEF ArchivesOf, TypeOK
<1>2. files[registry[a].path] \subseteq Row
  BY <1>1 DEF TypeOK, StoreTypeOK
<1> QED
  BY <1>2 DEF IdsOf, Row

\* Whatever the dropped archives held is excused, the rows of a request included that is
\* about to delete them from their table.
LEMMA DropTierInv ==
  ASSUME TierInv, NEW scope \in Scopes, DropArchives(scope)
  PROVE  TierInv'
<1>1. /\ UNCHANGED <<hot, files, now, usedIds, usedArchiveIds, archivers, restorers, faults,
                     stored, usedPaths, reusedPaths>>
      /\ registry' = [a \in ArchiveIds |->
                        IF a \in ArchivesOf(scope) THEN None ELSE registry[a]]
      /\ excused' = excused \cup ArchivedIn(ArchivesOf(scope))
  BY DEF DropArchives
<1>2. \A a \in ArchiveIds :
        /\ a \in ArchivesOf(scope) => ~Registered(a)'
        /\ a \notin ArchivesOf(scope) => registry'[a] = registry[a] /\ (Registered(a)' <=> Registered(a))
  BY <1>1 DEF Registered
<1>3. \A a \in ArchiveIds : Registered(a)' => Registered(a) /\ registry'[a] = registry[a]
  BY <1>2
<1>4. TypeOK'
  BY <1>1, ArchivedTyped DEF TierInv, TypeOK, StoreTypeOK
<1>5. RowsSafe'
  <2>1. ASSUME NEW i, NEW a \in ArchiveIds, SafeIn(i, a), i \notin excused'
        PROVE  SafeIn(i, a)'
    <3>1. a \notin ArchivesOf(scope)
      BY <1>1, <2>1 DEF SafeIn, InArchive, ArchivedIn
    <3>2. registry'[a] = registry[a] /\ Registered(a)'
      BY <1>2, <2>1, <3>1 DEF SafeIn, InArchive
    <3> QED
      BY <1>1, <2>1, <3>2 DEF SafeIn, InArchive, FileExists
  <2> QED
    BY <1>1, <2>1, RowsStaySafe DEF TierInv, InHot
<1>6. ArchiverInv'
  <2> SUFFICES ASSUME NEW p \in Archivers PROVE ArchiverOK(p)'
    BY DEF ArchiverInv
  <2>1. ArchiverOK(p)
    BY DEF TierInv, ArchiverInv
  <2>2. ASSUME archivers[p].pc = "delete", ~(IdsOf(archivers[p].batch) \subseteq excused')
        PROVE  registry'[archivers[p].aid] = registry[archivers[p].aid]
    <3>1. /\ archivers[p].aid \in ArchiveIds /\ Registered(archivers[p].aid)
          /\ files[registry[archivers[p].aid].path] = archivers[p].batch
      BY <1>1, <2>1, <2>2, ArchiverHolds DEF TierInv, ArchiverOK
    <3>2. archivers[p].aid \notin ArchivesOf(scope)
      BY <1>1, <2>2, <3>1 DEF ArchivedIn
    <3> QED
      BY <1>2, <3>1, <3>2
  <2> QED
    BY <1>1, <2>1, <2>2, ArchiverKept
<1>7. RestorerInv'
  <2> SUFFICES ASSUME NEW q \in Restorers PROVE RestorerOK(q)'
    BY DEF RestorerInv
  <2>1. RestorerOK(q) /\ (restorers[q].pc # "idle" => restorers[q].aid \in ArchiveIds)
    BY DEF TierInv, TypeOK, StoreTypeOK, RestorerInv, RestorerOK
  <2> QED
    BY <1>1, <1>2, <2>1, RestorerKept
<1>8. PathsInv'
  BY <1>1, <1>3 DEF TierInv, PathsInv
<1>9. ReusedInv'
  BY <1>1 DEF TierInv, ReusedInv, IdsOf
<1>10. RegistryInv' /\ ArchiveRestorable'
  BY <1>1, <1>3 DEF TierInv, RegistryInv, ArchiveRestorable, FileExists
<1>11. VolatileInv' /\ FiniteInv'
  BY <1>1 DEF TierInv, VolatileInv, FiniteInv
<1> QED
  BY <1>4, <1>5, <1>6, <1>7, <1>8, <1>9, <1>10, <1>11 DEF TierInv

LEMMA AdminTierInv ==
  ASSUME TierInv, AdminStep
  PROVE  TierInv'
<1>1. ASSUME NEW c \in Chars, ClearTable(c) PROVE TierInv'
  <2>1. /\ hot' = hot \ Condemned(c)
        /\ excused' = excused \cup IdsOf(Condemned(c))
        /\ UNCHANGED <<registry, files, now, usedIds, usedArchiveIds, archivers, restorers,
                       faults, stored, usedPaths, reusedPaths>>
    BY <1>1 DEF ClearTable
  <2>2. IsFiniteSet(hot')
    BY <2>1, FS_Difference DEF TierInv, FiniteInv
  <2>3. hot' \subseteq Row /\ excused' \subseteq Ids /\ usedIds' \subseteq Ids /\ stored' \subseteq Ids
    BY <2>1 DEF Condemned, IdsOf, Row, TierInv, TypeOK, StoreTypeOK
  <2>4. \A i : InHot(i) => InHot(i)' \/ i \in excused'
    BY <2>1 DEF InHot, IdsOf
  <2> QED
    BY <2>1, <2>2, <2>3, <2>4, TablesTierInv
<1>2. CASE AbortDelete
  BY <1>2, StutterTierInv DEF AbortDelete
<1> QED
  BY <1>1, <1>2, DropTierInv DEF AdminStep

------------------------------------------------------------------------------------
\* The nights

\* Requests add rows of the present, which no look has passed, and rows from archives,
\* which are no business of the nights.
LEMMA RequestRows ==
  ASSUME TierInv, RequestStep
  PROVE  /\ now' = now
         /\ \A r \in hot' : r \in hot \/ ~r.vec \/ r.ts = now
<1>1. CASE \E c \in Chars, s \in Sessions \ {Consolidated}, x \in Texts \ {Node} :
             Remember(c, s, x, FALSE)
  BY <1>1 DEF Remember
<1>2. CASE \E p \in Archivers : ArchiveStep(p)
  BY <1>2 DEF ArchiveStep, SelectRows, WriteFile, Register, DeleteRows, AbortArchive, storeVars
<1>3. CASE \E q \in Restorers : RestoreStep(q)
  <2>1. PICK q \in Restorers : RestoreStep(q)
    BY <1>3
  <2>2. CASE InsertRow(q)
    <3>1. restorers[q].todo \subseteq Row
      BY DEF TierInv, TypeOK, RestorerState
    <3>2. \A job : \A r \in Row : ~RestoredRow(r, job).vec
      BY DEF RestoredRow, Row
    <3>3. hot' = hot \/ \E r \in restorers[q].todo : hot' = hot \cup {RestoredRow(r, restorers[q])}
      BY <2>2 DEF InsertRow
    <3>4. now' = now
      BY <2>2 DEF InsertRow
    <3> QED
      BY <3>1, <3>2, <3>3, <3>4
  <2>3. CASE ~InsertRow(q)
    BY <2>1, <2>3 DEF RestoreStep, Lookup, OpenFile, Unregister, RemoveFile, AbortRestore, storeVars
  <2> QED
    BY <2>2, <2>3
<1> QED
  BY <1>1, <1>2, <1>3 DEF RequestStep

\* A step that is not the sleep cycle's keeps what the nights have seen, as long as its
\* new rows are such rows.
LEMMA NightsFrame ==
  ASSUME LifeInv, TierInv', UNCHANGED sleepVars, now' = now,
         \A r \in hot' : r \in hot \/ ~r.vec \/ r.ts = now
  PROVE  ClockInv' /\ LookedInv' /\ LookingInv' /\ PrunedWasSummarised'
<1>1. UNCHANGED <<sleeper, lastLook, summarised, late, unseen>>
  BY DEF sleepVars
<1>2. ClockInv' /\ PrunedWasSummarised'
  BY <1>1 DEF LifeInv, ClockInv, PrunedWasSummarised
<1>3. \A r \in hot' : r.char \in Chars
  BY DEF TierInv, TypeOK, StoreTypeOK, Row
<1>4. LookedInv'
  BY <1>1, <1>3 DEF LifeInv, LookedInv, Nightly, ClockInv
<1>5. LookingInv'
  BY <1>1 DEF LifeInv, LookingInv, Nightly, ClockInv
<1> QED
  BY <1>2, <1>4, <1>5

\* The type of what the sleep cycle and the administrator keep.
LEMMA SleepTypes ==
  ASSUME LifeInv, TierInv', SleepStep
  PROVE  /\ sleeper' \in SleeperState
         /\ lastLook' \in [Chars -> Times]
         /\ rounds' \in Nat
         /\ summarised' \cup unseen' \subseteq Ids
         /\ late' \subseteq Chars
<1> USE DEF LifeInv, LifeTypeOK
<1>1. now \in Times /\ hot \subseteq Row /\ hot' \subseteq Row /\ 0 \in Times
  BY MaxTimeAssumption DEF TierInv, TypeOK, StoreTypeOK, Times
<1>2. Asleep \in SleeperState /\ Asleep.todo = {}
  BY <1>1 DEF Asleep, SleeperState
<1>3. CASE FallAsleep
  <2>1. [Asleep EXCEPT !.todo = Chars] \in SleeperState
    BY <1>1 DEF Asleep, SleeperState
  <2> QED
    BY <1>3, <2>1 DEF FallAsleep
<1>4. CASE \E c \in Chars : SelectDay(c)
  <2>1. PICK c \in Chars : SelectDay(c)
    BY <1>4
  <2>2. UNCHANGED <<summarised, unseen, rounds>>
    BY <2>1 DEF SelectDay
  <2>3. late' \subseteq Chars
    BY <2>1 DEF SelectDay
  <2>4. IdsOf(LogsOfDay(c)) \subseteq Ids
    BY <1>1 DEF IdsOf, LogsOfDay, Row
  <2>5. [sleeper EXCEPT !.todo = @ \ {c}] \in SleeperState
    BY DEF SleeperState
  <2>6. [todo |-> sleeper.todo \ {c}, char |-> c, logs |-> IdsOf(LogsOfDay(c)), since |-> LookTime]
          \in SleeperState
    BY <1>1, <2>4 DEF SleeperState, LookTime
  <2>7. sleeper' \in SleeperState /\ lastLook' \in [Chars -> Times]
    BY <1>1, <2>1, <2>5, <2>6 DEF SelectDay, LookTime
  <2> QED
    BY <2>2, <2>3, <2>7
<1>5. CASE ConsolidateAndPrune
  <2>1. summarised' \subseteq Ids
    BY <1>1, <1>5 DEF ConsolidateAndPrune, IdsOf, Row
  <2>2. unseen' \subseteq Ids
    <3>1. IdsOf({r \in Expired(sleeper.char) : r.vec /\ sleeper.char \notin late}) \subseteq Ids
      BY <1>1 DEF IdsOf, Expired, Row
    <3> QED
      BY <1>5, <3>1 DEF ConsolidateAndPrune
  <2>3. [Asleep EXCEPT !.todo = sleeper.todo] \in SleeperState
    BY <1>1 DEF Asleep, SleeperState
  <2>4. lastLook' \in [Chars -> Times]
    BY <1>5 DEF ConsolidateAndPrune, SleeperState
  <2> QED
    BY <1>5, <2>1, <2>2, <2>3, <2>4 DEF ConsolidateAndPrune
<1>6. CASE AbortSleep
  BY <1>2, <1>6 DEF AbortSleep
<1> QED
  BY <1>3, <1>4, <1>5, <1>6 DEF SleepStep

LEMMA AdminTypes ==
  ASSUME LifeInv, AdminStep
  PROVE  admin' \in AdminState /\ rounds' \in Nat /\ wiped' \subseteq Ids
<1> USE DEF LifeInv, LifeTypeOK
<1>1. NoRequest \in AdminState
  BY DEF NoRequest, AdminState
<1>2. CASE \E scope \in Scopes : DropArchives(scope)
  <2>1. PICK scope \in Scopes : DropArchives(scope)
    BY <1>2
  <2>2. Doomed(scope) \subseteq Ids
    BY ArchivedTyped DEF Doomed, IdsOf, Row, TierInv, TypeOK, StoreTypeOK
  <2>3. [scope |-> scope, todo |-> Chars, doomed |-> Doomed(scope)] \in AdminState
    BY <2>2, ScopesAssumption DEF AdminState
  <2> QED
    BY <2>1, <2>3 DEF DropArchives
<1>3. CASE \E c \in Chars : ClearTable(c)
  <2>1. PICK c \in Chars : ClearTable(c)
    BY <1>3
  <2>2. [admin EXCEPT !.todo = @ \ {c}] \in AdminState /\ admin.doomed \subseteq Ids
    BY DEF AdminState
  <2> QED
    BY <1>1, <2>1, <2>2 DEF ClearTable, TableCleared
<1>4. CASE AbortDelete
  BY <1>1, <1>4 DEF AbortDelete
<1> QED
  BY <1>2, <1>3, <1>4 DEF AdminStep

\* Before a look, every nightly row of the table that is not of its day is known: the last
\* look was within the day, or the table is late from now on.
LEMMA SelectNights ==
  ASSUME LifeInv, NEW c \in Chars, SelectDay(c)
  PROVE  ClockInv' /\ LookedInv' /\ LookingInv' /\ PrunedWasSummarised'
<1>1. /\ hot' = hot /\ now' = now /\ summarised' = summarised /\ unseen' = unseen
      /\ sleeper.char = None
      /\ late' = IF now - lastLook[c] > Day THEN late \cup {c} ELSE late
  BY DEF SelectDay, vars
<1>2. /\ now \in Nat /\ Day \in Nat /\ Patience \in Nat
      /\ lastLook \in [Chars -> Nat] /\ sleeper \in SleeperState
      /\ \A r \in hot : r \in Row /\ r.ts \in Nat
  BY MaxTimeAssumption, DayAssumption
     DEF LifeInv, LifeTypeOK, TierInv, TypeOK, StoreTypeOK, Row, Times
<1>3. c # None
  BY NoneAssumption
<1>4. ASSUME NEW r \in hot, Nightly(r)', r.char = c, r.ts < now - Day
      PROVE  r.id \in summarised
  <2>1. Nightly(r) /\ now - lastLook[c] <= Day /\ lastLook[c] \in Nat
    BY <1>1, <1>2, <1>4 DEF Nightly
  <2>2. ~(lastLook[c] <= r.ts)
    BY <1>2, <1>4, <2>1
  <2> QED
    BY <1>4, <2>1, <2>2 DEF LifeInv, LookedInv
<1>5. \A r \in hot : Nightly(r)' => Nightly(r)
  BY <1>1 DEF Nightly
<1>6. PrunedWasSummarised'
  BY <1>1 DEF LifeInv, PrunedWasSummarised
<1>7. CASE LogsOfDay(c) = {}
  <2>1. sleeper' = [sleeper EXCEPT !.todo = @ \ {c}] /\ lastLook' = [lastLook EXCEPT ![c] = now]
    BY <1>7 DEF SelectDay, LookTime
  <2>2. sleeper'.char = None
    BY <1>1, <1>2, <2>1 DEF SleeperState
  <2>3. ClockInv' /\ LookingInv'
    BY <1>1, <1>2, <2>1, <2>2 DEF LifeInv, ClockInv, LookingInv
  <2>4. \A r \in hot : Nightly(r)' /\ r.char = c => r.id \in summarised
    BY <1>2, <1>4, <1>7 DEF Nightly, LogsOfDay
  <2>5. \A r \in hot : r.char # c /\ r.char \in Chars => lastLook'[r.char] = lastLook[r.char]
    BY <1>2, <2>1
  <2>6. \A r \in hot : r.char \in Chars
    BY <1>2 DEF Row
  <2>7. LookedInv'
    BY <1>1, <1>5, <2>4, <2>5, <2>6 DEF LifeInv, LookedInv
  <2> QED
    BY <1>6, <2>3, <2>7
<1>8. CASE LogsOfDay(c) # {}
  <2>1. /\ sleeper' = [todo |-> sleeper.todo \ {c}, char |-> c,
                       logs |-> IdsOf(LogsOfDay(c)), since |-> now]
        /\ lastLook' = lastLook
    BY <1>8 DEF SelectDay, LookTime
  <2>2. ClockInv'
    BY <1>1, <1>2, <2>1 DEF LifeInv, ClockInv
  <2>3. LookedInv'
    BY <1>1, <1>5, <2>1 DEF LifeInv, LookedInv
  <2>4. \A r \in hot : Nightly(r)' /\ r.char = c => r.id \in summarised \cup IdsOf(LogsOfDay(c))
    BY <1>2, <1>4 DEF Nightly, LogsOfDay, IdsOf
  <2>5. LookingInv'
    BY <1>1, <2>1, <2>4 DEF LookingInv
  <2> QED
    BY <1>6, <2>2, <2>3, <2>5
<1> QED
  BY <1>7, <1>8

\* What the transaction deletes is older than the SELECT of its look, for the model call
\* took no longer than a day; and all that is so old is known.
LEMMA PruneNights ==
  ASSUME LifeInv, TierInv', ConsolidateAndPrune
  PROVE  ClockInv' /\ LookedInv' /\ LookingInv' /\ PrunedWasSummarised'
<1> DEFINE c == sleeper.char
           known == summarised \cup sleeper.logs
<1>1. /\ c # None /\ now' = now /\ late' = late
      /\ unseen' = unseen \cup
           {i \in IdsOf({r \in Expired(c) : r.vec /\ c \notin late}) : i \notin known}
      /\ summarised' = known \cap IdsOf(hot')
      /\ lastLook' = [lastLook EXCEPT ![c] = sleeper.since]
      /\ sleeper' = [Asleep EXCEPT !.todo = sleeper.todo]
  BY DEF ConsolidateAndPrune
<1>2. /\ now \in Nat /\ Day \in Nat /\ Patience \in Nat /\ Patience <= Day
      /\ lastLook \in [Chars -> Nat] /\ sleeper.since \in Nat /\ c \in Chars
      /\ \A r \in hot : r \in Row /\ r.ts \in Nat /\ r.char \in Chars
  BY <1>1, MaxTimeAssumption, DayAssumption
     DEF LifeInv, LifeTypeOK, SleeperState, TierInv, TypeOK, StoreTypeOK, Row, Times
<1>3. sleeper.since <= now /\ now <= sleeper.since + Patience
  BY <1>1 DEF LifeInv, ClockInv
<1>4. \A r \in hot : Nightly(r) /\ r.char = c => r.id \in known \/ sleeper.since <= r.ts
  BY <1>1 DEF LifeInv, LookingInv
<1>5. PrunedWasSummarised'
  <2>1. ASSUME NEW r \in Expired(c), r.vec, c \notin late PROVE r.id \in known
    <3>1. r \in hot /\ r.char = c /\ ~r.core /\ r.ts < now - Day
      BY DEF Expired
    <3>2. ~(sleeper.since <= r.ts)
      BY <1>2, <1>3, <3>1
    <3> QED
      BY <1>4, <2>1, <3>1, <3>2 DEF Nightly
  <2> QED
    BY <1>1, <2>1 DEF IdsOf, LifeInv, PrunedWasSummarised
<1>6. sleeper'.char = None
  BY <1>1 DEF Asleep
<1>7. ClockInv' /\ LookingInv'
  BY <1>1, <1>2, <1>3, <1>6 DEF LifeInv, ClockInv, LookingInv
<1>8. LookedInv'
  <2> SUFFICES ASSUME NEW r \in hot', Nightly(r)'
               PROVE  r.id \in summarised' \/ lastLook'[r.char] <= r.ts
    BY DEF LookedInv
  <2>1. Nightly(r) /\ r \in hot
    BY <1>1 DEF Nightly, ConsolidateAndPrune
  <2>2. r.id \in IdsOf(hot')
    BY DEF IdsOf
  <2>3. CASE r.char = c
    BY <1>1, <1>2, <1>4, <2>1, <2>2, <2>3
  <2>4. CASE r.char # c
    BY <1>1, <1>2, <2>1, <2>2, <2>4 DEF LifeInv, LookedInv
  <2> QED
    BY <2>3, <2>4
<1> QED
  BY <1>5, <1>7, <1>8

LEMMA SleepLifeInv ==
  ASSUME LifeInv, SleepStep
  PROVE  /\ TierInv' /\ ClockInv' /\ LookedInv' /\ LookingInv' /\ PrunedWasSummarised'
<1>1. CASE FallAsleep
  <2>1. TierInv'
    BY <1>1, StutterTierInv DEF FallAsleep, LifeInv
  <2>2. /\ hot' = hot /\ now' = now /\ sleeper'.char = None
        /\ UNCHANGED <<lastLook, summarised, late, unseen>>
    BY <1>1 DEF FallAsleep, Asleep, vars
  <2> QED
    BY <2>1, <2>2 DEF LifeInv, ClockInv, LookedInv, LookingInv, Nightly, PrunedWasSummarised
<1>2. CASE \E c \in Chars : SelectDay(c)
  BY <1>2, SelectNights, StutterTierInv DEF SelectDay, LifeInv
<1>3. CASE ConsolidateAndPrune
  BY <1>3, PruneNights, PruneTierInv DEF LifeInv
<1>4. CASE AbortSleep
  <2>1. TierInv'
    BY <1>4, StutterTierInv DEF AbortSleep, LifeInv
  <2>2. /\ hot' = hot /\ now' = now /\ sleeper'.char = None
        /\ UNCHANGED <<lastLook, summarised, late, unseen>>
    BY <1>4 DEF AbortSleep, Asleep, vars
  <2> QED
    BY <2>1, <2>2 DEF LifeInv, ClockInv, LookedInv, LookingInv, Nightly, PrunedWasSummarised
<1> QED
  BY <1>1, <1>2, <1>3, <1>4 DEF SleepStep

\* Time passes over a look only while its model call may still take.
LEMMA TimeNights ==
  ASSUME LifeInv, PassTime, UNCHANGED sleepVars
  PROVE  ClockInv' /\ LookedInv' /\ LookingInv' /\ PrunedWasSummarised'
<1>1. /\ UNCHANGED <<hot, sleeper, lastLook, summarised, late, unseen>>
      /\ now' = now + 1 /\ (sleeper.char # None => now < sleeper.since + Patience)
  BY DEF PassTime, Tick, sleepVars
<1>2. now \in Nat /\ Patience \in Nat /\ lastLook \in [Chars -> Nat] /\ sleeper.since \in Nat
  BY MaxTimeAssumption, DayAssumption
     DEF LifeInv, LifeTypeOK, SleeperState, TierInv, TypeOK, StoreTypeOK, Times
<1>3. ClockInv'
  BY <1>1, <1>2 DEF LifeInv, ClockInv
<1>4. LookedInv' /\ LookingInv' /\ PrunedWasSummarised'
  BY <1>1 DEF LifeInv, LookedInv, LookingInv, Nightly, PrunedWasSummarised
<1> QED
  BY <1>3, <1>4

LEMMA NextLifeInv == LifeInv /\ [LifeNext]_allVars => LifeInv'
<1> SUFFICES ASSUME LifeInv, [LifeNext]_allVars PROVE LifeInv'
  OBVIOUS
<1>1. CASE RowStep /\ Escort /\ UNCHANGED wiped
  <2>1. admin' \in AdminState /\ wiped' \subseteq Ids
    BY <1>1 DEF Escort, AdminState, LifeInv, LifeTypeOK
  <2>2. CASE SleepStep
    <3>1. TierInv' /\ ClockInv' /\ LookedInv' /\ LookingInv' /\ PrunedWasSummarised'
      BY <2>2, SleepLifeInv
    <3>2. LifeTypeOK'
      BY <2>1, <2>2, <3>1, SleepTypes DEF LifeTypeOK
    <3> QED
      BY <3>1, <3>2 DEF LifeInv
  <2>3. CASE (RequestStep \/ PassTime) /\ UNCHANGED <<sleepVars, rounds>>
    <3>1. TierInv'
      BY <2>3, RequestTierInv, TimeTierInv DEF LifeInv
    <3>2. ClockInv' /\ LookedInv' /\ LookingInv' /\ PrunedWasSummarised'
      BY <2>3, <3>1, RequestRows, NightsFrame, TimeNights DEF LifeInv
    <3>3. LifeTypeOK'
      BY <2>1, <2>3 DEF LifeInv, LifeTypeOK, sleepVars
    <3> QED
      BY <3>1, <3>2, <3>3 DEF LifeInv
  <2> QED
    BY <1>1, <2>2, <2>3 DEF RowStep
<1>2. CASE AdminStep /\ UNCHANGED sleepVars
  <2>1. TierInv'
    BY <1>2, AdminTierInv DEF LifeInv
  <2>2. now' = now /\ hot' \subseteq hot
    BY <1>2 DEF AdminStep, DropArchives, ClearTable, AbortDelete, vars
  <2>3. ClockInv' /\ LookedInv' /\ LookingInv' /\ PrunedWasSummarised'
    BY <1>2, <2>1, <2>2, NightsFrame
  <2>4. LifeTypeOK'
    BY <1>2, AdminTypes DEF LifeInv, LifeTypeOK, sleepVars
  <2> QED
    BY <2>1, <2>3, <2>4 DEF LifeInv
<1>3. CASE UNCHANGED allVars
  <2>1. UNCHANGED vars /\ UNCHANGED sleepVars /\ UNCHANGED <<admin, wiped, rounds>>
    BY <1>3 DEF allVars, adminVars
  <2>2. TierInv' /\ hot' = hot /\ now' = now
    BY <2>1, StutterTierInv DEF LifeInv, vars
  <2>3. LifeTypeOK'
    BY <2>1 DEF LifeInv, LifeTypeOK, sleepVars
  <2> QED
    BY <2>1, <2>2, <2>3, NightsFrame DEF LifeInv
<1> QED
  BY <1>1, <1>2, <1>3 DEF LifeNext

------------------------------------------------------------------------------------
\* Deletions: a deleted row stays deleted because nobody has hold of it, no archive that
\* can be restored has it, and every row with its id is of a session to be cleared.

\* Rows in circulation: in a table, in a file, or in the hands of a request.
Carried ==
    (UNION {archivers[p].batch : p \in Archivers}) \cup
    (UNION {restorers[q].todo : q \in Restorers})
Rows == hot \cup (UNION {files[path] : path \in Path}) \cup Carried

\* An id is drawn once, and its rows are all of one session, wherever they are.
OneSession ==
    /\ \A r \in Rows : r.id \in usedIds
    /\ \A r, t \in Rows : r.id = t.id => r.sess = t.sess

\* Files, batches and archives hold the rows of their own session.
OwnSession ==
    /\ \A path \in Path : \A r \in files[path] : r.sess = path.sess
    /\ \A p \in Archivers :
        /\ \A r \in archivers[p].batch : r.sess = archivers[p].sess
        /\ archivers[p].pc = "register" => archivers[p].path.sess = archivers[p].sess
    /\ \A a \in ArchiveIds : Registered(a) => registry[a].path.sess = registry[a].sess
    /\ \A q \in Restorers :
        /\ restorers[q].pc # "idle" => restorers[q].entry.path.sess = restorers[q].entry.sess
        /\ \A r \in restorers[q].todo : r.sess = restorers[q].entry.sess

\* No request and no archive can bring back row i.
Gone(i) ==
    /\ i \in usedIds
    /\ i \notin UnderWay
    /\ \A a \in ArchiveIds : Registered(a) => i \notin IdsOf(files[registry[a].path])

\* What is left of a doomed row is in a table still to clear.
DeletionInv ==
    /\ \A i \in wiped : Gone(i) /\ ~InHot(i)
    /\ \A i \in admin.doomed : Gone(i) /\
        \A r \in hot : r.id = i => r.sess \in admin.scope /\ r.char \in admin.todo

LEMMA NotUnderWay ==
  ASSUME NEW i
  PROVE  i \notin UnderWay <=>
           /\ \A p \in Archivers :
                /\ i \notin IdsOf(archivers[p].batch)
                /\ archivers[p].pc = "register" => i \notin IdsOf(files[archivers[p].path])
           /\ \A q \in Restorers :
                /\ i \notin IdsOf(restorers[q].todo)
                /\ restorers[q].pc = "open" => i \notin IdsOf(files[restorers[q].entry.path])
  BY DEF UnderWay, Registering, Opening

LEMMA NotUnderWayNext ==
  ASSUME NEW i
  PROVE  (i \notin UnderWay <=>
            /\ \A p \in Archivers :
                 /\ i \notin IdsOf(archivers[p].batch)
                 /\ archivers[p].pc = "register" => i \notin IdsOf(files[archivers[p].path])
            /\ \A q \in Restorers :
                 /\ i \notin IdsOf(restorers[q].todo)
                 /\ restorers[q].pc = "open" => i \notin IdsOf(files[restorers[q].entry.path]))'
  BY DEF UnderWay, Registering, Opening

LEMMA RowsAre ==
  ASSUME NEW r
  PROVE  r \in Rows <=>
           \/ r \in hot
           \/ \E path \in Path : r \in files[path]
           \/ \E p \in Archivers : r \in archivers[p].batch
           \/ \E q \in Restorers : r \in restorers[q].todo
  BY DEF Rows, Carried

LEMMA RowsAreNext ==
  ASSUME NEW r
  PROVE  (r \in Rows <=>
            \/ r \in hot
            \/ \E path \in Path : r \in files[path]
            \/ \E p \in Archivers : r \in archivers[p].batch
            \/ \E q \in Restorers : r \in restorers[q].todo)'
  BY DEF Rows, Carried

\* What an archiving request does with rows: it takes them from a table, leaves them in a
\* file of their session, and registers that file.
Archives(p) ==
    /\ restorers' = restorers /\ usedIds' = usedIds
    /\ \A r \in Archivers : r # p => archivers'[r] = archivers[r]
    /\ hot' \subseteq hot
    /\ \A r \in archivers'[p].batch :
        \/ r \in archivers[p].batch /\ archivers'[p].sess = archivers[p].sess
        \/ r \in hot /\ r.sess = archivers'[p].sess
    /\ \A path \in Path :
        \/ files'[path] = files[path]
        \/ files'[path] = archivers[p].batch /\ path.sess = archivers[p].sess
    /\ archivers'[p].pc = "register" =>
        /\ archivers'[p].path.sess = archivers'[p].sess
        /\ files'[archivers'[p].path] = archivers[p].batch
    /\ \A a \in ArchiveIds : Registered(a)' =>
        \/ Registered(a) /\ registry'[a] = registry[a]
        \/ /\ archivers[p].pc = "register" /\ files' = files
           /\ registry'[a].path = archivers[p].path /\ registry'[a].sess = archivers[p].sess

\* What a restoration does with rows: it takes them from the file of a registered archive
\* and writes them to a table, under the archive's session.
Restores(q) ==
    /\ archivers' = archivers /\ usedIds' = usedIds
    /\ \A r \in Restorers : r # q => restorers'[r] = restorers[r]
    /\ \A r \in hot' :
        \/ r \in hot
        \/ \E t \in restorers[q].todo : r.id = t.id /\ r.sess = restorers[q].entry.sess
    /\ \A r \in restorers'[q].todo :
        /\ restorers'[q].entry = restorers[q].entry
        /\ \/ r \in restorers[q].todo
           \/ restorers[q].pc = "open" /\ r \in files[restorers[q].entry.path]
    /\ restorers'[q].pc # "idle" =>
        \/ restorers[q].pc # "idle" /\ restorers'[q].pc # "open"
           /\ restorers'[q].entry = restorers[q].entry
        \/ \E a \in ArchiveIds : Registered(a) /\ restorers'[q].entry = registry[a]
    /\ \A path \in Path : files'[path] \subseteq files[path]
    /\ \A a \in ArchiveIds : Registered(a)' => Registered(a) /\ registry'[a] = registry[a]

LEMMA ArchiveStepArchives ==
  ASSUME TierInv, NEW p \in Archivers, ArchiveStep(p)
  PROVE  Archives(p)
<1> USE DEF Archives
<1>1. /\ archivers \in [Archivers -> ArchiverState]
      /\ files \in [Path -> SUBSET Row]
      /\ registry \in [ArchiveIds -> Entry \cup {None}]
  BY DEF TierInv, TypeOK, StoreTypeOK
<1>2. CASE \E c \in Chars, s \in Sessions : SelectRows(p, c, s)
  <2>1. PICK c \in Chars, s \in Sessions : SelectRows(p, c, s)
    BY <1>2
  <2>2. PICK batch \in OldestFirst(Eligible(c, s)) \ {{}} :
          archivers' = [archivers EXCEPT ![p] =
            [pc |-> "write", char |-> c, sess |-> s, batch |-> batch,
             path |-> None, aid |-> None]]
    BY <2>1 DEF SelectRows
  <2>3. \A r \in batch : r \in hot /\ r.sess = s
    BY DEF OldestFirst, Eligible
  <2>4. UNCHANGED <<hot, registry, files, usedIds, restorers>>
    BY <2>1 DEF SelectRows, storeVars
  <2> QED
    BY <1>1, <2>2, <2>3, <2>4 DEF Registered
<1>3. CASE WriteFile(p)
  <2> DEFINE path == [char |-> archivers[p].char, sess |-> archivers[p].sess, second |-> now]
  <2>1. /\ files' = [files EXCEPT ![path] = archivers[p].batch]
        /\ archivers' = [archivers EXCEPT ![p].pc = "register", ![p].path = path]
        /\ UNCHANGED <<hot, registry, usedIds, restorers>>
    BY <1>3 DEF WriteFile
  <2>2. path \in Path
    BY <1>3 DEF WriteFile, Path, TierInv, TypeOK, StoreTypeOK, ArchiverInv, ArchiverOK
  <2>3. archivers'[p] = [archivers[p] EXCEPT !.pc = "register", !.path = path]
    BY <1>1, <2>1
  <2>4. /\ archivers'[p].batch = archivers[p].batch /\ archivers'[p].sess = archivers[p].sess
        /\ archivers'[p].path = path
    BY <1>1, <2>3 DEF ArchiverState
  <2>5. files'[path] = archivers[p].batch /\ path.sess = archivers[p].sess
    BY <1>1, <2>1, <2>2
  <2>6. \A f \in Path : f # path => files'[f] = files[f]
    BY <1>1, <2>1
  <2> HIDE DEF path
  <2> QED
    BY <1>1, <2>1, <2>4, <2>5, <2>6 DEF Registered
<1>4. CASE Register(p)
  <2>1. PICK a \in ArchiveIds \ usedArchiveIds :
          /\ registry' = [registry EXCEPT ![a] =
               [char |-> archivers[p].char, sess |-> archivers[p].sess,
                path |-> archivers[p].path, count |-> Cardinality(archivers[p].batch)]]
          /\ archivers' = [archivers EXCEPT ![p].pc = "delete", ![p].aid = a]
    BY <1>4 DEF Register
  <2>2. archivers[p].pc = "register" /\ UNCHANGED <<hot, files, usedIds, restorers>>
    BY <1>4 DEF Register
  <2>3. archivers'[p] = [archivers[p] EXCEPT !.pc = "delete", !.aid = a]
    BY <1>1, <2>1
  <2>4. /\ archivers'[p].batch = archivers[p].batch /\ archivers'[p].sess = archivers[p].sess
        /\ archivers'[p].pc = "delete"
    BY <1>1, <2>3 DEF ArchiverState
  <2> QED
    BY <1>1, <2>1, <2>2, <2>4 DEF Registered
<1>5. CASE DeleteRows(p) \/ AbortArchive(p)
  <2>1. archivers'[p] = IdleArchiver /\ \A r \in Archivers : r # p => archivers'[r] = archivers[r]
    BY <1>1, <1>5 DEF DeleteRows, AbortArchive
  <2>2. UNCHANGED <<registry, files, usedIds, restorers>> /\ hot' \subseteq hot
    BY <1>5 DEF DeleteRows, AbortArchive, storeVars
  <2> QED
    BY <2>1, <2>2 DEF IdleArchiver, Registered
<1> QED
  BY <1>2, <1>3, <1>4, <1>5 DEF ArchiveStep

LEMMA RestoreStepRestores ==
  ASSUME TierInv, NEW q \in Restorers, RestoreStep(q)
  PROVE  Restores(q)
<1> USE DEF Restores
<1>1. /\ restorers \in [Restorers -> RestorerState]
      /\ files \in [Path -> SUBSET Row]
      /\ registry \in [ArchiveIds -> Entry \cup {None}]
  BY DEF TierInv, TypeOK, StoreTypeOK
<1>2. CASE \E a \in ArchiveIds, c \in Chars : Lookup(q, a, c)
  <2>1. PICK a \in ArchiveIds, c \in Chars : Lookup(q, a, c)
    BY <1>2
  <2>2. Registered(a) /\ UNCHANGED <<hot, registry, files, usedIds, archivers>>
    BY <2>1 DEF Lookup, storeVars
  <2>3. /\ restorers'[q] = [pc |-> "open", aid |-> a, char |-> c, entry |-> registry[a],
                            todo |-> {}, errors |-> {}]
        /\ \A r \in Restorers : r # q => restorers'[r] = restorers[r]
    BY <1>1, <2>1 DEF Lookup
  <2> QED
    BY <2>2, <2>3 DEF Registered
<1>3. CASE OpenFile(q)
  <2>1. /\ restorers[q].pc = "open" /\ UNCHANGED <<hot, registry, files, usedIds, archivers>>
        /\ restorers'[q] = [restorers[q] EXCEPT !.pc = "insert", !.todo = files[restorers[q].entry.path]]
        /\ \A r \in Restorers : r # q => restorers'[r] = restorers[r]
    BY <1>1, <1>3 DEF OpenFile, storeVars
  <2>2. /\ restorers'[q].pc = "insert" /\ restorers'[q].entry = restorers[q].entry
        /\ restorers'[q].todo = files[restorers[q].entry.path]
    BY <1>1, <2>1 DEF RestorerState
  <2> QED
    BY <2>1, <2>2 DEF Registered
<1>4. CASE InsertRow(q)
  <2>1. PICK r \in restorers[q].todo :
          /\ hot' = hot \/ hot' = hot \cup {RestoredRow(r, restorers[q])}
          /\ \/ restorers' = [restorers EXCEPT ![q].todo = @ \ {r}]
             \/ restorers' = [restorers EXCEPT ![q].todo = @ \ {r}, ![q].errors = @ \cup {r.id}]
    BY <1>4 DEF InsertRow
  <2>2. restorers[q].pc = "insert" /\ UNCHANGED <<registry, files, usedIds, archivers>>
    BY <1>4 DEF InsertRow
  <2>3. /\ restorers'[q].pc = "insert" /\ restorers'[q].entry = restorers[q].entry
        /\ restorers'[q].todo = restorers[q].todo \ {r}
        /\ \A t \in Restorers : t # q => restorers'[t] = restorers[t]
    BY <1>1, <2>1, <2>2 DEF RestorerState
  <2>4. r \in Row
    BY <1>1 DEF RestorerState
  <2>5. RestoredRow(r, restorers[q]).id = r.id
        /\ RestoredRow(r, restorers[q]).sess = restorers[q].entry.sess
    BY <2>4 DEF RestoredRow, Row
  <2> QED
    BY <2>1, <2>2, <2>3, <2>5 DEF Registered
<1>5. CASE Unregister(q)
  <2>1. /\ restorers[q].pc = "insert" /\ restorers[q].todo = {}
        /\ UNCHANGED <<hot, files, usedIds, archivers>>
        /\ registry' = [registry EXCEPT ![restorers[q].aid] = None]
        /\ restorers'[q] = [restorers[q] EXCEPT !.pc = "remove"]
        /\ \A t \in Restorers : t # q => restorers'[t] = restorers[t]
    BY <1>1, <1>5 DEF Unregister
  <2>2. /\ restorers'[q].pc = "remove" /\ restorers'[q].entry = restorers[q].entry
        /\ restorers'[q].todo = {}
    BY <1>1, <2>1 DEF RestorerState
  <2> QED
    BY <1>1, <2>1, <2>2 DEF Registered
<1>6. CASE RemoveFile(q) \/ AbortRestore(q)
  <2>1. restorers'[q] = IdleRestorer /\ \A t \in Restorers : t # q => restorers'[t] = restorers[t]
    BY <1>1, <1>6 DEF RemoveFile, AbortRestore
  <2>2. UNCHANGED <<hot, registry, usedIds, archivers>>
    BY <1>6 DEF RemoveFile, AbortRestore, storeVars
  <2>3. \A path \in Path : files'[path] \subseteq files[path]
    BY <1>1, <1>6 DEF RemoveFile, AbortRestore, storeVars
  <2> QED
    BY <2>1, <2>2, <2>3 DEF IdleRestorer, Registered
<1> QED
  BY <1>2, <1>3, <1>4, <1>5, <1>6 DEF RestoreStep

\* The paths that requests and archives refer to.
LEMMA PathsTyped ==
  ASSUME TierInv
  PROVE  /\ \A p \in Archivers : archivers[p].pc = "register" => archivers[p].path \in Path
         /\ \A a \in ArchiveIds : Registered(a) => registry[a].path \in Path
         /\ \A q \in Restorers : restorers[q].pc # "idle" => restorers[q].entry.path \in Path
<1>1. \A p \in Archivers : archivers[p].pc = "register" => archivers[p].path \in Path
  BY ArchiverHolds DEF TierInv
<1>2. \A a \in ArchiveIds : Registered(a) => registry[a].path \in Path
  BY EntryTyped DEF TierInv, TypeOK
<1>3. \A q \in Restorers : restorers[q].pc # "idle" => restorers[q].entry.path \in Path
  BY DEF TierInv, RestorerInv, RestorerOK, Entry
<1> QED
  BY <1>1, <1>2, <1>3

\* A row keeps its id and its session wherever it goes.
LEMMA RowsKept ==
  ASSUME OneSession, usedIds' = usedIds,
         \A r \in Rows' : \E t \in Rows : t.id = r.id /\ t.sess = r.sess
  PROVE  OneSession'
  BY DEF OneSession

LEMMA ArchiveSessions ==
  ASSUME TierInv, OneSession, OwnSession, NEW p \in Archivers, Archives(p)
  PROVE  OneSession' /\ OwnSession'
<1> USE DEF Archives
<1>1. \A r \in Rows' : r \in Rows
  BY RowsAre, RowsAreNext
<1>2. OneSession'
  BY <1>1, RowsKept
<1>3. ASSUME NEW path \in Path, NEW r \in files'[path] PROVE r.sess = path.sess
  BY <1>3 DEF OwnSession
<1>4. ASSUME NEW s \in Archivers
      PROVE  /\ \A r \in archivers'[s].batch : r.sess = archivers'[s].sess
             /\ archivers'[s].pc = "register" => archivers'[s].path.sess = archivers'[s].sess
  <2>1. CASE s = p
    BY <2>1 DEF OwnSession
  <2>2. CASE s # p
    BY <2>2 DEF OwnSession
  <2> QED
    BY <2>1, <2>2
<1>5. ASSUME NEW a \in ArchiveIds, Registered(a)' PROVE registry'[a].path.sess = registry'[a].sess
  BY <1>5 DEF OwnSession
<1> QED
  BY <1>2, <1>3, <1>4, <1>5 DEF OwnSession

LEMMA RestoreSessions ==
  ASSUME TierInv, OneSession, OwnSession, NEW q \in Restorers, Restores(q)
  PROVE  OneSession' /\ OwnSession'
<1> USE DEF Restores
<1>1. \A r \in restorers'[q].todo : r \in Rows
  BY RowsAre, PathsTyped
<1>2. ASSUME NEW r \in Rows' PROVE \E t \in Rows : t.id = r.id /\ t.sess = r.sess
  <2>1. CASE r \in hot'
    BY <2>1, RowsAre DEF OwnSession
  <2>2. CASE r \notin hot'
    <3>1. r \in Rows
      BY <1>1, <1>2, <2>2, RowsAre, RowsAreNext
    <3> QED
      BY <3>1
  <2> QED
    BY <2>1, <2>2
<1>3. OneSession'
  BY <1>2, RowsKept
<1>4. ASSUME NEW path \in Path, NEW r \in files'[path] PROVE r.sess = path.sess
  BY <1>4 DEF OwnSession
<1>5. ASSUME NEW a \in ArchiveIds, Registered(a)' PROVE registry'[a].path.sess = registry'[a].sess
  BY <1>5 DEF OwnSession
<1>6. ASSUME NEW s \in Restorers
      PROVE  /\ restorers'[s].pc # "idle" => restorers'[s].entry.path.sess = restorers'[s].entry.sess
             /\ \A r \in restorers'[s].todo : r.sess = restorers'[s].entry.sess
  <2>1. CASE s = q
    <3>1. restorers'[q].pc # "idle" => restorers'[q].entry.path.sess = restorers'[q].entry.sess
      BY DEF OwnSession
    <3>2. ASSUME NEW r \in restorers'[q].todo PROVE r.sess = restorers'[q].entry.sess
      BY <3>2, PathsTyped DEF OwnSession
    <3> QED
      BY <2>1, <3>1, <3>2
  <2>2. CASE s # q
    BY <2>2 DEF OwnSession
  <2> QED
    BY <2>1, <2>2
<1> QED
  BY <1>3, <1>4, <1>5, <1>6 DEF OwnSession

\* Tables may lose rows and gain one with a fresh id; archives may be dropped.
TablesOnly ==
    /\ UNCHANGED <<files, archivers, restorers>>
    /\ \A a \in ArchiveIds : Registered(a)' => Registered(a) /\ registry'[a] = registry[a]
    /\ \/ hot' \subseteq hot /\ usedIds' = usedIds
       \/ \E n : n.id \notin usedIds /\ usedIds' = usedIds \cup {n.id} /\ hot' \subseteq hot \cup {n}

LEMMA TablesSessions ==
  ASSUME TierInv, OneSession, OwnSession, TablesOnly
  PROVE  OneSession' /\ OwnSession'
<1> USE DEF TablesOnly
<1>1. OwnSession'
  BY DEF OwnSession
<1>2. CASE hot' \subseteq hot /\ usedIds' = usedIds
  <2>1. \A r \in Rows' : r \in Rows
    BY <1>2, RowsAre, RowsAreNext
  <2> QED
    BY <1>1, <1>2, <2>1, RowsKept
<1>3. CASE \E n : n.id \notin usedIds /\ usedIds' = usedIds \cup {n.id} /\ hot' \subseteq hot \cup {n}
  <2>1. PICK n : n.id \notin usedIds /\ usedIds' = usedIds \cup {n.id} /\ hot' \subseteq hot \cup {n}
    BY <1>3
  <2>2. \A r \in Rows' : r \in Rows \/ r = n
    BY <2>1, RowsAre, RowsAreNext
  <2>3. OneSession'
    BY <2>1, <2>2 DEF OneSession
  <2> QED
    BY <1>1, <2>3
<1> QED
  BY <1>2, <1>3

\* A step that leaves a row that is gone where it is: none comes back to a table, no
\* archive gets it, and with no table left to take it from, no request either.
StaysGone(i) ==
    /\ i \in usedIds'
    /\ \A r \in hot' : r.id = i => r \in hot
    /\ \A a \in ArchiveIds : Registered(a)' => i \notin IdsOf(files'[registry'[a].path])
    /\ ~InHot(i) => i \notin UnderWay'

LEMMA ArchiveGone ==
  ASSUME TierInv, TierInv', NEW p \in Archivers, Archives(p), NEW i, Gone(i)
  PROVE  StaysGone(i)
<1> USE DEF Archives
<1>1. i \in usedIds' /\ \A r \in hot' : r.id = i => r \in hot
  BY DEF Gone
<1>2. i \notin IdsOf(archivers[p].batch)
  BY NotUnderWay DEF Gone
<1>3. \A path \in Path : i \notin IdsOf(files[path]) => i \notin IdsOf(files'[path])
  BY <1>2
<1>4. ASSUME NEW a \in ArchiveIds, Registered(a)' PROVE i \notin IdsOf(files'[registry'[a].path])
  <2>1. CASE Registered(a) /\ registry'[a] = registry[a]
    BY <1>3, <2>1, PathsTyped DEF Gone
  <2>2. CASE archivers[p].pc = "register" /\ registry'[a].path = archivers[p].path
    BY <1>3, <2>2, PathsTyped, NotUnderWay DEF Gone
  <2> QED
    BY <1>4, <2>1, <2>2
<1>5. ASSUME ~InHot(i) PROVE i \notin UnderWay'
  <2>1. ASSUME NEW s \in Archivers
        PROVE  /\ i \notin IdsOf(archivers'[s].batch)
               /\ archivers'[s].pc = "register" => i \notin IdsOf(files'[archivers'[s].path])
    <3>1. CASE s = p
      <4>1. i \notin IdsOf(archivers'[p].batch)
        BY <1>2, <1>5 DEF IdsOf, InHot
      <4> QED
        BY <1>2, <3>1, <4>1
    <3>2. CASE s # p
      BY <1>3, <3>2, PathsTyped, NotUnderWay DEF Gone
    <3> QED
      BY <3>1, <3>2
  <2>2. ASSUME NEW q \in Restorers
        PROVE  /\ i \notin IdsOf(restorers'[q].todo)
               /\ restorers'[q].pc = "open" => i \notin IdsOf(files'[restorers'[q].entry.path])
    BY <1>3, PathsTyped, NotUnderWay DEF Gone
  <2> QED
    BY <2>1, <2>2, NotUnderWayNext
<1> QED
  BY <1>1, <1>4, <1>5 DEF StaysGone

LEMMA RestoreGone ==
  ASSUME TierInv, TierInv', NEW q \in Restorers, Restores(q), NEW i, Gone(i)
  PROVE  StaysGone(i)
<1> USE DEF Restores
<1>1. i \notin IdsOf(restorers[q].todo) /\ (restorers[q].pc = "open" => i \notin IdsOf(files[restorers[q].entry.path]))
  BY NotUnderWay DEF Gone
<1>2. i \in usedIds' /\ \A r \in hot' : r.id = i => r \in hot
  BY <1>1 DEF Gone, IdsOf
<1>3. \A path \in Path : i \notin IdsOf(files[path]) => i \notin IdsOf(files'[path])
  BY DEF IdsOf
<1>4. \A a \in ArchiveIds : Registered(a)' => i \notin IdsOf(files'[registry'[a].path])
  BY <1>3, PathsTyped DEF Gone
<1>5. ASSUME NEW p \in Archivers
      PROVE  /\ i \notin IdsOf(archivers'[p].batch)
             /\ archivers'[p].pc = "register" => i \notin IdsOf(files'[archivers'[p].path])
  BY <1>3, PathsTyped, NotUnderWay DEF Gone
<1>6. ASSUME NEW s \in Restorers
      PROVE  /\ i \notin IdsOf(restorers'[s].todo)
             /\ restorers'[s].pc = "open" => i \notin IdsOf(files'[restorers'[s].entry.path])
  <2>1. CASE s = q
    <3>1. i \notin IdsOf(restorers'[q].todo)
      BY <1>1 DEF IdsOf
    <3>2. restorers'[q].pc = "open" => i \notin IdsOf(files'[restorers'[q].entry.path])
      BY <1>3, PathsTyped DEF Gone
    <3> QED
      BY <2>1, <3>1, <3>2
  <2>2. CASE s # q
    BY <1>3, <2>2, PathsTyped, NotUnderWay DEF Gone
  <2> QED
    BY <2>1, <2>2
<1>7. i \notin UnderWay'
  BY <1>5, <1>6, NotUnderWayNext
<1> QED
  BY <1>2, <1>4, <1>7 DEF StaysGone

LEMMA TablesGone ==
  ASSUME TierInv, TablesOnly, NEW i, Gone(i)
  PROVE  StaysGone(i)
<1> USE DEF TablesOnly
<1>1. i \in usedIds' /\ \A r \in hot' : r.id = i => r \in hot
  BY DEF Gone
<1>2. \A a \in ArchiveIds : Registered(a)' => i \notin IdsOf(files'[registry'[a].path])
  BY DEF Gone
<1>3. i \notin UnderWay'
  BY NotUnderWay, NotUnderWayNext DEF Gone
<1> QED
  BY <1>1, <1>2, <1>3 DEF StaysGone

\* The steps that are nobody's request for a memory.
LEMMA TablesSteps ==
  ASSUME SleepStep \/ PassTime \/ AdminStep
  PROVE  TablesOnly
<1>1. CASE ConsolidateAndPrune
  <2>1. PICK i \in Ids \ usedIds :
          /\ hot' = (hot \ Expired(sleeper.char)) \cup
               {[id |-> i, char |-> sleeper.char, sess |-> Consolidated, ts |-> now, text |-> Node,
                 core |-> TRUE, vec |-> FALSE]}
          /\ usedIds' = usedIds \cup {i}
    BY <1>1 DEF ConsolidateAndPrune
  <2> DEFINE n == [id |-> i, char |-> sleeper.char, sess |-> Consolidated, ts |-> now,
                   text |-> Node, core |-> TRUE, vec |-> FALSE]
  <2>2. n.id = i /\ hot' \subseteq hot \cup {n}
    BY <2>1
  <2> HIDE DEF n
  <2>3. \E m : m.id \notin usedIds /\ usedIds' = usedIds \cup {m.id} /\ hot' \subseteq hot \cup {m}
    BY <2>1, <2>2
  <2>4. UNCHANGED <<files, registry, archivers, restorers>>
    BY <1>1 DEF ConsolidateAndPrune
  <2> QED
    BY <2>3, <2>4 DEF TablesOnly, Registered
<1>2. CASE FallAsleep \/ (\E c \in Chars : SelectDay(c)) \/ AbortSleep \/ AbortDelete
  BY <1>2 DEF FallAsleep, SelectDay, AbortSleep, AbortDelete, vars, TablesOnly, Registered
<1>3. CASE PassTime
  BY <1>3 DEF PassTime, Tick, tierVars, TablesOnly, Registered
<1>4. CASE \E scope \in Scopes : DropArchives(scope)
  <2>1. PICK scope \in Scopes : DropArchives(scope)
    BY <1>4
  <2>2. registry' = [a \in ArchiveIds |->
                       IF a \in ArchivesOf(scope) THEN None ELSE registry[a]]
    BY <2>1 DEF DropArchives
  <2>3. \A a \in ArchiveIds : Registered(a)' => Registered(a) /\ registry'[a] = registry[a]
    BY <2>2 DEF Registered
  <2> QED
    BY <2>1, <2>3 DEF DropArchives, TablesOnly
<1>5. CASE \E c \in Chars : ClearTable(c)
  BY <1>5 DEF ClearTable, TablesOnly, Registered
<1> QED
  BY <1>1, <1>2, <1>3, <1>4, <1>5 DEF SleepStep, AdminStep

LEMMA RowStepGone ==
  ASSUME TierInv, TierInv', OneSession, OwnSession, RowStep
  PROVE  OneSession' /\ OwnSession' /\ \A i : Gone(i) => StaysGone(i)
<1>1. CASE \E c \in Chars, s \in Sessions \ {Consolidated}, x \in Texts \ {Node} :
             Remember(c, s, x, FALSE)
  <2>1. PICK c \in Chars, s \in Sessions \ {Consolidated}, x \in Texts \ {Node} :
          Remember(c, s, x, FALSE)
    BY <1>1
  <2>2. PICK i \in Ids \ usedIds :
          /\ hot' = hot \cup {[id |-> i, char |-> c, sess |-> s, ts |-> now, text |-> x,
                               core |-> FALSE, vec |-> TRUE]}
          /\ usedIds' = usedIds \cup {i}
    BY <2>1 DEF Remember
  <2> DEFINE n == [id |-> i, char |-> c, sess |-> s, ts |-> now, text |-> x,
                   core |-> FALSE, vec |-> TRUE]
  <2>3. n.id = i /\ hot' \subseteq hot \cup {n}
    BY <2>2
  <2> HIDE DEF n
  <2>4. \E m : m.id \notin usedIds /\ usedIds' = usedIds \cup {m.id} /\ hot' \subseteq hot \cup {m}
    BY <2>2, <2>3
  <2>5. TablesOnly
    BY <2>1, <2>4 DEF Remember, TablesOnly, Registered
  <2> QED
    BY <2>5, TablesSessions, TablesGone
<1>2. CASE \E p \in Archivers : ArchiveStep(p)
  BY <1>2, ArchiveStepArchives, ArchiveSessions, ArchiveGone
<1>3. CASE \E q \in Restorers : RestoreStep(q)
  BY <1>3, RestoreStepRestores, RestoreSessions, RestoreGone
<1>4. CASE SleepStep \/ PassTime
  BY <1>4, TablesSteps, TablesSessions, TablesGone
<1> QED
  BY <1>1, <1>2, <1>3, <1>4 DEF RowStep, RequestStep

\* What no request has hold of any more when the rows move.
LEMMA RowStepDeletion ==
  ASSUME TierInv, TierInv', LifeTypeOK, OneSession, OwnSession, DeletionInv, RowStep, Escort,
         UNCHANGED wiped
  PROVE  DeletionInv'
<1>1. \A i : Gone(i) => StaysGone(i)
  BY RowStepGone
<1>2. ASSUME NEW i \in wiped' PROVE Gone(i)' /\ ~InHot(i)'
  <2>1. Gone(i) /\ ~InHot(i) /\ StaysGone(i)
    BY <1>1, <1>2 DEF DeletionInv
  <2> QED
    BY <2>1 DEF StaysGone, Gone, InHot
<1>3. /\ admin'.doomed = admin.doomed \ (UnderWay \cup UnderWay')
      /\ admin'.scope = admin.scope /\ admin'.todo = admin.todo
  BY DEF Escort, LifeTypeOK, AdminState
<1>4. ASSUME NEW i \in admin'.doomed
      PROVE  /\ Gone(i)'
             /\ \A r \in hot' : r.id = i => r.sess \in admin'.scope /\ r.char \in admin'.todo
  <2>1. Gone(i) /\ StaysGone(i) /\ i \notin UnderWay'
    BY <1>1, <1>3, <1>4 DEF DeletionInv
  <2>2. Gone(i)'
    BY <2>1 DEF StaysGone, Gone
  <2>3. \A r \in hot' : r.id = i => r \in hot
    BY <2>1 DEF StaysGone
  <2> QED
    BY <1>3, <1>4, <2>2, <2>3 DEF DeletionInv
<1> QED
  BY <1>2, <1>4 DEF DeletionInv

LEMMA TablesUnderWay ==
  ASSUME TablesOnly
  PROVE  UnderWay' = UnderWay
  BY DEF TablesOnly, UnderWay, Registering, Opening

\* What a request for a deletion finds: no row of these ids is of another session.
LEMMA DropDeletion ==
  ASSUME TierInv, TierInv', OneSession, OwnSession, NEW scope \in Scopes, DropArchives(scope),
         NEW i \in Doomed(scope)
  PROVE  /\ Gone(i)'
         /\ \A r \in hot' : r.id = i => r.sess \in scope /\ r.char \in Chars
<1>1. /\ UNCHANGED <<hot, files, usedIds, archivers, restorers>>
      /\ registry' = [a \in ArchiveIds |->
                        IF a \in ArchivesOf(scope) THEN None ELSE registry[a]]
  BY DEF DropArchives
<1>2. TablesOnly
  BY TablesSteps DEF AdminStep
<1>3. PICK t \in Rows : t.id = i /\ t.sess \in scope
  <2>1. CASE i \in IdsOf({r \in hot : r.sess \in scope})
    BY <2>1, RowsAre DEF IdsOf
  <2>2. CASE i \in ArchivedIn(ArchivesOf(scope))
    <3>1. PICK a \in ArchivesOf(scope) : i \in IdsOf(files[registry[a].path])
      BY <2>2 DEF ArchivedIn
    <3>2. PICK r \in files[registry[a].path] : r.id = i
      BY <3>1 DEF IdsOf
    <3>3. a \in ArchiveIds /\ Registered(a) /\ registry[a].sess \in scope
      BY <3>1 DEF ArchivesOf
    <3>4. registry[a].path \in Path /\ r.sess = registry[a].sess
      BY <3>2, <3>3, PathsTyped DEF OwnSession
    <3> QED
      BY <3>2, <3>3, <3>4, RowsAre
  <2> QED
    BY <2>1, <2>2 DEF Doomed
<1>4. \A r \in Rows : r.id = i => r.sess \in scope
  BY <1>3 DEF OneSession
<1>5. i \in usedIds' /\ i \notin UnderWay'
  BY <1>1, <1>2, <1>3, TablesUnderWay DEF OneSession, Doomed
<1>6. ASSUME NEW a \in ArchiveIds, Registered(a)', i \in IdsOf(files'[registry'[a].path])
      PROVE  FALSE
  <2>1. a \notin ArchivesOf(scope) /\ registry'[a] = registry[a] /\ Registered(a)
    BY <1>1, <1>6 DEF Registered
  <2>2. PICK r \in files[registry[a].path] : r.id = i
    BY <1>1, <1>6, <2>1 DEF IdsOf
  <2>3. registry[a].path \in Path /\ r.sess = registry[a].sess
    BY <2>1, <2>2, PathsTyped DEF OwnSession
  <2>4. registry[a].sess \in scope
    BY <1>4, <2>2, <2>3, RowsAre
  <2> QED
    BY <2>1, <2>4 DEF ArchivesOf
<1>7. ASSUME NEW r \in hot', r.id = i PROVE r.sess \in scope /\ r.char \in Chars
  <2>1. r \in Rows /\ r \in Row
    BY <1>1, RowsAre DEF TierInv, TypeOK, StoreTypeOK
  <2> QED
    BY <1>4, <1>7, <2>1 DEF Row
<1> QED
  BY <1>5, <1>6, <1>7 DEF Gone

LEMMA AdminDeletion ==
  ASSUME TierInv, TierInv', LifeTypeOK, OneSession, OwnSession, DeletionInv, AdminStep
  PROVE  DeletionInv'
<1>1. TablesOnly
  BY TablesSteps
<1>2. \A i : Gone(i) => StaysGone(i) /\ Gone(i)'
  BY <1>1, TablesGone, TablesUnderWay DEF StaysGone, Gone
<1>3. \A i \in wiped : Gone(i)' /\ ~InHot(i)'
  BY <1>2 DEF DeletionInv, StaysGone, InHot
<1>4. NoRequest.doomed = {}
  BY DEF NoRequest
<1>5. CASE \E scope \in Scopes : DropArchives(scope)
  <2>1. PICK scope \in Scopes : DropArchives(scope)
    BY <1>5
  <2>2. /\ admin'.doomed = Doomed(scope) /\ admin'.scope = scope /\ admin'.todo = Chars
        /\ wiped' = wiped
    BY <2>1 DEF DropArchives
  <2> QED
    BY <1>3, <2>1, <2>2, DropDeletion DEF DeletionInv
<1>6. CASE \E c \in Chars : ClearTable(c)
  <2>1. PICK c \in Chars : ClearTable(c)
    BY <1>6
  <2>2. c \in admin.todo /\ hot' = hot \ Condemned(c) /\ TableCleared(c)
    BY <2>1 DEF ClearTable
  <2>3. \A i \in admin.doomed : \A r \in hot' :
          r.id = i => r.sess \in admin.scope /\ r.char \in admin.todo \ {c}
    BY <2>2 DEF DeletionInv, Condemned
  <2>4. CASE admin.todo = {c}
    <3>1. admin' = NoRequest /\ wiped' = wiped \cup admin.doomed
      BY <2>2, <2>4 DEF TableCleared
    <3>2. \A i \in admin.doomed : Gone(i)' /\ ~InHot(i)'
      BY <1>2, <2>3, <2>4 DEF DeletionInv, InHot
    <3> QED
      BY <1>3, <1>4, <3>1, <3>2 DEF DeletionInv
  <2>5. CASE admin.todo # {c}
    <3>1. admin' = [admin EXCEPT !.todo = @ \ {c}] /\ wiped' = wiped
      BY <2>2, <2>5 DEF TableCleared
    <3>2. /\ admin'.doomed = admin.doomed /\ admin'.scope = admin.scope
          /\ admin'.todo = admin.todo \ {c}
      BY <3>1 DEF LifeTypeOK, AdminState
    <3>3. \A i \in admin.doomed : Gone(i)'
      BY <1>2 DEF DeletionInv
    <3> QED
      BY <1>3, <2>3, <3>1, <3>2, <3>3 DEF DeletionInv
  <2> QED
    BY <2>4, <2>5
<1>7. CASE AbortDelete
  <2>1. admin' = NoRequest /\ wiped' = wiped
    BY <1>7 DEF AbortDelete
  <2> QED
    BY <1>3, <1>4, <2>1 DEF DeletionInv
<1> QED
  BY <1>5, <1>6, <1>7 DEF AdminStep

GoneInv == LifeInv /\ OneSession /\ OwnSession /\ DeletionInv

LEMMA InitGoneInv == LifeInit => GoneInv
<1> SUFFICES ASSUME LifeInit PROVE GoneInv
  OBVIOUS
<1>1. LifeInv
  BY InitLifeInv
<1> USE DEF LifeInit, Init, StoreInit
<1>2. \A r : r \notin Rows
  BY RowsAre DEF IdleArchiver, IdleRestorer
<1>3. OneSession
  BY <1>2 DEF OneSession
<1>4. OwnSession
  BY DEF OwnSession, IdleArchiver, IdleRestorer, Registered
<1>5. DeletionInv
  BY DEF DeletionInv, NoRequest
<1> QED
  BY <1>1, <1>3, <1>4, <1>5 DEF GoneInv

LEMMA NextGoneInv == GoneInv /\ [LifeNext]_allVars => GoneInv'
<1> SUFFICES ASSUME GoneInv, [LifeNext]_allVars PROVE GoneInv'
  OBVIOUS
<1>1. LifeInv'
  BY NextLifeInv DEF GoneInv
<1>2. TierInv /\ TierInv' /\ LifeTypeOK /\ OneSession /\ OwnSession /\ DeletionInv
  BY <1>1 DEF GoneInv, LifeInv
<1>3. CASE RowStep /\ Escort /\ UNCHANGED wiped
  BY <1>1, <1>2, <1>3, RowStepGone, RowStepDeletion DEF GoneInv
<1>4. CASE AdminStep
  BY <1>1, <1>2, <1>4, TablesSteps, TablesSessions, AdminDeletion DEF GoneInv
<1>5. CASE UNCHANGED allVars
  <2>1. UNCHANGED vars /\ UNCHANGED <<admin, wiped>>
    BY <1>5 DEF allVars, adminVars
  <2> QED
    BY <1>1, <1>2, <2>1
       DEF vars, GoneInv, OneSession, OwnSession, Rows, Carried, DeletionInv, Gone, UnderWay,
           Registering, Opening, Registered, InHot
<1> QED
  BY <1>3, <1>4, <1>5 DEF LifeNext

------------------------------------------------------------------------------------
\* The theorems

\* The types, of both parts of the state, and what the nights have seen.
THEOREM LifeInvariance == LifeSpec => []LifeInv
BY InitLifeInv, NextLifeInv, PTL DEF LifeSpec

\* The sleep cycle's and the administrator's variables keep their types.
THEOREM LifeTypes == LifeSpec => []LifeTypeOK
<1>1. LifeInv => LifeTypeOK
  BY DEF LifeInv
<1> QED
  BY <1>1, LifeInvariance, PTL

\* With a look at each table within a day of the last finished one, and model calls
\* shorter than a day, nothing is pruned that no summary knows, but restored rows.
THEOREM NightsSeeAll == LifeSpec => []PrunedWasSummarised
<1>1. LifeInv => PrunedWasSummarised
  BY DEF LifeInv
<1> QED
  BY <1>1, LifeInvariance, PTL

\* TierManager's promise, kept beside nights and deletions: a row leaves tables and
\* archives only for one of the named reasons.
THEOREM NothingLostSilently == LifeSpec => []NoSilentLoss
<1>1. LifeInv => NoSilentLoss
  BY DEF LifeInv, TierInv, RowsSafe, NoSilentLoss, SafeIn
<1> QED
  BY <1>1, LifeInvariance, PTL

\* A row whose deletion was reported as done never returns, from no archive and by no
\* request, unless one had hold of it while the deletion ran.
THEOREM DeletionsLast == LifeSpec => []DeletedStaysDeleted
<1>1. GoneInv => DeletedStaysDeleted
  BY DEF GoneInv, DeletionInv, Gone, DeletedStaysDeleted, InArchive
<1>2. LifeSpec => []GoneInv
  BY InitGoneInv, NextGoneInv, PTL DEF LifeSpec
<1> QED
  BY <1>1, <1>2, PTL

\* A core row leaves its table only by an administrator's DELETE of its session.
LEMMA LifeCoreStep ==
  ASSUME [LifeNext]_allVars, NEW r \in hot, r.core, r \notin hot'
  PROVE  r.sess \in admin.scope /\ r.char \in admin.todo
<1>1. ~SleepStep
  BY DEF SleepStep, FallAsleep, SelectDay, ConsolidateAndPrune, Expired, AbortSleep, vars
<1>2. ~RequestStep
  <2>1. ~\E c \in Chars, s \in Sessions \ {Consolidated}, x \in Texts \ {Node} :
            Remember(c, s, x, FALSE)
    BY DEF Remember
  <2>2. ~\E p \in Archivers : ArchiveStep(p)
    BY DEF ArchiveStep, SelectRows, WriteFile, Register, DeleteRows, AbortArchive, storeVars
  <2>3. ASSUME NEW q \in Restorers PROVE ~RestoreStep(q)
    <3>1. ~InsertRow(q)
      BY DEF InsertRow
    <3> QED
      BY <3>1 DEF RestoreStep, Lookup, OpenFile, Unregister, RemoveFile, AbortRestore, storeVars
  <2> QED
    BY <2>1, <2>2, <2>3 DEF RequestStep
<1>3. ~PassTime /\ ~UNCHANGED allVars
  BY DEF PassTime, Tick, allVars, vars
<1>4. AdminStep
  BY <1>1, <1>2, <1>3 DEF LifeNext, RowStep
<1> QED
  BY <1>4 DEF AdminStep, DropArchives, ClearTable, Condemned, AbortDelete, vars

\* Nights, archives and restorations leave core rows alone.
THEOREM CoreOnly == LifeSpec => CoreOnlyByAdmin
<1>1. [LifeNext]_allVars =>
        [\A r \in hot : r.core /\ r \notin hot' =>
            r.sess \in admin.scope /\ r.char \in admin.todo]_allVars
  BY LifeCoreStep
<1> QED
  BY <1>1, PTL DEF LifeSpec, CoreOnlyByAdmin
====================================================================================
