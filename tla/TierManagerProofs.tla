----------------------------- MODULE TierManagerProofs -----------------------------
(***************************************************************************)
(* Archiving and restoring lose no memory: proofs about TierManager for    *)
(* any number of tables, rows, archives and concurrent requests, cut off   *)
(* anywhere.                                                               *)
(***************************************************************************)
EXTENDS TierManager, FiniteSetTheorems, TLAPS

\* The fields of an archiving request have their types.
LEMMA ArchiverFields ==
  ASSUME TypeOK, NEW p \in Archivers
  PROVE  /\ archivers[p].batch \subseteq Row
         /\ archivers[p].path \in Path \cup {None}
         /\ archivers[p].char \in Chars \cup {None}
         /\ archivers[p].sess \in Sessions \cup {None}
         /\ archivers[p].aid \in ArchiveIds \cup {None}
  BY DEF TypeOK, ArchiverState

\* The fields of a restoration have their types.
LEMMA RestorerFields ==
  ASSUME TypeOK, NEW q \in Restorers
  PROVE  /\ restorers[q].todo \subseteq Row
         /\ restorers[q].entry \in Entry \cup {None}
         /\ restorers[q].char \in Chars \cup {None}
         /\ restorers[q].aid \in ArchiveIds \cup {None}
         /\ restorers[q].errors \subseteq Ids
  BY DEF TypeOK, RestorerState

\* While a request has something to write or to delete, its path and its archive are
\* those of the store.
LEMMA ArchiverHolds ==
  ASSUME TypeOK, ArchiverInv, NEW p \in Archivers
  PROVE  /\ archivers[p].pc \in {"register", "delete"} => archivers[p].path \in Path
         /\ archivers[p].pc = "delete" => archivers[p].aid \in ArchiveIds
  BY ArchiverFields, NoneAssumption, NullAssumption
     DEF ArchiverInv, ArchiverOK, TypeOK, StoreTypeOK

\* A registered archive has an entry, with a path.
LEMMA EntryTyped ==
  ASSUME StoreTypeOK, NEW a \in ArchiveIds, Registered(a)
  PROVE  registry[a] \in Entry /\ registry[a].path \in Path
  BY DEF StoreTypeOK, Registered, Entry

\* Rows stay safe in a step after which every row safe before is in a table, excused,
\* or safe in an archive.
LEMMA RowsStaySafe ==
  ASSUME RowsSafe, stored' = stored, excused \subseteq excused',
         \A i \in stored : InHot(i) /\ i \notin excused' =>
            InHot(i)' \/ \E a \in ArchiveIds : SafeIn(i, a)',
         \A i \in stored, a \in ArchiveIds : SafeIn(i, a) /\ i \notin excused' =>
            InHot(i)' \/ \E b \in ArchiveIds : SafeIn(i, b)'
  PROVE  RowsSafe'
<1> SUFFICES ASSUME NEW i \in stored, i \notin excused'
             PROVE  InHot(i)' \/ \E a \in ArchiveIds : SafeIn(i, a)'
  BY DEF RowsSafe
<1>1. InHot(i) \/ \E a \in ArchiveIds : SafeIn(i, a)
  BY DEF RowsSafe
<1> QED
  BY <1>1

\* An archiving request that does not move keeps what it knows, as long as its file is
\* left alone or its rows become excused, and its archive stays registered.
LEMMA ArchiverKept ==
  ASSUME NEW p, ArchiverOK(p), archivers'[p] = archivers[p],
         usedPaths \subseteq usedPaths', reusedPaths \subseteq reusedPaths',
         excused \subseteq excused',
         archivers[p].pc = "register" =>
            \/ IdsOf(archivers[p].batch) \subseteq excused' /\ archivers[p].path \in reusedPaths'
            \/ /\ archivers[p].path \in reusedPaths' => archivers[p].path \in reusedPaths
               /\ files'[archivers[p].path] = files[archivers[p].path],
         archivers[p].pc = "delete" =>
            \/ IdsOf(archivers[p].batch) \subseteq excused'
            \/ /\ registry'[archivers[p].aid] = registry[archivers[p].aid]
               /\ archivers[p].path \in reusedPaths' => archivers[p].path \in reusedPaths
               /\ files'[archivers[p].path] = files[archivers[p].path]
  PROVE  ArchiverOK(p)'
<1> DEFINE job == archivers[p]
<1>1. IdsOf(job.batch)' = IdsOf(job.batch)
  BY DEF IdsOf
<1>2. job.pc = "delete" =>
        \/ IdsOf(job.batch) \subseteq excused'
        \/ /\ Registered(job.aid)' /\ registry'[job.aid].path = job.path
           /\ job.path \notin reusedPaths' /\ files'[job.path] = job.batch
  BY DEF ArchiverOK, Registered
<1>3. job.pc = "register" =>
        /\ job.path \notin reusedPaths' => files'[job.path] = job.batch
        /\ job.path \in reusedPaths' => IdsOf(job.batch) \subseteq excused'
  BY DEF ArchiverOK
<1>4. job.pc \in {"register", "delete"} => job.path \in usedPaths'
  BY DEF ArchiverOK
<1> QED
  BY <1>1, <1>2, <1>3, <1>4 DEF ArchiverOK

LEMMA InitTierInv == Init => TierInv
<1> SUFFICES ASSUME Init PROVE TierInv
  OBVIOUS
<1> USE DEF Init, StoreInit
<1>1. TypeOK
  BY MaxTimeAssumption DEF TypeOK, ArchiverState, RestorerState, StoreTypeOK, IdleArchiver, IdleRestorer, Times
<1>2. RowsSafe /\ ArchiverInv /\ RestorerInv /\ PathsInv /\ ReusedInv
  BY DEF RowsSafe, ArchiverInv, ArchiverOK, RestorerInv, RestorerOK, PathsInv, ReusedInv, IdleArchiver,
         IdleRestorer, Registered
<1>3. FiniteInv
  BY FS_EmptySet DEF FiniteInv, IdleArchiver
<1>4. RegistryInv /\ ArchiveRestorable /\ VolatileInv
  BY DEF RegistryInv, ArchiveRestorable, VolatileInv, Registered, IdleArchiver,
         IdleRestorer
<1> QED
  BY <1>1, <1>2, <1>3, <1>4 DEF TierInv

------------------------------------------------------------------------------------
\* Steps that leave the archives alone

\* A new row is in its table.
LEMMA RememberTierInv ==
  ASSUME TierInv, NEW c \in Chars, NEW s \in Sessions, NEW x \in Texts,
         NEW core \in BOOLEAN, Remember(c, s, x, core)
  PROVE  TierInv'
<1>1. PICK i \in Ids \ usedIds :
        /\ hot' = hot \cup {[id |-> i, char |-> c, sess |-> s, ts |-> now, text |-> x,
                             core |-> core, vec |-> TRUE]}
        /\ usedIds' = usedIds \cup {i}
        /\ stored' = stored \cup {i}
  BY DEF Remember
<1> DEFINE row == [id |-> i, char |-> c, sess |-> s, ts |-> now, text |-> x,
                   core |-> core, vec |-> TRUE]
<1>2. /\ UNCHANGED <<registry, files, now, usedArchiveIds, archivers, restorers,
                     faults, usedPaths, reusedPaths, excused>>
  BY DEF Remember
<1>3. TypeOK'
  <2>1. row \in Row
    BY DEF Row, TierInv, TypeOK, StoreTypeOK
  <2>2. hot' \subseteq Row /\ usedIds' \subseteq Ids /\ stored' \subseteq Ids
    BY <1>1, <2>1 DEF TierInv, TypeOK, StoreTypeOK
  <2> QED
    BY <1>2, <2>2 DEF TierInv, TypeOK, StoreTypeOK
<1>4. RowsSafe'
  <2>1. InHot(i)'
    <3>1. row \in hot' /\ row.id = i
      BY <1>1
    <3> QED
      BY <3>1, Zenon DEF InHot
  <2>2. \A j : InHot(j) => InHot(j)'
    BY <1>1 DEF InHot
  <2>3. \A j, a : SafeIn(j, a) => SafeIn(j, a)'
    BY <1>2 DEF SafeIn, InArchive, Registered, FileExists
  <2> QED
    BY <1>1, <1>2, <2>1, <2>2, <2>3 DEF TierInv, RowsSafe
<1>5. ArchiverInv' /\ RestorerInv' /\ PathsInv' /\ ReusedInv'
  BY <1>2 DEF TierInv, ArchiverInv, ArchiverOK, RestorerInv, RestorerOK, PathsInv, ReusedInv, Registered, Disclosed
<1>6. RegistryInv' /\ ArchiveRestorable' /\ VolatileInv'
  BY <1>2 DEF TierInv, RegistryInv, ArchiveRestorable, VolatileInv, Registered, FileExists
<1>7. FiniteInv'
  BY <1>1, <1>2, FS_AddElement DEF TierInv, FiniteInv
<1> QED
  BY <1>3, <1>4, <1>5, <1>6, <1>7 DEF TierInv

\* Time matters to the next file name and to what is old enough, not to what is safe.
LEMMA TickTierInv ==
  ASSUME TierInv, Tick, UNCHANGED tierVars
  PROVE  TierInv'
<1>1. UNCHANGED <<hot, registry, files, usedIds, usedArchiveIds, archivers, restorers,
                  faults, stored, usedPaths, reusedPaths, excused>>
  BY DEF Tick, tierVars
<1>2. TypeOK'
  <2>1. now' \in Times
    BY MaxTimeAssumption DEF Tick, TierInv, TypeOK, StoreTypeOK, Times
  <2> QED
    BY <1>1, <2>1 DEF TierInv, TypeOK, StoreTypeOK
<1>3. RowsSafe'
  BY <1>1 DEF TierInv, RowsSafe, SafeIn, InArchive, InHot, Registered, FileExists
<1>4. ArchiverInv' /\ RestorerInv' /\ PathsInv' /\ ReusedInv'
  BY <1>1 DEF TierInv, ArchiverInv, ArchiverOK, RestorerInv, RestorerOK, PathsInv, ReusedInv, Registered, Disclosed
<1>5. RegistryInv' /\ ArchiveRestorable' /\ VolatileInv'
  BY <1>1 DEF TierInv, RegistryInv, ArchiveRestorable, VolatileInv, Registered, FileExists
<1>6. FiniteInv'
  BY <1>1 DEF TierInv, FiniteInv
<1> QED
  BY <1>2, <1>3, <1>4, <1>5, <1>6 DEF TierInv

LEMMA StutterTierInv ==
  ASSUME TierInv, UNCHANGED vars
  PROVE  TierInv'
  BY DEF vars, TierInv, TypeOK, FiniteInv, StoreTypeOK, RowsSafe, SafeIn, InArchive, InHot, Registered,
         FileExists, ArchiverInv, ArchiverOK, RestorerInv, RestorerOK, Disclosed, PathsInv, ReusedInv, RegistryInv,
         ArchiveRestorable, VolatileInv

------------------------------------------------------------------------------------
\* Archiving

\* Which restoration works on which archive: what SafeIn depends on besides the files.
LEMMA SafeInFrame ==
  ASSUME UNCHANGED <<registry, files, restorers>>, NEW i, NEW a
  PROVE  SafeIn(i, a) <=> SafeIn(i, a)'
  BY DEF SafeIn, InArchive, Registered, FileExists

\* The rows are read; nothing is written.
LEMMA SelectTierInv ==
  ASSUME TierInv, NEW p \in Archivers, NEW c \in Chars, NEW s \in Sessions,
         SelectRows(p, c, s)
  PROVE  TierInv'
<1>1. PICK batch \in OldestFirst(Eligible(c, s)) \ {{}} :
        archivers' = [archivers EXCEPT ![p] =
            [pc |-> "write", char |-> c, sess |-> s, batch |-> batch,
             path |-> None, aid |-> None]]
  BY DEF SelectRows
<1>2. UNCHANGED <<hot, registry, files, now, usedIds, usedArchiveIds, restorers, faults,
                  stored, usedPaths, reusedPaths, excused>>
  BY DEF SelectRows, storeVars
<1>3. batch \subseteq hot /\ \A r \in batch : ~r.core
  BY DEF OldestFirst, Eligible
<1> DEFINE job == [pc |-> "write", char |-> c, sess |-> s, batch |-> batch,
                   path |-> None, aid |-> None]
<1>4. archivers' = [archivers EXCEPT ![p] = job] /\ archivers[p].aid = None
  BY <1>1 DEF SelectRows, TierInv, ArchiverInv, ArchiverOK
<1>5. TypeOK'
  <2>1. batch \in SUBSET Row
    BY <1>3 DEF TierInv, TypeOK, StoreTypeOK
  <2>2. job \in ArchiverState
    BY <2>1 DEF ArchiverState
  <2>3. archivers' \in [Archivers -> ArchiverState]
    BY <1>4, <2>2 DEF TierInv, TypeOK
  <2> QED
    BY <1>2, <2>3 DEF TierInv, TypeOK, StoreTypeOK
<1>6. RowsSafe'
  BY <1>2, SafeInFrame DEF TierInv, RowsSafe, InHot
<1>7. ArchiverInv' /\ RestorerInv' /\ PathsInv'
  BY <1>2, <1>4 DEF TierInv, TypeOK, ArchiverInv, ArchiverOK, RestorerInv, RestorerOK, PathsInv, Registered, Disclosed
<1>8. ReusedInv' /\ RegistryInv' /\ ArchiveRestorable' /\ VolatileInv'
  BY <1>2, <1>3, <1>4
     DEF TierInv, TypeOK, ReusedInv, RegistryInv, ArchiveRestorable, VolatileInv, Registered,
         FileExists
<1>9. FiniteInv'
  BY <1>2, <1>3, <1>4, FS_Subset DEF TierInv, TypeOK, FiniteInv
<1> QED
  BY <1>5, <1>6, <1>7, <1>8, <1>9 DEF TierInv

\* The file is written: on a new path it holds the batch; on a used one both contents
\* are excused.
LEMMA WriteTierInv ==
  ASSUME TierInv, NEW p \in Archivers, WriteFile(p)
  PROVE  TierInv'
<1> DEFINE job == archivers[p]
           path == [char |-> job.char, sess |-> job.sess, second |-> now]
<1>1. /\ job.pc = "write"
      /\ files' = [files EXCEPT ![path] = job.batch]
      /\ archivers' = [archivers EXCEPT ![p].pc = "register", ![p].path = path]
      /\ usedPaths' = usedPaths \cup {path}
      /\ UNCHANGED <<hot, registry, now, usedIds, usedArchiveIds, restorers, faults, stored>>
  BY DEF WriteFile
<1>2. \/ path \notin usedPaths /\ UNCHANGED <<reusedPaths, excused>>
      \/ /\ path \in usedPaths
         /\ reusedPaths' = reusedPaths \cup {path}
         /\ excused' = excused \cup IdsOf(job.batch) \cup IdsOf(files[path])
  BY DEF WriteFile
<1>3. path \in Path
  <2>1. job.char \in Chars /\ job.sess \in Sessions
    BY <1>1 DEF TierInv, ArchiverInv, ArchiverOK
  <2> QED
    BY <2>1 DEF Path, TierInv, TypeOK, StoreTypeOK
<1>4. job.batch \subseteq Row /\ job.aid = None
  BY <1>1, ArchiverFields DEF TierInv, ArchiverInv, ArchiverOK
<1>5. /\ archivers'[p].pc = "register" /\ archivers'[p].path = path
      /\ archivers'[p].batch = job.batch /\ archivers'[p].aid = None
      /\ archivers'[p].char = job.char /\ archivers'[p].sess = job.sess
      /\ \A r \in Archivers : r # p => archivers'[r] = archivers[r]
  BY <1>1, <1>4 DEF TierInv, TypeOK
<1>6. reusedPaths \subseteq reusedPaths' /\ excused \subseteq excused'
  BY <1>2
<1>7. \A f \in Path : f # path => files'[f] = files[f]
  BY <1>1 DEF TierInv, TypeOK, StoreTypeOK
<1>8. files'[path] = job.batch
  BY <1>1, <1>3 DEF TierInv, TypeOK, StoreTypeOK
<1>9. TypeOK'
  <2>1. archivers' \in [Archivers -> ArchiverState]
    <3>1. [job EXCEPT !.pc = "register", !.path = path] \in ArchiverState
      BY <1>3 DEF TierInv, TypeOK, ArchiverState
    <3> QED
      BY <1>1, <3>1 DEF TierInv, TypeOK
  <2>2. files' \in [Path -> SUBSET Row]
    BY <1>1, <1>3, <1>4 DEF TierInv, TypeOK, StoreTypeOK
  <2>3. /\ usedPaths' \subseteq Path
        /\ reusedPaths' \subseteq usedPaths'
        /\ excused' \subseteq Ids
    BY <1>1, <1>2, <1>3, <1>4 DEF TierInv, TypeOK, StoreTypeOK, IdsOf, Row
  <2> QED
    BY <1>1, <2>1, <2>2, <2>3 DEF TierInv, TypeOK, StoreTypeOK
<1>10. RowsSafe'
  <2>1. \A i : InHot(i) => InHot(i)'
    BY <1>1 DEF InHot
  <2>2. ASSUME NEW i \in stored, NEW a \in ArchiveIds, SafeIn(i, a), i \notin excused'
        PROVE  SafeIn(i, a)'
    <3>1. Registered(a) /\ registry[a].path \in Path /\ registry[a].path \in usedPaths
      BY <2>2, EntryTyped DEF SafeIn, InArchive, TierInv, TypeOK, RegistryInv
    <3>2. registry[a].path # path
      BY <1>2, <2>2, <3>1 DEF SafeIn, InArchive, IdsOf
    <3>3. files'[registry[a].path] = files[registry[a].path]
      BY <1>7, <3>1, <3>2
    <3> QED
      BY <1>1, <2>2, <3>3 DEF SafeIn, InArchive, Registered, FileExists
  <2> QED
    BY <1>1, <1>6, <2>1, <2>2, RowsStaySafe DEF TierInv
<1>11. ArchiverInv'
  <2> SUFFICES ASSUME NEW r \in Archivers PROVE ArchiverOK(r)'
    BY DEF ArchiverInv
  <2>1. CASE r = p
    BY <1>1, <1>2, <1>5, <1>8, <2>1 DEF TierInv, ArchiverInv, ArchiverOK, TypeOK
  <2>2. CASE r # p
    <3>1. archivers'[r] = archivers[r] /\ ArchiverOK(r)
      BY <1>5, <2>2 DEF TierInv, ArchiverInv
    <3>2. ASSUME archivers[r].pc \in {"register", "delete"}, archivers[r].path = path
          PROVE  path \in reusedPaths' /\ IdsOf(archivers[r].batch) \subseteq excused'
      BY <1>2, <3>1, <3>2 DEF ArchiverOK, IdsOf
    <3>3. ASSUME archivers[r].pc \in {"register", "delete"}, archivers[r].path # path
          PROVE  files'[archivers[r].path] = files[archivers[r].path]
      BY <1>7, <3>3, ArchiverHolds DEF TierInv
    <3> QED
      BY <1>1, <1>2, <1>6, <3>1, <3>2, <3>3, ArchiverKept
  <2> QED
    BY <2>1, <2>2
<1>12. RestorerInv'
  <2>1. \A r \in Archivers : archivers'[r].aid = archivers[r].aid
    BY <1>4, <1>5
  <2> QED
    BY <1>1, <2>1, ZenonT(40) DEF TierInv, RestorerInv, RestorerOK, Registered, Disclosed
<1>13. PathsInv'
  <2>1. ASSUME NEW a \in ArchiveIds, Registered(a), registry[a].path = path
        PROVE  path \in reusedPaths'
    BY <1>2, <2>1 DEF TierInv, RegistryInv
  <2>2. ASSUME NEW r \in Archivers, r # p, archivers[r].pc = "register",
               archivers[r].path = path
        PROVE  path \in reusedPaths'
    BY <1>2, <2>2 DEF TierInv, ArchiverInv, ArchiverOK
  <2>3. ASSUME NEW q \in Restorers, restorers[q].pc # "idle",
               restorers[q].entry.path = path
        PROVE  path \in reusedPaths'
    BY <1>2, <2>3 DEF TierInv, RestorerInv, RestorerOK
  <2>4. \A r \in Archivers :
          archivers'[r].pc = "register" =>
            \/ archivers[r].pc = "register" /\ archivers'[r].path = archivers[r].path
            \/ r = p /\ archivers'[r].path = path
    BY <1>5
  <2>5. \A a \in ArchiveIds : Registered(a)' <=> Registered(a)
    BY <1>1 DEF Registered
  <2>6. \A a \in ArchiveIds, r \in Archivers :
          /\ Registered(a) /\ archivers'[r].pc = "register"
          /\ registry[a].path = archivers'[r].path
          => registry[a].path \in reusedPaths'
    BY <1>6, <2>1, <2>4 DEF TierInv, PathsInv
  <2>7. \A r, t \in Archivers :
          /\ archivers'[r].pc = "register" /\ archivers'[t].pc = "register" /\ r # t
          /\ archivers'[r].path = archivers'[t].path
          => archivers'[r].path \in reusedPaths'
    BY <1>6, <2>2, <2>4 DEF TierInv, PathsInv
  <2>8. \A r \in Archivers, q \in Restorers :
          /\ archivers'[r].pc = "register" /\ restorers[q].pc # "idle"
          /\ archivers'[r].path = restorers[q].entry.path
          => archivers'[r].path \in reusedPaths'
    BY <1>6, <2>3, <2>4 DEF TierInv, PathsInv
  <2> QED
    BY <1>1, <1>6, <2>5, <2>6, <2>7, <2>8 DEF TierInv, PathsInv
<1>14. ReusedInv'
  BY <1>2, <1>6, <1>7, <1>8 DEF TierInv, TypeOK, ReusedInv, IdsOf
<1>15. RegistryInv' /\ ArchiveRestorable'
  <2>1. RegistryInv'
    BY <1>1 DEF TierInv, RegistryInv, Registered
  <2>2. ASSUME NEW a \in ArchiveIds, Registered(a), registry[a].path \notin reusedPaths'
        PROVE  files'[registry[a].path] = files[registry[a].path]
    BY <1>2, <1>7, <2>2, EntryTyped DEF TierInv, TypeOK, RegistryInv
  <2> QED
    BY <1>1, <1>6, <2>1, <2>2 DEF TierInv, ArchiveRestorable, Registered, FileExists
<1>16. VolatileInv'
  BY <1>1, <1>5, <1>7, <1>8, ZenonT(40) DEF TierInv, VolatileInv
<1>17. FiniteInv'
  BY <1>1, <1>5 DEF TierInv, FiniteInv
<1> QED
  BY <1>9, <1>10, <1>11, <1>12, <1>13, <1>14, <1>15, <1>16, <1>17 DEF TierInv

\* The archive gets a fresh id: no other archive, and no restoration, has it.
LEMMA RegisterTierInv ==
  ASSUME TierInv, NEW p \in Archivers, Register(p)
  PROVE  TierInv'
<1> DEFINE job == archivers[p]
<1>1. PICK a \in ArchiveIds \ usedArchiveIds :
        /\ registry' = [registry EXCEPT ![a] =
             [char |-> job.char, sess |-> job.sess, path |-> job.path,
              count |-> Cardinality(job.batch)]]
        /\ usedArchiveIds' = usedArchiveIds \cup {a}
        /\ archivers' = [archivers EXCEPT ![p].pc = "delete", ![p].aid = a]
  BY DEF Register
<1> DEFINE entry == [char |-> job.char, sess |-> job.sess, path |-> job.path,
                     count |-> Cardinality(job.batch)]
<1>2. /\ job.pc = "register"
      /\ UNCHANGED <<hot, files, now, usedIds, restorers, faults, stored, usedPaths,
                     reusedPaths, excused>>
  BY DEF Register
<1>3. /\ job.path \in Path /\ job.path \in usedPaths /\ job.batch # {}
      /\ job.path \notin reusedPaths => files[job.path] = job.batch
      /\ job.path \in reusedPaths => IdsOf(job.batch) \subseteq excused
      /\ job.char \in Chars /\ job.sess \in Sessions /\ job.aid = None
  BY <1>2, ArchiverHolds DEF TierInv, ArchiverInv, ArchiverOK
<1>4. ~Registered(a) /\ a # None
  BY <1>1, NoneAssumption DEF TierInv, RegistryInv
<1>5. /\ archivers'[p].pc = "delete" /\ archivers'[p].path = job.path
      /\ archivers'[p].batch = job.batch /\ archivers'[p].aid = a
      /\ archivers'[p].char = job.char /\ archivers'[p].sess = job.sess
      /\ \A r \in Archivers : r # p => archivers'[r] = archivers[r]
  BY <1>1 DEF TierInv, TypeOK, ArchiverState
<1>6. /\ registry'[a] = entry
      /\ \A b \in ArchiveIds : b # a => registry'[b] = registry[b]
  BY <1>1 DEF TierInv, TypeOK, StoreTypeOK
<1>7. entry \in Entry /\ entry # None
  <2>1. Cardinality(job.batch) \in Nat
    BY FS_CardinalityType DEF TierInv, FiniteInv
  <2> QED
    BY <1>3, <2>1, NullAssumption DEF Entry
<1>8. Registered(a)' /\ \A b \in ArchiveIds : b # a => (Registered(b)' <=> Registered(b))
  BY <1>6, <1>7 DEF Registered
<1>9. TypeOK'
  <2>1. archivers' \in [Archivers -> ArchiverState]
    <3>1. [job EXCEPT !.pc = "delete", !.aid = a] \in ArchiverState
      BY DEF TierInv, TypeOK, ArchiverState
    <3> QED
      BY <1>1, <3>1 DEF TierInv, TypeOK
  <2>2. registry' \in [ArchiveIds -> Entry \cup {None}] /\ usedArchiveIds' \subseteq ArchiveIds
    BY <1>1, <1>7 DEF TierInv, TypeOK, StoreTypeOK
  <2> QED
    BY <1>2, <2>1, <2>2 DEF TierInv, TypeOK, StoreTypeOK
<1>10. RowsSafe'
  <2>1. ASSUME NEW i \in stored, NEW b \in ArchiveIds, SafeIn(i, b) PROVE SafeIn(i, b)'
    <3>1. b # a
      BY <1>4, <2>1 DEF SafeIn, InArchive
    <3>2. registry'[b] = registry[b]
      BY <1>6, <3>1
    <3> QED
      BY <1>2, <2>1, <3>2 DEF SafeIn, InArchive, Registered, FileExists
  <2> QED
    BY <1>2, <2>1, RowsStaySafe DEF TierInv, InHot
<1>11. ArchiverInv'
  <2>1. ArchiverOK(p)'
    <3>1. IdsOf(archivers'[p].batch) = IdsOf(job.batch)
      BY <1>5
    <3> QED
      BY <1>2, <1>3, <1>4, <1>5, <1>6, <1>8, <3>1 DEF ArchiverOK, IdsOf
  <2>2. ASSUME NEW r \in Archivers, r # p PROVE ArchiverOK(r)'
    <3>1. archivers[r].pc = "delete" =>
            \/ IdsOf(archivers[r].batch) \subseteq excused
            \/ archivers[r].aid # a /\ archivers[r].aid \in ArchiveIds
      BY <1>4, ArchiverHolds DEF TierInv, ArchiverInv, ArchiverOK
    <3> QED
      BY <1>2, <1>5, <1>6, <2>2, <3>1, ArchiverKept DEF TierInv, ArchiverInv
  <2> QED
    BY <2>1, <2>2 DEF ArchiverInv
<1>12. RestorerInv'
  <2> SUFFICES ASSUME NEW q \in Restorers, restorers[q].pc # "idle" PROVE RestorerOK(q)'
    BY <1>2 DEF RestorerInv, RestorerOK
  <2>1. RestorerOK(q) /\ restorers[q].aid \in usedArchiveIds /\ restorers[q].aid \in ArchiveIds
    BY DEF TierInv, TypeOK, StoreTypeOK, RestorerInv, RestorerOK
  <2>2. restorers[q].aid # a
    BY <1>1, <2>1
  <2>3. Disclosed(restorers[q].aid)'
    BY <1>2, <1>5, <2>1, <2>2 DEF RestorerOK, Disclosed
  <2> QED
    BY <1>1, <1>2, <1>6, <1>8, <2>1, <2>2, <2>3 DEF RestorerOK
<1>13. PathsInv'
  <2>1. \A r \in Archivers :
          archivers'[r].pc = "register" =>
            r # p /\ archivers[r].pc = "register" /\ archivers'[r].path = archivers[r].path
    BY <1>5
  <2>2. \A b \in ArchiveIds :
          Registered(b)' =>
            \/ b = a /\ registry'[b].path = job.path
            \/ b # a /\ Registered(b) /\ registry'[b].path = registry[b].path
    BY <1>6, <1>8
  <2>3. \A b \in ArchiveIds :
          Registered(b) /\ registry[b].path = job.path => job.path \in reusedPaths
    BY <1>2 DEF TierInv, PathsInv
  <2>4. \A r \in Archivers :
          r # p /\ archivers[r].pc = "register" /\ archivers[r].path = job.path
            => job.path \in reusedPaths
    BY <1>2 DEF TierInv, PathsInv
  <2>5. \A q \in Restorers :
          restorers[q].pc # "idle" /\ restorers[q].entry.path = job.path
            => job.path \in reusedPaths
    BY <1>2 DEF TierInv, PathsInv
  <2>6. \A b, d \in ArchiveIds :
          Registered(b)' /\ Registered(d)' /\ b # d /\ registry'[b].path = registry'[d].path
            => registry'[b].path \in reusedPaths
    BY <2>2, <2>3 DEF TierInv, PathsInv
  <2>7. \A b \in ArchiveIds, r \in Archivers :
          /\ Registered(b)' /\ archivers'[r].pc = "register"
          /\ registry'[b].path = archivers'[r].path
          => registry'[b].path \in reusedPaths
    BY <2>1, <2>2, <2>4 DEF TierInv, PathsInv
  <2>8. \A r, t \in Archivers :
          /\ archivers'[r].pc = "register" /\ archivers'[t].pc = "register" /\ r # t
          /\ archivers'[r].path = archivers'[t].path
          => archivers'[r].path \in reusedPaths
    BY <2>1 DEF TierInv, PathsInv
  <2>9. \A b \in ArchiveIds, q \in Restorers :
          /\ Registered(b)' /\ restorers[q].pc # "idle" /\ restorers[q].aid # b
          /\ registry'[b].path = restorers[q].entry.path
          => registry'[b].path \in reusedPaths
    BY <2>2, <2>5 DEF TierInv, PathsInv
  <2>10. \A r \in Archivers, q \in Restorers :
          /\ archivers'[r].pc = "register" /\ restorers[q].pc # "idle"
          /\ archivers'[r].path = restorers[q].entry.path
          => archivers'[r].path \in reusedPaths
    BY <2>1 DEF TierInv, PathsInv
  <2> QED
    BY <1>2, <2>6, <2>7, <2>8, <2>9, <2>10 DEF PathsInv
<1>14. ReusedInv'
  BY <1>2 DEF TierInv, ReusedInv, IdsOf
<1>15. RegistryInv'
  BY <1>1, <1>2, <1>3, <1>6, <1>8 DEF TierInv, RegistryInv
<1>16. ArchiveRestorable'
  <2>1. job.path \notin reusedPaths =>
          FileExists(job.path) /\ Cardinality(files[job.path]) = entry.count
    BY <1>2, <1>3 DEF FileExists, TierInv, ArchiverInv, ArchiverOK
  <2> QED
    BY <1>2, <1>6, <1>8, <2>1 DEF TierInv, ArchiveRestorable, FileExists
<1>17. VolatileInv' /\ FiniteInv'
  BY <1>2, <1>5 DEF TierInv, VolatileInv, FiniteInv
<1> QED
  BY <1>9, <1>10, <1>11, <1>12, <1>13, <1>14, <1>15, <1>16, <1>17 DEF TierInv

\* The rows go, core rows excepted; the archive the request registered has them all,
\* and nobody who could drop it knows its id yet.
LEMMA DeleteTierInv ==
  ASSUME TierInv, NEW p \in Archivers, DeleteRows(p)
  PROVE  TierInv'
<1> DEFINE job == archivers[p]
<1>1. /\ job.pc = "delete"
      /\ hot' = {r \in hot : ~(r.char = job.char /\ r.id \in IdsOf(job.batch) /\ ~r.core)}
      /\ archivers' = [archivers EXCEPT ![p] = IdleArchiver]
      /\ UNCHANGED <<registry, files, now, usedIds, usedArchiveIds, restorers, faults,
                     stored, usedPaths, reusedPaths, excused>>
  BY DEF DeleteRows
<1>2. /\ archivers'[p] = IdleArchiver
      /\ \A r \in Archivers : r # p => archivers'[r] = archivers[r]
  BY <1>1 DEF TierInv, TypeOK
<1>3. TypeOK'
  <2>1. archivers' \in [Archivers -> ArchiverState]
    BY <1>1 DEF TierInv, TypeOK, ArchiverState, IdleArchiver
  <2> QED
    BY <1>1, <2>1 DEF TierInv, TypeOK, StoreTypeOK
<1>4. RowsSafe'
  <2>1. \A i, a : SafeIn(i, a) => SafeIn(i, a)'
    BY <1>1, SafeInFrame
  <2>2. ASSUME NEW i \in stored, InHot(i), i \notin excused, ~InHot(i)'
        PROVE  \E a \in ArchiveIds : SafeIn(i, a)'
    <3>1. i \in IdsOf(job.batch)
      BY <1>1, <2>2 DEF InHot
    <3>2. /\ job.aid \in ArchiveIds /\ Registered(job.aid)
          /\ registry[job.aid].path = job.path
          /\ files[job.path] = job.batch
      BY <1>1, <2>2, <3>1, ArchiverHolds DEF TierInv, ArchiverInv, ArchiverOK
    <3>3. InArchive(i, job.aid)
      BY <1>1, <3>1, <3>2 DEF InArchive, FileExists, TierInv, ArchiverInv, ArchiverOK
    <3>4. \A q \in Restorers : restorers[q].pc = "insert" => restorers[q].aid # job.aid
      BY DEF TierInv, RestorerInv, RestorerOK, Disclosed
    <3> QED
      BY <2>1, <3>2, <3>3, <3>4 DEF SafeIn
  <2> QED
    BY <1>1, <2>1, <2>2, RowsStaySafe DEF TierInv
<1>5. ArchiverInv'
  <2>1. ArchiverOK(p)'
    BY <1>2 DEF ArchiverOK, IdleArchiver
  <2>2. \A r \in Archivers : r # p => ArchiverOK(r)'
    BY <1>1, <1>2, ArchiverKept DEF TierInv, ArchiverInv
  <2> QED
    BY <2>1, <2>2 DEF ArchiverInv
<1>6. RestorerInv'
  <2>1. \A a \in ArchiveIds : Disclosed(a) => Disclosed(a)'
    BY <1>2, NoneAssumption DEF Disclosed, IdleArchiver
  <2>2. \A q \in Restorers : restorers[q].pc # "idle" => restorers[q].aid \in ArchiveIds
    BY DEF TierInv, TypeOK, StoreTypeOK, RestorerInv, RestorerOK
  <2> QED
    BY <1>1, <2>1, <2>2 DEF TierInv, RestorerInv, RestorerOK, Registered
<1>7. PathsInv'
  BY <1>1, <1>2 DEF TierInv, PathsInv, Registered, IdleArchiver
<1>8. ReusedInv' /\ RegistryInv' /\ ArchiveRestorable'
  BY <1>1 DEF TierInv, ReusedInv, RegistryInv, ArchiveRestorable, Registered, FileExists, IdsOf
<1>9. VolatileInv' /\ FiniteInv'
  BY <1>1, <1>2, FS_Subset, FS_EmptySet DEF TierInv, VolatileInv, FiniteInv, IdleArchiver
<1> QED
  BY <1>3, <1>4, <1>5, <1>6, <1>7, <1>8, <1>9 DEF TierInv

\* A request cut off leaves its file and its registry row behind, and deletes nothing.
LEMMA AbortArchiveTierInv ==
  ASSUME TierInv, NEW p \in Archivers, AbortArchive(p)
  PROVE  TierInv'
<1>1. /\ archivers' = [archivers EXCEPT ![p] = IdleArchiver]
      /\ UNCHANGED <<hot, registry, files, now, usedIds, usedArchiveIds, restorers, faults,
                     stored, usedPaths, reusedPaths, excused>>
  BY DEF AbortArchive, storeVars
<1>2. /\ archivers'[p] = IdleArchiver
      /\ \A r \in Archivers : r # p => archivers'[r] = archivers[r]
  BY <1>1 DEF TierInv, TypeOK
<1>3. TypeOK'
  <2>1. archivers' \in [Archivers -> ArchiverState]
    BY <1>1 DEF TierInv, TypeOK, ArchiverState, IdleArchiver
  <2> QED
    BY <1>1, <2>1 DEF TierInv, TypeOK, StoreTypeOK
<1>4. RowsSafe'
  BY <1>1, SafeInFrame DEF TierInv, RowsSafe, InHot
<1>5. ArchiverInv'
  <2>1. ArchiverOK(p)'
    BY <1>2 DEF ArchiverOK, IdleArchiver
  <2>2. \A r \in Archivers : r # p => ArchiverOK(r)'
    BY <1>1, <1>2, ArchiverKept DEF TierInv, ArchiverInv
  <2> QED
    BY <2>1, <2>2 DEF ArchiverInv
<1>6. RestorerInv'
  <2>1. \A a \in ArchiveIds : Disclosed(a) => Disclosed(a)'
    BY <1>2, NoneAssumption DEF Disclosed, IdleArchiver
  <2>2. \A q \in Restorers : restorers[q].pc # "idle" => restorers[q].aid \in ArchiveIds
    BY DEF TierInv, TypeOK, StoreTypeOK, RestorerInv, RestorerOK
  <2> QED
    BY <1>1, <2>1, <2>2 DEF TierInv, RestorerInv, RestorerOK, Registered
<1>7. PathsInv'
  BY <1>1, <1>2 DEF TierInv, PathsInv, Registered, IdleArchiver
<1>8. ReusedInv' /\ RegistryInv' /\ ArchiveRestorable'
  BY <1>1 DEF TierInv, ReusedInv, RegistryInv, ArchiveRestorable, Registered, FileExists, IdsOf
<1>9. VolatileInv' /\ FiniteInv'
  BY <1>1, <1>2, FS_EmptySet DEF TierInv, VolatileInv, FiniteInv, IdleArchiver
<1> QED
  BY <1>3, <1>4, <1>5, <1>6, <1>7, <1>8, <1>9 DEF TierInv

------------------------------------------------------------------------------------
\* Restoring

\* A restoration that does not move keeps what it knows, as long as its archive keeps
\* its entry or goes.
LEMMA RestorerKept ==
  ASSUME NEW q, RestorerOK(q), restorers'[q] = restorers[q],
         usedPaths \subseteq usedPaths', usedArchiveIds \subseteq usedArchiveIds',
         UNCHANGED archivers,
         restorers[q].pc # "idle" =>
            \/ registry'[restorers[q].aid] = registry[restorers[q].aid]
            \/ ~Registered(restorers[q].aid)'
  PROVE  RestorerOK(q)'
<1> DEFINE job == restorers[q]
<1>1. job.pc # "idle" /\ Registered(job.aid)' =>
        /\ Registered(job.aid)
        /\ registry'[job.aid] = registry[job.aid]
  BY DEF Registered
<1>2. job.pc # "idle" => Disclosed(job.aid)'
  BY DEF RestorerOK, Disclosed
<1>3. job.pc # "idle" =>
        /\ job.aid \in usedArchiveIds' /\ job.char \in Chars /\ job.entry \in Entry
        /\ job.entry.path \in usedPaths'
        /\ Registered(job.aid)' => registry'[job.aid] = job.entry
        /\ job.pc = "remove" => ~Registered(job.aid)'
  BY <1>1 DEF RestorerOK
<1> QED
  BY <1>2, <1>3 DEF RestorerOK

\* Steps of a restoration that leave the archives' files and registry alone.
LEMMA ArchivesFrame ==
  ASSUME TierInv, UNCHANGED <<registry, files, usedArchiveIds, archivers, usedPaths, reusedPaths>>,
         excused \subseteq excused'
  PROVE  ArchiverInv' /\ ReusedInv' /\ RegistryInv' /\ ArchiveRestorable'
<1>1. ArchiverInv'
  <2> SUFFICES ASSUME NEW p \in Archivers PROVE ArchiverOK(p)'
    BY DEF ArchiverInv
  <2>1. ArchiverOK(p)
    BY DEF TierInv, ArchiverInv
  <2> QED
    BY <2>1, ArchiverKept
<1>2. ReusedInv'
  <2>1. \A path \in reusedPaths : IdsOf(files[path]) \subseteq excused
    BY DEF TierInv, ReusedInv
  <2>2. \A path : IdsOf(files[path])' = IdsOf(files[path])
    BY DEF IdsOf
  <2> QED
    BY <2>1, <2>2 DEF ReusedInv
<1>3. RegistryInv' /\ ArchiveRestorable'
  BY DEF TierInv, RegistryInv, ArchiveRestorable, Registered, FileExists
<1> QED
  BY <1>1, <1>2, <1>3

\* A restoration starts on an archive that is registered and that is no running
\* request's; it has not been past any row yet.
LEMMA LookupTierInv ==
  ASSUME TierInv, NEW q \in Restorers, NEW a \in ArchiveIds, NEW c \in Chars, Lookup(q, a, c)
  PROVE  TierInv'
<1> DEFINE job == [pc |-> "open", aid |-> a, char |-> c, entry |-> registry[a],
                   todo |-> {}, errors |-> {}]
<1>1. /\ Disclosed(a) /\ Registered(a)
      /\ restorers' = [restorers EXCEPT ![q] = job]
      /\ UNCHANGED <<hot, registry, files, now, usedIds, usedArchiveIds, archivers, faults,
                     stored, usedPaths, reusedPaths, excused>>
  BY DEF Lookup, storeVars
<1>2. restorers'[q] = job /\ \A r \in Restorers : r # q => restorers'[r] = restorers[r]
  BY <1>1 DEF TierInv, TypeOK
<1>3. registry[a] \in Entry /\ registry[a].path \in usedPaths /\ a \in usedArchiveIds
  BY <1>1, EntryTyped DEF TierInv, TypeOK, RegistryInv
<1>4. TypeOK'
  <2>1. job \in RestorerState
    BY <1>3 DEF RestorerState
  <2>2. restorers' \in [Restorers -> RestorerState]
    BY <1>1, <2>1 DEF TierInv, TypeOK
  <2> QED
    BY <1>1, <2>2 DEF TierInv, TypeOK, StoreTypeOK
<1>5. RowsSafe'
  <2>1. \A i, b : SafeIn(i, b) => SafeIn(i, b)'
    BY <1>1, <1>2 DEF SafeIn, InArchive, Registered, FileExists
  <2> QED
    BY <1>1, <2>1, RowsStaySafe DEF TierInv, InHot
<1>6. RestorerInv'
  <2>1. RestorerOK(q)'
    BY <1>1, <1>2, <1>3 DEF RestorerOK, Registered, Disclosed
  <2>2. \A r \in Restorers : r # q => RestorerOK(r)'
    BY <1>1, <1>2, RestorerKept DEF TierInv, RestorerInv
  <2> QED
    BY <2>1, <2>2 DEF RestorerInv
<1>7. PathsInv'
  <2>1. \A b \in ArchiveIds, r \in Restorers :
          /\ Registered(b) /\ restorers'[r].pc # "idle" /\ restorers'[r].aid # b
          /\ registry[b].path = restorers'[r].entry.path
          => registry[b].path \in reusedPaths
    BY <1>1, <1>2 DEF TierInv, PathsInv
  <2>2. \A p \in Archivers, r \in Restorers :
          /\ archivers[p].pc = "register" /\ restorers'[r].pc # "idle"
          /\ archivers[p].path = restorers'[r].entry.path
          => archivers[p].path \in reusedPaths
    BY <1>1, <1>2 DEF TierInv, PathsInv
  <2> QED
    BY <1>1, <2>1, <2>2 DEF TierInv, PathsInv, Registered
<1>8. ArchiverInv' /\ ReusedInv' /\ RegistryInv' /\ ArchiveRestorable'
  BY <1>1, ArchivesFrame
<1>9. VolatileInv' /\ FiniteInv'
  BY <1>1, <1>2 DEF TierInv, VolatileInv, FiniteInv
<1> QED
  BY <1>4, <1>5, <1>6, <1>7, <1>8, <1>9 DEF TierInv

\* Every row of the file is still to be inserted.
LEMMA OpenTierInv ==
  ASSUME TierInv, NEW q \in Restorers, OpenFile(q)
  PROVE  TierInv'
<1> DEFINE job == restorers[q]
<1>1. /\ job.pc = "open"
      /\ restorers' = [restorers EXCEPT ![q].pc = "insert",
                                        ![q].todo = files[job.entry.path]]
      /\ UNCHANGED <<hot, registry, files, now, usedIds, usedArchiveIds, archivers, faults,
                     stored, usedPaths, reusedPaths, excused>>
  BY DEF OpenFile, storeVars
<1>0. UNCHANGED <<registry, archivers, usedPaths, usedArchiveIds, reusedPaths>>
  BY <1>1
<1>2. /\ job.entry \in Entry /\ job.entry.path \in Path
      /\ Registered(job.aid) => registry[job.aid] = job.entry
  BY <1>1 DEF TierInv, RestorerInv, RestorerOK, Entry
<1>3. /\ restorers'[q].pc = "insert" /\ restorers'[q].todo = files[job.entry.path]
      /\ restorers'[q].aid = job.aid /\ restorers'[q].entry = job.entry
      /\ restorers'[q].char = job.char
      /\ \A r \in Restorers : r # q => restorers'[r] = restorers[r]
  BY <1>1 DEF TierInv, TypeOK, RestorerState
<1>4. TypeOK'
  <2>1. files[job.entry.path] \subseteq Row
    BY <1>2 DEF TierInv, TypeOK, StoreTypeOK
  <2>2. [job EXCEPT !.pc = "insert", !.todo = files[job.entry.path]] \in RestorerState
    BY <2>1 DEF TierInv, TypeOK, RestorerState
  <2>3. restorers' \in [Restorers -> RestorerState]
    BY <1>1, <2>2 DEF TierInv, TypeOK
  <2> QED
    BY <1>1, <2>3 DEF TierInv, TypeOK, StoreTypeOK
<1>5. RowsSafe'
  <2>1. ASSUME NEW i, NEW a, SafeIn(i, a) PROVE SafeIn(i, a)'
    <3>1. InArchive(i, a)'
      BY <1>1, <2>1 DEF SafeIn, InArchive, Registered, FileExists
    <3>2. job.aid = a => i \in IdsOf(files[job.entry.path])
      BY <1>2, <2>1 DEF SafeIn, InArchive
    <3>3. ASSUME NEW r \in Restorers, restorers'[r].pc = "insert", restorers'[r].aid = a
          PROVE  i \in IdsOf(restorers'[r].todo)
      BY <1>3, <2>1, <3>2, <3>3 DEF SafeIn
    <3> QED
      BY <3>1, <3>3 DEF SafeIn, IdsOf
  <2> QED
    BY <1>1, <2>1, RowsStaySafe DEF TierInv, InHot
<1>6. RestorerInv'
  <2>1. RestorerOK(q)'
    <3>1. job.pc # "idle"
      BY <1>1
    <3> QED
      BY <1>3, <1>0, <3>1 DEF TierInv, RestorerInv, RestorerOK, Registered, Disclosed
  <2>2. \A r \in Restorers : r # q => RestorerOK(r)'
    BY <1>1, <1>3, RestorerKept DEF TierInv, RestorerInv
  <2> QED
    BY <2>1, <2>2 DEF RestorerInv
<1>7. PathsInv'
  <2>1. job.pc # "idle"
    BY <1>1
  <2> QED
    BY <1>3, <1>0, <2>1 DEF TierInv, PathsInv, Registered
<1>8. ArchiverInv' /\ ReusedInv' /\ RegistryInv' /\ ArchiveRestorable'
  BY <1>1, ArchivesFrame
<1>9. VolatileInv' /\ FiniteInv'
  BY <1>1, <1>2, <1>3, ZenonT(40) DEF TierInv, VolatileInv, FiniteInv
<1> QED
  BY <1>4, <1>5, <1>6, <1>7, <1>8, <1>9 DEF TierInv

\* A row the restoration gets past is in the table (inserted now, or its key was
\* there) or excused.
LEMMA InsertTierInv ==
  ASSUME TierInv, NEW q \in Restorers, InsertRow(q)
  PROVE  TierInv'
<1> DEFINE job == restorers[q]
<1>1. job.pc = "insert" /\ job.char \in Chars /\ job.entry \in Entry
  BY DEF InsertRow, TierInv, RestorerInv, RestorerOK
<1>2. UNCHANGED <<registry, files, now, usedIds, usedArchiveIds, archivers, stored,
                  usedPaths, reusedPaths>>
  BY DEF InsertRow
<1>3. PICK r \in job.todo :
        \/ /\ ~KeyTaken(job.char, r.id)
           /\ hot' = hot \cup {RestoredRow(r, job)}
           /\ restorers' = [restorers EXCEPT ![q].todo = @ \ {r}]
           /\ UNCHANGED <<faults, excused>>
        \/ /\ KeyTaken(job.char, r.id)
           /\ restorers' = [restorers EXCEPT ![q].todo = @ \ {r},
                                             ![q].errors = @ \cup {r.id}]
           /\ UNCHANGED <<hot, faults, excused>>
        \/ /\ restorers' = [restorers EXCEPT ![q].todo = @ \ {r},
                                             ![q].errors = @ \cup {r.id}]
           /\ faults' = faults + 1
           /\ excused' = excused \cup {r.id}
           /\ UNCHANGED hot
  BY DEF InsertRow
<1>4. r \in Row /\ r.id \in Ids
  BY <1>3, RestorerFields DEF TierInv, Row
<1>5. RestoredRow(r, job) \in Row /\ RestoredRow(r, job).id = r.id
  BY <1>1, <1>4 DEF RestoredRow, Row, Entry
<1>6. /\ restorers'[q].pc = "insert" /\ restorers'[q].todo = job.todo \ {r}
      /\ restorers'[q].aid = job.aid /\ restorers'[q].entry = job.entry
      /\ restorers'[q].char = job.char
      /\ \A t \in Restorers : t # q => restorers'[t] = restorers[t]
  BY <1>1, <1>3 DEF TierInv, TypeOK, RestorerState
<1>7. excused \subseteq excused' /\ hot \subseteq hot'
  BY <1>3
<1>8. InHot(r.id)' \/ r.id \in excused'
  <2>1. CASE RestoredRow(r, job) \in hot'
    BY <1>5, <2>1, Zenon DEF InHot
  <2>2. CASE KeyTaken(job.char, r.id)
    BY <1>7, <2>2 DEF KeyTaken, InHot
  <2> QED
    BY <1>3, <2>1, <2>2
<1>9. TypeOK'
  <2>1. /\ [job EXCEPT !.todo = @ \ {r}] \in RestorerState
        /\ [job EXCEPT !.todo = @ \ {r}, !.errors = @ \cup {r.id}] \in RestorerState
    BY <1>4 DEF TierInv, TypeOK, RestorerState
  <2>2. restorers' \in [Restorers -> RestorerState]
    BY <1>3, <2>1 DEF TierInv, TypeOK
  <2>3. hot' \subseteq Row /\ faults' \in Nat /\ excused' \subseteq Ids
    BY <1>3, <1>4, <1>5 DEF TierInv, TypeOK, StoreTypeOK
  <2> QED
    BY <1>2, <2>2, <2>3 DEF TierInv, TypeOK, StoreTypeOK
<1>10. RowsSafe'
  <2>1. \A i : InHot(i) => InHot(i)'
    BY <1>7 DEF InHot
  <2>2. ASSUME NEW i \in stored, NEW a \in ArchiveIds, SafeIn(i, a), i # r.id
        PROVE  SafeIn(i, a)'
    <3>1. InArchive(i, a)'
      BY <1>2, <2>2 DEF SafeIn, InArchive, Registered, FileExists
    <3>2. i \in IdsOf(job.todo) => i \in IdsOf(job.todo \ {r})
      BY <2>2 DEF IdsOf
    <3>3. ASSUME NEW t \in Restorers, restorers'[t].pc = "insert", restorers'[t].aid = a
          PROVE  i \in IdsOf(restorers'[t].todo)
      BY <1>1, <1>6, <2>2, <3>2, <3>3 DEF SafeIn
    <3> QED
      BY <3>1, <3>3 DEF SafeIn, IdsOf
  <2> QED
    BY <1>2, <1>7, <1>8, <2>1, <2>2, RowsStaySafe DEF TierInv
<1>11. RestorerInv'
  <2>1. RestorerOK(q)'
    BY <1>1, <1>2, <1>6 DEF TierInv, RestorerInv, RestorerOK, Registered, Disclosed
  <2>2. \A t \in Restorers : t # q => RestorerOK(t)'
    BY <1>2, <1>6, RestorerKept DEF TierInv, RestorerInv
  <2> QED
    BY <2>1, <2>2 DEF RestorerInv
<1>12. PathsInv'
  BY <1>1, <1>2, <1>6 DEF TierInv, PathsInv, Registered
<1>13. ArchiverInv' /\ ReusedInv' /\ RegistryInv' /\ ArchiveRestorable'
  BY <1>2, <1>7, ArchivesFrame
<1>14. VolatileInv'
  BY <1>2, <1>6 DEF TierInv, VolatileInv
<1>15. FiniteInv'
  BY <1>2, <1>3, FS_AddElement DEF TierInv, FiniteInv
<1> QED
  BY <1>9, <1>10, <1>11, <1>12, <1>13, <1>14, <1>15 DEF TierInv

\* The archive goes once every row of its file has been passed.
LEMMA UnregisterTierInv ==
  ASSUME TierInv, NEW q \in Restorers, Unregister(q)
  PROVE  TierInv'
<1> DEFINE job == restorers[q]
<1>1. /\ job.pc = "insert" /\ job.todo = {}
      /\ registry' = [registry EXCEPT ![job.aid] = None]
      /\ restorers' = [restorers EXCEPT ![q].pc = "remove"]
  BY DEF Unregister
<1>2. UNCHANGED <<hot, files, now, usedIds, usedArchiveIds, archivers, faults, stored,
                  usedPaths, reusedPaths, excused>>
  BY DEF Unregister
<1>3. /\ job.pc # "idle" /\ job.aid \in ArchiveIds /\ Disclosed(job.aid)
      /\ job.aid \in usedArchiveIds /\ job.char \in Chars /\ job.entry \in Entry
      /\ job.entry.path \in usedPaths
  BY <1>1 DEF TierInv, TypeOK, StoreTypeOK, RestorerInv, RestorerOK
<1>4. /\ restorers'[q].pc = "remove" /\ restorers'[q].todo = job.todo
      /\ restorers'[q].aid = job.aid /\ restorers'[q].entry = job.entry
      /\ restorers'[q].char = job.char
      /\ \A r \in Restorers : r # q => restorers'[r] = restorers[r]
  BY <1>1 DEF TierInv, TypeOK, RestorerState
<1>5. /\ registry'[job.aid] = None
      /\ \A a \in ArchiveIds : a # job.aid => registry'[a] = registry[a]
  BY <1>1, <1>3 DEF TierInv, TypeOK, StoreTypeOK
<1>6. /\ ~Registered(job.aid)'
      /\ \A a \in ArchiveIds : Registered(a)' =>
            a # job.aid /\ Registered(a) /\ registry'[a] = registry[a]
  BY <1>4, <1>5 DEF Registered
<1>7. TypeOK'
  <2>1. [job EXCEPT !.pc = "remove"] \in RestorerState
    BY DEF TierInv, TypeOK, RestorerState
  <2>2. restorers' \in [Restorers -> RestorerState]
    BY <1>1, <2>1 DEF TierInv, TypeOK
  <2>3. registry' \in [ArchiveIds -> Entry \cup {None}]
    BY <1>1 DEF TierInv, TypeOK, StoreTypeOK
  <2> QED
    BY <1>2, <2>2, <2>3 DEF TierInv, TypeOK, StoreTypeOK
<1>8. RowsSafe'
  <2>1. ASSUME NEW i, NEW a \in ArchiveIds, SafeIn(i, a) PROVE SafeIn(i, a)'
    <3>1. a # job.aid
      BY <1>1, <2>1 DEF SafeIn, IdsOf
    <3>2. InArchive(i, a)'
      BY <1>2, <1>5, <2>1, <3>1 DEF SafeIn, InArchive, Registered, FileExists
    <3>3. ASSUME NEW r \in Restorers, restorers'[r].pc = "insert", restorers'[r].aid = a
          PROVE  i \in IdsOf(restorers'[r].todo)
      BY <1>4, <2>1, <3>3 DEF SafeIn
    <3> QED
      BY <3>2, <3>3 DEF SafeIn, IdsOf
  <2> QED
    BY <1>2, <2>1, RowsStaySafe DEF TierInv, InHot
<1>9. ArchiverInv'
  <2> SUFFICES ASSUME NEW p \in Archivers PROVE ArchiverOK(p)'
    BY DEF ArchiverInv
  <2>1. ArchiverOK(p) /\ archivers[p].aid # job.aid
    BY <1>3 DEF TierInv, ArchiverInv, Disclosed
  <2>2. archivers[p].pc = "delete" => archivers[p].aid \in ArchiveIds
    BY <2>1, ArchiverFields DEF TierInv, ArchiverOK
  <2>3. archivers[p].pc = "delete" => registry'[archivers[p].aid] = registry[archivers[p].aid]
    BY <1>5, <2>1, <2>2
  <2> QED
    BY <1>2, <2>1, <2>3, ArchiverKept
<1>10. RestorerInv'
  <2>1. RestorerOK(q)'
    <3>1. Disclosed(job.aid)'
      BY <1>2, <1>3, <1>4 DEF Disclosed
    <3> QED
      BY <1>2, <1>3, <1>4, <1>6, <3>1 DEF RestorerOK
  <2>2. ASSUME NEW r \in Restorers, r # q PROVE RestorerOK(r)'
    <3>1. RestorerOK(r) /\ restorers'[r] = restorers[r]
      BY <1>4, <2>2 DEF TierInv, RestorerInv
    <3>2. restorers[r].pc # "idle" => restorers[r].aid \in ArchiveIds
      BY <3>1 DEF TierInv, TypeOK, StoreTypeOK, RestorerOK
    <3>3. restorers[r].pc # "idle" =>
            \/ registry'[restorers[r].aid] = registry[restorers[r].aid]
            \/ ~Registered(restorers[r].aid)'
      BY <1>4, <1>5, <1>6, <3>1, <3>2
    <3> QED
      BY <1>2, <3>1, <3>3, RestorerKept
  <2> QED
    BY <2>1, <2>2 DEF RestorerInv
<1>11. PathsInv'
  <2>1. /\ \A a, b \in ArchiveIds :
            /\ Registered(a)' /\ Registered(b)' /\ a # b /\ registry'[a].path = registry'[b].path
            => registry'[a].path \in reusedPaths
        /\ \A a \in ArchiveIds, p \in Archivers :
            /\ Registered(a)' /\ archivers[p].pc = "register" /\ registry'[a].path = archivers[p].path
            => registry'[a].path \in reusedPaths
    BY <1>6 DEF TierInv, PathsInv
  <2>2. \A a \in ArchiveIds, r \in Restorers :
          /\ Registered(a)' /\ restorers'[r].pc # "idle" /\ restorers'[r].aid # a
          /\ registry'[a].path = restorers'[r].entry.path
          => registry'[a].path \in reusedPaths
    BY <1>3, <1>4, <1>6 DEF TierInv, PathsInv
  <2>3. \A p \in Archivers, r \in Restorers :
          /\ archivers[p].pc = "register" /\ restorers'[r].pc # "idle"
          /\ archivers[p].path = restorers'[r].entry.path
          => archivers[p].path \in reusedPaths
    BY <1>3, <1>4 DEF TierInv, PathsInv
  <2>4. \A p, r \in Archivers :
          /\ archivers[p].pc = "register" /\ archivers[r].pc = "register" /\ p # r
          /\ archivers[p].path = archivers[r].path
          => archivers[p].path \in reusedPaths
    BY DEF TierInv, PathsInv
  <2> QED
    BY <1>2, <2>1, <2>2, <2>3, <2>4 DEF PathsInv
<1>12. ReusedInv'
  BY <1>2 DEF TierInv, ReusedInv, IdsOf
<1>13. RegistryInv' /\ ArchiveRestorable'
  BY <1>2, <1>6 DEF TierInv, RegistryInv, ArchiveRestorable, FileExists
<1>14. VolatileInv' /\ FiniteInv'
  BY <1>2, <1>4 DEF TierInv, VolatileInv, FiniteInv
<1> QED
  BY <1>7, <1>8, <1>9, <1>10, <1>11, <1>12, <1>13, <1>14 DEF TierInv

\* The file that goes is that of an archive already gone: no other archive, and no
\* request, has it, unless its path was written twice.
LEMMA RemoveTierInv ==
  ASSUME TierInv, NEW q \in Restorers, RemoveFile(q)
  PROVE  TierInv'
<1> DEFINE path == restorers[q].entry.path
           aid == restorers[q].aid
<1>1. /\ restorers[q].pc = "remove"
      /\ files' = [files EXCEPT ![path] = {}]
      /\ restorers' = [restorers EXCEPT ![q] = IdleRestorer]
  BY DEF RemoveFile
<1>2. UNCHANGED <<hot, registry, now, usedIds, usedArchiveIds, archivers, faults,
                  stored, usedPaths, reusedPaths, excused>>
  BY DEF RemoveFile
<1>3. /\ restorers[q].pc # "idle" /\ ~Registered(aid) /\ Disclosed(aid)
      /\ restorers[q].entry \in Entry /\ path \in Path
  BY <1>1 DEF TierInv, RestorerInv, RestorerOK, Entry
<1>4. /\ restorers'[q] = IdleRestorer
      /\ \A r \in Restorers : r # q => restorers'[r] = restorers[r]
  BY <1>1 DEF TierInv, TypeOK
<1>5. PICK gone \in Path : gone = path
  BY <1>3
<1>6. /\ files'[gone] = {}
      /\ \A other \in Path : other # gone => files'[other] = files[other]
  BY <1>1, <1>5 DEF TierInv, TypeOK, StoreTypeOK
<1>7. \A a \in ArchiveIds : Registered(a) /\ registry[a].path = gone => gone \in reusedPaths
  BY <1>3, <1>5 DEF TierInv, PathsInv
<1>8. /\ \A p \in Archivers :
            archivers[p].pc = "register" /\ archivers[p].path = gone => gone \in reusedPaths
      /\ \A p \in Archivers :
            archivers[p].pc = "delete" /\ archivers[p].path = gone =>
              IdsOf(archivers[p].batch) \subseteq excused
  <2>1. ASSUME NEW p \in Archivers, archivers[p].pc = "register", archivers[p].path = gone
        PROVE  gone \in reusedPaths
    BY <1>3, <1>5, <2>1 DEF TierInv, PathsInv
  <2>2. ASSUME NEW p \in Archivers, archivers[p].pc = "delete", archivers[p].path = gone
        PROVE  IdsOf(archivers[p].batch) \subseteq excused
    <3>1. archivers[p].aid \in ArchiveIds
      BY <2>2, ArchiverHolds DEF TierInv
    <3> QED
      BY <1>7, <2>2, <3>1 DEF TierInv, ArchiverInv, ArchiverOK
  <2> QED
    BY <2>1, <2>2
<1>9. gone \in reusedPaths => IdsOf(files[gone]) \subseteq excused
  BY DEF TierInv, ReusedInv
<1>10. TypeOK'
  <2>1. IdleRestorer \in RestorerState
    BY DEF IdleRestorer, RestorerState
  <2>2. restorers' \in [Restorers -> RestorerState]
    BY <1>1, <2>1 DEF TierInv, TypeOK
  <2>3. files' \in [Path -> SUBSET Row]
    BY <1>1, <1>3 DEF TierInv, TypeOK, StoreTypeOK
  <2> QED
    BY <1>2, <2>2, <2>3 DEF TierInv, TypeOK, StoreTypeOK
<1>11. RowsSafe'
  <2>1. ASSUME NEW i \in stored, NEW a \in ArchiveIds, SafeIn(i, a), i \notin excused'
        PROVE  SafeIn(i, a)'
    <3>1. Registered(a) /\ registry[a].path \in Path /\ i \in IdsOf(files[registry[a].path])
      BY <2>1, EntryTyped DEF SafeIn, InArchive, TierInv, TypeOK
    <3>2. registry[a].path # gone
      BY <1>2, <1>7, <1>9, <2>1, <3>1
    <3>3. files'[registry[a].path] = files[registry[a].path]
      BY <1>6, <3>1, <3>2
    <3>4. InArchive(i, a)'
      BY <1>2, <2>1, <3>3 DEF SafeIn, InArchive, Registered, FileExists, IdsOf
    <3>5. ASSUME NEW r \in Restorers, restorers'[r].pc = "insert", restorers'[r].aid = a
          PROVE  i \in IdsOf(restorers'[r].todo)
      BY <1>4, <2>1, <3>5 DEF SafeIn, IdleRestorer
    <3> QED
      BY <3>4, <3>5 DEF SafeIn, IdsOf
  <2> QED
    BY <1>2, <2>1, RowsStaySafe DEF TierInv, InHot
<1>12. ArchiverInv'
  <2> SUFFICES ASSUME NEW p \in Archivers PROVE ArchiverOK(p)'
    BY DEF ArchiverInv
  <2>1. ArchiverOK(p)
    BY DEF TierInv, ArchiverInv
  <2>2. CASE archivers[p].path = gone
    BY <1>2, <1>8, <2>1, <2>2, ArchiverKept DEF ArchiverOK
  <2>3. CASE archivers[p].path # gone
    <3>1. archivers[p].pc \in {"register", "delete"} =>
            files'[archivers[p].path] = files[archivers[p].path]
      BY <1>6, <2>3, ArchiverHolds DEF TierInv
    <3> QED
      BY <1>2, <2>1, <3>1, ArchiverKept
  <2> QED
    BY <2>2, <2>3
<1>13. RestorerInv'
  <2>1. RestorerOK(q)'
    BY <1>4 DEF RestorerOK, IdleRestorer
  <2>2. ASSUME NEW r \in Restorers, r # q PROVE RestorerOK(r)'
    <3>1. RestorerOK(r) /\ restorers'[r] = restorers[r]
      BY <1>4, <2>2 DEF TierInv, RestorerInv
    <3> QED
      BY <1>2, <3>1, RestorerKept
  <2> QED
    BY <2>1, <2>2 DEF RestorerInv
<1>14. PathsInv'
  BY <1>2, <1>4 DEF TierInv, PathsInv, Registered, IdleRestorer
<1>15. ReusedInv'
  <2>1. ASSUME NEW other \in reusedPaths PROVE IdsOf(files'[other]) \subseteq excused
    <3>1. other \in Path
      BY <2>1 DEF TierInv, TypeOK
    <3>2. CASE other = gone
      BY <1>6, <3>2 DEF IdsOf
    <3>3. CASE other # gone
      BY <1>6, <3>1, <3>3 DEF TierInv, ReusedInv
    <3> QED
      BY <3>2, <3>3
  <2> QED
    BY <1>2, <2>1 DEF ReusedInv, IdsOf
<1>16. RegistryInv'
  BY <1>2 DEF TierInv, RegistryInv, Registered
<1>17. ArchiveRestorable'
  <2> SUFFICES ASSUME NEW a \in ArchiveIds, Registered(a), registry[a].path \notin reusedPaths
               PROVE  /\ files'[registry[a].path] # {}
                      /\ Cardinality(files'[registry[a].path]) = registry[a].count
    BY <1>2 DEF ArchiveRestorable, Registered, FileExists
  <2>1. registry[a].path # gone /\ registry[a].path \in Path
    BY <1>7, EntryTyped DEF TierInv, TypeOK
  <2>2. files'[registry[a].path] = files[registry[a].path]
    BY <1>6, <2>1
  <2> QED
    BY <2>2 DEF TierInv, ArchiveRestorable, FileExists
<1>18. VolatileInv'
  <2>1. \A other \in Path : \A r \in files'[other] : ~r.core
    BY <1>6 DEF TierInv, VolatileInv
  <2>2. \A r \in Restorers : \A t \in restorers'[r].todo : ~t.core
    BY <1>4 DEF TierInv, VolatileInv, IdleRestorer
  <2> QED
    BY <1>2, <2>1, <2>2 DEF TierInv, VolatileInv
<1>19. FiniteInv'
  BY <1>2 DEF TierInv, FiniteInv
<1> QED
  BY <1>10, <1>11, <1>12, <1>13, <1>14, <1>15, <1>16, <1>17, <1>18, <1>19 DEF TierInv

\* A restoration cut off leaves the store as it is.
LEMMA AbortRestoreTierInv ==
  ASSUME TierInv, NEW q \in Restorers, AbortRestore(q)
  PROVE  TierInv'
<1>1. /\ restorers' = [restorers EXCEPT ![q] = IdleRestorer]
      /\ UNCHANGED <<hot, registry, files, now, usedIds, usedArchiveIds, archivers, faults,
                     stored, usedPaths, reusedPaths, excused>>
  BY DEF AbortRestore, storeVars
<1>2. /\ restorers'[q] = IdleRestorer
      /\ \A r \in Restorers : r # q => restorers'[r] = restorers[r]
  BY <1>1 DEF TierInv, TypeOK
<1>3. TypeOK'
  <2>1. IdleRestorer \in RestorerState
    BY DEF IdleRestorer, RestorerState
  <2>2. restorers' \in [Restorers -> RestorerState]
    BY <1>1, <2>1 DEF TierInv, TypeOK
  <2> QED
    BY <1>1, <2>2 DEF TierInv, TypeOK, StoreTypeOK
<1>4. RowsSafe'
  <2>1. \A i, a : SafeIn(i, a) => SafeIn(i, a)'
    BY <1>1, <1>2 DEF SafeIn, InArchive, Registered, FileExists, IdleRestorer
  <2> QED
    BY <1>1, <2>1, RowsStaySafe DEF TierInv, InHot
<1>5. RestorerInv'
  <2>1. RestorerOK(q)'
    BY <1>2 DEF RestorerOK, IdleRestorer
  <2>2. \A r \in Restorers : r # q => RestorerOK(r)'
    BY <1>1, <1>2, RestorerKept DEF TierInv, RestorerInv
  <2> QED
    BY <2>1, <2>2 DEF RestorerInv
<1>6. PathsInv'
  BY <1>1, <1>2 DEF TierInv, PathsInv, Registered, IdleRestorer
<1>7. ArchiverInv' /\ ReusedInv' /\ RegistryInv' /\ ArchiveRestorable'
  BY <1>1, ArchivesFrame
<1>8. VolatileInv' /\ FiniteInv'
  BY <1>1, <1>2 DEF TierInv, VolatileInv, FiniteInv, IdleRestorer
<1> QED
  BY <1>3, <1>4, <1>5, <1>6, <1>7, <1>8 DEF TierInv

------------------------------------------------------------------------------------
\* The theorems

LEMMA NextTierInv == TierInv /\ [Next]_vars => TierInv'
<1> SUFFICES ASSUME TierInv, [Next]_vars PROVE TierInv'
  OBVIOUS
<1>1. CASE \E c \in Chars, s \in Sessions, x \in Texts, core \in BOOLEAN :
             Remember(c, s, x, core)
  BY <1>1, RememberTierInv
<1>2. CASE \E p \in Archivers : ArchiveStep(p)
  <2>1. PICK p \in Archivers : ArchiveStep(p)
    BY <1>2
  <2> QED
    BY <2>1, SelectTierInv, WriteTierInv, RegisterTierInv, DeleteTierInv, AbortArchiveTierInv
       DEF ArchiveStep
<1>3. CASE \E q \in Restorers : RestoreStep(q)
  <2>1. PICK q \in Restorers : RestoreStep(q)
    BY <1>3
  <2> QED
    BY <2>1, LookupTierInv, OpenTierInv, InsertTierInv, UnregisterTierInv, RemoveTierInv,
       AbortRestoreTierInv DEF RestoreStep
<1>4. CASE Tick /\ UNCHANGED tierVars
  BY <1>4, TickTierInv
<1>5. CASE UNCHANGED vars
  BY <1>5, StutterTierInv
<1> QED
  BY <1>1, <1>2, <1>3, <1>4, <1>5 DEF Next

\* The inductive invariant holds in every state of every run of archive_old_memories
\* and reconstitute_cold_archive, for any number of concurrent requests.
THEOREM Invariance == Spec => []TierInv
BY InitTierInv, NextTierInv, PTL DEF Spec

\* Every variable keeps its type, whatever the numbers of tables, rows and requests.
THEOREM TypeCorrect == Spec => []TypeOK
<1>1. TierInv => TypeOK
  BY DEF TierInv
<1> QED
  BY <1>1, Invariance, PTL

\* No request, and no request cut off anywhere, drops a memory: each row ever stored is
\* in a table, in the file of a registered archive, or excused.
THEOREM RowsNeverLost == Spec => []NoSilentLoss
<1>1. TierInv => NoSilentLoss
  BY DEF TierInv, RowsSafe, NoSilentLoss, SafeIn
<1> QED
  BY <1>1, Invariance, PTL

\* What the registry says of an archive is true of its file, in every state.
THEOREM ArchivesRestorable == Spec => []ArchiveRestorable
<1>1. TierInv => ArchiveRestorable
  BY DEF TierInv
<1> QED
  BY <1>1, Invariance, PTL

\* Core rows never leave their table and never reach a file.
LEMMA CoreStep ==
  ASSUME TierInv, TierInv', [Next]_vars
  PROVE  /\ \A r \in hot : r.core => r \in hot'
         /\ \A path \in Path : \A r \in files'[path] : ~r.core
<1>1. \A path \in Path : \A r \in files'[path] : ~r.core
  BY DEF TierInv, VolatileInv
<1>2. \A r \in hot : r.core => r \in hot'
  <2>1. CASE \E c \in Chars, s \in Sessions, x \in Texts, core \in BOOLEAN :
               Remember(c, s, x, core)
    BY <2>1 DEF Remember
  <2>2. ASSUME NEW p \in Archivers, ArchiveStep(p) PROVE \A r \in hot : r.core => r \in hot'
    BY <2>2 DEF ArchiveStep, SelectRows, WriteFile, Register, DeleteRows, AbortArchive, storeVars
  <2>3. ASSUME NEW q \in Restorers, RestoreStep(q) PROVE \A r \in hot : r.core => r \in hot'
    <3>1. CASE InsertRow(q)
      BY <3>1 DEF InsertRow
    <3>2. CASE ~InsertRow(q)
      BY <2>3, <3>2 DEF RestoreStep, Lookup, OpenFile, Unregister, RemoveFile, AbortRestore, storeVars
    <3> QED
      BY <3>1, <3>2
  <2>4. CASE (Tick /\ UNCHANGED tierVars) \/ UNCHANGED vars
    BY <2>4 DEF Tick, vars
  <2> QED
    BY <2>1, <2>2, <2>3, <2>4 DEF Next
<1> QED
  BY <1>1, <1>2

\* Core Memory Immunity: archiving and restoring never touch a core memory.
THEOREM CoreImmune == Spec => CoreImmunity
BY Invariance, CoreStep, PTL DEF Spec, CoreImmunity
====================================================================================
