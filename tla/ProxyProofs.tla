------------------------------- MODULE ProxyProofs -------------------------------
(***************************************************************************)
(* Proofs about the proxy process: confirmed settings are kept, the pools are *)
(* accounted for and the viewers' streams are complete, for any settings,     *)
(* environments, pools, viewers, ring size and number of requests.            *)
(***************************************************************************)
EXTENDS ProxyProcess, FiniteSetTheorems, TLAPS

------------------------------------------------------------------------------------
\* Settings

\* Confirmed settings are in the file itself, which is what makes them independent of the
\* defaults of the next process.
SettingsInv ==
    /\ SettingsTypeOK
    /\ \A k \in DOMAIN accepted :
         /\ file \in Dict
         /\ k \in DOMAIN file
         /\ file[k] = accepted[k]

\* A merged dictionary has the keys of both, and the second one's values where it has any.
LEMMA MergeDict ==
    ASSUME NEW f \in Dict, NEW g \in Dict
    PROVE  /\ Merge(f, g) \in Dict
           /\ DOMAIN Merge(f, g) = DOMAIN f \cup DOMAIN g
           /\ \A k \in DOMAIN g : Merge(f, g)[k] = g[k]
           /\ \A k \in DOMAIN f \ DOMAIN g : Merge(f, g)[k] = f[k]
<1>1. PICK F \in SUBSET Keys : f \in [F -> Values]
  BY DEF Dict
<1>2. PICK G \in SUBSET Keys : g \in [G -> Values]
  BY DEF Dict
<1>3. Merge(f, g) \in [F \cup G -> Values]
  BY <1>1, <1>2 DEF Merge
<1>4. F \cup G \in SUBSET Keys
  OBVIOUS
<1>5. Merge(f, g) \in Dict
  BY <1>3, <1>4 DEF Dict
<1> QED BY <1>1, <1>2, <1>5 DEF Merge

LEMMA EnvironmentIsDict == \A e \in [Keys -> Values] : e \in Dict /\ DOMAIN e = Keys
  BY DEF Dict

LEMMA NothingIsDict == Nothing \in Dict /\ DOMAIN Nothing = {}
<1>1. Nothing \in [{} -> Values] /\ DOMAIN Nothing = {}
  BY DEF Nothing
<1> QED BY <1>1 DEF Dict

\* The settings are a dictionary with every key.
LEMMA SettingsComplete ==
    SettingsTypeOK => GetSettings \in Dict /\ DOMAIN GetSettings = Keys
<1> SUFFICES ASSUME SettingsTypeOK PROVE GetSettings \in Dict /\ DOMAIN GetSettings = Keys
  OBVIOUS
<1>1. defaults \in Dict /\ DOMAIN defaults = Keys
  BY EnvironmentIsDict DEF SettingsTypeOK
<1>2. CASE file \in {Absent, Torn}
  <2>1. environ \in Dict /\ DOMAIN environ = Keys
    BY EnvironmentIsDict DEF SettingsTypeOK
  <2> QED BY <1>2, <2>1 DEF GetSettings
<1>3. CASE file \notin {Absent, Torn}
  <2>1. file \in Dict
    BY <1>3 DEF SettingsTypeOK
  <2>2. DOMAIN file \subseteq Keys
    BY <2>1 DEF Dict
  <2>3. GetSettings = Merge(defaults, file)
    BY <1>3 DEF GetSettings
  <2> QED BY <1>1, <2>1, <2>2, <2>3, MergeDict
<1> QED BY <1>2, <1>3

LEMMA SettingsInitially == Init => SettingsInv
<1> SUFFICES ASSUME Init PROVE SettingsInv
  OBVIOUS
<1>1. file \in Dict \cup {Absent} /\ {defaults, environ} \subseteq [Keys -> Values]
  BY UpdatesAssumption, EnvironmentAssumption DEF Init
<1>2. accepted = Nothing /\ managed = FALSE
  BY DEF Init
<1> QED BY <1>1, <1>2, NothingIsDict DEF SettingsInv, SettingsTypeOK

LEMMA CreateKeeps == SettingsInv /\ CreateManager => SettingsInv'
<1> SUFFICES ASSUME SettingsInv, CreateManager PROVE SettingsInv'
  OBVIOUS
<1>1. file' \in Dict \cup {Absent, Torn}
  <2>1. GetSettings \in Dict /\ defaults \in Dict
    BY SettingsComplete, EnvironmentIsDict DEF SettingsInv, SettingsTypeOK
  <2>2. Updated(defaults) \in Dict
    BY <2>1, MergeDict DEF Updated
  <2> QED BY <2>2 DEF SettingsInv, SettingsTypeOK, CreateManager
<1>2. SettingsTypeOK'
  BY <1>1 DEF SettingsInv, SettingsTypeOK, CreateManager
<1>3. \A k \in DOMAIN accepted : file' = file
  BY FileAssumption DEF SettingsInv, CreateManager
<1> QED BY <1>2, <1>3 DEF SettingsInv, CreateManager

LEMMA WriteKeeps ==
    ASSUME SettingsInv, NEW update \in Dict, WriteSettings(update)
    PROVE  SettingsInv'
<1>1. GetSettings \in Dict /\ DOMAIN GetSettings = Keys
  BY SettingsComplete DEF SettingsInv
<1>2. file' = Merge(GetSettings, update) /\ accepted' = Merge(accepted, update)
  BY DEF WriteSettings, Updated
<1>3. accepted \in Dict
  BY DEF SettingsInv, SettingsTypeOK
<1>4. file' \in Dict /\ DOMAIN file' = Keys \cup DOMAIN update /\ accepted' \in Dict
  BY <1>1, <1>2, <1>3, MergeDict
<1>5. /\ \A k \in DOMAIN update : file'[k] = update[k]
      /\ \A k \in Keys \ DOMAIN update : file'[k] = GetSettings[k]
  <2>1. /\ \A k \in DOMAIN update : Merge(GetSettings, update)[k] = update[k]
        /\ \A k \in DOMAIN GetSettings \ DOMAIN update :
             Merge(GetSettings, update)[k] = GetSettings[k]
    BY <1>1, MergeDict
  <2> QED BY <1>1, <1>2, <2>1
<1>6. \A k \in DOMAIN update : accepted'[k] = update[k]
  <2>1. \A k \in DOMAIN update : Merge(accepted, update)[k] = update[k]
    BY <1>3, MergeDict
  <2> QED BY <1>2, <2>1
<1>7. SettingsTypeOK'
  BY <1>4 DEF SettingsInv, SettingsTypeOK, WriteSettings
<1>8. ASSUME NEW k \in DOMAIN accepted'
      PROVE  k \in DOMAIN file' /\ file'[k] = accepted'[k]
  <2>1. CASE k \in DOMAIN update
    BY <1>4, <1>5, <1>6, <2>1
  <2>2. CASE k \notin DOMAIN update
    <3>1. k \in DOMAIN accepted /\ accepted'[k] = accepted[k]
      BY <1>2, <1>3, <1>8, <2>2, MergeDict
    <3>2. file \in Dict /\ k \in DOMAIN file /\ file[k] = accepted[k]
      BY <3>1 DEF SettingsInv
    <3>3. defaults \in Dict /\ DOMAIN file \subseteq Keys
      BY <3>2, EnvironmentIsDict DEF SettingsInv, SettingsTypeOK, Dict
    <3>4. GetSettings = Merge(defaults, file)
      BY <3>2, FileAssumption DEF GetSettings
    <3>5. GetSettings[k] = accepted[k]
      BY <3>2, <3>3, <3>4, MergeDict
    <3>6. k \in Keys /\ file'[k] = GetSettings[k]
      BY <1>5, <2>2, <3>2, <3>3
    <3> QED BY <1>4, <3>1, <3>5, <3>6
  <2> QED BY <2>1, <2>2
<1> QED BY <1>4, <1>7, <1>8 DEF SettingsInv

LEMMA RestartKeeps == SettingsInv /\ Restart => SettingsInv'
<1> SUFFICES ASSUME SettingsInv, Restart PROVE SettingsInv'
  OBVIOUS
<1>1. {defaults', environ'} \subseteq [Keys -> Values] /\ managed' = FALSE
  BY EnvironmentAssumption DEF Restart, Start, ImportDefaults
<1>2. CASE UNCHANGED <<file, accepted>>
  BY <1>1, <1>2 DEF SettingsInv, SettingsTypeOK
<1>3. CASE TearFile
  BY <1>1, <1>3, NothingIsDict DEF SettingsInv, SettingsTypeOK, TearFile
<1> QED BY <1>2, <1>3 DEF Restart

LEMMA SettingsStep == SettingsInv /\ [Next]_processVars => SettingsInv'
<1> SUFFICES ASSUME SettingsInv, [Next]_processVars PROVE SettingsInv'
  OBVIOUS
<1>1. CASE UNCHANGED settingsVars
  BY <1>1 DEF settingsVars, SettingsInv, SettingsTypeOK
<1>2. ASSUME EndTurn PROVE SettingsInv'
  BY <1>1, <1>2 DEF EndTurn
<1>3. ASSUME NEW k \in Viewers, Connect(k) \/ StreamStep(k) \/ Disconnect(k)
      PROVE  SettingsInv'
  BY <1>1, <1>3 DEF Connect, StreamStep, Disconnect
<1>4. ASSUME FirstUse PROVE SettingsInv'
  BY <1>4, CreateKeeps DEF FirstUse
<1>5. ASSUME NEW update \in Updates, Configure(update) PROVE SettingsInv'
  BY <1>5, WriteKeeps, UpdatesAssumption DEF Configure
<1>6. ASSUME NEW r \in Resets,
             FactoryReset(r) \/ FactoryResetConnected(r) \/ FactoryResetEnds(r)
      PROVE  SettingsInv'
  BY <1>1, <1>6 DEF FactoryReset, FactoryResetConnected, FactoryResetEnds
<1>7. ASSUME Restart PROVE SettingsInv'
  BY <1>7, RestartKeeps
<1>8. ASSUME UNCHANGED processVars PROVE SettingsInv'
  BY <1>1, <1>8 DEF processVars
<1> QED BY <1>2, <1>3, <1>4, <1>5, <1>6, <1>7, <1>8 DEF Next

\* A setting that was confirmed is read from then on, through other updates, restarts and
\* changes of the environment, until a write is torn.
THEOREM SettingsLast == Spec => []SettingsKept
<1>1. SettingsInv => SettingsKept
  <2> SUFFICES ASSUME SettingsInv, NEW k \in DOMAIN accepted
               PROVE  GetSettings[k] = accepted[k]
    BY DEF SettingsKept
  <2>1. file \in Dict /\ k \in DOMAIN file /\ file[k] = accepted[k]
    BY DEF SettingsInv
  <2>2. defaults \in Dict
    BY EnvironmentIsDict DEF SettingsInv, SettingsTypeOK
  <2>3. GetSettings = Merge(defaults, file)
    BY <2>1, FileAssumption DEF GetSettings
  <2> QED BY <2>1, <2>2, <2>3, MergeDict
<1> QED BY <1>1, SettingsInitially, SettingsStep, PTL DEF Spec

------------------------------------------------------------------------------------
\* Pools

\* Every pool that waits is one of those that waited together, and when it opens it only
\* moves from one side of the sum to the other.
PoolInv ==
    /\ dbPool = adminPool
    /\ adminPool \in Pools \cup {NoPool}
    /\ adminPool # NoPool => adminPool \in opened
    /\ opened # {} => adminPool # NoPool
    /\ IsFiniteSet(opened) /\ opened \subseteq Pools
    /\ IsFiniteSet(connecting)
    /\ together \in Nat
    /\ Cardinality(opened) + Cardinality(connecting) <= IF together > 1 THEN together ELSE 1

LEMMA StartAccounts ==
    ASSUME StartPool
    PROVE  PoolInv'
<1>1. Cardinality(connecting') = 0 /\ IsFiniteSet(connecting') /\ together' = 0
  BY FS_EmptySet DEF StartPool
<1>2. ASSUME NEW p \in Pools, dbPool' = p, adminPool' = p, opened' = {p}
      PROVE  PoolInv'
  <2>1. IsFiniteSet({p}) /\ Cardinality({p}) = 1
    BY FS_Singleton
  <2>2. p # NoPool
    BY NoPoolAssumption
  <2> QED BY <1>1, <1>2, <2>1, <2>2 DEF PoolInv
<1>3. ASSUME dbPool' = NoPool, adminPool' = NoPool, opened' = {}
      PROVE  PoolInv'
  <2>1. IsFiniteSet({}) /\ Cardinality({}) = 0
    BY FS_EmptySet
  <2> QED BY <1>1, <1>3, <2>1 DEF PoolInv
<1> QED BY <1>2, <1>3 DEF StartPool

LEMMA EnsureAccounts ==
    ASSUME PoolInv, NEW r \in Resets, EnsurePool(r)
    PROVE  PoolInv'
<1>1. opened = {} /\ adminPool = NoPool /\ dbPool = NoPool
  BY DEF PoolInv, EnsurePool, MustConnect
<1>2. IsFiniteSet(connecting') /\ Cardinality(connecting') \in Nat
  BY FS_AddElement, FS_CardinalityType DEF PoolInv, EnsurePool
<1>3. Cardinality(opened') = 0
  BY <1>1, FS_EmptySet DEF EnsurePool
<1>4. together' \in Nat /\ Cardinality(connecting') <= together'
  BY <1>2 DEF PoolInv, EnsurePool
<1> QED BY <1>1, <1>2, <1>3, <1>4 DEF PoolInv, EnsurePool

\* One request less waits.
LEMMA Removed ==
    ASSUME PoolInv, NEW r \in connecting, connecting' = connecting \ {r}
    PROVE  /\ IsFiniteSet(connecting')
           /\ Cardinality(connecting') \in Nat
           /\ Cardinality(connecting) = Cardinality(connecting') + 1
<1>1. IsFiniteSet(connecting) /\ Cardinality(connecting) \in Nat
  BY FS_CardinalityType DEF PoolInv
<1>2. IsFiniteSet(connecting') /\ Cardinality(connecting') = Cardinality(connecting) - 1
  BY <1>1, FS_RemoveElement
<1>3. Cardinality(connecting') \in Nat
  BY <1>2, FS_CardinalityType
<1> QED BY <1>1, <1>2, <1>3

LEMMA ReadyAccounts ==
    ASSUME PoolInv, NEW r \in Resets, PoolReady(r)
    PROVE  PoolInv'
<1>1. PICK p \in Pools \ opened : opened' = opened \cup {p} /\ adminPool' = p /\ dbPool' = p
  BY DEF PoolReady
<1>2. IsFiniteSet(opened) /\ Cardinality(opened) \in Nat
  BY FS_CardinalityType DEF PoolInv
<1>3. IsFiniteSet(opened') /\ Cardinality(opened') = Cardinality(opened) + 1
  BY <1>1, <1>2, FS_AddElement
<1>4. /\ IsFiniteSet(connecting') /\ Cardinality(connecting') \in Nat
      /\ Cardinality(connecting) = Cardinality(connecting') + 1
  BY Removed DEF PoolReady
<1>5. p # NoPool /\ together' = together
  BY NoPoolAssumption DEF PoolReady
<1> QED BY <1>1, <1>2, <1>3, <1>4, <1>5 DEF PoolInv

LEMMA FailedAccounts ==
    ASSUME PoolInv, NEW r \in Resets, PoolFailed(r)
    PROVE  PoolInv'
<1>1. /\ IsFiniteSet(connecting') /\ Cardinality(connecting') \in Nat
      /\ Cardinality(connecting) = Cardinality(connecting') + 1
  BY Removed DEF PoolFailed
<1>2. Cardinality(opened) \in Nat
  BY FS_CardinalityType DEF PoolInv
<1> QED BY <1>1, <1>2 DEF PoolInv, PoolFailed

LEMMA PoolStep == PoolInv /\ [Next]_processVars => PoolInv'
<1> SUFFICES ASSUME PoolInv, [Next]_processVars PROVE PoolInv'
  OBVIOUS
<1>1. CASE UNCHANGED poolVars
  BY <1>1 DEF poolVars, PoolInv
<1>2. ASSUME EndTurn PROVE PoolInv'
  BY <1>1, <1>2 DEF EndTurn
<1>3. ASSUME NEW k \in Viewers, Connect(k) \/ StreamStep(k) \/ Disconnect(k)
      PROVE  PoolInv'
  BY <1>1, <1>3 DEF Connect, StreamStep, Disconnect
<1>4. ASSUME FirstUse PROVE PoolInv'
  BY <1>1, <1>4 DEF FirstUse
<1>5. ASSUME NEW update \in Updates, Configure(update) PROVE PoolInv'
  BY <1>1, <1>5 DEF Configure
<1>6. ASSUME NEW r \in Resets, FactoryReset(r) PROVE PoolInv'
  BY <1>1, <1>6, EnsureAccounts DEF FactoryReset
<1>7. ASSUME NEW r \in Resets, FactoryResetConnected(r) PROVE PoolInv'
  BY <1>7, ReadyAccounts, FailedAccounts DEF FactoryResetConnected
<1>8. ASSUME NEW r \in Resets, FactoryResetEnds(r) PROVE PoolInv'
  BY <1>1, <1>8 DEF FactoryResetEnds
<1>9. ASSUME Restart PROVE PoolInv'
  BY <1>9, StartAccounts DEF Restart, Start
<1>10. ASSUME UNCHANGED processVars PROVE PoolInv'
  BY <1>1, <1>10 DEF processVars
<1> QED BY <1>2, <1>3, <1>4, <1>5, <1>6, <1>7, <1>8, <1>9, <1>10 DEF Next

LEMMA PoolsInitially == Init => PoolInv
<1>1. IsFiniteSet({}) /\ Cardinality({}) = 0
  BY FS_EmptySet
<1> QED BY <1>1 DEF Init, PoolInv

\* Requests and administration use the same open pool, and no other is open but those of
\* resets that waited at the same time.
THEOREM PoolsSafe == Spec => []PoolsAccounted
<1>1. Init => PoolInv
  BY PoolsInitially
<1>2. PoolInv => PoolsAccounted
  <2> SUFFICES ASSUME PoolInv PROVE PoolsAccounted
    OBVIOUS
  <2>1. Cardinality(opened) \in Nat /\ Cardinality(connecting) \in Nat
    BY FS_CardinalityType DEF PoolInv
  <2> QED BY <2>1 DEF PoolInv, PoolsAccounted
<1> QED BY <1>1, <1>2, PoolStep, PTL DEF Spec

------------------------------------------------------------------------------------
\* Thought streams

Interval(f, n) == [i \in 1 .. n - f + 1 |-> f + i - 1]

\* What FirstHeard chooses.
IsFirst(f, n) == f \in 1 .. n + 1 /\ InReplay(f, n) /\ (f > 1 => ~InReplay(f - 1, n))

Viewer == [pc : {"off", "open", "live", "closing", "lost"}, joined : Nat, heard : Seq(Nat),
           taken : Nat]

\* The ring is what a viewer who came now would hear first, and so there is a first event
\* for every moment at which a viewer came.
StreamsInv ==
    /\ log \in Seq({"thought", "reset"})
    /\ streams \in [Viewers -> Viewer]
    /\ \E n, f \in Nat : n = Len(log) /\ IsFirst(f, n) /\ ring = Interval(f, n)
    /\ \A k \in Viewers : streams[k].pc # "off" =>
         \E n, j, f \in Nat : /\ n = Len(log) /\ j = streams[k].joined /\ j <= n
                              /\ IsFirst(f, j) /\ streams[k].heard = Interval(f, n)

\* There is one first event at most: what follows an event of the replay is in it too.
LEMMA FirstUnique ==
    ASSUME NEW n \in Nat, NEW f \in Nat, IsFirst(f, n)
    PROVE  FirstHeard(n) = f
<1>1. \A g \in 1 .. n + 1 : InReplay(g, n) /\ (g > 1 => ~InReplay(g - 1, n)) => g = f
  <2> SUFFICES ASSUME NEW g \in 1 .. n + 1, IsFirst(g, n), g # f PROVE FALSE
    BY DEF IsFirst
  <2>1. ASSUME NEW a \in 1 .. n + 1, NEW b \in 1 .. n + 1, a < b, IsFirst(a, n), IsFirst(b, n)
        PROVE  FALSE
    <3>1. InReplay(a, n) /\ ~InReplay(b - 1, n)
      BY <2>1 DEF IsFirst
    <3>2. InReplay(b - 1, n)
      BY <2>1, <3>1, RingAssumption DEF InReplay
    <3> QED BY <3>1, <3>2
  <2>2. f \in 1 .. n + 1
    BY DEF IsFirst
  <2>3. f < g \/ g < f
    BY <2>2
  <2> QED BY <2>1, <2>2, <2>3
<1>2. f \in 1 .. n + 1 /\ InReplay(f, n) /\ (f > 1 => ~InReplay(f - 1, n))
  BY DEF IsFirst
<1> QED BY <1>1, <1>2 DEF FirstHeard

\* Further events do not change what was first at an earlier moment.
LEMMA FirstStays ==
    ASSUME log \in Seq({"thought", "reset"}), NEW e, log' = Append(log, e),
           NEW n \in 0 .. Len(log), NEW f \in Nat, IsFirst(f, n)
    PROVE  IsFirst(f, n)'
<1>1. \A j \in 1 .. n : log'[j] = log[j]
  OBVIOUS
<1>2. \A i \in 1 .. n + 1 : InReplay(i, n)' <=> InReplay(i, n)
  BY <1>1 DEF InReplay
<1> QED BY <1>2 DEF IsFirst

LEMMA IntervalGrows ==
    ASSUME NEW n \in Nat, NEW f \in 1 .. n + 1
    PROVE  Append(Interval(f, n), n + 1) = Interval(f, n + 1)
BY DEF Interval

LEMMA IntervalTail ==
    ASSUME NEW n \in Nat, NEW f \in 1 .. n
    PROVE  Tail(Interval(f, n)) = Interval(f + 1, n)
BY SMTT(20) DEF Interval

LEMMA IntervalSeq ==
    ASSUME NEW n \in Nat, NEW f \in 1 .. n + 1
    PROVE  Interval(f, n) \in Seq(Nat) /\ Len(Interval(f, n)) = n - f + 1
BY DEF Interval

\* Publishing an event gives it to every viewer there is.
LEMMA PublishKeeps ==
    ASSUME StreamsInv, NEW e \in {"thought", "reset"}, log' = Append(log, e),
           NEW n \in Nat, n = Len(log), Broadcast(n + 1),
           NEW first \in Nat, IsFirst(first, n + 1)', ring' = Interval(first, n + 1)
    PROVE  StreamsInv'
<1>1. /\ log' \in Seq({"thought", "reset"}) /\ Len(log)' = n + 1 /\ n + 1 \in Nat
  BY DEF StreamsInv
<1>2. \A k \in Viewers :
        /\ streams[k] \in Viewer
        /\ streams[k].pc = "off" => streams'[k] = streams[k]
        /\ streams[k].pc # "off" =>
             /\ streams'[k] = [streams[k] EXCEPT !.heard = Append(@, n + 1)]
             /\ streams'[k] \in Viewer
             /\ streams'[k].joined = streams[k].joined
             /\ streams'[k].heard = Append(streams[k].heard, n + 1)
  <2> SUFFICES ASSUME NEW k \in Viewers
               PROVE  /\ streams[k] \in Viewer
                      /\ streams[k].pc = "off" => streams'[k] = streams[k]
                      /\ streams[k].pc # "off" =>
                           /\ streams'[k] = [streams[k] EXCEPT !.heard = Append(@, n + 1)]
                           /\ streams'[k] \in Viewer
                           /\ streams'[k].joined = streams[k].joined
                           /\ streams'[k].heard = Append(streams[k].heard, n + 1)
    OBVIOUS
  <2>1. streams[k] \in Viewer
    BY DEF StreamsInv
  <2>2. streams[k].pc = "off" => streams'[k] = streams[k]
    BY DEF Broadcast, Subscribed
  <2>3. ASSUME streams[k].pc # "off"
        PROVE  streams'[k] = [streams[k] EXCEPT !.heard = Append(@, n + 1)]
    BY <2>3 DEF Broadcast, Subscribed
  <2>4. Append(streams[k].heard, n + 1) \in Seq(Nat)
    BY <1>1, <2>1 DEF Viewer
  <2> QED BY <2>1, <2>2, <2>3, <2>4 DEF Viewer
<1>3. streams' \in [Viewers -> Viewer]
  <2>1. DOMAIN streams' = Viewers /\ streams' = [k \in Viewers |-> streams'[k]]
    BY DEF Broadcast
  <2> QED BY <1>2, <2>1
<1>4. ASSUME NEW k \in Viewers, streams'[k].pc # "off"
      PROVE  \E j, f \in Nat : /\ j = streams'[k].joined /\ j <= n + 1
                               /\ IsFirst(f, j)' /\ streams'[k].heard = Interval(f, n + 1)
  <2>1. streams[k].pc # "off"
    BY <1>2, <1>4
  <2>2. PICK j, f \in Nat : /\ j = streams[k].joined /\ j <= n /\ IsFirst(f, j)
                            /\ streams[k].heard = Interval(f, n)
    BY <2>1 DEF StreamsInv
  <2>3. IsFirst(f, j)'
    BY <2>2, FirstStays DEF StreamsInv
  <2>4. f \in 1 .. n + 1
    BY <2>2 DEF IsFirst
  <2>5. streams'[k].heard = Interval(f, n + 1)
    <3>1. Append(Interval(f, n), n + 1) = Interval(f, n + 1)
      BY <2>4, IntervalGrows
    <3> QED BY <1>2, <2>1, <2>2, <3>1
  <2>6. streams'[k].joined = j
    BY <1>2, <2>1, <2>2
  <2> QED BY <2>2, <2>3, <2>5, <2>6
<1>5. \E m, f \in Nat : m = Len(log)' /\ IsFirst(f, m)' /\ ring' = Interval(f, m)
  BY <1>1
<1>6. \A k \in Viewers : streams'[k].pc # "off" =>
         \E m, j, f \in Nat : /\ m = Len(log)' /\ j = streams'[k].joined /\ j <= m
                              /\ IsFirst(f, j)' /\ streams'[k].heard = Interval(f, m)
  BY <1>1, <1>4
<1> QED BY <1>1, <1>3, <1>5, <1>6 DEF StreamsInv

LEMMA PushKeeps ==
    ASSUME StreamsInv, PushThought
    PROVE  StreamsInv'
<1>1. PICK n, f \in Nat : n = Len(log) /\ IsFirst(f, n) /\ ring = Interval(f, n)
  BY DEF StreamsInv
<1>2. /\ log' = Append(log, "thought") /\ ring' = Newest(Append(ring, n + 1))
      /\ Broadcast(n + 1)
  BY <1>1 DEF PushThought
<1>3. f \in 1 .. n + 1 /\ n + 1 \in Nat /\ n - RingSize < f /\ RingSize \in Nat \ {0}
  BY <1>1, RingAssumption DEF IsFirst, InReplay
<1>4. Append(ring, n + 1) = Interval(f, n + 1) /\ Len(Interval(f, n + 1)) = n + 2 - f
  <2>1. f \in 1 .. (n + 1) + 1
    BY <1>3
  <2>2. Len(Interval(f, n + 1)) = (n + 1) - f + 1
    BY <1>3, <2>1, IntervalSeq
  <2>3. (n + 1) - f + 1 = n + 2 - f
    BY <1>3
  <2>4. Append(Interval(f, n), n + 1) = Interval(f, n + 1)
    BY <1>3, IntervalGrows
  <2> QED BY <1>1, <2>2, <2>3, <2>4
<1>5. log'[n + 1] = "thought" /\ \A j \in 1 .. n : log'[j] = log[j]
  BY <1>1, <1>2 DEF StreamsInv
<1>6. \A j \in f .. n + 1 : log'[j] = "thought"
  <2>1. \A j \in f .. n : log[j] = "thought"
    BY <1>1 DEF IsFirst, InReplay
  <2> QED BY <1>3, <1>5, <2>1
<1>7. CASE n + 2 - f <= RingSize
  <2>1. ring' = Interval(f, n + 1)
    <3>1. ~(Len(Append(ring, n + 1)) > RingSize)
      BY <1>3, <1>4, <1>7
    <3> QED BY <1>2, <1>4, <3>1 DEF Newest
  <2>2. InReplay(f, n + 1)'
    BY <1>3, <1>6, <1>7 DEF InReplay
  <2>3. f > 1 => ~InReplay(f - 1, n + 1)'
    <3> SUFFICES ASSUME f > 1, InReplay(f - 1, n + 1)' PROVE FALSE
      OBVIOUS
    <3>1. InReplay(f - 1, n)
      BY <1>3, <1>5, <1>7 DEF InReplay
    <3> QED BY <1>1, <3>1 DEF IsFirst
  <2>4. IsFirst(f, n + 1)'
    BY <1>3, <2>2, <2>3 DEF IsFirst
  <2> QED BY <1>1, <1>2, <2>1, <2>4, PublishKeeps
<1>8. CASE n + 2 - f > RingSize
  <2>1. f = n + 1 - RingSize /\ f + 1 \in Nat
    BY <1>3, <1>8
  <2>2. ring' = Interval(f + 1, n + 1)
    <3>1. ring' = Tail(Interval(f, n + 1))
      BY <1>2, <1>4, <1>8 DEF Newest
    <3> QED BY <1>3, <2>1, <3>1, IntervalTail
  <2>3. InReplay(f + 1, n + 1)'
    BY <1>3, <1>6, <2>1 DEF InReplay
  <2>4. ~InReplay(f, n + 1)'
    BY <1>3, <2>1 DEF InReplay
  <2>5. IsFirst(f + 1, n + 1)'
    BY <1>3, <2>1, <2>3, <2>4 DEF IsFirst
  <2> QED BY <1>1, <1>2, <2>1, <2>2, <2>5, PublishKeeps
<1> QED BY <1>3, <1>7, <1>8

LEMMA ResetKeeps ==
    ASSUME StreamsInv, ResetTelemetry
    PROVE  StreamsInv'
<1>1. PICK n \in Nat : n = Len(log)
  BY DEF StreamsInv
<1>2. log' = Append(log, "reset") /\ ring' = <<>> /\ Broadcast(n + 1)
  BY <1>1 DEF ResetTelemetry
<1>3. log'[n + 1] = "reset" /\ n + 2 \in Nat
  BY <1>1, <1>2 DEF StreamsInv
<1>4. ring' = Interval(n + 2, n + 1)
  BY <1>2 DEF Interval
<1>5. InReplay(n + 2, n + 1)' /\ ~InReplay(n + 1, n + 1)'
  BY <1>3, RingAssumption DEF InReplay
<1>6. IsFirst(n + 2, n + 1)'
  BY <1>5 DEF IsFirst
<1> QED BY <1>1, <1>2, <1>3, <1>4, <1>6, PublishKeeps

\* What a viewer does concerns its own stream.
LEMMA ViewerKeeps ==
    ASSUME StreamsInv, NEW k \in Viewers, UNCHANGED <<log, ring>>,
           NEW v \in Viewer, streams' = [streams EXCEPT ![k] = v],
           \/ v.pc = "off"
           \/ v.joined = Len(log) /\ v.heard = ring
           \/ streams[k].pc # "off" /\ v.joined = streams[k].joined /\ v.heard = streams[k].heard
    PROVE  StreamsInv'
<1>1. PICK n, f \in Nat : n = Len(log) /\ IsFirst(f, n) /\ ring = Interval(f, n)
  BY DEF StreamsInv
<1>2. \A i, m : InReplay(i, m)' <=> InReplay(i, m)
  BY DEF InReplay
<1>3. \A i, m : IsFirst(i, m)' <=> IsFirst(i, m)
  BY <1>2 DEF IsFirst
<1>4. streams' \in [Viewers -> Viewer]
  BY DEF StreamsInv
<1>5. ASSUME NEW l \in Viewers, streams'[l].pc # "off"
      PROVE  \E j, g \in Nat : /\ j = streams'[l].joined /\ j <= n
                               /\ IsFirst(g, j) /\ streams'[l].heard = Interval(g, n)
  <2>1. CASE l = k
    <3>1. streams'[l] = v
      BY <2>1 DEF StreamsInv
    <3>2. CASE v.joined = Len(log) /\ v.heard = ring
      BY <1>1, <3>1, <3>2
    <3>3. CASE streams[k].pc # "off" /\ v.joined = streams[k].joined
               /\ v.heard = streams[k].heard
      BY <1>1, <3>1, <3>3 DEF StreamsInv
    <3> QED BY <1>5, <3>1, <3>2, <3>3
  <2>2. CASE l # k
    <3>1. streams'[l] = streams[l]
      BY <2>2 DEF StreamsInv
    <3> QED BY <1>1, <1>5, <3>1 DEF StreamsInv
  <2> QED BY <2>1, <2>2
<1>6. \E m, g \in Nat : m = Len(log)' /\ IsFirst(g, m)' /\ ring' = Interval(g, m)
  BY <1>1, <1>3
<1>7. \A l \in Viewers : streams'[l].pc # "off" =>
         \E m, j, g \in Nat : /\ m = Len(log)' /\ j = streams'[l].joined /\ j <= m
                              /\ IsFirst(g, j)' /\ streams'[l].heard = Interval(g, m)
  BY <1>1, <1>3, <1>5
<1> QED BY <1>4, <1>6, <1>7 DEF StreamsInv

LEMMA ViewerStepKeeps ==
    ASSUME StreamsInv, NEW k \in Viewers,
           OpenStream(k) \/ BeginStream(k) \/ Deliver(k) \/ Leave(k) \/ Unsubscribe(k)
    PROVE  StreamsInv'
<1>1. streams[k] \in Viewer /\ streams \in [Viewers -> Viewer] /\ Len(log) \in Nat
  BY DEF StreamsInv
<1>2. CASE OpenStream(k)
  <2> DEFINE v == [pc |-> "open", joined |-> Len(log), heard |-> ring, taken |-> 0]
  <2>1. ring \in Seq(Nat)
    BY IntervalSeq DEF StreamsInv, IsFirst
  <2>2. v \in Viewer /\ v.joined = Len(log) /\ v.heard = ring
    BY <1>1, <2>1 DEF Viewer
  <2>3. streams' = [streams EXCEPT ![k] = v] /\ UNCHANGED <<log, ring>>
    BY <1>2 DEF OpenStream
  <2> HIDE DEF v
  <2> QED BY <2>2, <2>3, ViewerKeeps
<1>3. CASE Unsubscribe(k)
  <2>1. NoStream \in Viewer /\ NoStream.pc = "off"
    BY DEF NoStream, Viewer
  <2> QED BY <1>3, <2>1, ViewerKeeps DEF Unsubscribe
<1>4. ASSUME NEW pc \in {"live", "closing", "lost"}, streams[k].pc # "off",
             streams' = [streams EXCEPT ![k] = [streams[k] EXCEPT !.pc = pc]],
             UNCHANGED <<log, ring>>
      PROVE  StreamsInv'
  <2> DEFINE v == [streams[k] EXCEPT !.pc = pc]
  <2>1. v \in Viewer /\ v.joined = streams[k].joined /\ v.heard = streams[k].heard
    BY <1>1 DEF Viewer
  <2>2. streams' = [streams EXCEPT ![k] = v]
    BY <1>4
  <2> HIDE DEF v
  <2> QED BY <1>4, <2>1, <2>2, ViewerKeeps
<1>5. CASE BeginStream(k)
  BY <1>1, <1>4, <1>5 DEF BeginStream
<1>6. CASE Leave(k)
  <2>1. PICK pc \in {"closing", "lost"} :
          streams' = [streams EXCEPT ![k] = [streams[k] EXCEPT !.pc = pc]]
    BY <1>1, <1>6 DEF Leave
  <2> QED BY <1>4, <1>6, <2>1 DEF Leave
<1>7. CASE Deliver(k)
  <2> DEFINE v == [streams[k] EXCEPT !.taken = @ + 1]
  <2>1. v \in Viewer /\ v.joined = streams[k].joined /\ v.heard = streams[k].heard
    BY <1>1, SMTT(20) DEF Viewer
  <2>2. /\ streams' = [streams EXCEPT ![k] = v] /\ UNCHANGED <<log, ring>>
        /\ streams[k].pc # "off"
    BY <1>1, <1>7 DEF Deliver
  <2> HIDE DEF v
  <2> QED BY <2>1, <2>2, ViewerKeeps
<1> QED BY <1>2, <1>3, <1>5, <1>6, <1>7

\* A new process begins with the newest turns of the tables, and without viewers.
LEMMA HydratedKeeps ==
    ASSUME NEW n \in 0 .. RingSize, Hydrated(n)
    PROVE  StreamsInv'
<1>1. n \in Nat
  BY RingAssumption
<1>2. log' \in Seq({"thought", "reset"}) /\ Len(log)' = n
      /\ \A j \in 1 .. n : log'[j] = "thought"
  BY <1>1 DEF Hydrated
<1>3. IsFirst(1, n)' /\ ring' = Interval(1, n)
  <2>1. InReplay(1, n)'
    BY <1>1, <1>2, RingAssumption DEF InReplay
  <2>2. ring' = Interval(1, n)
    BY <1>1 DEF Hydrated, Interval
  <2> QED BY <1>1, <2>1, <2>2 DEF IsFirst
<1>4. NoStream \in Viewer /\ NoStream.pc = "off"
  BY DEF NoStream, Viewer
<1>5. streams' \in [Viewers -> Viewer] /\ \A k \in Viewers : streams'[k].pc = "off"
  BY <1>4 DEF Hydrated
<1>6. \E m, f \in Nat : m = Len(log)' /\ IsFirst(f, m)' /\ ring' = Interval(f, m)
  BY <1>1, <1>2, <1>3
<1> QED BY <1>2, <1>5, <1>6 DEF StreamsInv

LEMMA StreamsInitially == Init => StreamsInv
<1> SUFFICES ASSUME Init PROVE StreamsInv
  OBVIOUS
<1>1. log = <<>> /\ ring = <<>> /\ streams = [k \in Viewers |-> NoStream]
  BY DEF Init
<1>2. NoStream \in Viewer /\ NoStream.pc = "off"
  BY DEF NoStream, Viewer
<1>3. InReplay(1, 0) /\ ring = Interval(1, 0)
  BY <1>1, RingAssumption DEF InReplay, Interval
<1>4. IsFirst(1, 0)
  BY <1>3 DEF IsFirst
<1>5. \E n, f \in Nat : n = Len(log) /\ IsFirst(f, n) /\ ring = Interval(f, n)
  BY <1>1, <1>3, <1>4
<1> QED BY <1>1, <1>2, <1>5 DEF StreamsInv

LEMMA StreamsStep == StreamsInv /\ [Next]_processVars => StreamsInv'
<1> SUFFICES ASSUME StreamsInv, [Next]_processVars PROVE StreamsInv'
  OBVIOUS
<1>1. ASSUME UNCHANGED telemetryVars PROVE StreamsInv'
  <2>1. UNCHANGED <<log, ring, streams>>
    BY <1>1 DEF telemetryVars
  <2>2. \A f, n : IsFirst(f, n)' <=> IsFirst(f, n)
    BY <2>1 DEF IsFirst, InReplay
  <2> QED BY <2>1, <2>2 DEF StreamsInv
<1>2. ASSUME EndTurn PROVE StreamsInv'
  BY <1>2, PushKeeps DEF EndTurn
<1>3. ASSUME NEW k \in Viewers, Connect(k) \/ StreamStep(k) \/ Disconnect(k)
      PROVE  StreamsInv'
  BY <1>3, ViewerStepKeeps DEF Connect, StreamStep, Disconnect
<1>4. ASSUME FirstUse PROVE StreamsInv'
  BY <1>1, <1>4 DEF FirstUse
<1>5. ASSUME NEW update \in Updates, Configure(update) PROVE StreamsInv'
  BY <1>1, <1>5 DEF Configure
<1>6. ASSUME NEW r \in Resets, FactoryReset(r) \/ FactoryResetConnected(r)
      PROVE  StreamsInv'
  BY <1>1, <1>6 DEF FactoryReset, FactoryResetConnected
<1>7. ASSUME NEW r \in Resets, FactoryResetEnds(r) PROVE StreamsInv'
  BY <1>1, <1>7, ResetKeeps DEF FactoryResetEnds
<1>8. ASSUME Restart PROVE StreamsInv'
  BY <1>8, HydratedKeeps DEF Restart, Start
<1>9. ASSUME UNCHANGED processVars PROVE StreamsInv'
  BY <1>1, <1>9 DEF processVars
<1> QED BY <1>2, <1>3, <1>4, <1>5, <1>6, <1>7, <1>8, <1>9 DEF Next

\* A viewer misses no thought and hears none twice, from the replay of the moment it came
\* on, whatever was published or reset since.
THEOREM StreamsComplete == Spec => []StreamsContiguous
<1>1. StreamsInv => StreamsContiguous
  <2> SUFFICES ASSUME StreamsInv, NEW k \in Viewers, streams[k].pc # "off"
               PROVE  LET first == FirstHeard(streams[k].joined)
                      IN streams[k].heard = [i \in 1 .. Len(log) - first + 1 |-> first + i - 1]
    BY DEF StreamsContiguous
  <2>1. PICK n, j, f \in Nat : /\ n = Len(log) /\ j = streams[k].joined
                               /\ IsFirst(f, j) /\ streams[k].heard = Interval(f, n)
    BY DEF StreamsInv
  <2>2. FirstHeard(j) = f
    BY <2>1, FirstUnique
  <2> QED BY <2>1, <2>2 DEF Interval
<1> QED BY <1>1, StreamsInitially, StreamsStep, PTL DEF Spec

------------------------------------------------------------------------------------
\* Types

\* The rest of the process's type: requests that wait or empty tables are resets.
ResetsInv ==
    /\ connecting \subseteq Resets
    /\ clearing \subseteq Resets
    /\ together \in 0 .. Cardinality(Resets)
    /\ requests \in 0 .. MaxRequests

LEMMA ResetsStep == ResetsInv /\ [Next]_processVars => ResetsInv'
<1> SUFFICES ASSUME ResetsInv, [Next]_processVars PROVE ResetsInv'
  OBVIOUS
<1> USE DEF ResetsInv
<1>1. Cardinality(Resets) \in Nat /\ 0 \in 0 .. Cardinality(Resets)
  BY ResetsAssumption, FS_CardinalityType
<1>2. requests' \in 0 .. MaxRequests
  BY MaxRequestsAssumption DEF Next, processVars, Request, EndTurn, Connect, StreamStep,
     Disconnect, FirstUse, Configure, FactoryReset, FactoryResetConnected, FactoryResetEnds,
     Restart
<1>3. CASE UNCHANGED <<poolVars, clearing>>
  BY <1>2, <1>3 DEF poolVars
<1>4. ASSUME NEW r \in Resets, EnsurePool(r)
      PROVE  connecting' \subseteq Resets /\ together' \in 0 .. Cardinality(Resets)
  <2>1. connecting' \subseteq Resets
    BY <1>4 DEF EnsurePool
  <2>2. Cardinality(connecting') <= Cardinality(Resets) /\ Cardinality(connecting') \in Nat
    BY <2>1, ResetsAssumption, FS_Subset, FS_CardinalityType
  <2> QED
    BY <1>1, <1>4, <2>1, <2>2 DEF EnsurePool
<1>5. ASSUME NEW r \in Resets, FactoryReset(r) PROVE ResetsInv'
  BY <1>2, <1>4, <1>5 DEF FactoryReset, poolVars
<1>6. ASSUME NEW r \in Resets, FactoryResetConnected(r) PROVE ResetsInv'
  BY <1>2, <1>6 DEF FactoryResetConnected, PoolReady, PoolFailed
<1>7. ASSUME NEW r \in Resets, FactoryResetEnds(r) PROVE ResetsInv'
  BY <1>2, <1>7 DEF FactoryResetEnds, poolVars
<1>8. CASE Restart
  BY <1>1, <1>2, <1>8 DEF Restart, Start, StartPool
<1>9. CASE EndTurn \/ FirstUse \/ UNCHANGED processVars
  BY <1>3, <1>9 DEF EndTurn, FirstUse, processVars
<1>10. ASSUME NEW k \in Viewers, Connect(k) \/ StreamStep(k) \/ Disconnect(k) PROVE ResetsInv'
  BY <1>3, <1>10 DEF Connect, StreamStep, Disconnect
<1>11. ASSUME NEW update \in Updates, Configure(update) PROVE ResetsInv'
  BY <1>3, <1>11 DEF Configure
<1> QED
  BY <1>5, <1>6, <1>7, <1>8, <1>9, <1>10, <1>11 DEF Next

\* Whoever is not connected has no queue.
OffInv == \A k \in Viewers : streams[k].pc = "off" => streams[k].heard = <<>>

LEMMA OffStep == StreamsInv /\ OffInv /\ [Next]_processVars => OffInv'
<1> SUFFICES ASSUME StreamsInv, OffInv, [Next]_processVars PROVE OffInv'
  OBVIOUS
<1>1. streams \in [Viewers -> Viewer] /\ NoStream.heard = <<>>
  BY DEF StreamsInv, NoStream
<1>2. CASE UNCHANGED telemetryVars
  BY <1>2 DEF OffInv, telemetryVars
<1>3. ASSUME NEW e, Broadcast(e) PROVE OffInv'
  <2> SUFFICES ASSUME NEW k \in Viewers, streams'[k].pc = "off" PROVE streams'[k].heard = <<>>
    BY DEF OffInv
  <2>1. streams[k] \in Viewer
    BY <1>1
  <2>2. streams[k].pc = "off" /\ streams'[k] = streams[k]
    BY <1>3, <2>1 DEF Broadcast, Subscribed, Viewer
  <2> QED
    BY <2>2 DEF OffInv
<1>4. ASSUME NEW k \in Viewers, NEW v, streams' = [streams EXCEPT ![k] = v],
             v.pc = "off" => v.heard = <<>>
      PROVE  OffInv'
  BY <1>1, <1>4 DEF OffInv
<1>5. ASSUME NEW k \in Viewers, Connect(k) \/ StreamStep(k) \/ Disconnect(k) PROVE OffInv'
  <2>1. streams[k] \in Viewer
    BY <1>1
  <2>2. CASE OpenStream(k)
    BY <1>4, <2>2 DEF OpenStream
  <2>3. CASE Unsubscribe(k)
    BY <1>1, <1>4, <2>3 DEF Unsubscribe
  <2>4. CASE BeginStream(k)
    BY <1>4, <2>1, <2>4 DEF BeginStream, Viewer
  <2>5. CASE Deliver(k)
    BY <1>4, <2>1, <2>5 DEF Deliver, Viewer
  <2>6. CASE Leave(k)
    BY <1>4, <2>1, <2>6 DEF Leave, Viewer
  <2> QED
    BY <1>5, <2>2, <2>3, <2>4, <2>5, <2>6 DEF Connect, StreamStep, Disconnect
<1>6. CASE EndTurn
  BY <1>3, <1>6 DEF EndTurn, PushThought
<1>7. ASSUME NEW r \in Resets, FactoryResetEnds(r) PROVE OffInv'
  BY <1>2, <1>3, <1>7 DEF FactoryResetEnds, ResetTelemetry
<1>8. ASSUME NEW r \in Resets, FactoryReset(r) \/ FactoryResetConnected(r) PROVE OffInv'
  BY <1>2, <1>8 DEF FactoryReset, FactoryResetConnected
<1>9. CASE FirstUse \/ (\E update \in Updates : Configure(update)) \/ UNCHANGED processVars
  BY <1>2, <1>9 DEF FirstUse, Configure, processVars
<1>10. CASE Restart
  BY <1>1, <1>10 DEF Restart, Start, Hydrated, OffInv
<1> QED
  BY <1>5, <1>6, <1>7, <1>8, <1>9, <1>10 DEF Next

\* The ring and the queues hold published events only, and the ring no more than it has
\* room for.
LEMMA StreamsTyped == StreamsInv /\ OffInv => TelemetryTypeOK
<1> SUFFICES ASSUME StreamsInv, OffInv PROVE TelemetryTypeOK
  OBVIOUS
<1>1. ASSUME NEW n \in Nat, NEW f \in 1 .. n + 1
      PROVE  Interval(f, n) \in Seq(1 .. n) /\ Len(Interval(f, n)) = n - f + 1
  BY DEF Interval
<1>2. PICK n, f \in Nat : n = Len(log) /\ IsFirst(f, n) /\ ring = Interval(f, n)
  BY DEF StreamsInv
<1>3. f \in 1 .. n + 1 /\ n - RingSize < f
  BY <1>2 DEF IsFirst, InReplay
<1>4. ring \in Seq(Events) /\ Len(ring) <= RingSize
  <2>1. ring \in Seq(1 .. n) /\ Len(ring) = n - f + 1
    BY <1>1, <1>2, <1>3
  <2> QED
    BY <1>2, <1>3, <2>1, RingAssumption DEF Events
<1>5. ASSUME NEW k \in Viewers PROVE streams[k] \in Stream
  <2>1. streams[k] \in Viewer
    BY DEF StreamsInv
  <2>2. streams[k].heard \in Seq(Events)
    <3>1. CASE streams[k].pc = "off"
      <4>1. \A S : <<>> \in Seq(S)
        OBVIOUS
      <4> QED
        BY <3>1, <4>1 DEF OffInv
    <3>2. CASE streams[k].pc # "off"
      <4>1. PICK m, j, g \in Nat : /\ m = Len(log) /\ j = streams[k].joined /\ j <= m
                                   /\ IsFirst(g, j) /\ streams[k].heard = Interval(g, m)
        BY <3>2 DEF StreamsInv
      <4>2. g \in 1 .. m + 1
        BY <4>1 DEF IsFirst
      <4> QED
        BY <1>1, <4>1, <4>2 DEF Events
    <3> QED
      BY <3>1, <3>2
  <2> QED
    BY <2>1, <2>2 DEF Viewer, Stream
<1> QED
  BY <1>4, <1>5 DEF TelemetryTypeOK, StreamsInv

\* The state of the thought streams, the settings and the pools keeps its type: the ring
\* its length, and every queue to events that were published.
THEOREM ProcessTypes == Spec => []ProcessTypeOK
<1>1. Init => ResetsInv /\ OffInv
  <2>1. 0 \in 0 .. Cardinality(Resets)
    BY ResetsAssumption, FS_CardinalityType
  <2> QED
    BY <2>1, MaxRequestsAssumption DEF Init, ResetsInv, OffInv, NoStream
<1>2. StreamsInv /\ OffInv /\ SettingsInv /\ PoolInv /\ ResetsInv => ProcessTypeOK
  BY StreamsTyped DEF SettingsInv, PoolInv, ResetsInv, PoolTypeOK, ProcessTypeOK
<1>3. Spec => [](StreamsInv /\ SettingsInv /\ PoolInv)
  <2>1. Init => PoolInv
    BY PoolsInitially
  <2> QED
    BY <2>1, StreamsInitially, StreamsStep, SettingsInitially, SettingsStep, PoolStep, PTL DEF Spec
<1> QED
  BY <1>1, <1>2, <1>3, ResetsStep, OffStep, PTL DEF Spec
==================================================================================
