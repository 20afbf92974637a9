-------------------------------- MODULE ProxyProcess --------------------------------
(***************************************************************************)
(* The proxy process (proxy/main.py): thought streams, settings and pools    *)
(* under one event loop, from start to death and from there to the next      *)
(* start.  Turns publish their thoughts; a factory reset needs a pool and    *)
(* resets the telemetry; the settings file outlives the process.             *)
(***************************************************************************)
EXTENDS Telemetry, Settings, DbPools

CONSTANTS Updates,      \* bodies of POST /config
          FirstFiles,   \* what config.json may hold at first
          MaxRequests   \* bound for TLC: requests, turns and deaths of the process

ASSUME UpdatesAssumption == Updates \subseteq Dict /\ FirstFiles \subseteq Dict \cup {Absent}
ASSUME MaxRequestsAssumption == MaxRequests \in Nat

VARIABLES clearing,     \* factory resets that are emptying the tables
          requests

processVars == <<telemetryVars, settingsVars, poolVars, clearing, requests>>

ProcessTypeOK ==
    /\ TelemetryTypeOK
    /\ SettingsTypeOK
    /\ PoolTypeOK
    /\ clearing \subseteq Resets
    /\ requests \in 0 .. MaxRequests

\* Start-up: with a pool the ring is filled from the tables, which hold any number of turns.
Start ==
    /\ ImportDefaults
    /\ StartPool
    /\ clearing' = {}
    /\ \E n \in 0 .. RingSize : (opened' = {} => n = 0) /\ Hydrated(n)

Init ==
    /\ log = <<>> /\ ring = <<>> /\ streams = [k \in Viewers |-> NoStream]
    /\ file \in FirstFiles
    /\ \E e \in Environments : defaults = e.imported /\ environ = e.loaded
    /\ managed = FALSE /\ accepted = Nothing
    /\ dbPool = NoPool /\ adminPool = NoPool /\ opened = {}
    /\ connecting = {} /\ together = 0 /\ clearing = {}
    /\ requests = 0

Request == requests < MaxRequests /\ requests' = requests + 1

\* A turn with a monologue ends.
EndTurn == Request /\ PushThought /\ UNCHANGED <<settingsVars, poolVars, clearing>>

Connect(k) == Request /\ OpenStream(k) /\ UNCHANGED <<settingsVars, poolVars, clearing>>

StreamStep(k) ==
    /\ BeginStream(k) \/ Deliver(k) \/ Unsubscribe(k)
    /\ UNCHANGED <<settingsVars, poolVars, clearing, requests>>

Disconnect(k) == Leave(k) /\ UNCHANGED <<settingsVars, poolVars, clearing, requests>>

FirstUse == CreateManager /\ UNCHANGED <<telemetryVars, poolVars, clearing, requests>>

Configure(update) ==
    Request /\ WriteSettings(update) /\ UNCHANGED <<telemetryVars, poolVars, clearing>>

\* factory_reset with a pool empties the tables; without one it tries to get one.
FactoryReset(r) ==
    /\ Request
    /\ r \notin connecting \cup clearing
    /\ \/ adminPool # NoPool /\ clearing' = clearing \cup {r} /\ UNCHANGED poolVars
       \/ EnsurePool(r) /\ UNCHANGED clearing
    /\ UNCHANGED <<telemetryVars, settingsVars>>

\* With the new pool it goes on, without it the answer is 530.
FactoryResetConnected(r) ==
    /\ \/ PoolReady(r) /\ clearing' = clearing \cup {r}
       \/ PoolFailed(r) /\ UNCHANGED clearing
    /\ UNCHANGED <<telemetryVars, settingsVars, requests>>

\* The telemetry is reset once all tables are empty; a failing statement ends the request
\* with status 500 before that.
FactoryResetEnds(r) ==
    /\ r \in clearing
    /\ clearing' = clearing \ {r}
    /\ ResetTelemetry \/ UNCHANGED telemetryVars
    /\ UNCHANGED <<settingsVars, poolVars, requests>>

\* The process ends and is started again; it may be in the middle of a write.
Restart ==
    /\ Request
    /\ Start
    /\ UNCHANGED <<file, accepted>> \/ TearFile

Next ==
    \/ EndTurn
    \/ \E k \in Viewers : Connect(k) \/ StreamStep(k) \/ Disconnect(k)
    \/ FirstUse
    \/ \E update \in Updates : Configure(update)
    \/ \E r \in Resets : FactoryReset(r) \/ FactoryResetConnected(r) \/ FactoryResetEnds(r)
    \/ Restart

\* The event loop goes on with a stream whose turn it is.
Spec == Init /\ [][Next]_processVars /\ \A k \in Viewers : WF_processVars(StreamStep(k))
====================================================================================
