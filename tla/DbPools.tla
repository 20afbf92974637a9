----------------------------------- MODULE DbPools -----------------------------------
(***************************************************************************)
(* The proxy's connection pool and the two module globals that refer to it:  *)
(* _db_pool (proxy/api/routes.py) and _admin_db_pool                         *)
(* (proxy/api/admin_routes.py).  The startup event makes a pool, or fails    *)
(* within two seconds; after that only a factory reset tries again, and it   *)
(* may wait for its pool while others wait for theirs.                       *)
(***************************************************************************)
EXTENDS Integers, FiniteSets

CONSTANTS Pools,        \* pools that asyncpg makes
          Resets,       \* factory_reset requests
          NoPool        \* None

ASSUME NoPoolAssumption == NoPool \notin Pools
ASSUME ResetsAssumption == IsFiniteSet(Resets)

VARIABLES dbPool,       \* routes._db_pool
          adminPool,    \* admin_routes._admin_db_pool
          opened,       \* pools with open connections
          connecting,   \* the requests that wait for create_pool
          together      \* history: the largest number of them at a time

poolVars == <<dbPool, adminPool, opened, connecting, together>>

PoolTypeOK ==
    /\ {dbPool, adminPool} \subseteq Pools \cup {NoPool}
    /\ opened \subseteq Pools
    /\ connecting \subseteq Resets
    /\ together \in 0 .. Cardinality(Resets)

\* The startup event of a new process (whose predecessor's connections are gone).
StartPool ==
    /\ \/ \E p \in Pools : dbPool' = p /\ adminPool' = p /\ opened' = {p}
       \/ dbPool' = NoPool /\ adminPool' = NoPool /\ opened' = {}
    /\ connecting' = {}
    /\ together' = 0

\* Mutant: the request connects without a look at the pool there is.
ConnectAnyway == TRUE

\* get_admin_db_pool() and the check of ensure_db_pool() find nothing.
MustConnect == adminPool = NoPool /\ dbPool = NoPool

\* factory_reset without a pool starts create_pool and waits.
EnsurePool(r) ==
    /\ MustConnect
    /\ r \notin connecting
    /\ connecting' = connecting \cup {r}
    /\ together' = IF together < Cardinality(connecting') THEN Cardinality(connecting')
                   ELSE together
    /\ UNCHANGED <<dbPool, adminPool, opened>>

\* create_pool returns: both globals are set, whatever they hold by now.
PoolReady(r) ==
    /\ r \in connecting
    /\ connecting' = connecting \ {r}
    /\ \E p \in Pools \ opened :
        /\ opened' = opened \cup {p}
        /\ adminPool' = p
        /\ dbPool' = p
    /\ UNCHANGED together

\* create_pool fails, or takes more than two seconds: status 530.
PoolFailed(r) ==
    /\ r \in connecting
    /\ connecting' = connecting \ {r}
    /\ UNCHANGED <<dbPool, adminPool, opened, together>>

\* Requests and administration use the same open pool, and there is no other, except that
\* resets which waited at the same time have opened one each and all but the last are
\* never closed.
PoolsAccounted ==
    /\ dbPool = adminPool
    /\ adminPool # NoPool => adminPool \in opened
    /\ opened # {} => adminPool # NoPool
    /\ Cardinality(opened) <= (IF together > 1 THEN together ELSE 1)
====================================================================================
