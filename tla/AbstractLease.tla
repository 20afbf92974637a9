------------------------------- MODULE AbstractLease -------------------------------
(***************************************************************************)
(* What the session lock of evennia_world/session_lock.py promises, with   *)
(* no clock, no asyncio.Lock and no messages: for every session at most    *)
(* one token owns the turn; a token is granted only while the session is   *)
(* free or its owner's lease has lapsed; a token is never granted twice.   *)
(* SessionLock implements this specification (SessionLock!Lease).          *)
(***************************************************************************)
EXTENDS Integers

CONSTANTS Sessions,     \* session ids
          Tokens,       \* the uuid4 strings a grant may return
          NoToken       \* not a token: the session is free

VARIABLES owner,        \* owner[s]: the token that owns session s, or NoToken
          lapsed,       \* lapsed[s]: the owner's lease is over
          granted       \* the tokens granted so far

leaseVars == <<owner, lapsed, granted>>

LeaseInit ==
    /\ owner = [s \in Sessions |-> NoToken]
    /\ lapsed = [s \in Sessions |-> FALSE]
    /\ granted = {}

Grant(s, t) ==
    /\ owner[s] = NoToken \/ lapsed[s]
    /\ t \notin granted
    /\ owner' = [owner EXCEPT ![s] = t]
    /\ lapsed' = [lapsed EXCEPT ![s] = FALSE]
    /\ granted' = granted \cup {t}

GiveBack(s) ==
    /\ owner[s] # NoToken
    /\ owner' = [owner EXCEPT ![s] = NoToken]
    /\ lapsed' = [lapsed EXCEPT ![s] = FALSE]
    /\ UNCHANGED granted

\* Leases that are over may be collected, several at once.
Reap(S) ==
    /\ \A s \in S : lapsed[s]
    /\ owner' = [s \in Sessions |-> IF s \in S THEN NoToken ELSE owner[s]]
    /\ lapsed' = [s \in Sessions |-> IF s \in S THEN FALSE ELSE lapsed[s]]
    /\ UNCHANGED granted

\* Time passes: the leases of some owned sessions end.
Lapse(S) ==
    /\ \A s \in S : owner[s] # NoToken
    /\ lapsed' = [s \in Sessions |-> s \in S \/ lapsed[s]]
    /\ UNCHANGED <<owner, granted>>

LeaseNext ==
    \/ \E s \in Sessions, t \in Tokens : Grant(s, t)
    \/ \E s \in Sessions : GiveBack(s)
    \/ \E S \in SUBSET Sessions : Reap(S)
    \/ \E S \in SUBSET Sessions : Lapse(S)

LeaseSpec == LeaseInit /\ [][LeaseNext]_leaseVars
====================================================================================
