-------------------------------- MODULE SessionLock --------------------------------
(***************************************************************************)
(* The per-session turn lock of evennia_world/session_lock.py, as its HTTP *)
(* handler (evennia_world/app.py, handle_session_lock) exposes it.         *)
(*                                                                         *)
(* The service is one asyncio process.  acquire_lock awaits only           *)
(* lock.acquire(), and an asyncio.Lock that is not locked is taken without *)
(* giving up control: as long as the three tables agree (LockAgreement)    *)
(* every handler below is one atomic step.                                 *)
(*                                                                         *)
(* Around the service: clocks advance, the reply to an acquisition may be  *)
(* lost (nobody then knows the token), and a release request may be        *)
(* delayed for any time and delivered any number of times, as a client     *)
(* that times out and retries does.                                        *)
(***************************************************************************)
EXTENDS Integers

CONSTANTS Sessions,     \* session ids
          Tokens,       \* what uuid4 may return: a fresh one for every grant
          NoToken,      \* stands for an absent entry of _tokens / _lock_info
          TTL,          \* DEFAULT_TTL_SECONDS, in clock ticks
          MaxTime       \* bound of the monotonic clock, for TLC

ASSUME TTLAssumption == TTL \in Nat
ASSUME MaxTimeAssumption == MaxTime \in Nat
ASSUME NoTokenAssumption == NoToken \notin Tokens

VARIABLES locked,       \* _locks: locked[s] is asyncio.Lock.locked()
          tokens,       \* _tokens: the token of the current lock, or NoToken
          lockInfo,     \* _lock_info: token and expiry
          now,          \* time.monotonic()
          issued,       \* the uuids drawn so far
          tickets,      \* replies that reached a client and are still in use
          releases      \* release requests sent; they stay, as retries do

lockVars == <<locked, tokens, lockInfo>>
vars == <<locked, tokens, lockInfo, now, issued, tickets, releases>>

Ticket == [session : Sessions, token : Tokens, expiry : Nat]
NoInfo == [token |-> NoToken, expiry |-> 0]
Held(s) == lockInfo[s] # NoInfo

TypeOK ==
    /\ locked \in [Sessions -> BOOLEAN]
    /\ tokens \in [Sessions -> Tokens \cup {NoToken}]
    /\ lockInfo \in [Sessions -> [token : Tokens \cup {NoToken}, expiry : Nat]]
    /\ now \in Nat
    /\ issued \subseteq Tokens
    /\ tickets \subseteq Ticket
    /\ releases \subseteq Ticket

Init ==
    /\ locked = [s \in Sessions |-> FALSE]
    /\ tokens = [s \in Sessions |-> NoToken]
    /\ lockInfo = [s \in Sessions |-> NoInfo]
    /\ now = 1                \* the monotonic clock is never 0 in practice
    /\ issued = {}
    /\ tickets = {}
    /\ releases = {}

------------------------------------------------------------------------------------
\* The lock manager

\* Mutant: the comparison includes the last instant of the lease.
StaleAtExpiry(s) == Held(s) /\ now >= lockInfo[s].expiry
\* Mutant: "info.get('expiry') and ..." with an expiry that counts as unset.
NeverStale(s) == FALSE

\* info.get("expiry") and now > info["expiry"]: an expiry of 0 never expires.
Stale(s) == Held(s) /\ lockInfo[s].expiry # 0 /\ now > lockInfo[s].expiry

StaleLocks == {s \in Sessions : Stale(s)}

\* is_locked: held and not yet expired.
IsLocked(s) == Held(s) /\ ~Stale(s)

\* verify_lock: the token is that of the current lock, expired or not.
VerifyLock(s, t) == tokens[s] # NoToken /\ tokens[s] = t

\* Mutant: the entry is set to None where the code pops it.
EntrySetToNone(S) ==
    /\ locked' = [s \in Sessions |-> s \notin S /\ locked[s]]
    /\ tokens' = [s \in Sessions |-> IF s \in S THEN NoToken ELSE tokens[s]]
    /\ lockInfo' = [s \in Sessions |-> IF s \in S THEN NoToken ELSE lockInfo[s]]
\* Mutant: the tables are cleared but a lock still taken is not released.
ForgetWithoutRelease(S) ==
    /\ tokens' = [s \in Sessions |-> IF s \in S THEN NoToken ELSE tokens[s]]
    /\ lockInfo' = [s \in Sessions |-> IF s \in S THEN NoInfo ELSE lockInfo[s]]
    /\ UNCHANGED locked

\* _cleanup_session of every session of S: force-release, forget token and info.
CleanupSessions(S) ==
    /\ locked' = [s \in Sessions |-> s \notin S /\ locked[s]]
    /\ tokens' = [s \in Sessions |-> IF s \in S THEN NoToken ELSE tokens[s]]
    /\ lockInfo' = [s \in Sessions |-> IF s \in S THEN NoInfo ELSE lockInfo[s]]

\* acquire_lock goes on: the session is free, or its lock is stale and cleaned up.
MayAcquire(s) == ~Held(s) \/ Stale(s)

\* lock_action = "acquire".  The stale lock, if any, is cleaned up and replaced in
\* the same step.  "await lock.acquire()" would suspend the handler on a lock still
\* taken (the last conjunct of the guard); LockAgreement says it never does.  The
\* reply reaches the client or is lost.  A 409 (LockError) changes nothing.
Acquire(s) ==
    /\ MayAcquire(s)
    /\ Stale(s) \/ ~locked[s]
    /\ \E t \in Tokens \ issued :
        LET ticket == [session |-> s, token |-> t, expiry |-> now + TTL] IN
        /\ locked' = [locked EXCEPT ![s] = TRUE]
        /\ tokens' = [tokens EXCEPT ![s] = t]
        /\ lockInfo' = [lockInfo EXCEPT ![s] = [token |-> t, expiry |-> now + TTL]]
        /\ issued' = issued \cup {t}
        /\ \/ tickets' = tickets \cup {ticket}
           \/ UNCHANGED tickets
    /\ UNCHANGED <<now, releases>>

\* Mutant: whoever asks may release, as long as the session is locked.
AnyTokenReleases(s, t) == Held(s) /\ locked[s]

\* release_lock succeeds: the token is the current one and the lock is taken.
MayRelease(s, t) == tokens[s] # NoToken /\ tokens[s] = t /\ locked[s]

\* lock_action = "release" handled for a request in flight.
Release(k) ==
    /\ k \in releases
    /\ \/ MayRelease(k.session, k.token) /\ CleanupSessions({k.session})
       \/ ~MayRelease(k.session, k.token) /\ UNCHANGED lockVars
    /\ UNCHANGED <<now, issued, tickets, releases>>

\* cleanup_expired_locks: every stale lock is dropped.
CleanupExpired ==
    /\ StaleLocks # {}
    /\ CleanupSessions(StaleLocks)
    /\ UNCHANGED <<now, issued, tickets, releases>>

------------------------------------------------------------------------------------
\* The clients and the clock

\* The turn is over: the client asks for a release and stops using its ticket.
SendRelease(k) ==
    /\ k \in tickets
    /\ tickets' = tickets \ {k}
    /\ releases' = releases \cup {k}
    /\ UNCHANGED <<locked, tokens, lockInfo, now, issued>>

Tick ==
    /\ now < MaxTime
    /\ now' = now + 1
    /\ UNCHANGED <<locked, tokens, lockInfo, issued, tickets, releases>>

Next ==
    \/ \E s \in Sessions : Acquire(s)
    \/ \E k \in releases : Release(k)
    \/ \E k \in tickets : SendRelease(k)
    \/ CleanupExpired
    \/ Tick

Spec == Init /\ [][Next]_vars

\* The only fairness: time passes.  Clients owe nothing to the service.
FairSpec == Spec /\ WF_vars(Tick)

------------------------------------------------------------------------------------
\* Properties

\* The three tables of the manager always agree: a session has a token exactly when
\* it has a lock entry with the same token, and exactly then its asyncio.Lock is
\* taken.  Without it acquire_lock could wait for ever in "await lock.acquire()"
\* (session_lock.py:107) on a lock that no table mentions.
LockAgreement ==
    \A s \in Sessions :
        /\ Held(s) <=> locked[s]
        /\ tokens[s] = lockInfo[s].token
        /\ Held(s) <=> tokens[s] # NoToken

\* A client whose lease is not over holds the session's current lock: neither a
\* delayed release of an earlier turn, nor a sweep, nor another client's acquisition
\* takes it away.
TicketHonoured ==
    \A k \in tickets : now <= k.expiry => VerifyLock(k.session, k.token)

\* Two clients never both have a running lease on one session: the turn lock gives
\* mutual exclusion in spite of lost replies and repeated releases.
MutualExclusion ==
    \A k, l \in tickets :
        k.session = l.session /\ now <= k.expiry /\ now <= l.expiry => k = l

\* The lock of a session goes away, or to another token, only after its lease is
\* over or because its own token was sent in a release request: a retried release of
\* an old token can never free the turn of its successor.
OnlyHolderReleases ==
    [][\A s \in Sessions :
        Held(s) /\ lockInfo'[s] # lockInfo[s] =>
            \/ Stale(s)
            \/ \E k \in releases : k.session = s /\ k.token = lockInfo[s].token]_vars

\* A lock whose holder vanished (its reply was lost, or it never releases) does not
\* wedge the session: every lock is eventually gone or acquirable again.  The locks
\* are those taken early enough for the bounded clock to outlive them.
LeaseEnds ==
    \A s \in Sessions, t \in Tokens :
        lockInfo[s].token = t /\ lockInfo[s].expiry < MaxTime
            ~> tokens[s] # t \/ ~IsLocked(s)

\* The lock refines AbstractLease: its owner is the token of _lock_info, and the
\* lease has lapsed when an acquisition would clean it up.
Lease == INSTANCE AbstractLease WITH
    owner <- [s \in Sessions |-> lockInfo[s].token],
    lapsed <- [s \in Sessions |-> Held(s) /\ now > lockInfo[s].expiry],
    granted <- issued

\* Every step of the lock is a step the abstract lease allows, or none of its steps.
ImplementsLease == Lease!LeaseSpec
====================================================================================
