----------------------------- MODULE SessionLockProofs -----------------------------
(***************************************************************************)
(* Proofs about SessionLock, for every set of sessions and tokens, every   *)
(* TTL and a clock of any length.                                          *)
(***************************************************************************)
EXTENDS SessionLock, TLAPS

\* Every token in use was drawn by uuid4; no two tickets carry the same token, and a
\* client that asked for a release no longer uses the ticket.
TokenInv ==
    /\ \A s \in Sessions : tokens[s] # NoToken => tokens[s] \in issued
    /\ \A k \in tickets \cup releases : k.token \in issued
    /\ \A k, l \in tickets : k.token = l.token => k = l
    /\ \A k \in tickets, l \in releases : k.token # l.token

\* A ticket whose lease runs is exactly what _lock_info says of its session.  This is
\* what makes TicketHonoured inductive: the expiries have to agree as well.
CurrentInv ==
    \A k \in tickets :
        now <= k.expiry => lockInfo[k.session] = [token |-> k.token, expiry |-> k.expiry]

\* A held lock has an expiry the truth test of the code does not take for unset.
ExpiryInv == now > 0 /\ \A s \in Sessions : Held(s) => lockInfo[s].expiry > 0

Inv == TypeOK /\ LockAgreement /\ TokenInv /\ CurrentInv /\ ExpiryInv

\* What the invariant says of a ticket whose lease runs.
LEMMA RunningTicket ==
  ASSUME Inv, NEW k \in tickets, now <= k.expiry
  PROVE  /\ k \in Ticket /\ k.session \in Sessions /\ k.token \in Tokens
         /\ lockInfo[k.session].token = k.token
         /\ lockInfo[k.session].expiry = k.expiry
<1>1. lockInfo[k.session] = [token |-> k.token, expiry |-> k.expiry]
  BY Zenon DEF Inv, CurrentInv
<1>2. k \in Ticket
  BY DEF Inv, TypeOK
<1> QED
  BY <1>1, <1>2 DEF Ticket

LEMMA InitInv == Init => Inv
  BY NoTokenAssumption
     DEF Init, Inv, TypeOK, LockAgreement, TokenInv, CurrentInv, ExpiryInv, Held, NoInfo

\* Acquiring replaces the entry of one session by a fresh token.
LEMMA AcquireInv ==
  ASSUME Inv, NEW s \in Sessions, Acquire(s)
  PROVE  Inv'
<1>1. PICK t \in Tokens \ issued :
        /\ locked' = [locked EXCEPT ![s] = TRUE]
        /\ tokens' = [tokens EXCEPT ![s] = t]
        /\ lockInfo' = [lockInfo EXCEPT ![s] = [token |-> t, expiry |-> now + TTL]]
        /\ issued' = issued \cup {t}
        /\ \/ tickets' = tickets \cup {[session |-> s, token |-> t, expiry |-> now + TTL]}
           \/ tickets' = tickets
  BY DEF Acquire
<1>2. now' = now /\ releases' = releases
  BY DEF Acquire
<1> DEFINE ticket == [session |-> s, token |-> t, expiry |-> now + TTL]
<1>3. now + TTL \in Nat /\ now + TTL > 0 /\ ticket \in Ticket
  BY TTLAssumption DEF Inv, TypeOK, ExpiryInv, Ticket
<1>4. t # NoToken
  BY NoTokenAssumption
<1>5. TypeOK'
  BY <1>1, <1>2, <1>3 DEF Inv, TypeOK, Ticket
<1>6. LockAgreement'
  <2>1. [token |-> t, expiry |-> now + TTL] # NoInfo
    BY <1>4 DEF NoInfo
  <2> QED
    BY <1>1, <1>4, <2>1 DEF Inv, TypeOK, LockAgreement, Held, NoInfo
<1>7. TokenInv'
  BY <1>1, <1>2, <1>4 DEF Inv, TypeOK, TokenInv, Ticket
<1>8. CurrentInv'
  <2> SUFFICES ASSUME NEW k \in tickets', now' <= k.expiry
               PROVE  lockInfo'[k.session] = [token |-> k.token, expiry |-> k.expiry]
    BY DEF CurrentInv
  <2>1. CASE k = ticket
    BY <1>1, <2>1 DEF Inv, TypeOK
  <2>2. CASE k \in tickets
    <3>1. lockInfo[k.session] = [token |-> k.token, expiry |-> k.expiry]
      BY <1>2, <2>2 DEF Inv, CurrentInv
    <3>2. k.session \in Sessions /\ k.token \in Tokens
      BY <2>2 DEF Inv, TypeOK, Ticket
    <3>3. k.session # s
      BY <1>2, <3>1, <3>2, NoTokenAssumption
         DEF Acquire, MayAcquire, Stale, Held, NoInfo, Inv, TypeOK
    <3> QED
      BY <1>1, <3>1, <3>2, <3>3 DEF Inv, TypeOK
  <2> QED
    BY <1>1, <2>1, <2>2
<1>9. ExpiryInv'
  BY <1>1, <1>2, <1>3 DEF Inv, TypeOK, ExpiryInv, Held, NoInfo
<1> QED
  BY <1>5, <1>6, <1>7, <1>8, <1>9 DEF Inv

\* Dropping entries keeps the invariant when no running ticket is among them.
LEMMA CleanupInv ==
  ASSUME Inv, NEW S \in SUBSET Sessions, CleanupSessions(S),
         UNCHANGED <<now, issued, tickets, releases>>,
         \A k \in tickets : now <= k.expiry => k.session \notin S
  PROVE  Inv'
<1>1. TypeOK'
  BY DEF Inv, TypeOK, CleanupSessions, NoInfo
<1>2. LockAgreement'
  BY DEF Inv, TypeOK, LockAgreement, CleanupSessions, Held, NoInfo
<1>3. TokenInv'
  BY DEF Inv, TypeOK, TokenInv, CleanupSessions
<1>4. CurrentInv'
  BY DEF Inv, TypeOK, CurrentInv, CleanupSessions, Ticket
<1>5. ExpiryInv'
  BY DEF Inv, TypeOK, ExpiryInv, CleanupSessions, Held
<1> QED
  BY <1>1, <1>2, <1>3, <1>4, <1>5 DEF Inv

\* A release frees its session only with the session's current token, which no client
\* still holds a ticket for.
LEMMA ReleaseInv ==
  ASSUME Inv, NEW k \in releases, Release(k)
  PROVE  Inv'
<1>0. k \in Ticket /\ k.session \in Sessions
  BY DEF Inv, TypeOK, Ticket
<1>1. CASE MayRelease(k.session, k.token) /\ CleanupSessions({k.session})
  <2>1. ASSUME NEW l \in tickets, now <= l.expiry PROVE l.session # k.session
    <3>1. lockInfo[l.session].token = l.token
      BY <2>1, RunningTicket
    <3>2. l.token # k.token
      BY DEF Inv, TokenInv
    <3> QED
      BY <1>0, <1>1, <3>1, <3>2 DEF MayRelease, Inv, LockAgreement
  <2> QED
    BY <1>0, <1>1, <2>1, CleanupInv DEF Release
<1>2. CASE UNCHANGED lockVars
  BY <1>2 DEF Release, lockVars, Inv, TypeOK, LockAgreement, TokenInv, CurrentInv,
              ExpiryInv, Held
<1> QED
  BY <1>1, <1>2 DEF Release

\* A sweep drops stale locks only.
LEMMA SweepInv ==
  ASSUME Inv, CleanupExpired
  PROVE  Inv'
<1>1. StaleLocks \in SUBSET Sessions
  BY DEF StaleLocks
<1>2. ASSUME NEW k \in tickets, now <= k.expiry PROVE k.session \notin StaleLocks
  BY <1>2, RunningTicket DEF StaleLocks, Stale, Inv, TypeOK
<1> QED
  BY <1>1, <1>2, CleanupInv DEF CleanupExpired

\* Sending a release turns a ticket into a request; time only ends leases.
LEMMA ClientInv ==
  ASSUME Inv, Tick \/ \E k \in tickets : SendRelease(k)
  PROVE  Inv'
<1>1. CASE Tick
  BY <1>1 DEF Tick, Inv, TypeOK, LockAgreement, TokenInv, CurrentInv, ExpiryInv, Held, Ticket
<1>2. ASSUME NEW k \in tickets, SendRelease(k) PROVE Inv'
  BY <1>2 DEF SendRelease, Inv, TypeOK, LockAgreement, TokenInv, CurrentInv, ExpiryInv,
              Held
<1> QED
  BY <1>1, <1>2

LEMMA NextInv == Inv /\ [Next]_vars => Inv'
<1> SUFFICES ASSUME Inv, [Next]_vars PROVE Inv'
  OBVIOUS
<1>1. CASE UNCHANGED vars
  BY <1>1 DEF vars, Inv, TypeOK, LockAgreement, TokenInv, CurrentInv, ExpiryInv, Held
<1>2. CASE Next
  BY <1>2, AcquireInv, ReleaseInv, SweepInv, ClientInv DEF Next
<1> QED
  BY <1>1, <1>2

\* The inductive invariant holds in every reachable state.
THEOREM Invariance == Spec => []Inv
  BY InitInv, NextInv, PTL DEF Spec

\* Every state of the lock service has its type.
THEOREM TypeCorrect == Spec => []TypeOK
<1>1. Inv => TypeOK
  BY DEF Inv
<1> QED
  BY <1>1, Invariance, PTL

\* The three tables of the lock manager never disagree, so acquire_lock never waits
\* for a lock nobody is known to hold.
THEOREM TablesAgree == Spec => []LockAgreement
<1>1. Inv => LockAgreement
  BY DEF Inv
<1> QED
  BY <1>1, Invariance, PTL

\* A client whose lease runs holds the current lock of its session.
THEOREM TicketsHonoured == Spec => []TicketHonoured
<1>1. Inv => TicketHonoured
  <2> SUFFICES ASSUME Inv, NEW k \in tickets, now <= k.expiry
               PROVE  VerifyLock(k.session, k.token)
    BY DEF TicketHonoured
  <2>1. k.session \in Sessions /\ k.token \in Tokens
    BY RunningTicket
  <2>2. lockInfo[k.session].token = k.token
    BY RunningTicket
  <2> QED
    BY <2>1, <2>2, NoTokenAssumption DEF VerifyLock, Inv, LockAgreement
<1> QED
  BY <1>1, Invariance, PTL

\* No two clients ever have a running lease on the same session.
THEOREM Exclusion == Spec => []MutualExclusion
<1>1. Inv => MutualExclusion
  <2> SUFFICES ASSUME Inv, NEW k \in tickets, NEW l \in tickets,
                      k.session = l.session, now <= k.expiry, now <= l.expiry
               PROVE  k = l
    BY DEF MutualExclusion
  <2>1. k.token = l.token
    BY RunningTicket
  <2> QED
    BY <2>1 DEF Inv, TokenInv
<1> QED
  BY <1>1, Invariance, PTL

\* Until its lease is over a lock goes away only by a release of its own token.
THEOREM HolderReleases == Spec => OnlyHolderReleases
<1> DEFINE Fenced(s) == Held(s) /\ lockInfo'[s] # lockInfo[s] =>
                            \/ Stale(s)
                            \/ \E k \in releases : k.session = s /\ k.token = lockInfo[s].token
<1>1. Inv /\ [Next]_vars => \A s \in Sessions : Fenced(s)
  <2> SUFFICES ASSUME Inv, [Next]_vars, NEW s \in Sessions,
                      Held(s), lockInfo'[s] # lockInfo[s], ~Stale(s)
               PROVE  \E k \in releases : k.session = s /\ k.token = lockInfo[s].token
    OBVIOUS
  <2>1. ASSUME NEW r \in Sessions, Acquire(r) PROVE FALSE
    BY <2>1 DEF Acquire, MayAcquire, Inv, TypeOK
  <2>2. CASE CleanupExpired
    BY <2>2 DEF CleanupExpired, CleanupSessions, StaleLocks
  <2>3. ASSUME NEW k \in releases, Release(k)
        PROVE  k.session = s /\ k.token = lockInfo[s].token
    BY <2>3 DEF Release, lockVars, CleanupSessions, MayRelease, Inv, LockAgreement
  <2>4. Next
    BY DEF vars
  <2> QED
    BY <2>1, <2>2, <2>3, <2>4 DEF Next, Tick, SendRelease
<1>2. Inv /\ [Next]_vars => [\A s \in Sessions : Fenced(s)]_vars
  BY <1>1
<1> QED
  BY <1>2, Invariance, PTL DEF Spec, OnlyHolderReleases

\* The values the refinement mapping gives the variables of AbstractLease.
Owner == [s \in Sessions |-> lockInfo[s].token]
Lapsed == [s \in Sessions |-> Held(s) /\ now > lockInfo[s].expiry]

LEMMA InitRefines == Init => Lease!LeaseInit
<1> SUFFICES ASSUME Init PROVE Lease!LeaseInit
  OBVIOUS
<1>1. \A s \in Sessions : lockInfo[s].token = NoToken /\ ~Held(s)
  BY DEF Init, Held, NoInfo
<1>2. \A s \in Sessions : (Held(s) /\ now > lockInfo[s].expiry) = FALSE
  BY <1>1
<1> QED
  BY <1>1, <1>2, Zenon DEF Init, Lease!LeaseInit

\* An acquisition is a grant: the session was free, or its lease had lapsed.
LEMMA AcquireRefines ==
  ASSUME Inv, NEW s \in Sessions, Acquire(s)
  PROVE  Lease!LeaseNext
<1>1. PICK t \in Tokens \ issued :
        /\ lockInfo' = [lockInfo EXCEPT ![s] = [token |-> t, expiry |-> now + TTL]]
        /\ issued' = issued \cup {t}
  BY DEF Acquire
<1>2. now' = now /\ t # NoToken
  BY NoTokenAssumption DEF Acquire
<1>3. Owner[s] = NoToken \/ Lapsed[s]
  <2>1. CASE ~Held(s)
    BY <2>1 DEF Held, NoInfo, Owner
  <2>2. CASE Stale(s)
    BY <2>2, Zenon DEF Stale, Lapsed
  <2> QED
    BY <2>1, <2>2 DEF Acquire, MayAcquire
<1>4. Owner' = [Owner EXCEPT ![s] = t]
  BY <1>1 DEF Owner, Inv, TypeOK
<1>5. Lapsed' = [Lapsed EXCEPT ![s] = FALSE]
  <2>1. ~(now + TTL < now)
    BY TTLAssumption DEF Inv, TypeOK
  <2> QED
    BY <1>1, <1>2, <2>1 DEF Lapsed, Held, NoInfo, Inv, TypeOK
<1>6. Lease!Grant(s, t)
  BY <1>1, <1>3, <1>4, <1>5 DEF Lease!Grant, Owner, Lapsed
<1> QED
  BY <1>6 DEF Lease!LeaseNext

\* A release that is granted gives the session back.
LEMMA ReleaseRefines ==
  ASSUME Inv, NEW k \in releases, Release(k)
  PROVE  Lease!LeaseNext \/ UNCHANGED Lease!leaseVars
<1>0. k.session \in Sessions
  BY DEF Inv, TypeOK, Ticket
<1>1. CASE MayRelease(k.session, k.token) /\ CleanupSessions({k.session})
  <2>1. Owner[k.session] # NoToken
    BY <1>0, <1>1 DEF MayRelease, Owner, Inv, LockAgreement
  <2>2. Owner' = [Owner EXCEPT ![k.session] = NoToken]
    BY <1>0, <1>1 DEF CleanupSessions, Owner, Inv, TypeOK, NoInfo
  <2>3. Lapsed' = [Lapsed EXCEPT ![k.session] = FALSE]
    BY <1>0, <1>1 DEF Release, CleanupSessions, Lapsed, Held, Inv, TypeOK
  <2>4. Lease!GiveBack(k.session)
    BY <2>1, <2>2, <2>3 DEF Release, Lease!GiveBack, Owner, Lapsed
  <2> QED
    BY <1>0, <2>4 DEF Lease!LeaseNext
<1>2. CASE UNCHANGED lockVars
  BY <1>2 DEF Release, lockVars, Lease!leaseVars, Held
<1> QED
  BY <1>1, <1>2 DEF Release

\* A sweep reaps lapsed leases.
LEMMA SweepRefines ==
  ASSUME Inv, CleanupExpired
  PROVE  Lease!LeaseNext
<1>1. PICK S \in SUBSET Sessions : S = StaleLocks
  BY DEF StaleLocks
<1>2. \A s \in S : Lapsed[s]
  BY <1>1 DEF StaleLocks, Stale, Lapsed
<1>3. Owner' = [s \in Sessions |-> IF s \in S THEN NoToken ELSE Owner[s]]
  BY <1>1 DEF CleanupExpired, CleanupSessions, Owner, NoInfo
<1>4. Lapsed' = [s \in Sessions |-> IF s \in S THEN FALSE ELSE Lapsed[s]]
  BY <1>1 DEF CleanupExpired, CleanupSessions, Lapsed, Held
<1>5. Lease!Reap(S)
  BY <1>2, <1>3, <1>4 DEF CleanupExpired, Lease!Reap, Owner, Lapsed
<1> QED
  BY <1>5 DEF Lease!LeaseNext

\* A tick of the clock lapses the leases it ends.
LEMMA TickRefines ==
  ASSUME Inv, Tick
  PROVE  Lease!LeaseNext
<1>1. PICK S \in SUBSET Sessions : S = {s \in Sessions : Held(s) /\ now' > lockInfo[s].expiry}
  OBVIOUS
<1>2. \A s \in S : Owner[s] # NoToken
  BY <1>1 DEF Owner, Inv, LockAgreement
<1>3. Lapsed' = [s \in Sessions |-> s \in S \/ Lapsed[s]]
  <2>1. now' >= now /\ UNCHANGED lockInfo
    BY DEF Tick, Inv, TypeOK
  <2>2. ASSUME NEW s \in Sessions
        PROVE  (Held(s) /\ now > lockInfo[s].expiry)' <=>
                    s \in S \/ (Held(s) /\ now > lockInfo[s].expiry)
    BY <1>1, <2>1 DEF Held, Tick, Inv, TypeOK
  <2> QED
    BY <2>2, Zenon DEF Lapsed
<1>4. Lease!Lapse(S)
  BY <1>2, <1>3 DEF Tick, Lease!Lapse, Owner, Lapsed
<1> QED
  BY <1>4 DEF Lease!LeaseNext

\* The lock manager implements the abstract lease, whatever clients and network do.
THEOREM Refinement == Spec => ImplementsLease
<1>1. Inv /\ [Next]_vars => [Lease!LeaseNext]_Lease!leaseVars
  <2> SUFFICES ASSUME Inv, [Next]_vars
               PROVE  Lease!LeaseNext \/ UNCHANGED Lease!leaseVars
    OBVIOUS
  <2>1. CASE UNCHANGED vars
    BY <2>1 DEF vars, Lease!leaseVars, Held
  <2>2. ASSUME NEW k \in tickets, SendRelease(k) PROVE UNCHANGED Lease!leaseVars
    BY <2>2 DEF SendRelease, Lease!leaseVars, Held
  <2>3. CASE Next
    BY <2>2, <2>3, AcquireRefines, ReleaseRefines, SweepRefines, TickRefines DEF Next
  <2> QED
    BY <2>1, <2>3
<1> QED
  BY <1>1, InitRefines, Invariance, PTL DEF Spec, ImplementsLease, Lease!LeaseSpec
====================================================================================
