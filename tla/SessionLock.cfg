\* Bounds: 3 grants over 2 sessions let a lock expire, be taken over by a second
\* client and a retried release of the first arrive late; TTL 1 and 4 instants let
\* every lease expire.
CONSTANTS
    Sessions = {s1, s2}
    Tokens = {t1, t2, t3}
    NoToken = NoToken
    TTL = 1
    MaxTime = 4
SPECIFICATION FairSpec
INVARIANTS TypeOK LockAgreement TicketHonoured MutualExclusion
PROPERTIES OnlyHolderReleases LeaseEnds ImplementsLease
\* The bounded clock and the bounded supply of tokens let the model stop.
CHECK_DEADLOCK FALSE
