\* Two tabs of the node and one of the laptop compete for one memo.
SPECIFICATION FairSpec
CONSTANTS
    Memo = {m1}
    Socket = {s1, s2}
    Remote = {r1}
    NoOwner = NoOwner
    TTL = 2
    Validity = 1
    Early = 1
    MaxTime = 4
    MaxGrants = 2
INVARIANTS
    TypeOK
    ClaimsSettle
PROPERTIES
    LiveLeaseKept
    NoOldWriter
    Fenced
    EventuallyFree
