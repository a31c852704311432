\* Three nodes and one resource, for takeovers of takeovers and late releases; three lock
\* nodes and two clients with two attempts each; three workers and four leases.
CONSTANTS
    Nodes = {n1, n2, n3}
    Resources = {r1}
    TTLs = {1, 2}
    MaxAge = 3
    MaxToken = 3
    None = None
    N = 3
    Clients = {c1, c2}
    TTL = 2
    Drift = 0
    Retries = 2
    NoEntry = NoEntry
    Workers = {w1, w2, w3}
    Duration = 2
    MaxLeases = 4
    Nobody = Nobody
SPECIFICATION LocksSpec
INVARIANTS
    TypeOK MutualExclusion StaleTokenIsSmaller RedlockSafety LeaseTypeOK LeasesDistinct
PROPERTIES
    ImplementsExclusiveRight CrashedLockFreed RedlockIsExclusiveRight EveryClientFinishes
    LeaseIsExclusiveRight ValidLeaseEndsByHolder AbandonedLeaseEnds
