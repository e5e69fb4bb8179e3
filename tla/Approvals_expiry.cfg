SPECIFICATION FairSpec
CONSTANTS
    Procs = {h1}
    Ids = {i1, i2}
    alice = alice
    bob = bob
    carol = carol
    east = east
    west = west
    d1 = d1
    d2 = d2
    cap1 = cap1
    cap2 = cap2
    People = {alice, bob, carol}
    TenantOf <- TwoTenants
    Digests = {d1}
    EnrichOf <- NoEnrichment
    Policies = {pol1, pol2}
    CapPins <- Pinned
    None = None
    TTL = 1
    Retention = 0
    PurgeLimit = 1
    MaxNow = 1
INVARIANTS GrantIsBound
PROPERTIES StaleApprovalsClose
