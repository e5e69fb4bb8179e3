SPECIFICATION Spec
CONSTANTS
    Procs = {h1}
    Ids = {i1, i2}
    alice = alice
    bob = bob
    carol = carol
    east = east
    west = west
    d1 = d1
    d2 = d2
    cap1 = cap1
    cap2 = cap2
    People = {alice, bob}
    TenantOf <- OneTenant
    Digests = {d1, d2}
    EnrichOf <- CostEnrichment
    Policies = {pol1}
    CapPins <- Unpinned
    None = None
    TTL = 1
    Retention = 0
    PurgeLimit = 1
    MaxNow = 1
PROPERTIES RetryIsGranted
