CONSTANTS
    Stores = {s1, s2}
    Dialects = {"postgres", "sqlite"}
    Origins = {0, 4, 5, 7}
    MaxCrashes = 1
    Callers = {p1, p2}
    Governed = {p1}
    a1 = a1
    a2 = a2
    t1 = t1
    Contracts = {a1, a2, t1}
    NameOf <- ContractNames
    Agent <- Planner
    ToolsOf <- ListedTools
    Images <- RegistryImages
    Unpinned = Unpinned
    Gateways = {g1, g2}
    Evaluators = {r1}
    Day = 2
    Horizon = 4
    MaxSent = 2
    Requests <- SomeRequests
    MaxRows = 1
SPECIFICATION PlatformSpec
INVARIANTS LedgerTruthful OpenIsComplete ReadingIsCurrent TenantsKeptApart OwnDecisionsReadable
PROPERTIES StoresOpen LoneActivationDecides SyncSelects GrantRecordsComparedPins
CHECK_DEADLOCK FALSE
