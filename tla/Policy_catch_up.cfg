SPECIFICATION FairSpec
CONSTANTS
    h1 = h1
    h2 = h2
    r1 = r1
    r2 = r2
    root = root
    x = x
    y = y
    Handlers = {h1, h2}
    Replicas = {r1}
    On <- BothOnOne
    Bundles = {root, x}
    Root = root
    Seed = root
    Contents <- Outages
    Overlap = FALSE
    RollsBack = TRUE
    None = None
    MaxGen = 2
INVARIANTS TypeOK RunsSelected OneSelection
PROPERTIES CatchesUp KeepsContract
