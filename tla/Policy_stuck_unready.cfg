SPECIFICATION FairSpec
CONSTANTS
    h1 = h1
    h2 = h2
    r1 = r1
    r2 = r2
    root = root
    x = x
    y = y
    Handlers = {h1}
    Replicas = {r1}
    On <- OneEach
    Bundles = {root, x}
    Root = root
    Seed = root
    Contents <- Outages
    Overlap = FALSE
    RollsBack = TRUE
    None = None
    MaxGen = 3
PROPERTIES ReadyAgain
