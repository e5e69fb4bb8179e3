SPECIFICATION Spec
CONSTANTS
    h1 = h1
    h2 = h2
    r1 = r1
    r2 = r2
    root = root
    x = x
    y = y
    Handlers = {h1}
    Replicas = {r1}
    On <- OneEach
    Bundles = {root, x, y}
    Root = root
    Seed = root
    Contents <- Reliable
    Overlap = FALSE
    RollsBack = FALSE
    None = None
    MaxGen = 4
INVARIANTS OneSelection
PROPERTIES RollbackRestores
