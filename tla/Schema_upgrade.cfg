SPECIFICATION FairSchemaSpec
CONSTANTS
    Stores = {s1, s2}
    Dialects = {"postgres", "sqlite"}
    Origins = {0, 4, 5, 7}
    MaxCrashes = 0
CHECK_DEADLOCK FALSE
PROPERTIES RowsBackfilled
