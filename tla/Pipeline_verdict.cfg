SPECIFICATION Spec
CONSTANTS
    Bundle <- ShippedBundle
    Pricing <- ShippedPricing
    Sensitive = {"finance"}
    SensitiveNamespaces = {"tools-prod"}
    Writers = {"platform", "mlops"}
    ProdNamed = {"ai-prod", "tools-prod"}
    Lower <- LowerCased
    VerifySignatures = TRUE
    MaxErrorRate = 50
    MaxLatency = 2500
    RequestValues <- VariedRequest
    WorldValues <- VariedWorld
    Bases <- StartingPoints
    MaxChanges = 2
INVARIANTS TypeOK StrictestStageWins ReportAgrees FailsClosed
PROPERTIES ClientSignalsIgnored GraverNeverSofter
