\* Two handlers at once, which may fail between any two statements, with rollbacks and any receipts.
SPECIFICATION Spec
CONSTANTS
    DeviceCount = 2
    BatchSize = 1
    PageCap = 2
    Workers = {w1, w2}
    Keys = {k1, k2}
    NoKey = nokey
    NoReceipt = noreceipt
    ConfigurationID = v1
    RollbackConfigurationID = v0
    NoConfiguration = none
    MaxFailurePercent = 50
    MaxOfflinePercent = 0
    MaxTimeoutPercent = 0
    Calls = {"schedule", "start", "rollback", "pull", "receipt"}
    Audited = {}
    StatementsMayFail = TRUE
SYMMETRY Symmetry
INVARIANTS TypeOK BatchGating CompletedReported OutcomeBacked CurrentBacked
