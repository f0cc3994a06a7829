\* Two handlers at once, which may fail between any two statements, and rollbacks.
SPECIFICATION OverlapSpec
CONSTANTS
    DeviceCount = 2
    BatchSize = 1
    PageCap = 2
    Workers = {w1, w2}
    Keys = {k1, k2}
    NoKey = nokey
    NoReceipt = noreceipt
    ConfigurationID = v1
    RollbackConfigurationID = v0
    NoConfiguration = none
    MaxFailurePercent = 50
    MaxOfflinePercent = 0
    MaxTimeoutPercent = 0
    Calls = {"start", "cancel", "rollback", "receipt"}
    Audited = {}
    StatementsMayFail = TRUE
SYMMETRY Symmetry
PROPERTIES TerminalUnlessOverwritten TransitionsUnlessOverwritten GateUnlessOverwritten RollbackResets RuleHeeded
