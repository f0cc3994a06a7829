\* A rollback with devices that keep polling.
SPECIFICATION FairSpec
CONSTANTS
    DeviceCount = 1
    BatchSize = 1
    PageCap = 1
    Workers = {w1}
    Keys = {k1}
    NoKey = nokey
    NoReceipt = noreceipt
    ConfigurationID = v1
    RollbackConfigurationID = v0
    NoConfiguration = none
    MaxFailurePercent = 0
    MaxOfflinePercent = 0
    MaxTimeoutPercent = 0
    Calls = {"schedule", "rollback", "reconcile", "pull", "report"}
    Audited = {}
    StatementsMayFail = FALSE
PROPERTIES RollbackSent
CHECK_DEADLOCK FALSE
