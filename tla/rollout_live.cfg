\* Handlers one at a time; devices poll and answer; a rule of 50 %.
SPECIFICATION FairSpec
CONSTANTS
    DeviceCount = 3
    BatchSize = 2
    PageCap = 3
    Workers = {w1}
    Keys = {k1, k2, k3}
    NoKey = nokey
    NoReceipt = noreceipt
    ConfigurationID = v1
    RollbackConfigurationID = none
    NoConfiguration = none
    MaxFailurePercent = 50
    MaxOfflinePercent = 0
    MaxTimeoutPercent = 0
    Calls = {"schedule", "start", "pause", "cancel", "pull", "report", "reconcile"}
    Audited = {"rollout.auto_paused"}
    StatementsMayFail = FALSE
PROPERTIES Completes RuleStops NoProgressPastRule ImplementsLifecycle ImplementsGate
\* A cancelled or completed rollout has nothing left to do.
CHECK_DEADLOCK FALSE
