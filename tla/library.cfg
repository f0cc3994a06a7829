SPECIFICATION LibSpec
CONSTANTS
    Clients = {"c"}
    Arrivals = {1, 2, 3}
    Limit = 2
    Window = 3
    MaxTime = 7
    Metrics = {"m"}
    LabelNames = {"device"}
    LabelValues = {"a", "b"}
    Bounds = {1, 2}
    Samples = {1, 2, 3}
    MaxCount = 2
    MaxInstant = 3
    MaxTransitions = 5
    Minute = 2
    Unset = Unset
INVARIANTS AdmittedBounded HistoryValid BucketsCumulative RolloutFits DiffApplies ComparesInOrder OrderKept
PROPERTIES NeverLower
CHECK_DEADLOCK FALSE
