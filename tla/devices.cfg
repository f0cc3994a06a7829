\* Two devices, two requests at a time, three in all.
SPECIFICATION Spec
CONSTANTS
    Absent = Absent
    Devices = {11, 12}
    Names = {0, 2, 3}
    Versions = {0, 1, 2}
    Configurations = {"c1", "c2"}
    Labels <- SomeLabels
    Groups = {"g"}
    Selectors <- SomeSelectors
    Like <- SomeLike
    Handlers = {1, 2}
    Registrations <- SomeRegistrations
    Edits <- SomeEdits
    Heartbeats <- SomeHeartbeats
    Policies <- SomePolicies
    MaxClock = 3
    MaxRequests = 3
    MaxLimit = 2
    DefaultLimit = 1
INVARIANTS AcknowledgedKept OfflineAgrees GroupWhole
PROPERTIES StaleFirst
\* The requests run out.
CHECK_DEADLOCK FALSE
