\* Ticks that run out of time, failing statements and crashes, until they cease.
SPECIFICATION FairSpec
CONSTANTS
    e1 = e1
    e2 = e2
    s1 = s1
    s2 = s2
    Events = {e1, e2}
    Subscriptions = {s1, s2}
    Matching <- SomeMatch
    Slow = {s2}
    MaxAttempts = 2
    Interval = 12
    ClientTimeout = 10
    Limit = 2
    MayFail = TRUE
INVARIANTS TypeOK AttemptsBounded SucceededAccepted AbandonedForReason
PROPERTIES SettledStays PostedWhenDue Settles
\* Every delivery may be settled, and every event emitted.
CHECK_DEADLOCK FALSE
