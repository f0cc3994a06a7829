\* Three rollouts, of which the oldest lacks the device that polls.
SPECIFICATION FairSpec
CONSTANTS
    d1 = d1
    d2 = d2
    Devices = {d1, d2}
    RolloutCount = 3
    Targets <- OldestWithout
    Polling = {d1}
    ListCap = 3
PROPERTIES Served
\* Everything may be cancelled.
CHECK_DEADLOCK FALSE
