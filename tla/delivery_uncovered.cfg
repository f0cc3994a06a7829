\* Two rollouts, each of one device.
SPECIFICATION FairSpec
CONSTANTS
    d1 = d1
    d2 = d2
    Devices = {d1, d2}
    RolloutCount = 2
    Targets <- Apart
    Polling = {d1}
    ListCap = 3
PROPERTIES Served
\* Everything may be cancelled.
CHECK_DEADLOCK FALSE
