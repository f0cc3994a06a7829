\* Two workers and two requests.
SPECIFICATION FairSpec
CONSTANTS
    Requests = {1, 2}
    Workers = {"rollout-scheduler", "webhook-dispatcher"}
INVARIANTS ClosedLast
PROPERTIES Terminates CallEnds
\* The process ends.
CHECK_DEADLOCK FALSE
