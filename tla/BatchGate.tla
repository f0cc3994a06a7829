------------------------------ MODULE BatchGate ------------------------------
(***************************************************************************)
(* What a staged rollout promises, whatever its statuses, counters,        *)
(* handlers and retries: batches open one after the other, each only when  *)
(* every device of the open ones has reported, and the rollout is complete *)
(* only when all batches are open and everybody has reported.  It is the   *)
(* abstract specification of RolloutControl's handlers, but for the saves  *)
(* of a row that another handler has overtaken.                            *)
(***************************************************************************)
EXTENDS Integers

CONSTANTS
    Devices,
    BatchNumber(_),  \* the batch of a device, counted from 1
    MaxBatch         \* the last batch

VARIABLES
    reported,  \* the devices that have reported an outcome
    open,      \* how many batches have been opened
    complete   \* whether the rollout is called completed

vars == <<reported, open, complete>>

Init == reported = {} /\ open = 0 /\ complete = FALSE

\* Nobody in an open batch is being waited for.
OpenReported == \A d \in Devices : BatchNumber(d) <= open => d \in reported

Report(d) ==
    /\ reported' = reported \cup {d}
    /\ UNCHANGED <<open, complete>>

\* StartRollout opens the first batch, ReconcileRollout the others.
Open ==
    /\ open < MaxBatch
    /\ OpenReported
    /\ open' = open + 1
    /\ UNCHANGED <<reported, complete>>

Complete ==
    /\ open = MaxBatch
    /\ OpenReported
    /\ complete' = TRUE
    /\ UNCHANGED <<reported, open>>

\* A completed rollout can be taken back, with its batches still open.
TakeBack ==
    /\ complete' = FALSE
    /\ UNCHANGED <<reported, open>>

\* What is open or complete is what the devices have reported for.
Justified ==
    /\ \A d \in Devices : BatchNumber(d) < open => d \in reported
    /\ complete => \A d \in Devices : d \in reported

\* Not a step of a staged rollout: UpdateRollout puts back a row that was read,
\* and decided on, at another time.
Replace ==
    /\ Justified'
    /\ UNCHANGED reported

Next == (\E d \in Devices : Report(d)) \/ Open \/ Complete \/ TakeBack

Spec == Init /\ [][Next]_vars
=============================================================================
