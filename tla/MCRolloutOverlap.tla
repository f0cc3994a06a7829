-------------------------- MODULE MCRolloutOverlap --------------------------
(* An instance of RolloutOverlap for model checking.                       *)
EXTENDS RolloutOverlap, TLC

\* Idempotency keys and workers are interchangeable.
Symmetry == Permutations(Keys) \cup Permutations(Workers)
=============================================================================
