-------------------------- MODULE MCRolloutControl --------------------------
(* Instances of RolloutControl for model checking.                         *)
EXTENDS RolloutControl, TLC

\* Idempotency keys and workers are interchangeable in safety properties.
Symmetry == Permutations(Keys) \cup Permutations(Workers)
=============================================================================
