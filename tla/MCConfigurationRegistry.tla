---------------------- MODULE MCConfigurationRegistry ----------------------
(* An instance of ConfigurationRegistry for model checking.                *)
EXTENDS ConfigurationRegistry, TLC

CONSTANTS a, b

Symmetry == Permutations(Ids) \cup Permutations(Rollouts) \cup Permutations(Workers)

\* Two names, neither of which contains the other.
Order == a :> 1 @@ b :> 2

OnlyItself == {<<a, a>>, <<b, b>>}
=============================================================================
