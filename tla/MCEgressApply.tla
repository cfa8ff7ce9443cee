----------------------------- MODULE MCEgressApply -----------------------------
(* An instance of EgressApply for TLC: two runs with a bundle each. *)
EXTENDS EgressApply, TLC

Symmetry == Permutations(Bundles) \cup Permutations(Runs)

=============================================================================
