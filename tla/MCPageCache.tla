----------------------------- MODULE MCPageCache -----------------------------
(* Instances of PageCache for TLC: readers with a query each, and readers of  *)
(* the same query.                                                            *)
EXTENDS PageCache, TLC

\* The key of a query nobody else runs is named after its reader.
OwnKeys  == [r \in Readers |-> r]
OneKey   == [r \in Readers |-> CHOOSE k \in Keys : TRUE]

Symmetry == Permutations(Readers)

=============================================================================
