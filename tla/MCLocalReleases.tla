-------------------------- MODULE MCLocalReleases --------------------------
(***************************************************************************)
(* LocalReleases for TLC: all the releases are of one bundle.              *)
(***************************************************************************)
EXTENDS LocalReleases, TLC

CONSTANT a

OneArtifact == {a}
OneBundle == [r \in Releases |-> a]
SymmetricOperators == Permutations(Operators)
=============================================================================
