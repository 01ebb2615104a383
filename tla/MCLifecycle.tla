---------------------------- MODULE MCLifecycle ----------------------------
(* Small clusters for TLC: Lifecycle with its symmetric constants.          *)
EXTENDS Lifecycle, TLC

Symmetry == Permutations(Fingerprints) \cup Permutations(Services)
=============================================================================
