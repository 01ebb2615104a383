------------------------------- MODULE MCLocks -------------------------------
(* Locks for TLC: the invocations are interchangeable.                      *)
EXTENDS Locks, TLC

Symmetry == Permutations(Invocations)
=============================================================================
