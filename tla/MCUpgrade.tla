------------------------------- MODULE MCUpgrade -------------------------------
(* TimelockedUpgrade on a small instance. *)
EXTENDS TimelockedUpgrade, TLC

Symmetry == Permutations(Addresses) \cup Permutations(Hashes)
=============================================================================
