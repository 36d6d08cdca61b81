----------------------------- MODULE MCValidation -----------------------------
(* ValidationRegistry and its table on a small instance. *)
EXTENDS ValidationEvents, TLC

\* t1 is no UTF-8.
MCReplaced == [b \in NotUtf8 |-> "U+FFFD"]

Symmetry == Permutations(Hashes)

\* published is written by every invocation and read by none.
StorageView == <<identity, validation, indexes>>
=============================================================================
