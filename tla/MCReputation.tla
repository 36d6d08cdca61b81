----------------------------- MODULE MCReputation -----------------------------
(* ReputationRegistry, its summary and its tables on a small instance. *)
EXTENDS ReputationEvents, TLC
CONSTANTS minus, large, bad

\* -1.5 and 4 with one decimal and none, in a WAD of two.
MCValueOf == [b \in Bodies |-> IF b = minus THEN -15 ELSE IF b = large THEN 4 ELSE 0]
MCDecimalsOf == [b \in Bodies |-> IF b = minus THEN 1 ELSE IF b = large THEN 0 ELSE 3]

\* large is no UTF-8; -15 is beyond MaxSafe.
MCReplaced == [b \in NotUtf8 |-> "U+FFFD"]
MCRounded == [v \in {-15} |-> -16]

Symmetry == Permutations(Addresses)

\* published is written by every invocation and read by none.
StorageView == <<authority, storage>>
=============================================================================
