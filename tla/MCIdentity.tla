------------------------------ MODULE MCIdentity ------------------------------
(* IdentityRegistry and the reading of its events on small instances. *)
EXTENDS IdentityEvents, TLC

\* k2, u1 and v1 are no UTF-8 and decode to the same text.
MCReplaced == [b \in NotUtf8 |-> "U+FFFD"]

Symmetry == Permutations(Addresses)

\* tx is written by every invocation and read by none.
StorageView == <<ledger, next_token_id, owner, approval, operators, uri, wallet,
                 metadata, keys>>
=============================================================================
