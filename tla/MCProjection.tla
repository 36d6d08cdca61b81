----------------------------- MODULE MCProjection -----------------------------
(* EventProjection on small instances. *)
EXTENDS EventProjection, TLC

\* tx is written by every invocation, and only Publish reads it, at once.
WithoutTx == <<ledger, next_token_id, owner, approval, operators, uri, wallet,
               metadata, keys, log, row, expected, holder, run, newest, alone>>

Symmetry == Permutations(Addresses) \cup Permutations(Writers)
            \cup Permutations(Uris \ {EmptyUri})
=============================================================================
