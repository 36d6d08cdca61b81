----------------------------- MODULE MCRegistries -----------------------------
(* The three registries together on a small instance. *)
EXTENDS Registries, TLC

Symmetry == Permutations(Addresses)

\* What every invocation writes and none reads is left out.
StorageView == <<ledger, owner, approval, operators, feedback, last_index,
                 client_count, client_at, client_exists, response_count,
                 validation, agent_count, agent_at, validator_count, validator_at>>
=============================================================================
