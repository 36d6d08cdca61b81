------------------------------ MODULE Registries ------------------------------
(***************************************************************************)
(* The three registries on one ledger.  The reputation and validation      *)
(* contracts hold the address of the identity contract and ask it, inside  *)
(* their own invocation, who controls an agent: both read the identity     *)
(* registry's current storage, so their interface variables become state   *)
(* functions of it.                                                        *)
(***************************************************************************)
EXTENDS IdentityRegistry

CONSTANTS Bodies, Admissible, MaxFeedback, MaxClients, MaxResponses,
          Hashes, Responses, Tags, EmptyTag, MaxRequests

VARIABLES feedback, last_index, client_count, client_at, client_exists,
          response_count, rep_published,
          validation, agent_count, agent_at, validator_count, validator_at,
          val_published

\* is_authorized_or_owner as the reputation registry sees it
Authority == [id \in Agents |-> {x \in Addresses : OwnerOrApproved(x, id)}]

Rep == INSTANCE ReputationRegistry
          WITH authority <- Authority, published <- rep_published

\* find_owner, get_approved and is_approved_for_all as the validation registry
\* sees them
LiveApproval == [id \in Agents |-> GetApproved(id)]
LiveOperators == [o \in Addresses |-> {x \in Addresses : IsApprovedForAll(o, x)}]

Val == INSTANCE ValidationRegistry
          WITH find_owner <- owner, get_approved <- LiveApproval,
               operator_of <- LiveOperators, published <- val_published

repVars == <<feedback, last_index, client_count, client_at, client_exists,
             response_count, rep_published>>
valVars == <<validation, agent_count, agent_at, validator_count, validator_at,
             val_published>>
systemVars == <<vars, repVars, valVars>>

SystemInit == Init /\ Rep!Init /\ Val!Init

IdentityCall == Next /\ UNCHANGED <<repVars, valVars>>

ReputationCall ==
    /\ UNCHANGED <<vars, valVars>>
    /\ \/ \E x \in Addresses, id \in Agents, b \in Bodies : Rep!GiveFeedback(x, id, b)
       \/ \E x \in Addresses, id \in Agents, i \in Rep!Indexes :
             Rep!RevokeFeedback(x, id, i)
       \/ \E x \in Addresses, id \in Agents, c \in Addresses, i \in Rep!Indexes,
             u \in Uris : Rep!AppendResponse(x, id, c, i, u)

ValidationCall ==
    /\ UNCHANGED <<vars, repVars>>
    /\ \/ \E x \in Addresses, v \in Addresses, id \in Agents, h \in Hashes :
             Val!ValidationRequest(x, v, id, h)
       \/ \E x \in Addresses, h \in Hashes, r \in Responses, t \in Tags :
             Val!ValidationResponse(x, h, r, t)

SystemNext == IdentityCall \/ ReputationCall \/ ValidationCall

SystemSpec == SystemInit /\ [][SystemNext]_systemVars

-----------------------------------------------------------------------------
(* Properties *)

\* What the reputation registry promises for any identity registry that never
\* loses an agent, it promises next to this one, through approvals that expire
\* and transfers that drop them.
ReputationOnIdentity == Rep!Spec

\* Likewise for the validation registry and its three separate calls.
ValidationOnIdentity == Val!Spec

\* The two registries agree on who controls an agent: at any moment an address
\* either may request its validation or may give it feedback, never both and
\* never neither.  The validation registry repeats the identity registry's
\* check in its own words (contract.rs:41-57), the reputation registry calls it.
SameAuthority ==
    \A id \in Agents, x \in Addresses :
       AgentExists(id) => (Val!MayRequest(x, id) <=> x \in Authority[id])

\* Feedback and validations only ever concern minted agents, and whoever gave
\* feedback did not control the agent when it did (SelfFeedback).
NoSelfFeedback ==
    [][\A id \in Agents, x \in Addresses :
          last_index'[id][x] # last_index[id][x]
             => /\ id < next_token_id
                /\ ~Val!MayRequest(x, id)]_systemVars
=============================================================================
