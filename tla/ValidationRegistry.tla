-------------------------- MODULE ValidationRegistry --------------------------
(***************************************************************************)
(* The validation registry contract.  A request names its validator and    *)
(* is keyed by its hash; two indexed lists make the requests enumerable,   *)
(* by agent and by validator.  The validator may answer again              *)
(* (progressive validation).                                               *)
(*                                                                         *)
(* Unlike the reputation registry, this contract repeats the authority     *)
(* check itself with three calls to the identity registry, whose answers   *)
(* are the first four variables; module Registries replaces them by the    *)
(* registry.                                                               *)
(*                                                                         *)
(* Bug_... are broken variants of the definitions they precede.            *)
(***************************************************************************)
EXTENDS Naturals, Sequences

CONSTANTS
    Addresses, Agents,
    Hashes,      \* request hashes, chosen by the caller
    Responses,   \* response values a validator may send
    Tags, EmptyTag,
    None,
    MaxRequests, \* the u32 counters of an agent and a validator overflow here
    MaxLedger

Slots == 0 .. MaxRequests - 1
Ledgers == 0 .. MaxLedger

ASSUME ValidationAssumption ==
    /\ MaxRequests \in Nat /\ MaxLedger \in Nat
    /\ Responses \subseteq Nat
    /\ EmptyTag \in Tags
    /\ None \notin Addresses /\ None \notin Hashes

VARIABLES
    ledger,      \* current ledger sequence
    find_owner,  \* identity registry: owner of an agent, or None
    get_approved, \* identity registry: live approval of an agent, or None
    operator_of, \* identity registry: live operators of an owner
    validation,  \* DataKey::Validation
    agent_count, agent_at,         \* DataKey::AgentValidationCount, AgentValidationAt
    validator_count, validator_at, \* DataKey::ValidatorRequestCount, ValidatorRequestAt
    published    \* the event of the last invocation

identity == <<ledger, find_owner, get_approved, operator_of>>
indexes == <<agent_count, agent_at, validator_count, validator_at>>
vars == <<identity, validation, indexes, published>>

\* validator None: no request under that hash
ValidationStatus ==
    [validator_address : Addresses \cup {None}, agent_id : Agents \cup {None},
     response : 0 .. 100, tag : Tags, last_update : Ledgers, has_response : BOOLEAN]

NoValidation ==
    [validator_address |-> None, agent_id |-> None, response |-> 0, tag |-> EmptyTag,
     last_update |-> 0, has_response |-> FALSE]

Event == [type : {"validation_requested", "validation_responded", "none"},
          hash : Hashes \cup {None}]

Init ==
    /\ ledger = 0
    /\ find_owner = [a \in Agents |-> None]
    /\ get_approved = [a \in Agents |-> None]
    /\ operator_of = [x \in Addresses |-> {}]
    /\ validation = [h \in Hashes |-> NoValidation]
    /\ agent_count = [a \in Agents |-> 0]
    /\ agent_at = [a \in Agents |-> [s \in Slots |-> None]]
    /\ validator_count = [v \in Addresses |-> 0]
    /\ validator_at = [v \in Addresses |-> [s \in Slots |-> None]]
    /\ published = [type |-> "none", hash |-> None]

-----------------------------------------------------------------------------

HasValidation(h) == validation[h].validator_address # None

Bug_ApprovalForgotten(caller, a) ==
    /\ find_owner[a] # None
    /\ caller = find_owner[a] \/ caller \in operator_of[find_owner[a]]

MayRequest(caller, a) ==
    /\ find_owner[a] # None
    /\ \/ caller = find_owner[a]
       \/ caller = get_approved[a]
       \/ caller \in operator_of[find_owner[a]]

AddAgentValidation(a, h) ==
    /\ agent_count[a] < MaxRequests
    /\ agent_at' = [agent_at EXCEPT ![a][agent_count[a]] = h]
    /\ agent_count' = [agent_count EXCEPT ![a] = @ + 1]

AddValidatorRequest(v, h) ==
    /\ validator_count[v] < MaxRequests
    /\ validator_at' = [validator_at EXCEPT ![v][validator_count[v]] = h]
    /\ validator_count' = [validator_count EXCEPT ![v] = @ + 1]

Bug_HashReused(h) == TRUE
IsNew(h) == ~HasValidation(h)

\* The validator need not consent.
ValidationRequest(caller, v, a, h) ==
    /\ MayRequest(caller, a)
    /\ IsNew(h)
    /\ validation' = [validation EXCEPT
          ![h] = [validator_address |-> v, agent_id |-> a, response |-> 0,
                  tag |-> EmptyTag, last_update |-> ledger, has_response |-> FALSE]]
    /\ AddAgentValidation(a, h)
    /\ AddValidatorRequest(v, h)
    /\ published' = [type |-> "validation_requested", hash |-> h]
    /\ UNCHANGED identity

ResponseInRange(r) == r <= 100

ValidationResponse(caller, h, r, tag) ==
    /\ ResponseInRange(r)
    /\ HasValidation(h)
    /\ caller = validation[h].validator_address
    /\ validation' = [validation EXCEPT
          ![h].response = r, ![h].tag = tag, ![h].last_update = ledger,
          ![h].has_response = TRUE]
    /\ published' = [type |-> "validation_responded", hash |-> h]
    /\ UNCHANGED <<identity, indexes>>

\* The identity registry moves on and ledgers close.
IdentityMoves ==
    /\ ledger' \in {ledger, ledger + 1} \cap Ledgers
    /\ find_owner' \in [Agents -> Addresses \cup {None}]
    /\ \A a \in Agents : find_owner[a] # None => find_owner'[a] # None
    /\ get_approved' \in [Agents -> Addresses \cup {None}]
    /\ operator_of' \in [Addresses -> SUBSET Addresses]
    /\ UNCHANGED <<validation, indexes, published>>

Next ==
    \/ \E x \in Addresses, v \in Addresses, a \in Agents, h \in Hashes :
          ValidationRequest(x, v, a, h)
    \/ \E x \in Addresses, h \in Hashes, r \in Responses, t \in Tags :
          ValidationResponse(x, h, r, t)
    \/ IdentityMoves

Spec == Init /\ [][Next]_vars

-----------------------------------------------------------------------------
(* get_summary: the answered requests of an agent, by validators (none named:
   all) and tag (empty: all).  The loop runs over the agent's list. *)

Matches(validators, tag, h) ==
    /\ validation[h].has_response
    /\ validators = {} \/ validation[h].validator_address \in validators
    /\ tag = EmptyTag \/ validation[h].tag = tag

Bug_FirstSlotSkipped(a, validators, tag) ==
    {s \in Slots : /\ s > 0 /\ s < agent_count[a]
                   /\ agent_at[a][s] # None
                   /\ HasValidation(agent_at[a][s])
                   /\ Matches(validators, tag, agent_at[a][s])}

SummarySlots(a, validators, tag) ==
    {s \in Slots : /\ s < agent_count[a]
                   /\ agent_at[a][s] # None
                   /\ HasValidation(agent_at[a][s])
                   /\ Matches(validators, tag, agent_at[a][s])}

-----------------------------------------------------------------------------
(* Properties *)

\* The storage entries keep their types.
TypeOK ==
    /\ ledger \in Ledgers
    /\ find_owner \in [Agents -> Addresses \cup {None}]
    /\ get_approved \in [Agents -> Addresses \cup {None}]
    /\ operator_of \in [Addresses -> SUBSET Addresses]
    /\ validation \in [Hashes -> ValidationStatus]
    /\ agent_count \in [Agents -> 0 .. MaxRequests]
    /\ agent_at \in [Agents -> [Slots -> Hashes \cup {None}]]
    /\ validator_count \in [Addresses -> 0 .. MaxRequests]
    /\ validator_at \in [Addresses -> [Slots -> Hashes \cup {None}]]
    /\ published \in Event

\* Both lists hold exactly the requests that name their agent or validator,
\* each once, in the slots below the count: a request is never missing from a
\* list, listed twice, or listed under the wrong name.
ListsMatchRequests ==
    /\ \A a \in Agents, h \in Hashes :
          {s \in Slots : s < agent_count[a] /\ agent_at[a][s] = h}
             \in IF HasValidation(h) /\ validation[h].agent_id = a
                 THEN {{s} : s \in Slots} ELSE {{}}
    /\ \A v \in Addresses, h \in Hashes :
          {s \in Slots : s < validator_count[v] /\ validator_at[v][s] = h}
             \in IF HasValidation(h) /\ validation[h].validator_address = v
                 THEN {{s} : s \in Slots} ELSE {{}}

\* get_summary counts each answered request of the agent once and no other
\* request, for every choice of validators and tag.
SummaryCountsRequests ==
    \A a \in Agents, vs \in SUBSET Addresses, t \in Tags :
       LET counted == SummarySlots(a, vs, t) IN
       /\ {agent_at[a][s] : s \in counted}
             = {h \in Hashes : validation[h].agent_id = a /\ Matches(vs, t, h)}
       /\ \A s1, s2 \in counted : agent_at[a][s1] = agent_at[a][s2] => s1 = s2

\* A request is never reassigned: once made, its agent and validator stay, an
\* answer is never withdrawn, and last_update never goes back, whoever controls
\* the agent later.
RequestsArePermanent ==
    [][\A h \in Hashes :
          HasValidation(h) =>
             /\ validation'[h].validator_address = validation[h].validator_address
             /\ validation'[h].agent_id = validation[h].agent_id
             /\ validation[h].has_response => validation'[h].has_response
             /\ validation'[h].last_update >= validation[h].last_update]_vars
=============================================================================
