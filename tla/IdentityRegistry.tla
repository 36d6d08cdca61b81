--------------------------- MODULE IdentityRegistry ---------------------------
(***************************************************************************)
(* The identity registry contract: agents are sequentially minted NFTs     *)
(* that carry a URI, a payment wallet and a bounded set of metadata        *)
(* entries.  A Soroban invocation is atomic (an error or a panic rolls it  *)
(* back), so one action is one successful invocation; a call that fails    *)
(* is a disabled action.                                                   *)
(*                                                                         *)
(* Minting, approvals and transfers of OpenZeppelin's NonFungibleToken are *)
(* modelled from how the contract uses them.  Persistent entries never     *)
(* disappear: storage archival and the TTL bumps are left out.  Ownership  *)
(* of the contract and its upgrades are in module TimelockedUpgrade.       *)
(*                                                                         *)
(* Bug_... are broken variants of the definition they precede; no action   *)
(* uses them.  Substituted for it, they make the properties fail.          *)
(***************************************************************************)
EXTENDS Naturals, FiniteSets, Sequences

CONSTANTS
    Addresses,          \* accounts and contracts that may sign or be named
    Keys,               \* metadata keys a caller may name
    Values,             \* metadata values
    Uris,               \* agent URIs, the empty one included
    ReservedKey,        \* "agentWallet"
    EmptyKey, EmptyUri, \* the empty strings
    Oversized,          \* keys and values above MAX_METADATA_{KEY,VALUE}_LEN
    None,               \* an absent storage entry
    MAX_METADATA_KEYS,
    MaxAgents,          \* bound on minted agents
    MaxEntries,         \* bound on the metadata argument of register_full
    MaxLedger,          \* bound on the ledger sequence
    LiveUntil           \* the live_until_ledger arguments callers use

Agents == 0 .. MaxAgents - 1
Ledgers == 0 .. MaxLedger

ASSUME IdentityAssumption ==
    /\ MAX_METADATA_KEYS \in Nat /\ MaxAgents \in Nat
    /\ MaxEntries \in Nat /\ MaxLedger \in Nat
    /\ None \notin Addresses \cup Values \cup Uris
    /\ EmptyUri \in Uris /\ ReservedKey \in Keys
    /\ IsFiniteSet(Keys)
    /\ LiveUntil \subseteq Ledgers

VARIABLES
    ledger,        \* current ledger sequence
    next_token_id, \* OZ sequential counter
    owner,         \* NFTStorageKey::Owner
    approval,      \* OZ token approval, [to, until]
    operators,     \* OZ approve_for_all: operators[o][x] = live until (0: none)
    uri,           \* DataKey::AgentUri
    wallet,        \* DataKey::AgentWallet
    metadata,      \* DataKey::Metadata
    keys,          \* DataKey::MetadataKeys, a list without repetitions whose
                   \* order nothing reads
    tx             \* the last invocation: who signed it, what it published

vars == <<ledger, next_token_id, owner, approval, operators, uri, wallet,
          metadata, keys, tx>>

MetadataEntry == [key : Keys, value : Values]
MetadataArgs == UNION {[1 .. n -> MetadataEntry] : n \in 0 .. MaxEntries}

\* events.rs, and the OZ transfer event
Event == [type : {"registered"}, agent : Agents, owner : Addresses, uri : Uris]
         \cup [type : {"uri_updated"}, agent : Agents, by : Addresses, uri : Uris]
         \cup [type : {"metadata_set"}, agent : Agents, key : Keys,
               value : Values \cup Addresses \cup {None}]
         \cup [type : {"transfer"}, agent : Agents, from : Addresses, to : Addresses]

Registered(id, o, u) == [type |-> "registered", agent |-> id, owner |-> o, uri |-> u]
UriUpdated(id, x, u) == [type |-> "uri_updated", agent |-> id, by |-> x, uri |-> u]
MetadataSet(id, k, v) == [type |-> "metadata_set", agent |-> id, key |-> k, value |-> v]
\* None stands for the empty bytes that announce a removed wallet.
WalletSet(id, w) == MetadataSet(id, ReservedKey, w)
Transferred(id, f, t) == [type |-> "transfer", agent |-> id, from |-> f, to |-> t]

Invocation(signers, events) == tx' = [signers |-> signers, events |-> events]

NoApproval == [to |-> None, until |-> 0]
NoMetadata == [k \in Keys |-> None]

Init ==
    /\ ledger = 0
    /\ next_token_id = 0
    /\ owner = [id \in Agents |-> None]
    /\ approval = [id \in Agents |-> NoApproval]
    /\ operators = [o \in Addresses |-> [x \in Addresses |-> 0]]
    /\ uri = [id \in Agents |-> None]
    /\ wallet = [id \in Agents |-> None]
    /\ metadata = [id \in Agents |-> NoMetadata]
    /\ keys = [id \in Agents |-> {}]
    /\ tx = [signers |-> {}, events |-> <<>>]

-----------------------------------------------------------------------------
(* Authority.  Approvals live up to and including their last ledger. *)

AgentExists(id) == owner[id] # None

GetApproved(id) == IF approval[id].until >= ledger THEN approval[id].to ELSE None

IsApprovedForAll(o, x) == operators[o][x] > 0 /\ operators[o][x] >= ledger

\* is_authorized_or_owner, and require_owner_or_approved with its error dropped
OwnerOrApproved(x, id) ==
    /\ AgentExists(id)
    /\ \/ x = owner[id]
       \/ x = GetApproved(id)
       \/ IsApprovedForAll(owner[id], x)

-----------------------------------------------------------------------------
(* Registration *)

\* storage::set_metadata over a list: a later entry for a key wins.
LastValue(list, k) ==
    IF \E i \in DOMAIN list : list[i].key = k
    THEN list[CHOOSE i \in DOMAIN list :
                 /\ list[i].key = k
                 /\ \A j \in DOMAIN list : j > i => list[j].key # k].value
    ELSE None

KeysOf(list) == {list[i].key : i \in DOMAIN list}

\* sequential_mint, the stored URI, init_agent_wallet, the metadata, then the
\* events in the order they are published
Mint(caller, stored, announced, list) ==
    LET id == next_token_id IN
    /\ id < MaxAgents
    /\ next_token_id' = id + 1
    /\ owner' = [owner EXCEPT ![id] = caller]
    /\ uri' = [uri EXCEPT ![id] = stored]
    /\ wallet' = [wallet EXCEPT ![id] = caller]
    /\ metadata' = [metadata EXCEPT ![id] = [k \in Keys |-> LastValue(list, k)]]
    /\ keys' = [keys EXCEPT ![id] = KeysOf(list)]
    /\ Invocation({caller},
           <<WalletSet(id, caller)>>
           \o [i \in DOMAIN list |-> MetadataSet(id, list[i].key, list[i].value)]
           \o <<Registered(id, caller, announced)>>)
    /\ UNCHANGED <<ledger, approval, operators>>

Register(caller) == Mint(caller, None, EmptyUri, <<>>)

RegisterWithUri(caller, u) == Mint(caller, u, u, <<>>)

\* Unlike set_metadata this accepts the empty key.
RegisterFull(caller, u, list) ==
    /\ Len(list) <= MAX_METADATA_KEYS
    /\ \A i \in DOMAIN list :
          /\ list[i].key \notin Oversized
          /\ list[i].value \notin Oversized
          /\ list[i].key # ReservedKey
    /\ Mint(caller, u, u, list)

-----------------------------------------------------------------------------
(* Changes by the owner or an approved address *)

SetAgentUri(caller, id, u) ==
    /\ u # EmptyUri
    /\ OwnerOrApproved(caller, id)
    /\ uri' = [uri EXCEPT ![id] = u]
    /\ Invocation({caller}, <<UriUpdated(id, caller, u)>>)
    /\ UNCHANGED <<ledger, next_token_id, owner, approval, operators, wallet,
                   metadata, keys>>

\* An entry that exists may be rewritten at the limit.
HasRoom(id, k) ==
    metadata[id][k] # None \/ Cardinality(keys[id]) < MAX_METADATA_KEYS

Bug_KeyNotRecorded(id, k) == UNCHANGED keys
RecordMetadataKey(id, k) == keys' = [keys EXCEPT ![id] = @ \cup {k}]

SetMetadata(caller, id, k, v) ==
    /\ k \notin {EmptyKey, ReservedKey} \cup Oversized
    /\ v \notin Oversized
    /\ OwnerOrApproved(caller, id)
    /\ HasRoom(id, k)
    /\ RecordMetadataKey(id, k)
    /\ metadata' = [metadata EXCEPT ![id][k] = v]
    /\ Invocation({caller}, <<MetadataSet(id, k, v)>>)
    /\ UNCHANGED <<ledger, next_token_id, owner, approval, operators, uri, wallet>>

\* Both the caller and the new wallet sign.
BothSign(signers, caller, w) == {caller, w} \subseteq signers

SetAgentWallet(signers, caller, id, w) ==
    /\ BothSign(signers, caller, w)
    /\ OwnerOrApproved(caller, id)
    /\ wallet' = [wallet EXCEPT ![id] = w]
    /\ Invocation(signers, <<WalletSet(id, w)>>)
    /\ UNCHANGED <<ledger, next_token_id, owner, approval, operators, uri,
                   metadata, keys>>

UnsetAgentWallet(caller, id) ==
    /\ OwnerOrApproved(caller, id)
    /\ wallet' = [wallet EXCEPT ![id] = None]
    /\ Invocation({caller}, <<WalletSet(id, None)>>)
    /\ UNCHANGED <<ledger, next_token_id, owner, approval, operators, uri,
                   metadata, keys>>

-----------------------------------------------------------------------------
(* The NFT interface *)

Bug_OnlyListCleared(id) == UNCHANGED metadata /\ keys' = [keys EXCEPT ![id] = {}]

\* clear_all_metadata: only the entries the key list names are removed
ClearAllMetadata(id) ==
    /\ metadata' = [metadata EXCEPT
                      ![id] = [k \in Keys |-> IF k \in keys[id] THEN None ELSE @[k]]]
    /\ keys' = [keys EXCEPT ![id] = {}]

Bug_TokenBurnt(from, to, id) ==
    /\ owner[id] = from
    /\ owner' = [owner EXCEPT ![id] = None]
    /\ approval' = [approval EXCEPT ![id] = NoApproval]

\* Base::transfer: the token moves and loses its approval.
MoveToken(from, to, id) ==
    /\ owner[id] = from
    /\ owner' = [owner EXCEPT ![id] = to]
    /\ approval' = [approval EXCEPT ![id] = NoApproval]

\* IdentityBase::transfer, and transfer_from once the spender is accepted
Handover(signer, from, to, id) ==
    /\ wallet' = [wallet EXCEPT ![id] = None]
    /\ ClearAllMetadata(id)
    /\ MoveToken(from, to, id)
    /\ Invocation({signer}, <<WalletSet(id, None), Transferred(id, from, to)>>)
    /\ UNCHANGED <<ledger, next_token_id, operators, uri>>

Transfer(from, to, id) == Handover(from, from, to, id)

Bug_ExpiredApprovalAccepted(spender, from, to, id) ==
    /\ spender \in {from, approval[id].to} \/ IsApprovedForAll(from, spender)
    /\ Handover(spender, from, to, id)

TransferFrom(spender, from, to, id) ==
    /\ \/ spender = from
       \/ spender = GetApproved(id)
       \/ IsApprovedForAll(from, spender)
    /\ Handover(spender, from, to, id)

\* live_until 0 revokes
Approve(approver, to, id, until) ==
    /\ AgentExists(id)
    /\ approver = owner[id] \/ IsApprovedForAll(owner[id], approver)
    /\ until = 0 \/ until >= ledger
    /\ approval' = [approval EXCEPT
          ![id] = IF until = 0 THEN NoApproval ELSE [to |-> to, until |-> until]]
    /\ Invocation({approver}, <<>>)
    /\ UNCHANGED <<ledger, next_token_id, owner, operators, uri, wallet,
                   metadata, keys>>

ApproveForAll(o, x, until) ==
    /\ until = 0 \/ until >= ledger
    /\ operators' = [operators EXCEPT ![o][x] = until]
    /\ Invocation({o}, <<>>)
    /\ UNCHANGED <<ledger, next_token_id, owner, approval, uri, wallet,
                   metadata, keys>>

\* A ledger closes.
CloseLedger ==
    /\ ledger < MaxLedger
    /\ ledger' = ledger + 1
    /\ Invocation({}, <<>>)
    /\ UNCHANGED <<next_token_id, owner, approval, operators, uri, wallet,
                   metadata, keys>>

-----------------------------------------------------------------------------

Next ==
    \/ \E a \in Addresses : Register(a)
    \/ \E a \in Addresses, u \in Uris : RegisterWithUri(a, u)
    \/ \E a \in Addresses, u \in Uris, l \in MetadataArgs : RegisterFull(a, u, l)
    \/ \E a \in Addresses, id \in Agents, u \in Uris : SetAgentUri(a, id, u)
    \/ \E a \in Addresses, id \in Agents, k \in Keys, v \in Values :
          SetMetadata(a, id, k, v)
    \/ \E s \in SUBSET Addresses, a \in Addresses, id \in Agents, w \in Addresses :
          SetAgentWallet(s, a, id, w)
    \/ \E a \in Addresses, id \in Agents : UnsetAgentWallet(a, id)
    \/ \E f \in Addresses, t \in Addresses, id \in Agents : Transfer(f, t, id)
    \/ \E x \in Addresses, f \in Addresses, t \in Addresses, id \in Agents :
          TransferFrom(x, f, t, id)
    \/ \E a \in Addresses, t \in Addresses, id \in Agents, n \in LiveUntil :
          Approve(a, t, id, n)
    \/ \E o \in Addresses, x \in Addresses, n \in LiveUntil : ApproveForAll(o, x, n)
    \/ CloseLedger

Spec == Init /\ [][Next]_vars

-----------------------------------------------------------------------------
(* Properties *)

\* The storage entries keep their types.
TypeOK ==
    /\ ledger \in Ledgers
    /\ next_token_id \in 0 .. MaxAgents
    /\ owner \in [Agents -> Addresses \cup {None}]
    /\ approval \in [Agents -> [to : Addresses \cup {None}, until : Ledgers]]
    /\ operators \in [Addresses -> [Addresses -> Ledgers]]
    /\ uri \in [Agents -> Uris \cup {None}]
    /\ wallet \in [Agents -> Addresses \cup {None}]
    /\ metadata \in [Agents -> [Keys -> Values \cup {None}]]
    /\ keys \in [Agents -> SUBSET Keys]
    /\ tx \in [signers : SUBSET Addresses, events : Seq(Event)]

\* The agents are exactly the ids below the counter, for ever: the other
\* registries take a missing owner for an agent that was never registered
\* (find_owner, agent_exists).
AgentsArePermanent == \A id \in Agents : AgentExists(id) <=> id < next_token_id

\* The key list of an agent names exactly its stored entries, never the
\* reserved key, and an id not minted yet has none: clear_all_metadata and
\* metadata_key_count see storage only through that list.
MetadataIndexed ==
    \A id \in Agents :
       /\ keys[id] = {k \in Keys : metadata[id][k] # None}
       /\ ReservedKey \notin keys[id]
       /\ ~AgentExists(id) => keys[id] = {}

\* No sequence of registrations, writes and transfers stores more than
\* MAX_METADATA_KEYS entries for an agent, so the transfer that has to remove
\* them all stays within an invocation's budget.
MetadataBounded ==
    \A id \in Agents :
       Cardinality({k \in Keys : metadata[id][k] # None}) <= MAX_METADATA_KEYS

\* A new owner inherits no claim: whatever call moves an existing agent to
\* another owner leaves it without wallet and without metadata (the comment
\* on IdentityBase).
NoClaimInheritance ==
    [][\A id \in Agents :
          AgentExists(id) /\ owner'[id] # owner[id]
             => wallet'[id] = None /\ metadata'[id] = NoMetadata]_vars

Principal(x, id) == x = owner[id] \/ IsApprovedForAll(owner[id], x)

\* A transfer ends the authority the previous owner handed out for the token:
\* afterwards only the new owner and the new owner's operators may act.
TransferEndsApprovals ==
    [][\A id \in Agents, x \in Addresses :
          AgentExists(id) /\ owner'[id] # owner[id] /\ OwnerOrApproved(x, id)'
             => Principal(x, id)']_vars

Claims(id) == <<owner[id], uri[id], wallet[id], metadata[id]>>

\* Everything the registry says about an existing agent changes only in an
\* invocation signed by its owner or an address approved at that ledger.
OnlyAuthorizedChanges ==
    [][\A id \in Agents :
          AgentExists(id) /\ Claims(id)' # Claims(id)
             => \E x \in tx'.signers : OwnerOrApproved(x, id)]_vars

\* No address becomes an agent's payment wallet without signing: not through
\* set_agent_wallet, not as a side effect of a registration or a transfer.
WalletConsents ==
    [][\A id \in Agents :
          wallet'[id] \notin {wallet[id], None} => wallet'[id] \in tx'.signers]_vars
=============================================================================
