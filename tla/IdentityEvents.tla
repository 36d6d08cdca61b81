---------------------------- MODULE IdentityEvents ----------------------------
(* The events of the identity registry as the indexer reads them.  Bug_... are
   broken variants of the definitions they precede. *)
EXTENDS IdentityRegistry

CONSTANTS NotUtf8, Replaced  \* see module EventWire

INSTANCE EventWire WITH EmptyText <- EmptyUri

\* null is no value on the wire, no event and no type of event, and an address
\* is never the empty text.  Addresses and the two texts the parser compares with
\* are valid UTF-8, and no text with a U+FFFD in it is one of them.
ASSUME WireAssumption ==
    /\ None \notin Keys \cup Agents
    /\ None \notin {"Registered", "UriUpdated", "MetadataSet", "AgentTransferred", "AgentWalletSet"}
    /\ None \notin [type : {"AgentWalletSet"}, agentId : Agents, newWallet : Addresses]
    /\ None \notin [type : {"AgentWalletUnset"}, agentId : Agents]
    /\ EmptyUri \notin Addresses
    /\ NotUtf8 \cap (Addresses \cup {EmptyUri, ReservedKey}) = {}
    /\ \A b \in NotUtf8 : Replaced[b] \notin Addresses \cup {EmptyUri, ReservedKey, None}

-----------------------------------------------------------------------------
(* What is published *)

IdentityWire(e) ==
    CASE e.type = "registered" ->
            Wire("registered", <<U32(e.agent), Address(e.owner)>>, [agent_uri |-> String(e.uri)])
      [] e.type = "uri_updated" ->
            Wire("uri_updated", <<U32(e.agent), Address(e.by)>>, [new_uri |-> String(e.uri)])
      [] e.type = "metadata_set" ->
            Wire("metadata_set", <<U32(e.agent), String(e.key)>>,
                 [value |-> Bytes(IF e.value = None THEN EmptyUri ELSE e.value)])
      [] e.type = "transfer" ->
            Wire("transfer", <<Address(e.from), Address(e.to)>>, [token_id |-> U32(e.agent)])

\* Events of the token library on the same contract.
LibraryWires ==
    {Wire("mint", <<Address(x)>>, [token_id |-> U32(id)]) : x \in Addresses, id \in Agents}
    \cup {Wire("approve", <<Address(x), U32(id)>>, [approved |-> Address(x)]) :
             x \in Addresses, id \in Agents}
    \cup {Wire("approve_for_all", <<Address(x)>>, [operator |-> Address(x)]) : x \in Addresses}

\* Events of the wallet from contracts deployed earlier.
LegacyWires ==
    {Wire("agent_wallet_set", <<U32(id), Address(x), Address(x)>>, <<>>) :
        x \in Addresses, id \in Agents}
    \cup {Wire("agent_wallet_unset", <<U32(id)>>, <<>>) : id \in Agents}

-----------------------------------------------------------------------------
(* parsers/identity.ts *)

Bug_AgentInTopic(w) ==
    Parsed([type |-> "AgentTransferred", agentId |-> ToSafeInteger(Topic(w, 1)),
            from |-> ToAddress(Topic(w, 1)), to |-> ToAddress(Topic(w, 2))])

\* For a transfer the agent travels in the data, not in topic 1.
ParseTransfer(w) ==
    Parsed([type |-> "AgentTransferred", agentId |-> ToSafeInteger(Field(w, "token_id")),
            from |-> ToAddress(Topic(w, 1)), to |-> ToAddress(Topic(w, 2))])

\* Wallet changes come as metadata under the reserved key.
ParseMetadataSet(w, agentId) ==
    LET key == ToText(Topic(w, 2))
        value == BytesToUtf8(Field(w, "value"))
    IN IF Len(w.topics) < 3 THEN None
       ELSE IF key # ReservedKey
            THEN Parsed([type |-> "MetadataSet", agentId |-> agentId, key |-> key, value |-> value])
       ELSE IF value = EmptyUri THEN [type |-> "AgentWalletUnset", agentId |-> agentId]
       ELSE Parsed([type |-> "AgentWalletSet", agentId |-> agentId,
                    newWallet |-> ToAddress(Field(w, "value"))])

LegacyNames == {"agent_wallet_set", "agent_wallet_unset"}

ParseLegacyWallet(w, agentId) ==
    IF EventName(w) = "agent_wallet_unset" THEN [type |-> "AgentWalletUnset", agentId |-> agentId]
    ELSE IF Len(w.topics) < 4 THEN None
    ELSE Parsed([type |-> "AgentWalletSet", agentId |-> agentId, newWallet |-> ToAddress(Topic(w, 2))])

ParseIdentityEvent(w) ==
    LET agentId == ToSafeInteger(Topic(w, 1)) IN
    CASE EventName(w) = "transfer" -> ParseTransfer(w)
      [] EventName(w) # "transfer" /\ agentId = None -> None
      [] EventName(w) = "registered" /\ agentId # None ->
            Parsed([type |-> "Registered", agentId |-> agentId, owner |-> ToAddress(Topic(w, 2)),
                    agentUri |-> BytesToUtf8(Field(w, "agent_uri"))])
      [] EventName(w) = "uri_updated" /\ agentId # None ->
            Parsed([type |-> "UriUpdated", agentId |-> agentId, updatedBy |-> ToAddress(Topic(w, 2)),
                    newUri |-> BytesToUtf8(Field(w, "new_uri"))])
      [] EventName(w) = "metadata_set" /\ agentId # None -> ParseMetadataSet(w, agentId)
      [] EventName(w) \in LegacyNames /\ agentId # None -> ParseLegacyWallet(w, agentId)
      [] OTHER -> None

\* IDENTITY_EVENT_NAMES
EventNames == {"registered", "uri_updated", "metadata_set", "transfer"} \cup LegacyNames

\* interpretEvent of an event that was not parsed.
Ignored(w, parsed) == parsed = None /\ EventName(w) \notin EventNames

-----------------------------------------------------------------------------
(* What the events mean to the tables *)

IdentityMeaning(e) ==
    CASE e.type = "registered" ->
            [type |-> "Registered", agentId |-> e.agent, owner |-> e.owner,
             agentUri |-> Decode(e.uri)]
      [] e.type = "uri_updated" ->
            [type |-> "UriUpdated", agentId |-> e.agent, updatedBy |-> e.by,
             newUri |-> Decode(e.uri)]
      [] e.type = "metadata_set" /\ e.key # ReservedKey ->
            [type |-> "MetadataSet", agentId |-> e.agent, key |-> Decode(e.key),
             value |-> Decode(e.value)]
      [] e.type = "metadata_set" /\ e.key = ReservedKey /\ e.value = None ->
            [type |-> "AgentWalletUnset", agentId |-> e.agent]
      [] e.type = "metadata_set" /\ e.key = ReservedKey /\ e.value # None ->
            [type |-> "AgentWalletSet", agentId |-> e.agent, newWallet |-> e.value]
      [] e.type = "transfer" ->
            [type |-> "AgentTransferred", agentId |-> e.agent, from |-> e.from, to |-> e.to]

\* Every event of the identity contract, in whatever state it is called, comes
\* through the indexer's parser as the event it is: agents, owners and wallets are
\* read from the right topic or field, a cleared wallet is told from a set one, and
\* so are URIs, keys and values that are UTF-8.  Of those that are not, what is
\* invalid is replaced, and that never makes the event another one (a key the wallet's
\* key, a text no text) or one that is given up on.
\* Wallet events of contracts deployed earlier are still read, and the events of
\* the token library are passed over instead of holding the indexer back.
EventsUnderstood ==
    [][ tx' # tx =>
           /\ \A n \in DOMAIN tx'.events :
                 ParseIdentityEvent(IdentityWire(tx'.events[n])) = IdentityMeaning(tx'.events[n])
           /\ (\E n \in DOMAIN tx'.events : tx'.events[n].type = "registered") =>
                 /\ \A w \in LibraryWires : Ignored(w, ParseIdentityEvent(w))
                 /\ \A w \in LegacyWires : ParseIdentityEvent(w) # None ]_vars
=============================================================================
