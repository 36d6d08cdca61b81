------------------------------ MODULE SystemProofs ------------------------------
(***************************************************************************)
(* Proofs about what is built on the identity registry: first Registries,  *)
(* where what the reputation and validation registries assume of it is     *)
(* what it does; then EventProjection, where the rows of the indexer say   *)
(* what its storage says, for every number of agents, runs, URIs and       *)
(* transactions.                                                           *)
(***************************************************************************)
EXTENDS Registries, EventProjection, IdentityProofs

-----------------------------------------------------------------------------
(* The three registries together *)

\* Composed with the others, the identity registry still behaves as its own
\* specification says: no other registry writes its storage.
LEMMA IdentityUndisturbed == SystemSpec => Spec
<1>1. SystemInit => Init
  BY DEF SystemInit
<1>2. [SystemNext]_systemVars => [Next]_vars
  BY DEF SystemNext, IdentityCall, ReputationCall, ValidationCall, systemVars
<1> QED
  BY <1>1, <1>2, PTL DEF SystemSpec, Spec

\* Its invariant holds in the composition.
LEMMA SystemInvariant == SystemSpec => []IdentityInv
  BY IdentityUndisturbed, IdentityInvariant, PTL

\* No call of the identity registry makes an agent disappear.
LEMMA AgentsStay ==
  ASSUME IdentityInv, [Next]_vars
  PROVE  /\ owner' \in [Agents -> Addresses \cup {None}]
         /\ \A id \in Agents : owner[id] # None => owner'[id] # None
<1>1. IdentityInv'
  BY IdentityStep
<1>2. next_token_id \in Nat /\ next_token_id' \in Nat /\ next_token_id <= next_token_id'
  <2>1. ASSUME NEW a, NEW s, NEW u, NEW l, Registration(a, s, u, l)
        PROVE next_token_id' = next_token_id + 1
    BY <2>1 DEF Registration, Mint
  <2>2. next_token_id' = next_token_id + 1 \/ next_token_id' = next_token_id
    <3>1. CASE Next
      BY <2>1, <3>1, Steps
      DEF SetAgentUri, SetMetadata, SetAgentWallet, UnsetAgentWallet, Handover,
          Approve, ApproveForAll, CloseLedger
    <3> QED
      BY <3>1 DEF vars
  <2> QED
    BY <2>2, IdentityAssumption DEF IdentityInv, TypeOK
<1>3. ASSUME NEW id \in Agents, owner[id] # None PROVE owner'[id] # None
  <2>1. id < next_token_id /\ id \in Nat
    BY <1>3 DEF IdentityInv, AgentsArePermanent, AgentExists, Agents
  <2>2. id < next_token_id'
    BY <1>2, <2>1
  <2> QED
    BY <1>1, <1>3, <2>2 DEF IdentityInv, AgentsArePermanent, AgentExists
<1> QED
  BY <1>1, <1>3 DEF IdentityInv, TypeOK

\* The owner of an agent is in charge of it: an agent exists exactly when
\* somebody is.
LEMMA OwnerInCharge ==
  ASSUME owner \in [Agents -> Addresses \cup {None}], NEW id \in Agents
  PROVE  Authority[id] # {} <=> owner[id] # None
  BY DEF Authority, OwnerOrApproved, AgentExists

\* The reputation registry next to this identity registry implements the
\* reputation registry next to any identity registry that loses no agent.
THEOREM ReputationImplemented == SystemSpec => ReputationOnIdentity
<1>1. SystemInit => Rep!Init
  BY DEF SystemInit
<1>2. ASSUME IdentityInv, [SystemNext]_systemVars PROVE [Rep!Next]_(Rep!vars)
  <2>1. CASE ReputationCall
    BY <2>1 DEF ReputationCall, Rep!Next
  <2>2. CASE IdentityCall
    <3>1. /\ owner' \in [Agents -> Addresses \cup {None}]
          /\ owner \in [Agents -> Addresses \cup {None}]
          /\ \A id \in Agents : owner[id] # None => owner'[id] # None
      BY <1>2, <2>2, AgentsStay DEF IdentityCall, IdentityInv, TypeOK
    <3>2. Authority' \in [Agents -> SUBSET Addresses]
      BY DEF Authority
    <3>3. \A id \in Agents : Authority[id] # {} <=> owner[id] # None
      BY <3>1, OwnerInCharge
    <3>4. \A id \in Agents : owner'[id] # None => Authority'[id] # {}
      BY <3>1 DEF Authority, OwnerOrApproved, AgentExists
    <3>5. UNCHANGED repVars
      BY <2>2 DEF IdentityCall
    <3> QED
      BY <3>1, <3>2, <3>3, <3>4, <3>5
      DEF Rep!Next, Rep!IdentityMoves, Rep!AgentExists, Rep!storage, repVars
  <2>3. CASE ValidationCall \/ UNCHANGED systemVars
    <3>1. UNCHANGED <<vars, repVars>>
      BY <2>3 DEF ValidationCall, systemVars
    <3>2. Authority' = Authority
      BY <3>1 DEF vars, Authority, OwnerOrApproved, AgentExists, GetApproved,
                  IsApprovedForAll
    <3> QED
      BY <3>1, <3>2 DEF Rep!vars, Rep!storage, repVars
  <2> QED
    BY <1>2, <2>1, <2>2, <2>3 DEF SystemNext
<1> QED
  BY <1>1, <1>2, SystemInvariant, PTL DEF SystemSpec, ReputationOnIdentity, Rep!Spec

\* Likewise for the validation registry, whose three separate questions are
\* answered from the identity registry's storage.
THEOREM ValidationImplemented == SystemSpec => ValidationOnIdentity
<1>1. SystemInit => Val!Init
  BY DEF SystemInit
<1>2. ASSUME IdentityInv, [SystemNext]_systemVars PROVE [Val!Next]_(Val!vars)
  <2>1. CASE ValidationCall
    BY <2>1 DEF ValidationCall, Val!Next
  <2>2. CASE IdentityCall
    <3>1. /\ owner' \in [Agents -> Addresses \cup {None}]
          /\ \A id \in Agents : owner[id] # None => owner'[id] # None
      BY <1>2, <2>2, AgentsStay DEF IdentityCall
    <3>2. ledger' \in {ledger, ledger + 1} \cap Val!Ledgers
      <4>1. ledger' = ledger \/ ledger' = ledger + 1
        <5>1. ASSUME NEW a, NEW s, NEW u, NEW l, Registration(a, s, u, l)
              PROVE ledger' = ledger
          BY <5>1 DEF Registration, Mint
        <5> QED
          BY <2>2, <5>1, Steps
          DEF IdentityCall, SetAgentUri, SetMetadata, SetAgentWallet,
              UnsetAgentWallet, Handover, Approve, ApproveForAll, CloseLedger
      <4>2. ledger' \in Ledgers
        BY <1>2, <2>2, IdentityStep DEF IdentityCall, IdentityInv, TypeOK
      <4> QED
        BY <4>1, <4>2 DEF Ledgers, Val!Ledgers
    <3>3. LiveApproval' \in [Agents -> Addresses \cup {None}]
      <4>1. approval' \in [Agents -> [to : Addresses \cup {None}, until : Ledgers]]
        BY <1>2, <2>2, IdentityStep DEF IdentityCall, IdentityInv, TypeOK
      <4> QED
        BY <4>1 DEF LiveApproval, GetApproved
    <3>4. LiveOperators' \in [Addresses -> SUBSET Addresses]
      BY DEF LiveOperators
    <3>5. UNCHANGED valVars
      BY <2>2 DEF IdentityCall
    <3> QED
      BY <3>1, <3>2, <3>3, <3>4, <3>5
      DEF Val!Next, Val!IdentityMoves, Val!indexes, valVars
  <2>3. CASE ReputationCall \/ UNCHANGED systemVars
    <3>1. UNCHANGED <<vars, valVars>>
      BY <2>3 DEF ReputationCall, systemVars
    <3>2. LiveApproval' = LiveApproval /\ LiveOperators' = LiveOperators
      BY <3>1 DEF vars, LiveApproval, LiveOperators, GetApproved, IsApprovedForAll
    <3> QED
      BY <3>1, <3>2 DEF Val!vars, Val!identity, Val!indexes, valVars, vars
  <2> QED
    BY <1>2, <2>1, <2>2, <2>3 DEF SystemNext
<1> QED
  BY <1>1, <1>2, SystemInvariant, PTL DEF SystemSpec, ValidationOnIdentity, Val!Spec

\* The check the validation registry repeats and the check the reputation
\* registry asks for accept the same addresses.
THEOREM AuthoritiesAgree == SystemSpec => []SameAuthority
<1>1. IdentityInv => SameAuthority
  <2> SUFFICES ASSUME IdentityInv, NEW id \in Agents, NEW x \in Addresses,
                      AgentExists(id)
               PROVE Val!MayRequest(x, id) <=> x \in Authority[id]
    BY DEF SameAuthority
  <2>1. owner[id] \in Addresses
    BY DEF IdentityInv, TypeOK, AgentExists
  <2>2. x \in LiveOperators[owner[id]] <=> IsApprovedForAll(owner[id], x)
    BY <2>1 DEF LiveOperators
  <2> QED
    BY <2>1, <2>2
    DEF Val!MayRequest, Authority, OwnerOrApproved, LiveApproval, AgentExists
<1> QED
  BY <1>1, SystemInvariant, PTL

\* Whoever gives feedback could not have requested a validation of the agent at
\* that moment, and the agent was minted.
THEOREM NobodyRatesItself == SystemSpec => NoSelfFeedback
<1> DEFINE A == \A id \in Agents, x \in Addresses :
                   last_index'[id][x] # last_index[id][x]
                      => /\ id < next_token_id
                         /\ ~Val!MayRequest(x, id)
<1>1. ASSUME IdentityInv, [SystemNext]_systemVars PROVE [A]_systemVars
  <2>1. ASSUME NEW y \in Addresses, NEW b \in Agents, NEW body \in Bodies,
               Rep!GiveFeedback(y, b, body)
        PROVE A
    <3> SUFFICES ASSUME NEW id \in Agents, NEW x \in Addresses,
                        last_index'[id][x] # last_index[id][x]
                 PROVE id < next_token_id /\ ~Val!MayRequest(x, id)
      OBVIOUS
    <3>1. id = b /\ x = y
      BY <2>1 DEF Rep!GiveFeedback
    <3>2. Authority[id] # {} /\ x \notin Authority[id]
      BY <2>1, <3>1 DEF Rep!GiveFeedback, Rep!MayRate, Rep!AgentExists
    <3>3. AgentExists(id)
      BY <1>1, <3>2, OwnerInCharge DEF IdentityInv, TypeOK, AgentExists
    <3>4. ~Val!MayRequest(x, id)
      BY <1>1, <3>2, <3>3
      DEF Val!MayRequest, Authority, OwnerOrApproved, LiveApproval, LiveOperators,
          AgentExists, IdentityInv, TypeOK
    <3> QED
      BY <1>1, <3>3, <3>4 DEF IdentityInv, AgentsArePermanent
  <2>2. ASSUME UNCHANGED last_index PROVE A
    BY <2>2
  <2> QED
    BY <1>1, <2>1, <2>2
    DEF SystemNext, IdentityCall, ReputationCall, ValidationCall, repVars, systemVars,
        Rep!RevokeFeedback, Rep!AppendResponse
<1> QED
  BY <1>1, SystemInvariant, PTL DEF SystemSpec, NoSelfFeedback

-----------------------------------------------------------------------------
(* The cells of a row and the events that write them *)

Columns == {"owner", "uri", "wallet", "metadata"}

\* The event writes a column; k is the entry, where the column is metadata.
Writes(e, c, k) ==
    CASE e.type = "registered" -> c \in {"owner", "uri"}
      [] e.type = "uri_updated" -> c = "uri"
      [] e.type = "transfer" -> c # "uri"
      [] e.type = "metadata_set" ->
            IF e.key = ReservedKey THEN c = "wallet" ELSE c = "metadata" /\ e.key = k

\* What it writes there.
Says(e, c) ==
    CASE c = "owner" -> IF e.type = "transfer" THEN e.to ELSE e.owner
      [] c = "uri" -> e.uri
      [] c \in {"wallet", "metadata"} -> IF e.type = "transfer" THEN None ELSE e.value

\* The event, or the one of the log at i, writes a cell of agent id.
About(e, id, c, k) == e.agent = id /\ Writes(e, c, k)
Sets(i, id, c, k) == About(log[i].event, id, c, k)

OnChain(id, c, k) ==
    CASE c = "owner" -> owner[id]
      [] c = "uri" -> ChainUri(id)
      [] c = "wallet" -> wallet[id]
      [] c = "metadata" -> metadata[id][k]

InRow(id, c, k) == IF c = "metadata" THEN row[id].metadata[k] ELSE row[id][c]

-----------------------------------------------------------------------------
(* The inductive invariants *)

LogEntry == [event : Event, ledger : Ledgers, txHash : Nat]
Entries == DOMAIN log

RegistrationOf(i, id) == IsRegistration(i) /\ log[i].event.agent = id

\* The log is in order and about agents that exist, each registered once and
\* before its owner or URI change.
LogOrdered ==
    /\ log \in Seq(LogEntry)
    /\ \A i \in Entries : log[i].ledger <= ledger
    /\ \A i, j \in Entries : i < j => log[i].ledger <= log[j].ledger

RegisteredOnce ==
    /\ \A id \in Agents : AgentExists(id) => \E k \in Entries : RegistrationOf(k, id)
    /\ \A i \in Entries :
          /\ AgentExists(log[i].event.agent)
          /\ \E k \in Entries : RegistrationOf(k, log[i].event.agent)
                                /\ log[k].ledger <= log[i].ledger
          /\ \A k \in Entries : RegistrationOf(k, log[i].event.agent) =>
                /\ IsRegistration(i) => i = k
                /\ log[i].event.type \in {"uri_updated", "transfer"} => k < i

\* The contract's storage is what the last event about each cell says.
LogTellsChain ==
    \A id \in Agents, c \in Columns, k \in Keys :
       /\ \A i \in Entries :
             Sets(i, id, c, k) /\ (\A j \in Entries : i < j => ~Sets(j, id, c, k))
                => OnChain(id, c, k) = Says(log[i].event, c)
       /\ AgentExists(id) /\ (\A i \in Entries : ~Sets(i, id, c, k)) => OnChain(id, c, k) = None

ChainInv == IdentityInv /\ LogOrdered /\ RegisteredOnce /\ LogTellsChain

RunStates ==
    [pc : {"idle", "index", "write", "try", "store"}, from : Nat, page : SUBSET Nat, to : Nat,
     agent : Nat, uri : Uris \cup {None}, attempts : Nat]

ProjectionTypes ==
    /\ row \in [Agents -> Rows \cup {None}]
    /\ expected \in Nat
    /\ run \in [Writers -> RunStates]
    /\ newest \in [Agents -> [GuardedColumns -> Ledgers \cup {None}]]
    /\ alone \in BOOLEAN

\* The events of a set have their agent's row.
HaveRow(ids) == \A i \in ids : row[log[i].event.agent] # None

BelowLedger(l) == {i \in Entries : log[i].ledger < l}
Rest(w) == run[w].page \cup {i \in Entries : log[i].ledger > run[w].to}

\* Where a run is: what it passed has its rows, and the page it writes has the
\* later events of its ledgers.
Position(w) ==
    /\ At(w, "index") => run[w].from <= ledger /\ HaveRow(BelowLedger(run[w].from))
    /\ At(w, "write") =>
          /\ run[w].to < ledger
          /\ run[w].page \subseteq Entries
          /\ \A i \in run[w].page : log[i].ledger <= run[w].to
          /\ HaveRow(Entries \ Rest(w))
          /\ \A i \in run[w].page : \A j \in Entries \ Rest(w) : ~IsRegistration(j) => j < i
    /\ run[w].pc \in {"try", "store"} =>
          run[w].agent \in Agents /\ row[run[w].agent] # None /\ run[w].uri \in Uris

\* The ledgers the guards compare with are those of the events that set the
\* columns; a column no event has set is as it was registered.
Guards ==
    \A id \in Agents :
       /\ row[id] = None => \A c \in GuardedColumns : newest[id][c] = None
       /\ row[id] # None =>
             /\ AgentExists(id)
             /\ row[id].transferred_ledger = newest[id]["owner"]
             /\ row[id].uri_updated_ledger = newest[id]["uri"]
             /\ \A c \in GuardedColumns :
                   newest[id][c] = None =>
                      \E k \in Entries :
                         RegistrationOf(k, id) /\ row[id][c] = Says(log[k].event, c)

Documents == DocumentMatchesUri /\ NoUriStranded

WriterInv ==
    /\ ProjectionTypes
    /\ expected <= ledger /\ HaveRow(BelowLedger(expected))
    /\ \A w \in Writers : Position(w)
    /\ Guards
    /\ OwnerAndUriNeverUndone
    /\ Documents

\* Every cell that no event of a set writes is as on the chain.
Agrees(ids) ==
    \A id \in Agents, c \in Columns, k \in Keys :
       row[id] # None /\ (\A i \in ids : ~Sets(i, id, c, k)) => InRow(id, c, k) = OnChain(id, c, k)

Alone ==
    alone =>
       /\ \A v, w \in Writers : ~At(v, "idle") /\ ~At(w, "idle") => v = w
       /\ \A w \in Writers :
             /\ At(w, "index") => run[w].from = expected
             /\ ~At(w, "idle") => holder = w
             /\ At(w, "write") => /\ Agrees(Rest(w))
                                  /\ expected <= run[w].to + 1
                                  /\ \A i \in run[w].page : expected <= log[i].ledger
       /\ (\A w \in Writers : ~At(w, "write")) => Agrees(Entries \ BelowLedger(expected))

-----------------------------------------------------------------------------
(* What an invocation publishes tells what it stores *)

\* The columns one by one.
LEMMA WritesFacts ==
  ASSUME NEW e, NEW k
  PROVE  /\ e.type = "registered" => \A c \in Columns : Writes(e, c, k) <=> c \in {"owner", "uri"}
         /\ e.type = "uri_updated" => \A c \in Columns : Writes(e, c, k) <=> c = "uri"
         /\ e.type = "transfer" => \A c \in Columns : Writes(e, c, k) <=> c # "uri"
         /\ e.type = "metadata_set" /\ e.key = ReservedKey =>
               \A c \in Columns : Writes(e, c, k) <=> c = "wallet"
         /\ e.type = "metadata_set" /\ e.key # ReservedKey =>
               \A c \in Columns : Writes(e, c, k) <=> c = "metadata" /\ e.key = k
BY DEF Writes, Columns

\* What the events say, column by column.
LEMMA SaysFacts ==
  ASSUME NEW e
  PROVE  /\ Says(e, "owner") = IF e.type = "transfer" THEN e.to ELSE e.owner
         /\ Says(e, "uri") = e.uri
         /\ \A c \in {"wallet", "metadata"} :
               Says(e, c) = IF e.type = "transfer" THEN None ELSE e.value
BY DEF Says

\* The cells of the contract's storage, before and after a step.
LEMMA ChainCells ==
  ASSUME NEW id, NEW k
  PROVE  /\ OnChain(id, "owner", k) = owner[id] /\ OnChain(id, "owner", k)' = owner'[id]
         /\ OnChain(id, "uri", k) = ChainUri(id) /\ OnChain(id, "uri", k)' = ChainUri(id)'
         /\ OnChain(id, "wallet", k) = wallet[id] /\ OnChain(id, "wallet", k)' = wallet'[id]
         /\ OnChain(id, "metadata", k) = metadata[id][k]
         /\ OnChain(id, "metadata", k)' = metadata'[id][k]
BY DEF OnChain

\* The events of a step against what it stores: registrations are of new agents,
\* every change of a cell is announced, and the last event about a cell says what
\* is stored there.
Tells(evs) ==
    /\ \A m \in DOMAIN evs :
          /\ owner'[evs[m].agent] # None
          /\ evs[m].type = "registered" =>
                /\ owner[evs[m].agent] = None
                /\ \A n \in DOMAIN evs : evs[n].type = "registered" => n = m
          /\ evs[m].type \in {"uri_updated", "transfer"} => owner[evs[m].agent] # None
    /\ \A id \in Agents :
          /\ owner[id] # None => owner'[id] # None
          /\ owner[id] = None /\ owner'[id] # None =>
                \E m \in DOMAIN evs : evs[m].type = "registered" /\ evs[m].agent = id
    /\ \A id \in Agents, c \in Columns, k \in Keys :
          /\ \A m \in DOMAIN evs :
                About(evs[m], id, c, k) /\ (\A n \in DOMAIN evs : m < n => ~About(evs[n], id, c, k))
                   => OnChain(id, c, k)' = Says(evs[m], c)
          /\ (\A m \in DOMAIN evs : ~About(evs[m], id, c, k)) =>
                /\ owner[id] # None => OnChain(id, c, k)' = OnChain(id, c, k)
                /\ owner[id] = None /\ owner'[id] # None => OnChain(id, c, k)' = None

\* Calls that publish nothing store nothing about an agent.
LEMMA SilentTells ==
  ASSUME UNCHANGED <<owner, uri, wallet, metadata>>
  PROVE  Tells(<<>>)
<1>1. DOMAIN <<>> = {}
  OBVIOUS
<1>2. \A id \in Agents, c \in Columns, k \in Keys : OnChain(id, c, k)' = OnChain(id, c, k)
  BY ChainCells DEF Columns, ChainUri
<1> QED
  BY <1>1, <1>2 DEF Tells

\* The fields of the events.
LEMMA EventShapes ==
  ASSUME NEW id, NEW x, NEW y
  PROVE  /\ Registered(id, x, y).type = "registered" /\ Registered(id, x, y).agent = id
         /\ Registered(id, x, y).owner = x /\ Registered(id, x, y).uri = y
         /\ UriUpdated(id, x, y).type = "uri_updated" /\ UriUpdated(id, x, y).agent = id
         /\ UriUpdated(id, x, y).uri = y
         /\ MetadataSet(id, x, y).type = "metadata_set" /\ MetadataSet(id, x, y).agent = id
         /\ MetadataSet(id, x, y).key = x /\ MetadataSet(id, x, y).value = y
         /\ Transferred(id, x, y).type = "transfer" /\ Transferred(id, x, y).agent = id
         /\ Transferred(id, x, y).to = y
BY DEF Registered, UriUpdated, MetadataSet, Transferred

\* A call with one event about an agent that exists.
LEMMA OneEventTells ==
  ASSUME TypeOK, NEW a \in Agents, owner[a] # None, UNCHANGED owner, NEW e, e.agent = a,
         e.type \in {"uri_updated", "metadata_set"},
         \A id \in Agents, c \in Columns, k \in Keys :
            IF About(e, id, c, k) THEN OnChain(id, c, k)' = Says(e, c)
            ELSE OnChain(id, c, k)' = OnChain(id, c, k)
  PROVE  Tells(<<e>>)
<1> DEFINE evs == <<e>>
<1>1. DOMAIN evs = {1} /\ evs[1] = e
  OBVIOUS
<1> HIDE DEF evs
<1>2. Tells(evs)
  BY <1>1 DEF Tells
<1> QED
  BY <1>2 DEF evs

\* set_agent_uri announces what it stores.
LEMMA SetAgentUriTells ==
  ASSUME TypeOK, NEW x \in Addresses, NEW a \in Agents, NEW u \in Uris, SetAgentUri(x, a, u)
  PROVE  tx'.events = <<UriUpdated(a, x, u)>> /\ Tells(<<UriUpdated(a, x, u)>>)
<1> DEFINE e == UriUpdated(a, x, u)
<1>1. /\ owner[a] # None /\ UNCHANGED <<owner, wallet, metadata>>
      /\ uri' = [uri EXCEPT ![a] = u]
      /\ tx' = [signers |-> {x}, events |-> <<e>>]
  BY DEF SetAgentUri, OwnerOrApproved, AgentExists, Invocation
<1>2. e.type = "uri_updated" /\ e.agent = a /\ e.uri = u
  BY EventShapes
<1> HIDE DEF e
<1>3. u # None
  BY IdentityAssumption
<1>4. ASSUME NEW id \in Agents, NEW c \in Columns, NEW k \in Keys
      PROVE  IF About(e, id, c, k) THEN OnChain(id, c, k)' = Says(e, c)
             ELSE OnChain(id, c, k)' = OnChain(id, c, k)
  <2>1. About(e, id, c, k) <=> id = a /\ c = "uri"
    BY <1>2, WritesFacts DEF About
  <2>2. CASE id = a /\ c = "uri"
    <3>1. ChainUri(a)' = u
      BY <1>1, <1>3 DEF ChainUri, TypeOK
    <3> QED
      BY <2>1, <2>2, <3>1, <1>2, ChainCells, SaysFacts
  <2>3. CASE ~(id = a /\ c = "uri")
    <3>1. CASE c = "uri"
      <4>1. ChainUri(id)' = ChainUri(id)
        BY <2>3, <3>1, <1>1 DEF ChainUri, TypeOK
      <4> QED
        BY <2>1, <2>3, <3>1, <4>1, ChainCells
    <3>2. CASE c # "uri"
      BY <2>1, <2>3, <3>2, <1>1, ChainCells DEF Columns
    <3> QED
      BY <3>1, <3>2
  <2> QED
    BY <2>2, <2>3
<1> QED
  BY <1>1, <1>2, <1>4, OneEventTells DEF e

\* set_metadata announces what it stores.
LEMMA SetMetadataTells ==
  ASSUME TypeOK, NEW x \in Addresses, NEW a \in Agents, NEW key \in Keys, NEW v \in Values,
         SetMetadata(x, a, key, v)
  PROVE  tx'.events = <<MetadataSet(a, key, v)>> /\ Tells(<<MetadataSet(a, key, v)>>)
<1> DEFINE e == MetadataSet(a, key, v)
<1>1. /\ owner[a] # None /\ UNCHANGED <<owner, wallet, uri>> /\ key # ReservedKey
      /\ metadata' = [metadata EXCEPT ![a][key] = v]
      /\ tx' = [signers |-> {x}, events |-> <<e>>]
  BY DEF SetMetadata, OwnerOrApproved, AgentExists, Invocation
<1>2. e.type = "metadata_set" /\ e.agent = a /\ e.key = key /\ e.value = v
  BY EventShapes
<1> HIDE DEF e
<1>3. ASSUME NEW id \in Agents, NEW c \in Columns, NEW k \in Keys
      PROVE  IF About(e, id, c, k) THEN OnChain(id, c, k)' = Says(e, c)
             ELSE OnChain(id, c, k)' = OnChain(id, c, k)
  <2>1. About(e, id, c, k) <=> id = a /\ c = "metadata" /\ k = key
    BY <1>1, <1>2, WritesFacts DEF About
  <2>2. CASE id = a /\ c = "metadata" /\ k = key
    <3>1. metadata'[a][key] = v
      BY <1>1 DEF TypeOK
    <3> QED
      BY <2>1, <2>2, <3>1, <1>2, ChainCells, SaysFacts
  <2>3. CASE ~(id = a /\ c = "metadata" /\ k = key)
    <3>1. CASE c = "metadata"
      <4>1. metadata'[id][k] = metadata[id][k]
        BY <2>3, <3>1, <1>1 DEF TypeOK
      <4> QED
        BY <2>1, <2>3, <3>1, <4>1, ChainCells
    <3>2. CASE c # "metadata"
      BY <2>1, <2>3, <3>2, <1>1, ChainCells DEF Columns, ChainUri
    <3> QED
      BY <3>1, <3>2
  <2> QED
    BY <2>2, <2>3
<1> QED
  BY <1>1, <1>2, <1>3, OneEventTells DEF e

\* So do set_agent_wallet and unset_agent_wallet.
LEMMA WalletTells ==
  ASSUME TypeOK, NEW a \in Agents, NEW w \in Addresses \cup {None}, NEW signers,
         owner[a] # None, UNCHANGED <<owner, metadata, uri>>,
         wallet' = [wallet EXCEPT ![a] = w], Invocation(signers, <<WalletSet(a, w)>>)
  PROVE  tx'.events = <<WalletSet(a, w)>> /\ Tells(<<WalletSet(a, w)>>)
<1> DEFINE e == WalletSet(a, w)
<1>1. tx'.events = <<e>>
  BY DEF Invocation
<1>2. e.type = "metadata_set" /\ e.agent = a /\ e.key = ReservedKey /\ e.value = w
  BY EventShapes DEF WalletSet
<1> HIDE DEF e
<1>3. ASSUME NEW id \in Agents, NEW c \in Columns, NEW k \in Keys
      PROVE  IF About(e, id, c, k) THEN OnChain(id, c, k)' = Says(e, c)
             ELSE OnChain(id, c, k)' = OnChain(id, c, k)
  <2>1. About(e, id, c, k) <=> id = a /\ c = "wallet"
    BY <1>2, WritesFacts DEF About
  <2>2. CASE id = a /\ c = "wallet"
    <3>1. wallet'[a] = w
      BY DEF TypeOK
    <3> QED
      BY <2>1, <2>2, <3>1, <1>2, ChainCells, SaysFacts
  <2>3. CASE ~(id = a /\ c = "wallet")
    <3>1. CASE c = "wallet"
      <4>1. wallet'[id] = wallet[id]
        BY <2>3, <3>1 DEF TypeOK
      <4> QED
        BY <2>1, <2>3, <3>1, <4>1, ChainCells
    <3>2. CASE c # "wallet"
      BY <2>1, <2>3, <3>2, ChainCells DEF Columns, ChainUri
    <3> QED
      BY <3>1, <3>2
  <2> QED
    BY <2>2, <2>3
<1> QED
  BY <1>1, <1>2, <1>3, OneEventTells DEF e

\* A transfer announces the removed wallet and, with the new owner, that the
\* metadata is gone.
LEMMA HandoverTells ==
  ASSUME IdentityInv, NEW x \in Addresses, NEW f \in Addresses, NEW t \in Addresses,
         NEW a \in Agents, Handover(x, f, t, a)
  PROVE  LET evs == <<WalletSet(a, None), Transferred(a, f, t)>>
         IN tx'.events = evs /\ Tells(evs)
<1> DEFINE e == WalletSet(a, None)
           g == Transferred(a, f, t)
           evs == <<e, g>>
<1>1. /\ owner[a] = f /\ owner' = [owner EXCEPT ![a] = t] /\ UNCHANGED uri
      /\ tx'.events = evs
  BY DEF Handover, MoveToken, Invocation
<1>2. /\ e.type = "metadata_set" /\ e.agent = a /\ e.key = ReservedKey
      /\ g.type = "transfer" /\ g.agent = a /\ g.to = t
  BY EventShapes DEF WalletSet
<1>3. DOMAIN evs = {1, 2} /\ evs[1] = e /\ evs[2] = g
  OBVIOUS
<1>4. /\ wallet'[a] = None /\ metadata'[a] = NoMetadata
      /\ \A j \in Agents \ {a} : /\ owner'[j] = owner[j] /\ wallet'[j] = wallet[j]
                                 /\ metadata'[j] = metadata[j]
  BY HandoverStep
<1>5. f # None /\ t # None /\ owner'[a] = t
  BY <1>1, IdentityAssumption DEF IdentityInv, TypeOK
<1> HIDE DEF e, g, evs
<1>6. /\ \A m \in DOMAIN evs : /\ owner'[evs[m].agent] # None /\ owner[evs[m].agent] # None
                               /\ evs[m].type # "registered"
      /\ \A id \in Agents : owner[id] # None <=> owner'[id] # None
  BY <1>1, <1>2, <1>3, <1>4, <1>5
<1>7. ASSUME NEW id \in Agents, NEW c \in Columns, NEW k \in Keys
      PROVE  /\ \A m \in DOMAIN evs :
                   /\ About(evs[m], id, c, k)
                   /\ \A n \in DOMAIN evs : m < n => ~About(evs[n], id, c, k)
                   => OnChain(id, c, k)' = Says(evs[m], c)
             /\ (\A m \in DOMAIN evs : ~About(evs[m], id, c, k))
                   => OnChain(id, c, k)' = OnChain(id, c, k)
  <2>1. /\ About(evs[1], id, c, k) <=> id = a /\ c = "wallet"
        /\ About(evs[2], id, c, k) <=> id = a /\ c # "uri"
    BY <1>2, <1>3, WritesFacts DEF About
  <2>2. CASE id = a /\ c # "uri"
    <3>1. OnChain(id, c, k)' = Says(evs[2], c)
      <4>1. OnChain(a, "owner", k)' = t /\ OnChain(a, "wallet", k)' = None
            /\ OnChain(a, "metadata", k)' = None
        BY <1>4, <1>5, ChainCells DEF NoMetadata
      <4>2. /\ Says(g, "owner") = t /\ Says(g, "wallet") = None /\ Says(g, "metadata") = None
        BY <1>2, SaysFacts
      <4> QED
        BY <4>1, <4>2, <2>2, <1>3 DEF Columns
    <3> QED
      BY <2>1, <2>2, <3>1, <1>3
  <2>3. CASE id # a \/ c = "uri"
    <3>1. OnChain(id, c, k)' = OnChain(id, c, k)
      BY <2>3, <1>1, <1>4, ChainCells DEF Columns, ChainUri
    <3> QED
      BY <2>1, <2>3, <3>1, <1>3
  <2> QED
    BY <2>2, <2>3
<1>8. Tells(evs)
  BY <1>6, <1>7 DEF Tells
<1> QED
  BY <1>1, <1>8 DEF evs, e, g

\* A sequence between two elements.
LEMMA Framed ==
  ASSUME NEW S, NEW x \in S, NEW y \in S, NEW q \in Seq(S)
  PROVE  LET r == <<x>> \o q \o <<y>>
             n == Len(q)
         IN /\ DOMAIN r = 1 .. n + 2 /\ r[1] = x /\ r[n + 2] = y
            /\ \A i \in 1 .. n : r[i + 1] = q[i]
<1> DEFINE n == Len(q)
           sx == <<x>>
           sy == <<y>>
           p == sx \o q
           r == p \o sy
<1>1. n \in Nat /\ sx \in Seq(S) /\ sy \in Seq(S) /\ Len(sx) = 1 /\ Len(sy) = 1
      /\ sx[1] = x /\ sy[1] = y
  OBVIOUS
<1> HIDE DEF sx, sy, n
<1>2. p \in Seq(S) /\ Len(p) = 1 + n
      /\ \A i \in 1 .. 1 + n : p[i] = IF i <= 1 THEN sx[i] ELSE q[i - 1]
  <2>1. p \in Seq(S) /\ Len(p) = Len(sx) + Len(q)
        /\ \A i \in 1 .. Len(sx) + Len(q) : p[i] = IF i <= Len(sx) THEN sx[i] ELSE q[i - Len(sx)]
    BY <1>1, ConcatProperties, Zenon
  <2> QED
    BY <2>1, <1>1 DEF n
<1> HIDE DEF p
<1>3. r \in Seq(S) /\ Len(r) = 1 + n + 1
      /\ \A i \in 1 .. 1 + n + 1 : r[i] = IF i <= 1 + n THEN p[i] ELSE sy[i - (1 + n)]
  <2>1. r \in Seq(S) /\ Len(r) = Len(p) + Len(sy)
        /\ \A i \in 1 .. Len(p) + Len(sy) : r[i] = IF i <= Len(p) THEN p[i] ELSE sy[i - Len(p)]
    BY <1>1, <1>2, ConcatProperties, Zenon
  <2> QED
    BY <2>1, <1>1, <1>2
<1> HIDE DEF r
<1>4. DOMAIN r = 1 .. n + 2
  BY <1>1, <1>3
<1>5. r[1] = x /\ r[n + 2] = y
  BY <1>1, <1>2, <1>3
<1>6. ASSUME NEW i \in 1 .. n
      PROVE  r[i + 1] = q[i]
  BY <1>1, <1>2, <1>3
<1> QED
  BY <1>4, <1>5, <1>6 DEF r, p, sx, sy, n

\* A registration announces the wallet, the metadata and last the agent.
LEMMA RegistrationTells ==
  ASSUME IdentityInv, NEW a, NEW s, NEW u, NEW l, Registration(a, s, u, l)
  PROVE  \E evs : tx'.events = evs /\ Tells(evs)
<1>0. PICK new : new = next_token_id
  OBVIOUS
<1> DEFINE n == Len(l)
           first == WalletSet(new, a)
           sets == [i \in DOMAIN l |-> MetadataSet(new, l[i].key, l[i].value)]
           last == Registered(new, a, u)
           evs == <<first>> \o sets \o <<last>>
<1>1. /\ a \in Addresses /\ l \in MetadataArgs
      /\ u = IF s = None THEN EmptyUri ELSE s
      /\ \A i \in DOMAIN l : l[i].key # ReservedKey
      /\ Mint(a, s, u, l)
  BY DEF Registration
<1>2. n \in Nat /\ DOMAIN l = 1 .. n /\ \A i \in 1 .. n : l[i].key \in Keys /\ l[i].value \in Values
  BY <1>1, ArgsShape
<1>3. /\ owner' = [owner EXCEPT ![new] = a] /\ uri' = [uri EXCEPT ![new] = s]
      /\ wallet' = [wallet EXCEPT ![new] = a]
      /\ metadata' = [metadata EXCEPT ![new] = [k \in Keys |-> LastValue(l, k)]]
      /\ tx'.events = evs /\ new < MaxAgents
  BY <1>0, <1>1 DEF Mint, Invocation
<1>4. /\ new \in Agents /\ owner[new] = None /\ owner'[new] = a /\ a # None
      /\ \A j \in Agents \ {new} : /\ owner'[j] = owner[j] /\ wallet'[j] = wallet[j]
                                   /\ metadata'[j] = metadata[j] /\ uri'[j] = uri[j]
      /\ wallet'[new] = a /\ uri'[new] = s /\ \A k \in Keys : metadata'[new][k] = LastValue(l, k)
  <2>1. new \in Agents
    BY <1>0, <1>3, IdentityAssumption DEF IdentityInv, TypeOK, Agents
  <2>2. owner[new] = None
    BY <1>0, <2>1 DEF IdentityInv, AgentsArePermanent, AgentExists, Agents
  <2> QED
    BY <2>1, <2>2, <1>1, <1>3, IdentityAssumption DEF IdentityInv, TypeOK
<1> HIDE DEF n
<1>5. /\ first.type = "metadata_set" /\ first.agent = new /\ first.key = ReservedKey
      /\ first.value = a
      /\ last.type = "registered" /\ last.agent = new /\ last.owner = a /\ last.uri = u
      /\ \A i \in 1 .. n : /\ sets[i].type = "metadata_set" /\ sets[i].agent = new
                           /\ sets[i].key = l[i].key /\ sets[i].value = l[i].value
  BY <1>2, EventShapes DEF WalletSet
<1>6. /\ DOMAIN evs = 1 .. n + 2 /\ evs[1] = first /\ evs[n + 2] = last
      /\ \A i \in 1 .. n : evs[i + 1] = sets[i]
  <2> DEFINE S == {first, last} \cup {sets[i] : i \in 1 .. n}
  <2>1. first \in S /\ last \in S /\ sets \in Seq(S) /\ Len(sets) = n
    BY <1>2
  <2> HIDE DEF first, last, sets, S
  <2> QED
    BY <2>1, Framed
<1> HIDE DEF evs, sets, first, last
<1>7. \A m \in 1 .. n + 2 : m = 1 \/ m = n + 2 \/ \E i \in 1 .. n : m = i + 1
  <2> TAKE m \in 1 .. n + 2
  <2>1. m # 1 /\ m # n + 2 => m - 1 \in 1 .. n /\ m = (m - 1) + 1
    BY <1>2
  <2> QED
    BY <2>1
<1>8. /\ \A m \in DOMAIN evs : /\ evs[m].agent = new
                               /\ evs[m].type \in {"metadata_set", "registered"}
                               /\ evs[m].type = "registered" <=> m = n + 2
      /\ n + 2 \in DOMAIN evs /\ 1 \in DOMAIN evs
  <2>1. n + 2 \in 1 .. n + 2 /\ 1 \in 1 .. n + 2 /\ \A i \in 1 .. n : i + 1 # n + 2
    BY <1>2
  <2>2. evs[1].agent = new /\ evs[1].type = "metadata_set" /\ 1 # n + 2
    BY <1>2, <1>5, <1>6
  <2>3. evs[n + 2].agent = new /\ evs[n + 2].type = "registered"
    BY <1>5, <1>6
  <2>4. \A i \in 1 .. n : evs[i + 1].agent = new /\ evs[i + 1].type = "metadata_set"
    BY <1>5, <1>6
  <2> QED
    BY <2>1, <2>2, <2>3, <2>4, <1>6, <1>7
\* The last entry of the list for a key is what storage holds.
<1>9. ASSUME NEW k \in Keys
      PROVE  /\ \A i \in 1 .. n : l[i].key = k /\ (\A j \in 1 .. n : i < j => l[j].key # k)
                   => LastValue(l, k) = l[i].value
             /\ (\A i \in 1 .. n : l[i].key # k) => LastValue(l, k) = None
  <2>1. (\A i \in 1 .. n : l[i].key # k) => LastValue(l, k) = None
    BY <1>2 DEF LastValue
  <2>2. ASSUME NEW i \in 1 .. n, l[i].key = k, \A j \in 1 .. n : i < j => l[j].key # k
        PROVE  LastValue(l, k) = l[i].value
    <3> DEFINE P(h) == l[h].key = k /\ \A j \in DOMAIN l : j > h => l[j].key # k
               h0 == CHOOSE h \in DOMAIN l : P(h)
    <3>1. LastValue(l, k) = l[h0].value
      BY <2>2, <1>2 DEF LastValue
    <3>2. i \in DOMAIN l /\ P(i)
      BY <2>2, <1>2
    <3>3. h0 \in DOMAIN l /\ P(h0)
      BY <3>2
    <3>4. h0 = i
      <4> HIDE DEF h0
      <4> QED
        BY <3>2, <3>3, <1>2
    <3> QED
      BY <3>1, <3>4
  <2> QED
    BY <2>1, <2>2
<1>10. ASSUME NEW id \in Agents, NEW c \in Columns, NEW k \in Keys
       PROVE  /\ \A m \in DOMAIN evs :
                    /\ About(evs[m], id, c, k)
                    /\ \A h \in DOMAIN evs : m < h => ~About(evs[h], id, c, k)
                    => OnChain(id, c, k)' = Says(evs[m], c)
              /\ (\A m \in DOMAIN evs : ~About(evs[m], id, c, k)) =>
                    /\ owner[id] # None => OnChain(id, c, k)' = OnChain(id, c, k)
                    /\ owner[id] = None /\ owner'[id] # None => OnChain(id, c, k)' = None
  <2>1. CASE id # new
    <3>1. \A m \in DOMAIN evs : ~About(evs[m], id, c, k)
      BY <2>1, <1>8 DEF About
    <3>2. OnChain(id, c, k)' = OnChain(id, c, k) /\ owner'[id] = owner[id]
      BY <2>1, <1>4, ChainCells DEF Columns, ChainUri
    <3> QED
      BY <3>1, <3>2
  <2>2. CASE id = new
    <3>1. /\ About(evs[1], id, c, k) <=> c = "wallet"
          /\ About(evs[n + 2], id, c, k) <=> c \in {"owner", "uri"}
          /\ \A i \in 1 .. n : About(evs[i + 1], id, c, k) <=> c = "metadata" /\ l[i].key = k
      BY <2>2, <1>1, <1>2, <1>5, <1>6, WritesFacts DEF About
    <3>2. CASE c \in {"owner", "uri"}
      <4>1. \A m \in DOMAIN evs : About(evs[m], id, c, k) <=> m = n + 2
        BY <3>1, <3>2, <1>6, <1>7, <1>8
      <4>2. OnChain(id, c, k)' = Says(last, c)
        <5>1. CASE c = "owner"
          BY <5>1, <2>2, <1>4, <1>5, ChainCells, SaysFacts
        <5>2. CASE c = "uri"
          <6>1. ChainUri(new)' = u
            BY <1>1, <1>4 DEF ChainUri
          <6> QED
            BY <5>2, <6>1, <2>2, <1>5, ChainCells, SaysFacts
        <5> QED
          BY <3>2, <5>1, <5>2
      <4> QED
        BY <4>1, <4>2, <1>6, <1>8
    <3>3. CASE c = "wallet"
      <4>1. \A m \in DOMAIN evs : About(evs[m], id, c, k) <=> m = 1
        BY <3>1, <3>3, <1>2, <1>6, <1>7, <1>8
      <4>2. OnChain(id, c, k)' = Says(first, c)
        BY <3>3, <2>2, <1>4, <1>5, ChainCells, SaysFacts
      <4> QED
        BY <4>1, <4>2, <1>6, <1>8
    <3>4. CASE c = "metadata"
      <4>1. \A m \in DOMAIN evs : About(evs[m], id, c, k) => \E i \in 1 .. n : m = i + 1 /\ l[i].key = k
        BY <3>1, <3>4, <1>6, <1>7
      <4>2. \A i \in 1 .. n : i + 1 \in DOMAIN evs
        BY <1>2, <1>6
      <4>3. OnChain(id, c, k)' = LastValue(l, k)
        BY <3>4, <2>2, <1>4, ChainCells
      <4>4. ASSUME NEW i \in 1 .. n, l[i].key = k,
                   \A h \in DOMAIN evs : i + 1 < h => ~About(evs[h], id, c, k)
            PROVE  OnChain(id, c, k)' = Says(evs[i + 1], c)
        <5>1. \A j \in 1 .. n : i < j => l[j].key # k
          <6> TAKE j \in 1 .. n
          <6>1. i < j => i + 1 < j + 1
            BY <1>2
          <6> QED
            BY <6>1, <4>2, <4>4, <3>1, <3>4
        <5>2. LastValue(l, k) = l[i].value
          BY <5>1, <4>4, <1>9
        <5>3. Says(evs[i + 1], c) = l[i].value
          BY <3>4, <1>5, <1>6, SaysFacts
        <5> QED
          BY <5>2, <5>3, <4>3
      <4>5. (\A m \in DOMAIN evs : ~About(evs[m], id, c, k)) => LastValue(l, k) = None
        BY <4>2, <3>1, <3>4, <1>9
      <4>6. owner[id] = None
        BY <2>2, <1>4
      <4> QED
        BY <4>1, <4>3, <4>4, <4>5, <4>6
    <3> QED
      BY <3>2, <3>3, <3>4 DEF Columns
  <2> QED
    BY <2>1, <2>2
<1>11. /\ \A m \in DOMAIN evs : owner'[evs[m].agent] # None
       /\ \A id \in Agents : (owner[id] # None => owner'[id] # None)
                             /\ (owner[id] = None /\ owner'[id] # None => id = new)
  BY <1>4, <1>8
<1>12. Tells(evs)
  BY <1>4, <1>8, <1>10, <1>11 DEF Tells
<1> QED
  BY <1>3, <1>12

\* Every step of the registry.
LEMMA StepTells ==
  ASSUME IdentityInv, Next
  PROVE  /\ IdentityInv' /\ ledger <= ledger' /\ tx'.events \in Seq(Event)
         /\ \E evs : tx'.events = evs /\ Tells(evs)
<1>1. IdentityInv' /\ TypeOK /\ TypeOK'
  BY IdentityStep DEF IdentityInv
<1>2. tx'.events \in Seq(Event) /\ ledger \in Nat /\ ledger' \in Nat
  BY <1>1, IdentityAssumption DEF TypeOK, Ledgers
<1>3. \/ ledger' = ledger
      \/ ledger' = ledger + 1
  <2>1. ASSUME NEW x, NEW s, NEW u, NEW l, Registration(x, s, u, l)
        PROVE  ledger' = ledger
    BY <2>1 DEF Registration, Mint
  <2>2. ASSUME NEW x, NEW id, NEW u, NEW v, NEW y,
               \/ SetAgentUri(x, id, u) \/ SetMetadata(x, id, u, v)
               \/ SetAgentWallet(u, x, id, v) \/ UnsetAgentWallet(x, id)
               \/ Handover(x, u, v, id) \/ Approve(x, u, id, v) \/ ApproveForAll(x, y, v)
        PROVE  ledger' = ledger
    BY <2>2 DEF SetAgentUri, SetMetadata, SetAgentWallet, UnsetAgentWallet, Handover,
       Approve, ApproveForAll
  <2>3. CloseLedger => ledger' = ledger + 1
    BY DEF CloseLedger
  <2> QED
    BY <2>1, <2>2, <2>3, Steps, Zenon
<1>4. ledger <= ledger'
  BY <1>2, <1>3
<1>5. \E evs : tx'.events = evs /\ Tells(evs)
  <2>1. ASSUME NEW s \in SUBSET Addresses, NEW a \in Addresses, NEW id \in Agents,
               NEW w \in Addresses, SetAgentWallet(s, a, id, w)
        PROVE  \E evs : tx'.events = evs /\ Tells(evs)
    BY <2>1, <1>1, WalletTells DEF SetAgentWallet, OwnerOrApproved, AgentExists
  <2>2. ASSUME NEW a \in Addresses, NEW id \in Agents, UnsetAgentWallet(a, id)
        PROVE  \E evs : tx'.events = evs /\ Tells(evs)
    BY <2>2, <1>1, WalletTells DEF UnsetAgentWallet, OwnerOrApproved, AgentExists
  <2>3. ASSUME tx'.events = <<>>, UNCHANGED <<owner, uri, wallet, metadata>>
        PROVE  \E evs : tx'.events = evs /\ Tells(evs)
    BY <2>3, SilentTells
  <2>4. ASSUME NEW a \in Addresses, NEW t \in Addresses, NEW id \in Agents, NEW n \in LiveUntil,
               Approve(a, t, id, n)
        PROVE  \E evs : tx'.events = evs /\ Tells(evs)
    BY <2>3, <2>4 DEF Approve, Invocation
  <2>5. ASSUME NEW o \in Addresses, NEW x \in Addresses, NEW n \in LiveUntil,
               ApproveForAll(o, x, n)
        PROVE  \E evs : tx'.events = evs /\ Tells(evs)
    BY <2>3, <2>5 DEF ApproveForAll, Invocation
  <2>6. CASE CloseLedger
    BY <2>3, <2>6 DEF CloseLedger, Invocation
  <2>7. ASSUME NEW a \in Addresses, NEW id \in Agents, NEW u \in Uris, SetAgentUri(a, id, u)
        PROVE  \E evs : tx'.events = evs /\ Tells(evs)
    BY <2>7, <1>1, SetAgentUriTells
  <2>8. ASSUME NEW a \in Addresses, NEW id \in Agents, NEW k \in Keys, NEW v \in Values,
               SetMetadata(a, id, k, v)
        PROVE  \E evs : tx'.events = evs /\ Tells(evs)
    BY <2>8, <1>1, SetMetadataTells
  <2>9. ASSUME NEW x \in Addresses, NEW f \in Addresses, NEW t \in Addresses, NEW id \in Agents,
               Handover(x, f, t, id)
        PROVE  \E evs : tx'.events = evs /\ Tells(evs)
    BY <2>9, HandoverTells
  <2> QED
    BY <2>1, <2>2, <2>4, <2>5, <2>6, <2>7, <2>8, <2>9, Steps, RegistrationTells
<1> QED
  BY <1>1, <1>2, <1>4, <1>5

\* Every step of the database leaves the chain and its log alone.
LEMMA ChainStays ==
  ASSUME ChainInv, UNCHANGED <<chain, log>>
  PROVE  ChainInv'
<1>1. IdentityInv'
  BY IdentityStep DEF ChainInv, chain
<1>2. LogOrdered' /\ RegisteredOnce'
  BY DEF ChainInv, LogOrdered, RegisteredOnce, Entries, RegistrationOf, IsRegistration,
     AgentExists, chain, vars
<1>3. LogTellsChain'
  <2>1. ASSUME NEW id, NEW c, NEW k
        PROVE  OnChain(id, c, k)' = OnChain(id, c, k) /\ AgentExists(id)' = AgentExists(id)
    BY DEF OnChain, ChainUri, AgentExists, chain, vars
  <2>2. ASSUME NEW i, NEW id, NEW c, NEW k
        PROVE  Sets(i, id, c, k)' = Sets(i, id, c, k)
    BY DEF Sets
  <2> QED
    BY <2>1, <2>2 DEF ChainInv, LogTellsChain, Entries
<1> QED
  BY <1>1, <1>2, <1>3 DEF ChainInv

\* What Publish appends.
LEMMA PublishedLog ==
  ASSUME ChainInv, Publish
  PROVE  \E N, M \in Nat : \E evs \in Seq(Event) :
            /\ Tells(evs) /\ IdentityInv' /\ ledger <= ledger'
            /\ DOMAIN evs = 1 .. M /\ Entries = 1 .. N /\ Entries' = 1 .. N + M
            /\ log' \in Seq(LogEntry)
            /\ \A i \in 1 .. N : log'[i] = log[i]
            /\ \A m \in 1 .. M : log'[N + m].event = evs[m] /\ log'[N + m].ledger = ledger
<1>1. Next
  BY DEF Publish, Next
<1>2. PICK evs : tx'.events = evs /\ Tells(evs)
  BY <1>1, StepTells DEF ChainInv
<1>3. IdentityInv' /\ ledger <= ledger' /\ evs \in Seq(Event)
  BY <1>1, <1>2, StepTells DEF ChainInv
<1> DEFINE N == Len(log)
           M == Len(evs)
           stamp == Transactions + 1
           s == [i \in DOMAIN evs |-> [event |-> evs[i], ledger |-> ledger, txHash |-> stamp]]
<1>4. log \in Seq(LogEntry) /\ ledger \in Ledgers
  BY DEF ChainInv, LogOrdered, IdentityInv, TypeOK
<1>5. N \in Nat /\ M \in Nat /\ DOMAIN log = 1 .. N /\ DOMAIN evs = 1 .. M
  BY <1>3, <1>4
<1>6. stamp \in Nat
  <2>1. CASE log = <<>>
    BY <2>1 DEF Transactions
  <2>2. CASE log # <<>>
    <3>1. log[Len(log)] \in LogEntry
      BY <2>2, <1>4
    <3> QED
      BY <2>2, <3>1 DEF Transactions, LogEntry
  <2> QED
    BY <2>1, <2>2
<1> HIDE DEF stamp
<1>7. s \in Seq(LogEntry) /\ Len(s) = M
  <2>1. \A i \in 1 .. M : evs[i] \in Event
    BY <1>3
  <2>2. \A i \in 1 .. M : s[i] \in LogEntry
    BY <2>1, <1>4, <1>5, <1>6 DEF LogEntry
  <2>3. DOMAIN s = 1 .. M
    BY <1>5
  <2>4. s \in [1 .. M -> LogEntry]
    BY <2>2, <2>3
  <2> HIDE DEF s
  <2> QED
    BY <2>4, <1>5
<1>8. log' = log \o s
  BY <1>2 DEF Publish, stamp
<1>9. \A m \in 1 .. M : s[m].event = evs[m] /\ s[m].ledger = ledger
  BY <1>5
<1> HIDE DEF s, M
<1>10. /\ log' \in Seq(LogEntry) /\ Len(log') = N + M
       /\ \A i \in 1 .. N + M : log'[i] = IF i <= N THEN log[i] ELSE s[i - N]
  <2>1. /\ log \o s \in Seq(LogEntry) /\ Len(log \o s) = Len(log) + Len(s)
        /\ \A i \in 1 .. Len(log) + Len(s) :
              (log \o s)[i] = IF i <= Len(log) THEN log[i] ELSE s[i - Len(log)]
    BY <1>4, <1>7, ConcatProperties, Zenon
  <2> QED
    BY <2>1, <1>7, <1>8
<1> HIDE DEF N
<1>11. Entries = 1 .. N /\ Entries' = 1 .. N + M
  BY <1>5, <1>10 DEF Entries
<1>12. /\ \A i \in 1 .. N : log'[i] = log[i]
       /\ \A m \in 1 .. M : log'[N + m].event = evs[m] /\ log'[N + m].ledger = ledger
  <2>1. \A i \in 1 .. N : log'[i] = log[i]
    BY <1>5, <1>10
  <2>2. \A m \in 1 .. M : log'[N + m] = s[m]
    <3> TAKE m \in 1 .. M
    <3>1. N + m \in 1 .. N + M /\ ~(N + m <= N) /\ (N + m) - N = m
      BY <1>5
    <3> QED
      BY <3>1, <1>10
  <2> QED
    BY <2>1, <2>2, <1>9
<1> QED
  BY <1>2, <1>3, <1>5, <1>10, <1>11, <1>12

\* The log keeps telling what the contract stores.
LEMMA PublishKeeps ==
  ASSUME ChainInv, Publish
  PROVE  ChainInv'
<1>1. PICK N \in Nat, M \in Nat, evs \in Seq(Event) :
            /\ Tells(evs) /\ IdentityInv' /\ ledger <= ledger'
            /\ DOMAIN evs = 1 .. M /\ Entries = 1 .. N /\ Entries' = 1 .. N + M
            /\ log' \in Seq(LogEntry)
            /\ \A i \in 1 .. N : log'[i] = log[i]
            /\ \A m \in 1 .. M : log'[N + m].event = evs[m] /\ log'[N + m].ledger = ledger
  BY PublishedLog
<1>log. /\ \A i \in 1 .. N : log'[i] = log[i]
        /\ \A m \in 1 .. M : log'[N + m].event = evs[m] /\ log'[N + m].ledger = ledger
        /\ ledger <= ledger'
  BY <1>1
<1>evs. /\ \A m \in 1 .. M :
              /\ owner'[evs[m].agent] # None
              /\ evs[m].type = "registered" =>
                    /\ owner[evs[m].agent] = None
                    /\ \A n \in 1 .. M : evs[n].type = "registered" => n = m
              /\ evs[m].type \in {"uri_updated", "transfer"} => owner[evs[m].agent] # None
        /\ \A id \in Agents :
              /\ owner[id] # None => owner'[id] # None
              /\ owner[id] = None /\ owner'[id] # None =>
                    \E m \in 1 .. M : evs[m].type = "registered" /\ evs[m].agent = id
  BY <1>1, Zenon DEF Tells
<1>2. ASSUME NEW i \in 1 .. N + M, i \notin 1 .. N
      PROVE  \E m \in 1 .. M : i = N + m
  <2>1. i - N \in 1 .. M /\ i = N + (i - N)
    BY <1>2
  <2> QED
    BY <2>1
<1>3. /\ \A i \in 1 .. N : i \in 1 .. N + M
      /\ \A m \in 1 .. M : N + m \in 1 .. N + M /\ N + m \notin 1 .. N
                           /\ \A i \in 1 .. N : i < N + m
      /\ \A m, h \in 1 .. M : N + m < N + h <=> m < h
  OBVIOUS
<1>4. LogOrdered /\ RegisteredOnce /\ LogTellsChain
  BY DEF ChainInv
<1>5. /\ ledger \in Nat /\ ledger' \in Nat
      /\ \A i \in 1 .. N : log[i].ledger \in Nat /\ log[i].event.agent \in Agents
      /\ \A m \in 1 .. M : evs[m].agent \in Agents
  <2>1. ledger \in Nat /\ ledger' \in Nat
    BY <1>1, IdentityAssumption DEF ChainInv, IdentityInv, TypeOK, Ledgers
  <2>2. \A e \in Event : e.agent \in Agents
    BY DEF Event
  <2>3. ASSUME NEW i \in 1 .. N
        PROVE  log[i].ledger \in Nat /\ log[i].event.agent \in Agents
    <3>1. log[i] \in LogEntry
      BY <1>1, <1>4 DEF LogOrdered, Entries
    <3> QED
      BY <3>1, <2>2, IdentityAssumption DEF LogEntry, Ledgers
  <2>4. \A m \in 1 .. M : evs[m] \in Event
    BY <1>1
  <2> QED
    BY <2>1, <2>2, <2>3, <2>4
<1>6. LogOrdered'
  <2>1. \A i \in 1 .. N : log[i].ledger <= ledger
    BY <1>1, <1>4 DEF LogOrdered
  <2>2. ASSUME NEW i \in 1 .. N + M
        PROVE  /\ log'[i].ledger \in Nat /\ log'[i].ledger <= ledger'
               /\ log'[i].ledger <= ledger
    <3>1. CASE i \in 1 .. N
      BY <3>1, <2>1, <1>log, <1>5
    <3>2. CASE i \notin 1 .. N
      <4>1. log'[i].ledger = ledger
        BY <3>2, <1>2, <1>log
      <4> QED
        BY <4>1, <1>5, <1>log
    <3> QED
      BY <3>1, <3>2
  <2>3. ASSUME NEW i \in 1 .. N + M, NEW j \in 1 .. N + M, i < j
        PROVE  log'[i].ledger <= log'[j].ledger
    <3>1. CASE j \in 1 .. N
      <4>1. i \in 1 .. N
        BY <2>3, <3>1
      <4> QED
        BY <2>3, <3>1, <4>1, <1>1, <1>4 DEF LogOrdered
    <3>2. CASE j \notin 1 .. N
      <4>1. log'[j].ledger = ledger
        BY <3>2, <1>1, <1>2
      <4> QED
        BY <4>1, <2>2
    <3> QED
      BY <3>1, <3>2
  <2> QED
    BY <2>2, <2>3, <1>1 DEF LogOrdered
<1>7. /\ \A id \in Agents : owner[id] # None => \E k \in 1 .. N : RegistrationOf(k, id)
      /\ \A i \in 1 .. N :
            /\ owner[log[i].event.agent] # None
            /\ \E k \in 1 .. N : RegistrationOf(k, log[i].event.agent)
                                 /\ log[k].ledger <= log[i].ledger
            /\ \A k \in 1 .. N : RegistrationOf(k, log[i].event.agent) =>
                  /\ IsRegistration(i) => i = k
                  /\ log[i].event.type \in {"uri_updated", "transfer"} => k < i
  BY <1>1, <1>4 DEF RegisteredOnce, AgentExists
<1>8. /\ \A i \in 1 .. N : /\ IsRegistration(i)' = IsRegistration(i)
                           /\ \A id : RegistrationOf(i, id)' = RegistrationOf(i, id)
      /\ \A m \in 1 .. M : /\ IsRegistration(N + m)' <=> evs[m].type = "registered"
                           /\ \A id : RegistrationOf(N + m, id)' <=>
                                         evs[m].type = "registered" /\ evs[m].agent = id
  BY <1>1 DEF IsRegistration, RegistrationOf
<1>9. RegisteredOnce'
  <2>1. ASSUME NEW id \in Agents, owner'[id] # None
        PROVE  \E k \in 1 .. N + M : RegistrationOf(k, id)'
    <3>1. CASE owner[id] # None
      BY <3>1, <1>3, <1>7, <1>8
    <3>2. CASE owner[id] = None
      <4>1. PICK m \in 1 .. M : evs[m].type = "registered" /\ evs[m].agent = id
        BY <2>1, <3>2, <1>evs
      <4> QED
        BY <4>1, <1>3, <1>8
    <3> QED
      BY <3>1, <3>2
  <2>2. ASSUME NEW i \in 1 .. N, NEW a \in Agents, log[i].event.agent = a
        PROVE  /\ owner'[a] # None
               /\ \E k \in 1 .. N + M : /\ RegistrationOf(k, a)'
                                        /\ log'[k].ledger <= log'[i].ledger
               /\ \A k \in 1 .. N + M : RegistrationOf(k, a)' =>
                     /\ IsRegistration(i)' => i = k
                     /\ log'[i].event.type \in {"uri_updated", "transfer"} => k < i
    <3>1. owner[a] # None /\ owner'[a] # None
      BY <2>2, <1>5, <1>7, <1>evs
    <3>2. \E k \in 1 .. N + M : /\ RegistrationOf(k, a)'
                                /\ log'[k].ledger <= log'[i].ledger
      <4>1. PICK k \in 1 .. N : /\ RegistrationOf(k, a)
                                /\ log[k].ledger <= log[i].ledger
        BY <2>2, <1>7
      <4> QED
        BY <4>1, <1>log, <1>3, <1>8
    <3>3. ASSUME NEW k \in 1 .. N + M, RegistrationOf(k, a)'
          PROVE  k \in 1 .. N
      <4>1. SUFFICES ASSUME k \notin 1 .. N PROVE FALSE
        OBVIOUS
      <4>2. PICK m \in 1 .. M : k = N + m
        BY <4>1, <1>2
      <4> QED
        <5>1. evs[m].type = "registered" /\ evs[m].agent = a
          BY <4>2, <3>3, <1>8
        <5> QED
          BY <5>1, <3>1, <1>evs
    <3>4. ASSUME NEW k \in 1 .. N + M, RegistrationOf(k, a)'
          PROVE  /\ IsRegistration(i)' => i = k
                 /\ log'[i].event.type \in {"uri_updated", "transfer"} => k < i
      <4>1. k \in 1 .. N /\ RegistrationOf(k, a)
        BY <3>3, <3>4, <1>8
      <4>2. /\ IsRegistration(i) => i = k
            /\ log[i].event.type \in {"uri_updated", "transfer"} => k < i
        BY <4>1, <2>2, <1>7, Zenon
      <4>3. IsRegistration(i)' = IsRegistration(i) /\ log'[i] = log[i]
        BY <1>log, <1>8
      <4> QED
        BY <4>2, <4>3
    <3> QED
      BY <3>1, <3>2, <3>4
  <2>3. ASSUME NEW m \in 1 .. M
        PROVE  /\ owner'[evs[m].agent] # None
               /\ \E k \in 1 .. N + M : /\ RegistrationOf(k, evs[m].agent)'
                                        /\ log'[k].ledger <= log'[N + m].ledger
               /\ \A k \in 1 .. N + M : RegistrationOf(k, evs[m].agent)' =>
                     /\ IsRegistration(N + m)' => N + m = k
                     /\ log'[N + m].event.type \in {"uri_updated", "transfer"} => k < N + m
    <3>1. owner'[evs[m].agent] # None
      BY <1>evs
    <3>2. \E k \in 1 .. N + M : /\ RegistrationOf(k, evs[m].agent)'
                                /\ log'[k].ledger <= log'[N + m].ledger
      <4>1. PICK k \in 1 .. N + M : RegistrationOf(k, evs[m].agent)'
        BY <3>1, <2>1, <1>5
      <4>2. log'[k].ledger <= ledger
        <5>1. CASE k \in 1 .. N
          BY <5>1, <1>1, <1>4 DEF LogOrdered
        <5>2. CASE k \notin 1 .. N
          <6>1. log'[k].ledger = ledger
            BY <5>2, <1>2, <1>log
          <6> QED
            BY <6>1, <1>5
        <5> QED
          BY <5>1, <5>2
      <4> QED
        BY <4>1, <4>2, <1>1
    <3>3. ASSUME NEW k \in 1 .. N + M, RegistrationOf(k, evs[m].agent)'
          PROVE  /\ evs[m].type = "registered" => N + m = k
                 /\ evs[m].type \in {"uri_updated", "transfer"} => k < N + m
      <4>1. CASE k \in 1 .. N
        <5>1. owner[evs[m].agent] # None
          <6>1. RegistrationOf(k, evs[m].agent)
            BY <4>1, <3>3, <1>8
          <6> QED
            BY <6>1, <4>1, <1>7 DEF RegistrationOf
        <5>2. evs[m].type # "registered"
          BY <5>1, <1>evs
        <5> QED
          BY <5>2, <4>1, <1>3
      <4>2. CASE k \notin 1 .. N
        <5>1. PICK h \in 1 .. M : k = N + h
          BY <4>2, <1>2
        <5>2. evs[h].type = "registered" /\ evs[h].agent = evs[m].agent
          BY <5>1, <3>3, <1>8
        <5> QED
          BY <5>1, <5>2, <1>evs, <1>3
      <4> QED
        BY <4>1, <4>2
    <3> QED
      BY <3>1, <3>2, <3>3, <1>1, <1>8
  <2>4. ASSUME NEW i \in 1 .. N + M, NEW a \in Agents, log'[i].event.agent = a
        PROVE  /\ owner'[a] # None
               /\ \E k \in 1 .. N + M : /\ RegistrationOf(k, a)'
                                        /\ log'[k].ledger <= log'[i].ledger
               /\ \A k \in 1 .. N + M : RegistrationOf(k, a)' =>
                     /\ IsRegistration(i)' => i = k
                     /\ log'[i].event.type \in {"uri_updated", "transfer"} => k < i
    <3>1. CASE i \in 1 .. N
      <4>1. log'[i].event = log[i].event
        BY <3>1, <1>log
      <4> QED
        BY <3>1, <4>1, <2>2, <2>4
    <3>2. CASE i \notin 1 .. N
      <4>1. PICK m \in 1 .. M : i = N + m
        BY <3>2, <1>2
      <4>2. log'[i].event = evs[m]
        BY <4>1, <1>1
      <4> QED
        BY <4>1, <4>2, <2>3, <2>4
    <3> QED
      BY <3>1, <3>2
  <2> QED
    <3>1. Entries' = 1 .. N + M
      BY <1>1
    <3>2. \A i \in 1 .. N + M : log'[i].event.agent \in Agents
      BY <1>2, <1>5, <1>log
    <3>3. \A id \in Agents : owner'[id] # None => \E k \in 1 .. N + M : RegistrationOf(k, id)'
      BY <2>1
    <3> QED
      BY <2>4, <3>1, <3>2, <3>3 DEF RegisteredOnce, AgentExists, RegistrationOf, IsRegistration
<1>10. ASSUME NEW id \in Agents, NEW c \in Columns, NEW k \in Keys
       PROVE  /\ \A i \in 1 .. N + M :
                    Sets(i, id, c, k)' /\ (\A j \in 1 .. N + M : i < j => ~Sets(j, id, c, k)')
                       => OnChain(id, c, k)' = Says(log'[i].event, c)
              /\ owner'[id] # None /\ (\A i \in 1 .. N + M : ~Sets(i, id, c, k)')
                       => OnChain(id, c, k)' = None
  <2>1. /\ \A i \in 1 .. N : Sets(i, id, c, k)' = Sets(i, id, c, k)
        /\ \A m \in 1 .. M : Sets(N + m, id, c, k)' = About(evs[m], id, c, k)
    BY <1>1 DEF Sets
  <2>2. /\ \A i \in 1 .. N :
              Sets(i, id, c, k) /\ (\A j \in 1 .. N : i < j => ~Sets(j, id, c, k))
                 => OnChain(id, c, k) = Says(log[i].event, c)
        /\ owner[id] # None /\ (\A i \in 1 .. N : ~Sets(i, id, c, k)) => OnChain(id, c, k) = None
    BY <1>1, <1>4 DEF LogTellsChain, AgentExists
  <2>3. /\ \A m \in 1 .. M :
              About(evs[m], id, c, k) /\ (\A n \in 1 .. M : m < n => ~About(evs[n], id, c, k))
                 => OnChain(id, c, k)' = Says(evs[m], c)
        /\ (\A m \in 1 .. M : ~About(evs[m], id, c, k)) =>
              /\ owner[id] # None => OnChain(id, c, k)' = OnChain(id, c, k)
              /\ owner[id] = None /\ owner'[id] # None => OnChain(id, c, k)' = None
    <3>1. DOMAIN evs = 1 .. M /\ Tells(evs)
      BY <1>1
    <3>2. \A m \in DOMAIN evs :
             /\ About(evs[m], id, c, k)
             /\ \A n \in DOMAIN evs : m < n => ~About(evs[n], id, c, k)
             => OnChain(id, c, k)' = Says(evs[m], c)
      BY <3>1 DEF Tells
    <3>3. (\A m \in DOMAIN evs : ~About(evs[m], id, c, k)) =>
             /\ owner[id] # None => OnChain(id, c, k)' = OnChain(id, c, k)
             /\ owner[id] = None /\ owner'[id] # None => OnChain(id, c, k)' = None
      BY <3>1 DEF Tells
    <3> QED
      BY <3>1, <3>2, <3>3
  <2>4. ASSUME NEW i \in 1 .. N + M, Sets(i, id, c, k)',
               \A j \in 1 .. N + M : i < j => ~Sets(j, id, c, k)'
        PROVE  OnChain(id, c, k)' = Says(log'[i].event, c)
    <3>1. CASE i \in 1 .. N
      <4>1. \A m \in 1 .. M : ~About(evs[m], id, c, k)
        BY <3>1, <2>1, <2>4, <1>3
      <4>2. owner[id] # None
        BY <3>1, <2>1, <2>4, <1>7 DEF Sets, About
      <4>3. OnChain(id, c, k) = Says(log[i].event, c)
        BY <3>1, <2>1, <2>2, <2>4, <1>3
      <4> QED
        BY <3>1, <4>1, <4>2, <4>3, <2>3, <1>1
    <3>2. CASE i \notin 1 .. N
      <4>1. PICK m \in 1 .. M : i = N + m
        BY <3>2, <1>2
      <4>2. \A n \in 1 .. M : m < n => ~About(evs[n], id, c, k)
        BY <4>1, <2>1, <2>4, <1>3
      <4> QED
        BY <4>1, <4>2, <2>1, <2>3, <2>4, <1>1
    <3> QED
      BY <3>1, <3>2
  <2>5. ASSUME owner'[id] # None, \A i \in 1 .. N + M : ~Sets(i, id, c, k)'
        PROVE  OnChain(id, c, k)' = None
    <3>1. \A m \in 1 .. M : ~About(evs[m], id, c, k)
      BY <2>1, <2>5, <1>3
    <3>2. \A i \in 1 .. N : ~Sets(i, id, c, k)
      BY <2>1, <2>5, <1>3
    <3> QED
      BY <3>1, <3>2, <2>2, <2>3, <2>5
  <2> QED
    BY <2>4, <2>5
<1>11. LogTellsChain'
  BY <1>1, <1>10 DEF LogTellsChain, AgentExists
<1> QED
  BY <1>1, <1>6, <1>9, <1>11 DEF ChainInv

-----------------------------------------------------------------------------
(* What a statement does to a row *)

\* The fields of a row.
RowFields(r) ==
    /\ r.owner \in Addresses /\ r.uri \in Uris
    /\ r.uri_updated_ledger \in Ledgers \cup {None}
    /\ r.transferred_ledger \in Ledgers \cup {None}
    /\ r.wallet \in Addresses \cup Values \cup {None}
    /\ r.metadata \in [Keys -> Addresses \cup Values \cup {None}]
    /\ r.doc \in Uris \cup {None} /\ r.pending \in BOOLEAN /\ r.attempts \in Nat

\* A row has its fields, and is not the absent one.
LEMMA RowShape ==
  ASSUME NEW r \in Rows
  PROVE  RowFields(r) /\ r # None
BY ProjectionAssumption DEF Rows, RowFields

\* The fields of an event, by its type.
LEMMA EventFields ==
  ASSUME NEW e \in Event
  PROVE  /\ e.agent \in Agents
         /\ e.type \in {"registered", "uri_updated", "metadata_set", "transfer"}
         /\ e.type = "registered" => e.owner \in Addresses /\ e.uri \in Uris
         /\ e.type = "uri_updated" => e.uri \in Uris
         /\ e.type = "metadata_set" =>
               e.key \in Keys /\ e.value \in Values \cup Addresses \cup {None}
         /\ e.type = "transfer" => e.to \in Addresses
BY DEF Event

\* The row that Registered inserts.
LEMMA InsertedRow ==
  ASSUME NEW e \in Event, e.type = "registered", NEW l
  PROVE  LET s == Written(None, e, l)
         IN /\ s \in Rows
            /\ s.owner = e.owner /\ s.uri = e.uri /\ s.wallet = None /\ s.metadata = NoMetadata
            /\ s.uri_updated_ledger = None /\ s.transferred_ledger = None
            /\ s.doc = None /\ s.pending = (e.uri # EmptyUri)
<1> DEFINE s == Written(None, e, l)
<1>1. s = [owner |-> e.owner, uri |-> e.uri, uri_updated_ledger |-> None,
           wallet |-> None, transferred_ledger |-> None, metadata |-> NoMetadata,
           doc |-> None, pending |-> e.uri # EmptyUri, attempts |-> 0]
  BY DEF Written, OnRegistered
<1>2. NoMetadata \in [Keys -> Addresses \cup Values \cup {None}]
  BY DEF NoMetadata
<1>3. e.owner \in Addresses /\ e.uri \in Uris
  BY EventFields
<1> HIDE DEF s
<1>4. s \in Rows
  BY <1>1, <1>2, <1>3 DEF Rows
<1> QED
  BY <1>1, <1>4 DEF s

\* A replayed Registered leaves the row.
LEMMA KeptRow ==
  ASSUME NEW r, NEW e, NEW l, e.type = "registered", r # None
  PROVE  Written(r, e, l) = r
BY DEF Written, OnRegistered

\* UriUpdated on a row.
LEMMA UriUpdatedRow ==
  ASSUME NEW r \in Rows, NEW e \in Event, NEW l \in Ledgers, e.type = "uri_updated"
  PROVE  LET s == Written(r, e, l)
             applied == NotAfter(r.uri_updated_ledger, l)
                        /\ ~(r.uri_updated_ledger = l /\ r.uri = e.uri)
         IN /\ s \in Rows
            /\ s.owner = r.owner /\ s.wallet = r.wallet /\ s.metadata = r.metadata
            /\ s.transferred_ledger = r.transferred_ledger
            /\ applied => /\ s.uri = e.uri /\ s.uri_updated_ledger = l /\ s.doc = None
                          /\ s.pending = (e.uri # EmptyUri)
            /\ ~applied => s = r
<1> DEFINE s == Written(r, e, l)
           applied == NotAfter(r.uri_updated_ledger, l)
                      /\ ~(r.uri_updated_ledger = l /\ r.uri = e.uri)
           t == [r EXCEPT !.uri = e.uri, !.doc = None, !.attempts = 0,
                          !.pending = e.uri # EmptyUri, !.uri_updated_ledger = l]
<1>1. s = IF applied THEN t ELSE r
  BY RowShape DEF Written, OnUriUpdated
<1>2. e.uri \in Uris
  BY EventFields
<1>3. t \in Rows
  BY <1>2 DEF Rows
<1>4. /\ t.owner = r.owner /\ t.wallet = r.wallet /\ t.metadata = r.metadata
      /\ t.transferred_ledger = r.transferred_ledger
      /\ t.uri = e.uri /\ t.uri_updated_ledger = l /\ t.doc = None
      /\ t.pending = (e.uri # EmptyUri)
  BY DEF Rows
<1> HIDE DEF s, t, applied
<1> QED
  BY <1>1, <1>3, <1>4 DEF s, applied

\* Transferred on a row.
LEMMA TransferredRow ==
  ASSUME NEW r \in Rows, NEW e \in Event, NEW l \in Ledgers, e.type = "transfer"
  PROVE  LET s == Written(r, e, l)
             applied == NotAfter(r.transferred_ledger, l)
         IN /\ s \in Rows
            /\ s.uri = r.uri /\ s.uri_updated_ledger = r.uri_updated_ledger
            /\ s.doc = r.doc /\ s.pending = r.pending /\ s.attempts = r.attempts
            /\ applied => /\ s.owner = e.to /\ s.transferred_ledger = l
                          /\ s.wallet = None /\ s.metadata = NoMetadata
            /\ ~applied => s = r
<1> DEFINE s == Written(r, e, l)
           applied == NotAfter(r.transferred_ledger, l)
           t == [r EXCEPT !.owner = e.to, !.wallet = None, !.transferred_ledger = l,
                          !.metadata = NoMetadata]
<1>1. s = IF applied THEN t ELSE r
  BY RowShape DEF Written, OnTransferred
<1>2. e.to \in Addresses /\ NoMetadata \in [Keys -> Addresses \cup Values \cup {None}]
  BY EventFields DEF NoMetadata
<1>3. t \in Rows
  BY <1>2 DEF Rows
<1>4. /\ t.uri = r.uri /\ t.uri_updated_ledger = r.uri_updated_ledger
      /\ t.doc = r.doc /\ t.pending = r.pending /\ t.attempts = r.attempts
      /\ t.owner = e.to /\ t.transferred_ledger = l /\ t.wallet = None /\ t.metadata = NoMetadata
  BY DEF Rows
<1> HIDE DEF s, t, applied
<1> QED
  BY <1>1, <1>3, <1>4 DEF s, applied

\* MetadataSet on a row.
LEMMA MetadataSetRow ==
  ASSUME NEW r \in Rows, NEW e \in Event, NEW l \in Ledgers, e.type = "metadata_set"
  PROVE  LET s == Written(r, e, l)
         IN /\ s \in Rows
            /\ s.owner = r.owner /\ s.uri = r.uri
            /\ s.uri_updated_ledger = r.uri_updated_ledger
            /\ s.transferred_ledger = r.transferred_ledger
            /\ s.doc = r.doc /\ s.pending = r.pending /\ s.attempts = r.attempts
            /\ e.key = ReservedKey => s.wallet = e.value /\ s.metadata = r.metadata
            /\ e.key # ReservedKey => /\ s.wallet = r.wallet /\ s.metadata[e.key] = e.value
                                      /\ \A k \in Keys \ {e.key} : s.metadata[k] = r.metadata[k]
<1> DEFINE s == Written(r, e, l)
           t == [r EXCEPT !.wallet = e.value]
           m == [r.metadata EXCEPT ![e.key] = e.value]
           u == [r EXCEPT !.metadata = m]
<1>1. s = IF e.key = ReservedKey THEN t ELSE u
  BY RowShape DEF Written, OnMetadataSet
<1>2. e.key \in Keys /\ e.value \in Values \cup Addresses \cup {None}
  BY EventFields
<1>3. r.metadata \in [Keys -> Addresses \cup Values \cup {None}]
  BY DEF Rows
<1>4. /\ m \in [Keys -> Addresses \cup Values \cup {None}] /\ m[e.key] = e.value
      /\ \A k \in Keys \ {e.key} : m[k] = r.metadata[k]
  BY <1>2, <1>3
<1> HIDE DEF m
<1>5. t \in Rows /\ u \in Rows
  BY <1>2, <1>4 DEF Rows
<1>6. /\ t.owner = r.owner /\ t.uri = r.uri /\ t.uri_updated_ledger = r.uri_updated_ledger
      /\ t.transferred_ledger = r.transferred_ledger /\ t.doc = r.doc
      /\ t.pending = r.pending /\ t.attempts = r.attempts
      /\ t.wallet = e.value /\ t.metadata = r.metadata
  BY DEF Rows
<1>7. /\ u.owner = r.owner /\ u.uri = r.uri /\ u.uri_updated_ledger = r.uri_updated_ledger
      /\ u.transferred_ledger = r.transferred_ledger /\ u.doc = r.doc
      /\ u.pending = r.pending /\ u.attempts = r.attempts
      /\ u.wallet = r.wallet /\ u.metadata = m
  BY DEF Rows
<1> HIDE DEF s, t, u
<1> QED
  BY <1>1, <1>4, <1>5, <1>6, <1>7 DEF s

-----------------------------------------------------------------------------
(* The steps of the writers *)

\* The types of what the log holds.
LEMMA LogFacts ==
  ASSUME ChainInv
  PROVE  /\ ledger \in Nat /\ Ledgers \subseteq Nat /\ None \notin Addresses \cup Values \cup Uris
         /\ \A i \in Entries : /\ i \in Nat /\ log[i].ledger \in Ledgers /\ log[i].ledger \in Nat
                               /\ log[i].event \in Event /\ log[i].event.agent \in Agents
         /\ \A i, j \in Entries : log[i].ledger < log[j].ledger => i < j
<1>1. ledger \in Nat /\ Ledgers \subseteq Nat /\ None \notin Addresses \cup Values \cup Uris
  BY IdentityAssumption DEF ChainInv, IdentityInv, TypeOK, Ledgers
<1>2. log \in Seq(LogEntry) /\ \A i, j \in Entries : i < j => log[i].ledger <= log[j].ledger
  BY DEF ChainInv, LogOrdered
<1>3. ASSUME NEW i \in Entries
      PROVE  /\ i \in Nat /\ log[i].ledger \in Ledgers /\ log[i].ledger \in Nat
             /\ log[i].event \in Event /\ log[i].event.agent \in Agents
  <2>1. log[i] \in LogEntry /\ i \in Nat
    BY <1>2 DEF Entries
  <2> QED
    BY <2>1, <1>1, EventFields DEF LogEntry
<1>4. ASSUME NEW i \in Entries, NEW j \in Entries, log[i].ledger < log[j].ledger
      PROVE  i < j
  <2>1. i = j \/ i < j \/ j < i
    BY <1>3
  <2> QED
    BY <2>1, <1>2, <1>3, <1>4
<1> QED
  BY <1>1, <1>3, <1>4

\* The registry's invariants and the chain's log hold initially.
LEMMA ChainInit ==
  ASSUME ProjectionInit
  PROVE  ChainInv
<1>1. IdentityInv /\ Entries = {} /\ log \in Seq(LogEntry)
  BY IdentityInit DEF ProjectionInit, Entries
<1>2. \A id \in Agents : ~AgentExists(id)
  BY DEF ProjectionInit, Init, AgentExists
<1> QED
  BY <1>1, <1>2 DEF ChainInv, LogOrdered, RegisteredOnce, LogTellsChain

\* An idle run.
LEMMA IdleRun ==
  /\ NoRun \in RunStates /\ NoRun.pc = "idle"
  /\ \A x \in Nat : LET t == [NoRun EXCEPT !.pc = "index", !.from = x]
                    IN t \in RunStates /\ t.pc = "index" /\ t.from = x
BY DEF NoRun, RunStates

\* So does the writers' part.
LEMMA WriterInit ==
  ASSUME ProjectionInit
  PROVE  WriterInv
<1>1. /\ Entries = {} /\ expected = 0 /\ ledger = 0
      /\ row = [id \in Agents |-> None] /\ run = [w \in Writers |-> NoRun]
      /\ newest = [id \in Agents |-> [c \in GuardedColumns |-> None]] /\ alone = TRUE
  BY DEF ProjectionInit, Init, Entries
<1>2. ProjectionTypes
  BY <1>1, IdleRun DEF ProjectionTypes
<1>3. HaveRow(BelowLedger(expected))
  BY <1>1 DEF HaveRow, BelowLedger
<1>4. \A w \in Writers : Position(w)
  BY <1>1, IdleRun DEF Position, At
<1>5. Guards /\ OwnerAndUriNeverUndone /\ Documents
  BY <1>1 DEF Guards, OwnerAndUriNeverUndone, Documents, DocumentMatchesUri, NoUriStranded
<1> QED
  BY <1>1, <1>2, <1>3, <1>4, <1>5 DEF WriterInv

\* Rows are never deleted, so what a run passed keeps its rows.
LEMMA PositionStays ==
  ASSUME ChainInv, NEW v \in Writers, Position(v), UNCHANGED <<ledger, log>>, run'[v] = run[v],
         \A id \in Agents : row[id] # None => row'[id] # None
  PROVE  Position(v)'
<1>1. Entries' = Entries /\ Rest(v)' = Rest(v)
  BY DEF Entries, Rest
<1>2. \A i \in Entries : row[log[i].event.agent] # None => row'[log[i].event.agent] # None
  BY LogFacts
<1>3. At(v, "index")' => run'[v].from <= ledger' /\ HaveRow(BelowLedger(run[v].from))'
  BY <1>2 DEF Position, HaveRow, BelowLedger, At, Entries
<1>4. At(v, "write")' =>
          /\ run'[v].to < ledger' /\ run'[v].page \subseteq Entries'
          /\ \A i \in run'[v].page : log'[i].ledger <= run'[v].to
          /\ HaveRow(Entries \ Rest(v))'
          /\ \A i \in run'[v].page : \A j \in Entries' \ Rest(v)' : ~IsRegistration(j)' => j < i
  BY <1>1, <1>2 DEF Position, HaveRow, At, IsRegistration
<1>5. run'[v].pc \in {"try", "store"} =>
          run'[v].agent \in Agents /\ row'[run'[v].agent] # None /\ run'[v].uri \in Uris
  BY DEF Position
<1> QED
  BY <1>3, <1>4, <1>5 DEF Position

\* Nor does the checkpoint lose any.
LEMMA CheckpointStays ==
  ASSUME ChainInv, HaveRow(BelowLedger(expected)), UNCHANGED <<log, expected>>,
         \A id \in Agents : row[id] # None => row'[id] # None
  PROVE  HaveRow(BelowLedger(expected))'
<1>1. \A i \in Entries : row[log[i].event.agent] # None => row'[log[i].event.agent] # None
  BY LogFacts
<1> QED
  BY <1>1 DEF HaveRow, BelowLedger, Entries

\* A step that leaves the guarded columns and their ledgers.
LEMMA GuardsStay ==
  ASSUME Guards, OwnerAndUriNeverUndone, UNCHANGED <<owner, log, newest>>,
         \A id \in Agents :
            /\ row'[id] = None <=> row[id] = None
            /\ row'[id].owner = row[id].owner /\ row'[id].uri = row[id].uri
            /\ row'[id].transferred_ledger = row[id].transferred_ledger
            /\ row'[id].uri_updated_ledger = row[id].uri_updated_ledger
  PROVE  Guards' /\ OwnerAndUriNeverUndone'
<1>1. \A id \in Agents, c \in GuardedColumns : row'[id][c] = row[id][c]
  BY DEF GuardedColumns
<1>2. Entries' = Entries /\ \A i, id : RegistrationOf(i, id)' = RegistrationOf(i, id)
  BY DEF Entries, RegistrationOf, IsRegistration
<1>3. Guards'
  BY <1>1, <1>2 DEF Guards, AgentExists
<1>4. OwnerAndUriNeverUndone'
  BY <1>1 DEF OwnerAndUriNeverUndone
<1> QED
  BY <1>3, <1>4

\* A step of one run that writes no row.
LEMMA NoRowWritten ==
  ASSUME ChainInv, WriterInv, UNCHANGED <<chain, log, row, newest>>, NEW w \in Writers,
         NEW t \in RunStates, run' = [run EXCEPT ![w] = t], alone' \in BOOLEAN, Position(w)',
         expected' \in Nat, expected' <= ledger, HaveRow(BelowLedger(expected))'
  PROVE  WriterInv'
<1>1. ledger' = ledger /\ owner' = owner
  BY DEF chain, vars
<1>2. ProjectionTypes'
  BY DEF WriterInv, ProjectionTypes
<1>3. ASSUME NEW v \in Writers
      PROVE  Position(v)'
  <2>1. CASE v = w
    BY <2>1
  <2>2. CASE v # w
    <3>1. run'[v] = run[v] /\ Position(v)
      BY <2>2 DEF WriterInv, ProjectionTypes
    <3> QED
      BY <3>1, <1>1, PositionStays
  <2> QED
    BY <2>1, <2>2
<1>4. Guards' /\ OwnerAndUriNeverUndone'
  BY <1>1, GuardsStay DEF WriterInv
<1>5. Documents'
  BY DEF WriterInv, Documents, DocumentMatchesUri, NoUriStranded
<1> QED
  BY <1>1, <1>2, <1>3, <1>4, <1>5 DEF WriterInv

\* A run that goes back to the start of its loop, or ends.
LEMMA RunRestarts ==
  ASSUME ChainInv, WriterInv, UNCHANGED <<chain, log, row, newest>>, NEW w \in Writers,
         alone' \in BOOLEAN, expected' \in Nat, expected' <= ledger,
         HaveRow(BelowLedger(expected))',
         \/ run' = [run EXCEPT ![w] = [NoRun EXCEPT !.pc = "index", !.from = expected']]
         \/ run' = [run EXCEPT ![w] = NoRun]
  PROVE  WriterInv'
<1>1. PICK x \in Nat : x = expected'
  OBVIOUS
<1> DEFINE t == [NoRun EXCEPT !.pc = "index", !.from = x]
<1>2. t \in RunStates /\ t.pc = "index" /\ t.from = x
  BY IdleRun
<1>3. run \in [Writers -> RunStates] /\ ledger' = ledger
  BY DEF WriterInv, ProjectionTypes, chain, vars
<1> HIDE DEF t
<1>4. CASE run' = [run EXCEPT ![w] = t]
  <2>1. run'[w] = t
    BY <1>3, <1>4
  <2>2. HaveRow(BelowLedger(run[w].from))'
    BY <2>1, <1>1, <1>2 DEF HaveRow, BelowLedger
  <2>3. Position(w)'
    BY <2>1, <2>2, <1>1, <1>2, <1>3 DEF Position, At
  <2> QED
    BY <2>3, <1>2, <1>4, NoRowWritten
<1>5. CASE run' = [run EXCEPT ![w] = NoRun]
  <2>1. run'[w] = NoRun
    BY <1>3, <1>5
  <2>2. Position(w)'
    BY <2>1, IdleRun DEF Position, At
  <2> QED
    BY <2>2, <1>5, IdleRun, NoRowWritten
<1> QED
  BY <1>1, <1>4, <1>5 DEF t

\* A run starts at the checkpoint.
LEMMA StartRunKeeps ==
  ASSUME ChainInv, WriterInv, NEW w \in Writers, StartRun(w)
  PROVE  WriterInv'
<1>1. /\ UNCHANGED <<chain, log, row, newest>> /\ expected' = expected
      /\ run' = [run EXCEPT ![w] = [NoRun EXCEPT !.pc = "index", !.from = expected]]
      /\ alone' \in BOOLEAN
  BY DEF StartRun
<1>2. /\ expected \in Nat /\ expected <= ledger /\ HaveRow(BelowLedger(expected))
  BY DEF WriterInv, ProjectionTypes
<1>3. HaveRow(BelowLedger(expected))'
  BY <1>1, <1>2, CheckpointStays
<1> QED
  BY <1>1, <1>2, <1>3, RunRestarts

\* A run ends.
LEMMA EndRunKeeps ==
  ASSUME ChainInv, WriterInv, NEW w \in Writers, EndRun(w)
  PROVE  WriterInv'
<1>1. /\ UNCHANGED <<chain, log, row, newest>> /\ expected' = expected
      /\ run' = [run EXCEPT ![w] = NoRun] /\ alone' = alone
  BY DEF EndRun
<1>2. /\ expected \in Nat /\ expected <= ledger /\ HaveRow(BelowLedger(expected))
      /\ alone \in BOOLEAN
  BY DEF WriterInv, ProjectionTypes
<1>3. HaveRow(BelowLedger(expected))'
  BY <1>1, <1>2, CheckpointStays
<1> QED
  BY <1>1, <1>2, <1>3, RunRestarts

\* A page that is written moves the checkpoint behind it.
LEMMA SavePageKeeps ==
  ASSUME ChainInv, WriterInv, NEW w \in Writers, SavePage(w)
  PROVE  WriterInv'
<1>1. /\ UNCHANGED <<chain, log, row, newest>> /\ alone' = alone
      /\ At(w, "write") /\ run[w].page = {}
      /\ \/ /\ expected' = run[w].to + 1
            /\ run' = [run EXCEPT ![w] = [NoRun EXCEPT !.pc = "index", !.from = run[w].to + 1]]
         \/ expected' = expected /\ run' = [run EXCEPT ![w] = NoRun]
  BY DEF SavePage
<1>2. /\ expected \in Nat /\ expected <= ledger /\ HaveRow(BelowLedger(expected))
      /\ alone \in BOOLEAN /\ run[w] \in RunStates /\ Position(w)
  BY DEF WriterInv, ProjectionTypes
<1>3. CASE expected' = expected /\ run' = [run EXCEPT ![w] = NoRun]
  <2>1. HaveRow(BelowLedger(expected))'
    BY <1>1, <1>2, <1>3, CheckpointStays
  <2> QED
    BY <2>1, <1>1, <1>2, <1>3, RunRestarts
<1>4. CASE /\ expected' = run[w].to + 1
           /\ run' = [run EXCEPT ![w] = [NoRun EXCEPT !.pc = "index", !.from = run[w].to + 1]]
  <2>1. run[w].to \in Nat /\ run[w].to < ledger /\ HaveRow(Entries \ Rest(w))
    BY <1>1, <1>2 DEF RunStates, Position
  <2>2. expected' \in Nat /\ expected' <= ledger
    BY <2>1, <1>4, LogFacts
  <2>3. \A i \in Entries : log[i].ledger < run[w].to + 1 => row[log[i].event.agent] # None
    BY <2>1, <1>1, LogFacts DEF HaveRow, Rest
  <2>4. HaveRow(BelowLedger(expected))'
    BY <2>3, <1>1, <1>4 DEF HaveRow, BelowLedger, Entries
  <2> QED
    BY <2>2, <2>4, <1>1, <1>2, <1>4, RunRestarts
<1> QED
  BY <1>1, <1>3, <1>4

\* A page holds every event of its ledgers, and only events after those the run
\* has passed.
LEMMA GetPageKeeps ==
  ASSUME ChainInv, WriterInv, NEW w \in Writers, NEW to \in Ledgers, GetPage(w, to)
  PROVE  WriterInv'
<1>1. PICK p : p = EventsOf(run[w].from, to)
  OBVIOUS
<1> DEFINE t == [NoRun EXCEPT !.pc = "write", !.to = to, !.page = p]
<1>2. /\ UNCHANGED <<chain, log, row, newest>> /\ alone' = alone /\ expected' = expected
      /\ At(w, "index") /\ to \in run[w].from .. ledger - 1 /\ run' = [run EXCEPT ![w] = t]
  BY <1>1 DEF GetPage
<1>3. /\ expected \in Nat /\ expected <= ledger /\ HaveRow(BelowLedger(expected))
      /\ alone \in BOOLEAN /\ run \in [Writers -> RunStates] /\ Position(w)
  BY DEF WriterInv, ProjectionTypes
<1>4. /\ run[w].from \in Nat /\ to \in Nat /\ run[w].from <= to /\ to < ledger
      /\ HaveRow(BelowLedger(run[w].from))
  <2>1. run[w] \in RunStates
    BY <1>3
  <2>2. run[w].from \in Nat /\ HaveRow(BelowLedger(run[w].from))
    BY <2>1, <1>2, <1>3 DEF RunStates, Position
  <2> QED
    BY <2>2, <1>2, LogFacts
<1>5. p \subseteq Entries /\ \A i \in Entries : i \in p <=> /\ run[w].from <= log[i].ledger
                                                            /\ log[i].ledger <= to
  BY <1>1, <1>4, LogFacts DEF EventsOf, Entries
<1>6. p \subseteq Nat
  BY <1>5, LogFacts
<1>7. t \in RunStates /\ t.pc = "write" /\ t.to = to /\ t.page = p
  BY <1>4, <1>6 DEF NoRun, RunStates
<1> HIDE DEF t
<1>8. run'[w] = t
  BY <1>2, <1>3
<1>9. Entries' = Entries /\ Rest(w)' = p \cup {i \in Entries : log[i].ledger > to}
  BY <1>2, <1>7, <1>8 DEF Rest, Entries
<1>10. \A j \in Entries \ Rest(w)' : log[j].ledger < run[w].from
  BY <1>4, <1>5, <1>9, LogFacts
<1>11. HaveRow(Entries \ Rest(w))'
  BY <1>2, <1>4, <1>9, <1>10 DEF HaveRow, BelowLedger
<1>12. ASSUME NEW i \in p, NEW j \in Entries \ Rest(w)'
       PROVE  j < i
  <2>1. log[j].ledger < log[i].ledger
    BY <1>4, <1>5, <1>10, LogFacts
  <2> QED
    BY <2>1, <1>5, LogFacts
<1>13. Position(w)'
  <2>1. run'[w].to < ledger' /\ run'[w].page \subseteq Entries'
        /\ \A i \in run'[w].page : log'[i].ledger <= run'[w].to
    BY <1>2, <1>4, <1>5, <1>7, <1>8, <1>9 DEF chain, vars
  <2>2. \A i \in run'[w].page : \A j \in Entries' \ Rest(w)' : ~IsRegistration(j)' => j < i
    BY <1>7, <1>8, <1>9, <1>12
  <2> QED
    BY <2>1, <2>2, <1>7, <1>8, <1>11 DEF Position, At
<1>14. HaveRow(BelowLedger(expected))'
  BY <1>2, <1>3, CheckpointStays
<1> QED
  BY <1>2, <1>3, <1>7, <1>13, <1>14, NoRowWritten

\* A run that resolves a URI has a row to resolve it for.
LEMMA SelectPendingKeeps ==
  ASSUME ChainInv, WriterInv, NEW w \in Writers, NEW id \in Agents, SelectPending(w, id)
  PROVE  WriterInv'
<1>1. PICK u, n : u = row[id].uri /\ n = row[id].attempts
  OBVIOUS
<1> DEFINE t == [NoRun EXCEPT !.pc = "try", !.agent = id, !.uri = u, !.attempts = n]
<1>2. /\ UNCHANGED <<chain, log, row, newest>> /\ alone' = alone /\ expected' = expected
      /\ row[id] # None /\ run' = [run EXCEPT ![w] = t]
  BY <1>1 DEF SelectPending, IsPending
<1>3. /\ expected \in Nat /\ expected <= ledger /\ HaveRow(BelowLedger(expected))
      /\ alone \in BOOLEAN /\ run \in [Writers -> RunStates] /\ row[id] \in Rows
  BY <1>2 DEF WriterInv, ProjectionTypes
<1>4. u \in Uris /\ n \in Nat /\ id \in Nat
  BY <1>1, <1>3, RowShape, IdentityAssumption DEF RowFields, Agents
<1>5. t \in RunStates /\ t.pc = "try" /\ t.agent = id /\ t.uri = u
  BY <1>4 DEF NoRun, RunStates
<1> HIDE DEF t
<1>6. run'[w] = t
  BY <1>2, <1>3
<1>7. Position(w)'
  BY <1>2, <1>4, <1>5, <1>6 DEF Position, At
<1>8. HaveRow(BelowLedger(expected))'
  BY <1>2, <1>3, CheckpointStays
<1> QED
  BY <1>2, <1>3, <1>5, <1>7, <1>8, NoRowWritten

\* What Documents says of one row.
DocumentFits(r) ==
    /\ r.doc \in {None, r.uri}
    /\ r.uri # EmptyUri /\ r.doc = None => r.pending \/ r.attempts >= MAX_ATTEMPTS

\* A step of one run that writes one row.
LEMMA OneRowWritten ==
  ASSUME ChainInv, WriterInv, UNCHANGED <<chain, log, expected>>, NEW w \in Writers,
         NEW t \in RunStates, run' = [run EXCEPT ![w] = t], alone' = alone, Position(w)',
         NEW a \in Agents, NEW s \in Rows, row' = [row EXCEPT ![a] = s], DocumentFits(s),
         newest' \in [Agents -> [GuardedColumns -> Ledgers \cup {None}]],
         Guards', OwnerAndUriNeverUndone'
  PROVE  WriterInv'
<1>1. ledger' = ledger /\ s # None
  BY RowShape DEF chain, vars
<1>2. row \in [Agents -> Rows \cup {None}] /\ run \in [Writers -> RunStates]
  BY DEF WriterInv, ProjectionTypes
<1>3. /\ row'[a] = s /\ \A id \in Agents \ {a} : row'[id] = row[id]
      /\ \A id \in Agents : row[id] # None => row'[id] # None
  BY <1>1, <1>2
<1>4. ProjectionTypes'
  BY <1>2 DEF WriterInv, ProjectionTypes
<1>5. HaveRow(BelowLedger(expected))'
  BY <1>3, CheckpointStays DEF WriterInv
<1>6. ASSUME NEW v \in Writers
      PROVE  Position(v)'
  <2>1. CASE v = w
    BY <2>1
  <2>2. CASE v # w
    <3>1. run'[v] = run[v] /\ Position(v)
      BY <2>2, <1>2 DEF WriterInv
    <3> QED
      BY <3>1, <1>1, <1>3, PositionStays
  <2> QED
    BY <2>1, <2>2
<1>7. Documents'
  <2>1. \A id \in Agents : row[id] # None => DocumentFits(row[id])
    BY DEF WriterInv, Documents, DocumentMatchesUri, NoUriStranded, DocumentFits
  <2>2. \A id \in Agents : row'[id] # None => DocumentFits(row'[id])
    BY <2>1, <1>3
  <2> QED
    BY <2>2 DEF Documents, DocumentMatchesUri, NoUriStranded, DocumentFits
<1> QED
  BY <1>1, <1>4, <1>5, <1>6, <1>7 DEF WriterInv

\* The resolver leaves the columns the chain is about.
LEMMA ResolverWrites ==
  ASSUME ChainInv, WriterInv, UNCHANGED <<chain, log, expected, newest>>, NEW w \in Writers,
         NEW t \in RunStates, run' = [run EXCEPT ![w] = t], alone' = alone, Position(w)',
         NEW a \in Agents, NEW s \in Rows, row' = [row EXCEPT ![a] = s], DocumentFits(s),
         row[a] # None, s.owner = row[a].owner, s.uri = row[a].uri,
         s.transferred_ledger = row[a].transferred_ledger,
         s.uri_updated_ledger = row[a].uri_updated_ledger
  PROVE  WriterInv'
<1>1. owner' = owner /\ s # None
  BY RowShape DEF chain, vars
<1>2. row \in [Agents -> Rows \cup {None}]
  BY DEF WriterInv, ProjectionTypes
<1>3. \A id \in Agents :
         /\ row'[id] = None <=> row[id] = None
         /\ row'[id].owner = row[id].owner /\ row'[id].uri = row[id].uri
         /\ row'[id].transferred_ledger = row[id].transferred_ledger
         /\ row'[id].uri_updated_ledger = row[id].uri_updated_ledger
  BY <1>1, <1>2
<1>4. Guards' /\ OwnerAndUriNeverUndone'
  BY <1>1, <1>3, GuardsStay DEF WriterInv
<1>5. newest' \in [Agents -> [GuardedColumns -> Ledgers \cup {None}]]
  BY DEF WriterInv, ProjectionTypes
<1> QED
  BY <1>4, <1>5, OneRowWritten

\* A try is counted for the URI it was selected for.
LEMMA RecordTryKeeps ==
  ASSUME ChainInv, WriterInv, NEW w \in Writers, RecordTry(w)
  PROVE  WriterInv'
<1>1. PICK a, u, n : a = run[w].agent /\ u = run[w].uri /\ n = run[w].attempts + 1
  OBVIOUS
<1>2. /\ UNCHANGED <<chain, log, expected, newest>> /\ alone' = alone
      /\ At(w, "try")
      /\ row' = IF row[a].uri # u THEN row
                ELSE [row EXCEPT ![a].attempts = n, ![a].pending = n < MAX_ATTEMPTS]
      /\ run' = [run EXCEPT ![w].pc = "store", ![w].attempts = 0]
  BY <1>1 DEF RecordTry
<1>3. /\ run \in [Writers -> RunStates] /\ row \in [Agents -> Rows \cup {None}]
      /\ Position(w) /\ expected \in Nat /\ expected <= ledger
      /\ HaveRow(BelowLedger(expected)) /\ alone \in BOOLEAN
  BY DEF WriterInv, ProjectionTypes
<1>4. a \in Agents /\ row[a] # None /\ u \in Uris
  BY <1>1, <1>2, <1>3 DEF Position, At
<1> DEFINE t == [run[w] EXCEPT !.pc = "store", !.attempts = 0]
<1>5. /\ run' = [run EXCEPT ![w] = t] /\ t \in RunStates /\ t.pc = "store"
      /\ t.agent = a /\ t.uri = u
  <2>1. run[w] \in RunStates
    BY <1>3
  <2> QED
    BY <2>1, <1>1, <1>2, <1>3 DEF RunStates
<1>6. n \in Nat
  BY <1>1, <1>3 DEF RunStates
<1>7. PICK tt \in RunStates : tt = t
  BY <1>5
<1> HIDE DEF t
<1>8. run'[w] = tt /\ tt.pc = "store" /\ tt.agent = a /\ tt.uri = u
  BY <1>3, <1>5, <1>7
<1>9. row'[a] # None => Position(w)'
  BY <1>4, <1>8 DEF Position, At
<1>10. CASE row[a].uri # u
  <2>1. row' = row
    BY <1>2, <1>10
  <2>2. HaveRow(BelowLedger(expected))'
    BY <2>1, <1>2, <1>3, CheckpointStays
  <2> QED
    BY <2>1, <2>2, <1>2, <1>3, <1>4, <1>5, <1>7, <1>9, NoRowWritten
<1>11. CASE row[a].uri = u
  <2>1. PICK r \in Rows : r = row[a]
    BY <1>3, <1>4
  <2>p. PICK p \in BOOLEAN : p = (n < MAX_ATTEMPTS)
    <3>1. CASE n < MAX_ATTEMPTS
      BY <3>1
    <3>2. CASE ~(n < MAX_ATTEMPTS)
      <4>1. FALSE = (n < MAX_ATTEMPTS)
        BY <3>2
      <4> WITNESS FALSE \in BOOLEAN
      <4> QED
        BY <4>1
    <3> QED
      BY <3>1, <3>2
  <2> DEFINE s == [r EXCEPT !.attempts = n, !.pending = p]
  <2>2. /\ s \in Rows /\ s.owner = r.owner /\ s.uri = r.uri
        /\ s.transferred_ledger = r.transferred_ledger
        /\ s.uri_updated_ledger = r.uri_updated_ledger
        /\ s.doc = r.doc /\ s.pending = p /\ s.attempts = n
    BY <1>6 DEF Rows
  <2>3. row' = [row EXCEPT ![a] = s]
    BY <2>1, <2>p, <1>2, <1>3, <1>11
  <2>4. DocumentFits(s)
    <3>1. r.doc \in {None, r.uri}
      BY <2>1, <1>4 DEF WriterInv, Documents, DocumentMatchesUri
    <3>2. n < MAX_ATTEMPTS \/ n >= MAX_ATTEMPTS
      BY <1>6, ProjectionAssumption
    <3> HIDE DEF s
    <3> QED
      BY <3>1, <3>2, <2>2, <2>p DEF DocumentFits
  <2> HIDE DEF s
  <2>5. row'[a] # None
    BY <2>2, <2>3, <1>3, <1>4, RowShape
  <2>6. PICK ss \in Rows : ss = s
    BY <2>2
  <2> QED
    BY <2>1, <2>2, <2>3, <2>4, <2>5, <2>6, <1>2, <1>4, <1>5, <1>7, <1>9, ResolverWrites
<1> QED
  BY <1>10, <1>11

\* A document is stored for the URI it was fetched from.
LEMMA StoreKeeps ==
  ASSUME ChainInv, WriterInv, NEW w \in Writers, Store(w)
  PROVE  WriterInv'
<1>1. PICK a, u : a = run[w].agent /\ u = run[w].uri
  OBVIOUS
<1>2. /\ UNCHANGED <<chain, log, expected, newest>> /\ alone' = alone
      /\ At(w, "store")
      /\ row' = IF row[a].uri = u
                THEN [row EXCEPT ![a].doc = u, ![a].attempts = 0, ![a].pending = FALSE]
                ELSE row
      /\ run' = [run EXCEPT ![w] = NoRun]
  BY <1>1 DEF Store, StillCurrent
<1>3. /\ run \in [Writers -> RunStates] /\ row \in [Agents -> Rows \cup {None}]
      /\ Position(w) /\ expected \in Nat /\ expected <= ledger
      /\ HaveRow(BelowLedger(expected)) /\ alone \in BOOLEAN
  BY DEF WriterInv, ProjectionTypes
<1>4. a \in Agents /\ row[a] # None /\ u \in Uris /\ u # None
  BY <1>1, <1>2, <1>3, LogFacts DEF Position, At
<1>5. CASE row[a].uri # u
  <2>1. row' = row
    BY <1>2, <1>5
  <2>2. HaveRow(BelowLedger(expected))'
    BY <2>1, <1>2, <1>3, CheckpointStays
  <2> QED
    BY <2>1, <2>2, <1>2, <1>3, RunRestarts
<1>6. CASE row[a].uri = u
  <2>1. PICK r \in Rows : r = row[a]
    BY <1>3, <1>4
  <2> DEFINE s == [r EXCEPT !.doc = u, !.attempts = 0, !.pending = FALSE]
  <2>2. /\ s \in Rows /\ s.owner = r.owner /\ s.uri = r.uri
        /\ s.transferred_ledger = r.transferred_ledger
        /\ s.uri_updated_ledger = r.uri_updated_ledger /\ s.doc = u
    BY <1>4 DEF Rows
  <2>3. row' = [row EXCEPT ![a] = s]
    BY <2>1, <1>2, <1>3, <1>6
  <2> HIDE DEF s
  <2>4. DocumentFits(s)
    BY <2>1, <2>2, <1>4, <1>6 DEF DocumentFits
  <2>5. PICK ss \in Rows : ss = s
    BY <2>2
  <2>6. run'[w] = NoRun
    BY <1>2, <1>3
  <2>7. Position(w)'
    BY <2>6, IdleRun DEF Position, At
  <2> QED
    BY <2>1, <2>2, <2>3, <2>4, <2>5, <2>7, <1>2, <1>4, IdleRun, ResolverWrites
<1> QED
  BY <1>5, <1>6

\* What Publish leaves of the log: the entries it adds are of the current ledger.
LEMMA LogGrows ==
  ASSUME ChainInv, Publish
  PROVE  /\ UNCHANGED dbVars /\ ledger \in Nat /\ ledger' \in Nat /\ ledger <= ledger'
         /\ \A id \in Agents : AgentExists(id) => AgentExists(id)'
         /\ Entries \subseteq Entries'
         /\ \A i \in Entries : log'[i] = log[i]
         /\ \A i \in Entries' \ Entries : log'[i].ledger = ledger
<1>1. PICK N \in Nat, M \in Nat, evs \in Seq(Event) :
            /\ Tells(evs) /\ IdentityInv' /\ ledger <= ledger'
            /\ DOMAIN evs = 1 .. M /\ Entries = 1 .. N /\ Entries' = 1 .. N + M
            /\ log' \in Seq(LogEntry)
            /\ \A i \in 1 .. N : log'[i] = log[i]
            /\ \A m \in 1 .. M : log'[N + m].event = evs[m] /\ log'[N + m].ledger = ledger
  BY PublishedLog
<1>2. \A i \in (1 .. N + M) \ (1 .. N) : i - N \in 1 .. M /\ i = N + (i - N)
  OBVIOUS
<1>3. \A i \in Entries' \ Entries : log'[i].ledger = ledger
  BY <1>1, <1>2
<1>4. \A id \in Agents : AgentExists(id) => AgentExists(id)'
  BY <1>1 DEF Tells, AgentExists
<1>5. ledger' \in Nat /\ ledger \in Nat
  BY <1>1, LogFacts, IdentityAssumption DEF IdentityInv, TypeOK, Ledgers
<1>6. Entries \subseteq Entries' /\ \A i \in Entries : log'[i] = log[i]
  <2>1. 1 .. N \subseteq 1 .. N + M
    OBVIOUS
  <2> QED
    BY <2>1, <1>1
<1>7. UNCHANGED dbVars
  BY DEF Publish
<1> QED
  BY <1>1, <1>3, <1>4, <1>5, <1>6, <1>7, Zenon

\* New events are ahead of every run and of the checkpoint.
LEMMA PublishKeepsWriters ==
  ASSUME ChainInv, WriterInv, Publish
  PROVE  WriterInv'
<1>1. UNCHANGED <<row, expected, holder, run, newest, alone>>
  BY LogGrows DEF dbVars
<1>2. /\ ledger \in Nat /\ ledger' \in Nat /\ ledger <= ledger'
      /\ Entries \subseteq Entries' /\ \A i \in Entries : log'[i] = log[i]
      /\ \A i \in Entries' \ Entries : log'[i].ledger = ledger
  BY LogGrows
<1>3. ProjectionTypes'
  BY <1>1 DEF WriterInv, ProjectionTypes
<1>5. expected' <= ledger' /\ HaveRow(BelowLedger(expected))'
  <2>1. expected \in Nat /\ expected <= ledger /\ HaveRow(BelowLedger(expected))
    BY DEF WriterInv, ProjectionTypes
  <2>2. BelowLedger(expected)' = BelowLedger(expected)
    BY <2>1, <1>1, <1>2 DEF BelowLedger
  <2>3. BelowLedger(expected) \subseteq Entries
    BY DEF BelowLedger
  <2> QED
    BY <2>1, <2>2, <2>3, <1>1, <1>2 DEF HaveRow
<1>6. ASSUME NEW w \in Writers
      PROVE  Position(w)'
  <2>1. run[w] \in RunStates /\ Position(w) /\ run'[w] = run[w] /\ row' = row
    BY <1>1 DEF WriterInv, ProjectionTypes
  <2>2. At(w, "index")' => run'[w].from <= ledger' /\ HaveRow(BelowLedger(run[w].from))'
    <3>1. SUFFICES ASSUME At(w, "index") PROVE run[w].from <= ledger' /\ HaveRow(BelowLedger(run[w].from))'
      BY <2>1 DEF At
    <3>2. run[w].from \in Nat /\ run[w].from <= ledger /\ HaveRow(BelowLedger(run[w].from))
      BY <2>1, <3>1 DEF Position, RunStates
    <3>3. BelowLedger(run[w].from)' = BelowLedger(run[w].from)
      BY <2>1, <3>2, <1>2 DEF BelowLedger
    <3>4. BelowLedger(run[w].from) \subseteq Entries
      BY DEF BelowLedger
    <3> QED
      BY <3>2, <3>3, <3>4, <2>1, <1>2 DEF HaveRow
  <2>3. At(w, "write")' =>
          /\ run'[w].to < ledger' /\ run'[w].page \subseteq Entries'
          /\ \A i \in run'[w].page : log'[i].ledger <= run'[w].to
          /\ HaveRow(Entries \ Rest(w))'
          /\ \A i \in run'[w].page : \A j \in Entries' \ Rest(w)' : ~IsRegistration(j)' => j < i
    <3>1. SUFFICES ASSUME At(w, "write")
                   PROVE  /\ run[w].to < ledger' /\ run[w].page \subseteq Entries'
                          /\ \A i \in run[w].page : log'[i].ledger <= run[w].to
                          /\ HaveRow(Entries \ Rest(w))'
                          /\ \A i \in run[w].page : \A j \in Entries' \ Rest(w)' :
                                ~IsRegistration(j)' => j < i
      BY <2>1 DEF At
    <3>2. /\ run[w].to \in Nat /\ run[w].to < ledger /\ run[w].page \subseteq Entries
          /\ \A i \in run[w].page : log[i].ledger <= run[w].to
          /\ HaveRow(Entries \ Rest(w))
          /\ \A i \in run[w].page : \A j \in Entries \ Rest(w) : ~IsRegistration(j) => j < i
      BY <2>1, <3>1 DEF Position, RunStates
    <3>3. (Entries \ Rest(w))' = Entries \ Rest(w)
      BY <3>2, <2>1, <1>2 DEF Rest
    <3>4. HaveRow(Entries \ Rest(w))'
      BY <3>2, <3>3, <2>1, <1>2 DEF HaveRow
    <3>5. \A j \in Entries : IsRegistration(j)' = IsRegistration(j)
      BY <1>2 DEF IsRegistration
    <3> QED
      BY <3>2, <3>3, <3>4, <3>5, <1>2
  <2>4. run'[w].pc \in {"try", "store"} =>
          run'[w].agent \in Agents /\ row'[run'[w].agent] # None /\ run'[w].uri \in Uris
    BY <2>1 DEF Position
  <2> QED
    BY <2>2, <2>3, <2>4 DEF Position
<1>7. Guards'
  <2>1. \A k \in Entries : \A id : RegistrationOf(k, id)' = RegistrationOf(k, id)
    BY <1>2 DEF RegistrationOf, IsRegistration
  <2>2. \A id \in Agents : AgentExists(id) => AgentExists(id)'
    BY LogGrows
  <2>3. ASSUME NEW id \in Agents, NEW c \in GuardedColumns,
               \E k \in Entries : RegistrationOf(k, id) /\ row[id][c] = Says(log[k].event, c)
        PROVE  \E k \in Entries' : RegistrationOf(k, id)' /\ row'[id][c] = Says(log'[k].event, c)
    BY <2>1, <2>3, <1>1, <1>2
  <2> QED
    BY <2>2, <2>3, <1>1 DEF WriterInv, Guards
<1>8. OwnerAndUriNeverUndone'
  BY <1>1, <1>2 DEF WriterInv, OwnerAndUriNeverUndone, Entries
<1>9. Documents'
  BY <1>1 DEF WriterInv, Documents, DocumentMatchesUri, NoUriStranded
<1> QED
  BY <1>3, <1>5, <1>6, <1>7, <1>8, <1>9 DEF WriterInv

\* The event of a page that is written next: it has its agent's row, unless it
\* inserts it, and the events of the page that were written before have smaller
\* indexes, registrations aside.
LEMMA NextOfPage ==
  ASSUME ChainInv, WriterInv, NEW w \in Writers, NEW i \in run[w].page, WriteEvent(w, i)
  PROVE  /\ i \in Entries /\ log[i].ledger <= run[w].to /\ i \notin Entries \ Rest(w)
         /\ ~IsRegistration(i) => row[log[i].event.agent] # None
         /\ \A j \in Entries \ Rest(w) : ~IsRegistration(j) => j < i
         /\ \A j \in run[w].page \ {i} : ~IsRegistration(i) => i < j
<1>1. /\ At(w, "write") /\ \A j \in run[w].page \ {i} : ParentsFirst(i, j)
      /\ Position(w) /\ run[w] \in RunStates
  BY DEF WriteEvent, WriterInv, ProjectionTypes
<1>2. /\ run[w].to \in Nat /\ run[w].page \subseteq Entries
      /\ \A j \in run[w].page : log[j].ledger <= run[w].to
      /\ HaveRow(Entries \ Rest(w))
      /\ \A h \in run[w].page : \A j \in Entries \ Rest(w) : ~IsRegistration(j) => j < h
  BY <1>1 DEF Position, RunStates
<1>3. i \in Entries /\ log[i].ledger <= run[w].to /\ i \notin Entries \ Rest(w)
  BY <1>2 DEF Rest
<1>4. \A j \in run[w].page \ {i} : ~IsRegistration(i) => ~IsRegistration(j) /\ i < j
  BY <1>1 DEF ParentsFirst
<1>5. ASSUME ~IsRegistration(i)
      PROVE  row[log[i].event.agent] # None
  <2>1. PICK k \in Entries : /\ RegistrationOf(k, log[i].event.agent)
                             /\ log[k].ledger <= log[i].ledger
    BY <1>3 DEF ChainInv, RegisteredOnce
  <2>2. IsRegistration(k) /\ log[k].event.agent = log[i].event.agent
    BY <2>1 DEF RegistrationOf
  <2>3. k \notin run[w].page
    BY <2>2, <1>4, <1>5
  <2>4. log[k].ledger \in Nat /\ log[i].ledger \in Nat
    BY <2>1, <1>3, LogFacts
  <2>5. k \in Entries \ Rest(w)
    BY <2>1, <2>3, <2>4, <1>2, <1>3 DEF Rest
  <2> QED
    BY <2>2, <2>5, <1>2 DEF HaveRow
<1> QED
  BY <1>2, <1>3, <1>4, <1>5

\* What WriteEvent does to the row, its guards and the page.
WriteOf(w, i, e, l, a, t, s) ==
    /\ e = log[i].event /\ l = log[i].ledger /\ a = e.agent
    /\ s = Written(row[a], e, l) /\ row' = [row EXCEPT ![a] = s]
    /\ newest' = [newest EXCEPT ![a] = [c \in GuardedColumns |->
                     IF SetsColumn(e, c) /\ NotAfter(newest[a][c], l) THEN l
                     ELSE newest[a][c]]]
    /\ run' = [run EXCEPT ![w] = t]
    /\ t.pc = "write" /\ t.to = run[w].to /\ t.page = run[w].page \ {i}
    /\ row[a] \in Rows \/ (row[a] = None /\ e.type = "registered")
    /\ UNCHANGED <<chain, log, expected, holder, alone>>

\* It writes rows, and only on top of rows or registrations.
LEMMA WriteEventStep ==
  ASSUME ChainInv, WriterInv, NEW w \in Writers, NEW i \in run[w].page, WriteEvent(w, i)
  PROVE  \E e \in Event, l \in Ledgers, a \in Agents, t \in RunStates, s \in Rows :
            WriteOf(w, i, e, l, a, t, s)
<1>1. i \in Entries /\ (~IsRegistration(i) => row[log[i].event.agent] # None)
  BY NextOfPage
<1>2. PICK e \in Event, l \in Ledgers, a \in Agents :
         e = log[i].event /\ l = log[i].ledger /\ a = e.agent
  BY <1>1, LogFacts
<1>3. /\ row \in [Agents -> Rows \cup {None}] /\ run \in [Writers -> RunStates]
      /\ newest \in [Agents -> [GuardedColumns -> Ledgers \cup {None}]]
  BY DEF WriterInv, ProjectionTypes
<1>4. row[a] \in Rows \/ (row[a] = None /\ e.type = "registered")
  BY <1>1, <1>2, <1>3 DEF IsRegistration
<1>5. /\ row' = [row EXCEPT ![a] = Written(row[a], e, l)]
      /\ run' = [run EXCEPT ![w].page = run[w].page \ {i}] /\ At(w, "write")
      /\ UNCHANGED <<chain, log, expected, holder, alone>>
  BY <1>2, <1>3 DEF WriteEvent
<1>6. newest' = [newest EXCEPT ![a] = [c \in GuardedColumns |->
                             IF SetsColumn(e, c) /\ NotAfter(newest[a][c], l) THEN l
                             ELSE newest[a][c]]]
  BY <1>2, <1>3 DEF WriteEvent
<1>7. Written(row[a], e, l) \in Rows
  <2>1. CASE row[a] = None
    BY <2>1, <1>4, InsertedRow, RowShape
  <2>2. CASE row[a] \in Rows
    <3>1. PICK r \in Rows : r = row[a]
      BY <2>2
    <3>2. Written(r, e, l) \in Rows
      <4>1. CASE e.type = "registered"
        <5>1. Written(r, e, l) = r
          BY <4>1, RowShape, KeptRow
        <5> QED
          BY <5>1
      <4>2. CASE e.type = "uri_updated"
        BY <4>2, UriUpdatedRow
      <4>3. CASE e.type = "transfer"
        BY <4>3, TransferredRow
      <4>4. CASE e.type = "metadata_set"
        BY <4>4, MetadataSetRow
      <4> QED
        BY <4>1, <4>2, <4>3, <4>4, EventFields
    <3> QED
      BY <3>1, <3>2
  <2> QED
    BY <2>1, <2>2, <1>4
<1> DEFINE t == [run[w] EXCEPT !.page = run[w].page \ {i}]
<1>8. /\ t \in RunStates /\ t.pc = "write" /\ t.to = run[w].to /\ t.page = run[w].page \ {i}
      /\ run' = [run EXCEPT ![w] = t]
  <2>1. PICK q \in RunStates : q = run[w]
    BY <1>3
  <2>2. PICK p : p = q.page \ {i}
    OBVIOUS
  <2>3. p \in SUBSET Nat
    BY <2>2 DEF RunStates
  <2> DEFINE u == [q EXCEPT !.page = p]
  <2>4. u \in RunStates
    BY <2>3 DEF RunStates
  <2>5. u.pc = q.pc /\ u.to = q.to /\ u.page = p
    BY DEF RunStates
  <2>6. t = u
    BY <2>1, <2>2
  <2>7. run' = [run EXCEPT ![w] = u]
    BY <2>1, <2>2, <1>3, <1>5
  <2> HIDE DEF u, t
  <2> QED
    BY <2>1, <2>2, <2>4, <2>5, <2>6, <2>7, <1>5 DEF At
<1> HIDE DEF t
<1>9. PICK tt \in RunStates, ss \in Rows : tt = t /\ ss = Written(row[a], e, l)
  BY <1>7, <1>8
<1>10. row' = [row EXCEPT ![a] = ss] /\ run' = [run EXCEPT ![w] = tt]
  BY <1>5, <1>8, <1>9
<1>11. tt.pc = "write" /\ tt.to = run[w].to /\ tt.page = run[w].page \ {i}
  BY <1>8, <1>9
<1>12. WriteOf(w, i, e, l, a, tt, ss)
  BY <1>2, <1>4, <1>5, <1>6, <1>9, <1>10, <1>11 DEF WriteOf
<1> QED
  BY <1>12

\* What the guards say of one column: v is in the column c of agent id and x is
\* the newest ledger written about it.
ColumnGuarded(id, c, v, x) ==
    /\ x = None => \E k \in Entries : RegistrationOf(k, id) /\ v = Says(log[k].event, c)
    /\ x # None => \E i \in Entries :
                      /\ log[i].event.agent = id /\ log[i].ledger = x /\ SetsColumn(log[i].event, c)
                      /\ v = (IF c = "uri" THEN log[i].event.uri ELSE log[i].event.to)

\* And of a row.
RowGuarded(id, r, n) ==
    /\ AgentExists(id)
    /\ r.transferred_ledger = n["owner"] /\ r.uri_updated_ledger = n["uri"]
    /\ ColumnGuarded(id, "owner", r.owner, n["owner"])
    /\ ColumnGuarded(id, "uri", r.uri, n["uri"])

\* The guards, row by row.
LEMMA GuardsOfRow ==
  ASSUME Guards, OwnerAndUriNeverUndone, NEW id \in Agents
  PROVE  /\ row[id] = None => \A c \in GuardedColumns : newest[id][c] = None
         /\ row[id] # None => RowGuarded(id, row[id], newest[id])
<1>1. row[id] = None => \A c \in GuardedColumns : newest[id][c] = None
  BY DEF Guards
<1>2. ASSUME row[id] # None
      PROVE  RowGuarded(id, row[id], newest[id])
  <2>1. /\ AgentExists(id)
        /\ row[id].transferred_ledger = newest[id]["owner"]
        /\ row[id].uri_updated_ledger = newest[id]["uri"]
    BY <1>2 DEF Guards
  <2>2. ASSUME NEW c \in GuardedColumns
        PROVE  ColumnGuarded(id, c, row[id][c], newest[id][c])
    BY <1>2 DEF Guards, OwnerAndUriNeverUndone, ColumnGuarded, Entries
  <2> QED
    BY <2>1, <2>2 DEF RowGuarded, GuardedColumns
<1> QED
  BY <1>1, <1>2

\* One row changes with its guards.
LEMMA GuardsWritten ==
  ASSUME WriterInv, UNCHANGED <<chain, log>>, NEW a \in Agents, NEW s \in Rows, NEW n,
         row' = [row EXCEPT ![a] = s], newest' = [newest EXCEPT ![a] = n], RowGuarded(a, s, n)
  PROVE  Guards' /\ OwnerAndUriNeverUndone'
<1>1. /\ row'[a] = s /\ newest'[a] = n /\ s # None
      /\ \A id \in Agents \ {a} : row'[id] = row[id] /\ newest'[id] = newest[id]
  BY RowShape DEF WriterInv, ProjectionTypes
<1>2. owner' = owner /\ Entries' = Entries /\ log' = log
      /\ \A k, id : RegistrationOf(k, id)' = RegistrationOf(k, id)
  BY DEF chain, vars, Entries, RegistrationOf, IsRegistration
<1>3. ASSUME NEW id \in Agents
      PROVE  /\ row'[id] = None => \A c \in GuardedColumns : newest'[id][c] = None
             /\ row'[id] # None => RowGuarded(id, row'[id], newest'[id])
  <2>1. CASE id = a
    BY <2>1, <1>1
  <2>2. CASE id # a
    BY <2>2, <1>1, GuardsOfRow DEF WriterInv
  <2> QED
    BY <2>1, <2>2
<1>4. Guards'
  <2>1. ASSUME NEW id \in Agents, row'[id] # None, NEW c \in GuardedColumns, newest'[id][c] = None
        PROVE  \E k \in Entries : RegistrationOf(k, id) /\ row'[id][c] = Says(log[k].event, c)
    <3>1. ColumnGuarded(id, "owner", row'[id].owner, newest'[id]["owner"])
          /\ ColumnGuarded(id, "uri", row'[id].uri, newest'[id]["uri"])
      BY <2>1, <1>3 DEF RowGuarded
    <3> QED
      BY <3>1, <2>1 DEF ColumnGuarded, GuardedColumns
  <2>2. ASSUME NEW id \in Agents, row'[id] # None
        PROVE  /\ AgentExists(id)
               /\ row'[id].transferred_ledger = newest'[id]["owner"]
               /\ row'[id].uri_updated_ledger = newest'[id]["uri"]
    BY <2>2, <1>3 DEF RowGuarded
  <2> QED
    BY <2>1, <2>2, <1>2, <1>3 DEF Guards, AgentExists
<1>5. OwnerAndUriNeverUndone'
  <2>1. ASSUME NEW id \in Agents, NEW c \in GuardedColumns, newest'[id][c] # None
        PROVE  \E i \in Entries :
                  /\ log[i].event.agent = id /\ log[i].ledger = newest'[id][c]
                  /\ SetsColumn(log[i].event, c)
                  /\ row'[id][c] = (IF c = "uri" THEN log[i].event.uri ELSE log[i].event.to)
    <3>1. ColumnGuarded(id, "owner", row'[id].owner, newest'[id]["owner"])
          /\ ColumnGuarded(id, "uri", row'[id].uri, newest'[id]["uri"])
      BY <2>1, <1>3 DEF RowGuarded
    <3> QED
      BY <3>1, <2>1 DEF ColumnGuarded, GuardedColumns
  <2> QED
    BY <2>1, <1>2 DEF OwnerAndUriNeverUndone, Entries
<1> QED
  BY <1>4, <1>5

\* A statement moves a guarded column forward or leaves it, and the resolver's
\* columns with the URI.
LEMMA WrittenGuarded ==
  ASSUME ChainInv, NEW i \in Entries, NEW e \in Event, NEW l \in Ledgers, NEW a \in Agents,
         e = log[i].event, l = log[i].ledger, a = e.agent,
         NEW r \in Rows, NEW n \in [GuardedColumns -> Ledgers \cup {None}], NEW m,
         m = [c \in GuardedColumns |->
                 IF SetsColumn(e, c) /\ NotAfter(n[c], l) THEN l ELSE n[c]],
         RowGuarded(a, r, n), DocumentFits(r)
  PROVE  RowGuarded(a, Written(r, e, l), m) /\ DocumentFits(Written(r, e, l))
<1> DEFINE s == Written(r, e, l)
<1>1. /\ m["owner"] = IF e.type = "transfer" /\ NotAfter(n["owner"], l) THEN l ELSE n["owner"]
      /\ m["uri"] = IF e.type = "uri_updated" /\ NotAfter(n["uri"], l) THEN l ELSE n["uri"]
  BY DEF GuardedColumns, SetsColumn
<1>2. /\ AgentExists(a) /\ r.transferred_ledger = n["owner"] /\ r.uri_updated_ledger = n["uri"]
      /\ ColumnGuarded(a, "owner", r.owner, n["owner"])
      /\ ColumnGuarded(a, "uri", r.uri, n["uri"])
  BY DEF RowGuarded
<1>3. l # None
  BY ProjectionAssumption
<1>4. CASE e.type = "registered"
  <2>1. s = r
    BY <1>4, RowShape, KeptRow
  <2>2. m["owner"] = n["owner"] /\ m["uri"] = n["uri"]
    BY <1>1, <1>4
  <2> QED
    BY <2>1, <2>2, <1>2 DEF RowGuarded
<1>5. CASE e.type = "uri_updated"
  <2> DEFINE applied == NotAfter(r.uri_updated_ledger, l)
                        /\ ~(r.uri_updated_ledger = l /\ r.uri = e.uri)
  <2>1. /\ s.owner = r.owner /\ s.transferred_ledger = r.transferred_ledger
        /\ applied => /\ s.uri = e.uri /\ s.uri_updated_ledger = l /\ s.doc = None
                      /\ s.pending = (e.uri # EmptyUri)
        /\ ~applied => s = r
    BY <1>5, UriUpdatedRow
  <2>2. m["owner"] = n["owner"]
    BY <1>1, <1>5
  <2> HIDE DEF s
  <2>3. ColumnGuarded(a, "uri", e.uri, l)
    BY <1>3, <1>5 DEF ColumnGuarded, SetsColumn
  <2>4. CASE applied
    <3>1. m["uri"] = l
      BY <2>4, <1>1, <1>2, <1>5
    <3>2. DocumentFits(s)
      BY <2>1, <2>4 DEF DocumentFits
    <3> QED
      BY <3>1, <3>2, <2>1, <2>2, <2>3, <2>4, <1>2 DEF RowGuarded, s
  <2>5. CASE ~applied
    <3>1. s = r
      BY <2>1, <2>5
    <3>2. m["uri"] = n["uri"]
      BY <2>5, <1>1, <1>2, <1>5
    <3> QED
      BY <3>1, <3>2, <2>2, <1>2 DEF RowGuarded, s
  <2> QED
    BY <2>4, <2>5
<1>6. CASE e.type = "transfer"
  <2> DEFINE applied == NotAfter(r.transferred_ledger, l)
  <2>1. /\ s.uri = r.uri /\ s.uri_updated_ledger = r.uri_updated_ledger
        /\ s.doc = r.doc /\ s.pending = r.pending /\ s.attempts = r.attempts
        /\ applied => s.owner = e.to /\ s.transferred_ledger = l
        /\ ~applied => s = r
    BY <1>6, TransferredRow
  <2>2. m["uri"] = n["uri"]
    BY <1>1, <1>6
  <2> HIDE DEF s
  <2>3. ColumnGuarded(a, "owner", e.to, l)
    BY <1>3, <1>6 DEF ColumnGuarded, SetsColumn
  <2>4. DocumentFits(s)
    BY <2>1 DEF DocumentFits
  <2>5. CASE applied
    <3>1. m["owner"] = l
      BY <2>5, <1>1, <1>2, <1>6
    <3> QED
      BY <3>1, <2>1, <2>2, <2>3, <2>4, <2>5, <1>2 DEF RowGuarded, s
  <2>6. CASE ~applied
    <3>1. s = r
      BY <2>1, <2>6
    <3>2. m["owner"] = n["owner"]
      BY <2>6, <1>1, <1>2, <1>6
    <3> QED
      BY <3>1, <3>2, <2>2, <1>2 DEF RowGuarded, s
  <2> QED
    BY <2>5, <2>6
<1>7. CASE e.type = "metadata_set"
  <2>1. /\ s.owner = r.owner /\ s.uri = r.uri
        /\ s.uri_updated_ledger = r.uri_updated_ledger
        /\ s.transferred_ledger = r.transferred_ledger
        /\ s.doc = r.doc /\ s.pending = r.pending /\ s.attempts = r.attempts
    BY <1>7, MetadataSetRow
  <2>2. m["owner"] = n["owner"] /\ m["uri"] = n["uri"]
    BY <1>1, <1>7
  <2> HIDE DEF s
  <2>3. RowGuarded(a, s, m) /\ DocumentFits(s)
    BY <2>1, <2>2, <1>2 DEF RowGuarded, DocumentFits
  <2> QED
    BY <2>3 DEF s
<1> QED
  BY <1>4, <1>5, <1>6, <1>7, EventFields

\* The row that Registered inserts is guarded too.
LEMMA InsertedGuarded ==
  ASSUME ChainInv, NEW i \in Entries, NEW e \in Event, NEW l \in Ledgers, NEW a \in Agents,
         e = log[i].event, l = log[i].ledger, a = e.agent, e.type = "registered",
         NEW n, \A c \in GuardedColumns : n[c] = None, NEW m,
         m = [c \in GuardedColumns |->
                 IF SetsColumn(e, c) /\ NotAfter(n[c], l) THEN l ELSE n[c]]
  PROVE  RowGuarded(a, Written(None, e, l), m) /\ DocumentFits(Written(None, e, l))
<1> DEFINE s == Written(None, e, l)
<1>1. /\ s.owner = e.owner /\ s.uri = e.uri
      /\ s.uri_updated_ledger = None /\ s.transferred_ledger = None
      /\ s.doc = None /\ s.pending = (e.uri # EmptyUri)
  BY InsertedRow
<1> HIDE DEF s
<1>2. m["owner"] = None /\ m["uri"] = None
  BY DEF GuardedColumns, SetsColumn
<1>3. RegistrationOf(i, a) /\ AgentExists(a)
  BY DEF RegistrationOf, IsRegistration, ChainInv, RegisteredOnce
<1>4. e.owner = Says(e, "owner") /\ e.uri = Says(e, "uri")
  BY SaysFacts
<1>5. RowGuarded(a, s, m)
  BY <1>1, <1>2, <1>3, <1>4 DEF RowGuarded, ColumnGuarded
<1>6. DocumentFits(s)
  BY <1>1 DEF DocumentFits
<1> QED
  BY <1>5, <1>6 DEF s

\* The page loses the event that was written.
LEMMA PageAdvances ==
  ASSUME ChainInv, WriterInv, NEW w \in Writers, NEW i \in run[w].page, WriteEvent(w, i)
  PROVE  Rest(w)' = Rest(w) \ {i} /\ Position(w)'
<1>0. PICK e \in Event, l \in Ledgers, a \in Agents, t \in RunStates, s \in Rows :
         WriteOf(w, i, e, l, a, t, s)
  BY WriteEventStep
<1>1. /\ e = log[i].event /\ a = e.agent /\ row' = [row EXCEPT ![a] = s]
      /\ run' = [run EXCEPT ![w] = t]
      /\ t.pc = "write" /\ t.to = run[w].to /\ t.page = run[w].page \ {i}
      /\ UNCHANGED <<chain, log>>
  BY <1>0 DEF WriteOf
<1>2. /\ i \in Entries /\ log[i].ledger <= run[w].to
      /\ \A j \in Entries \ Rest(w) : ~IsRegistration(j) => j < i
      /\ \A j \in run[w].page \ {i} : ~IsRegistration(i) => i < j
  BY NextOfPage
<1>3. /\ row \in [Agents -> Rows \cup {None}] /\ run \in [Writers -> RunStates]
      /\ Position(w) /\ At(w, "write") /\ run[w].to \in Nat
  <2>1. run[w] \in RunStates
    BY DEF WriterInv, ProjectionTypes
  <2> QED
    BY <2>1 DEF WriterInv, ProjectionTypes, WriteEvent, RunStates
<1>4. /\ run[w].to < ledger /\ run[w].page \subseteq Entries
      /\ \A j \in run[w].page : log[j].ledger <= run[w].to
      /\ HaveRow(Entries \ Rest(w))
      /\ \A h \in run[w].page : \A j \in Entries \ Rest(w) : ~IsRegistration(j) => j < h
  BY <1>3 DEF Position
<1>5. run'[w] = t /\ log' = log /\ ledger' = ledger /\ Entries' = Entries
  BY <1>1, <1>3 DEF chain, vars, Entries
<1>6. Rest(w)' = Rest(w) \ {i}
  <2>1. log[i].ledger \in Nat
    BY <1>2, LogFacts
  <2> QED
    BY <2>1, <1>1, <1>2, <1>3, <1>5 DEF Rest
<1>7. \A id \in Agents : row[id] # None => row'[id] # None
  BY <1>1, <1>3, RowShape
<1>8. row'[log[i].event.agent] # None
  BY <1>1, <1>3, RowShape
<1>9. HaveRow(Entries \ Rest(w))'
  <2>1. \A j \in Entries \ Rest(w) : row'[log[j].event.agent] # None
    BY <1>4, <1>7, LogFacts DEF HaveRow
  <2> QED
    BY <2>1, <1>5, <1>6, <1>8 DEF HaveRow
<1>10. \A h \in t.page : \A j \in Entries \ Rest(w)' : ~IsRegistration(j) => j < h
  BY <1>1, <1>2, <1>4, <1>6
<1>11. \A j \in Entries : IsRegistration(j)' = IsRegistration(j)
  BY <1>5 DEF IsRegistration
<1>12. Position(w)'
  <2>1. /\ run'[w].to < ledger' /\ run'[w].page \subseteq Entries'
        /\ \A j \in run'[w].page : log'[j].ledger <= run'[w].to
    BY <1>1, <1>4, <1>5
  <2>2. \A h \in run'[w].page : \A j \in Entries' \ Rest(w)' : ~IsRegistration(j)' => j < h
    BY <1>5, <1>10, <1>11
  <2>3. run'[w].pc = "write"
    BY <1>1, <1>5
  <2> QED
    BY <2>1, <2>2, <2>3, <1>9 DEF Position, At
<1> QED
  BY <1>6, <1>12

\* An event is written.
LEMMA WriteEventKeeps ==
  ASSUME ChainInv, WriterInv, NEW w \in Writers, NEW i \in run[w].page, WriteEvent(w, i)
  PROVE  WriterInv'
<1>0. PICK e \in Event, l \in Ledgers, a \in Agents, t \in RunStates, s \in Rows :
         WriteOf(w, i, e, l, a, t, s)
  BY WriteEventStep
<1>1. /\ e = log[i].event /\ l = log[i].ledger /\ a = e.agent
      /\ s = Written(row[a], e, l) /\ row' = [row EXCEPT ![a] = s]
      /\ newest' = [newest EXCEPT ![a] = [c \in GuardedColumns |->
                       IF SetsColumn(e, c) /\ NotAfter(newest[a][c], l) THEN l
                       ELSE newest[a][c]]]
      /\ run' = [run EXCEPT ![w] = t]
      /\ row[a] \in Rows \/ (row[a] = None /\ e.type = "registered")
      /\ UNCHANGED <<chain, log, expected, holder, alone>>
  BY <1>0 DEF WriteOf
<1>2. i \in Entries /\ Position(w)'
  BY NextOfPage, PageAdvances
<1>3. /\ newest \in [Agents -> [GuardedColumns -> Ledgers \cup {None}]]
      /\ Guards /\ OwnerAndUriNeverUndone
      /\ row[a] # None => DocumentFits(row[a])
  BY DEF WriterInv, ProjectionTypes, Documents, DocumentMatchesUri, NoUriStranded, DocumentFits
<1>4. PICK n \in [GuardedColumns -> Ledgers \cup {None}] : n = newest[a]
  BY <1>3
<1>5. PICK m \in [GuardedColumns -> Ledgers \cup {None}] :
         m = [c \in GuardedColumns |-> IF SetsColumn(e, c) /\ NotAfter(n[c], l) THEN l ELSE n[c]]
  OBVIOUS
<1>6. newest' = [newest EXCEPT ![a] = m]
  BY <1>1, <1>4, <1>5
<1>7. newest' \in [Agents -> [GuardedColumns -> Ledgers \cup {None}]]
  BY <1>3, <1>6
<1>8. RowGuarded(a, s, m) /\ DocumentFits(s)
  <2>1. CASE row[a] = None
    <3>1. e.type = "registered"
      BY <2>1, <1>1, RowShape
    <3>2. \A c \in GuardedColumns : n[c] = None
      BY <2>1, <1>3, <1>4 DEF Guards
    <3>3. s = Written(None, e, l)
      BY <2>1, <1>1
    <3>4. RowGuarded(a, Written(None, e, l), m) /\ DocumentFits(Written(None, e, l))
      BY <3>1, <3>2, <1>1, <1>2, <1>5, InsertedGuarded
    <3> QED
      BY <3>3, <3>4
  <2>2. CASE row[a] # None
    <3>1. PICK r \in Rows : r = row[a]
      BY <2>2, <1>1
    <3>2. RowGuarded(a, r, n) /\ DocumentFits(r)
      BY <2>2, <3>1, <1>3, <1>4, GuardsOfRow
    <3>3. s = Written(r, e, l)
      BY <3>1, <1>1
    <3>4. RowGuarded(a, Written(r, e, l), m) /\ DocumentFits(Written(r, e, l))
      BY <3>2, <1>1, <1>2, <1>5, WrittenGuarded
    <3> QED
      BY <3>3, <3>4
  <2> QED
    BY <2>1, <2>2
<1>9. Guards' /\ OwnerAndUriNeverUndone'
  BY <1>1, <1>6, <1>8, GuardsWritten
<1> QED
  BY <1>1, <1>2, <1>7, <1>8, <1>9, OneRowWritten

-----------------------------------------------------------------------------
(* The theorems about the rows *)

\* Every step keeps both invariants.
LEMMA ProjectionStep ==
  ASSUME ChainInv, WriterInv, [ProjectionNext]_allVars
  PROVE  ChainInv' /\ WriterInv'
<1>1. CASE Publish
  BY <1>1, PublishKeeps, PublishKeepsWriters
<1>2. CASE \E w \in Writers : StartRun(w)
  <2>1. UNCHANGED <<chain, log>>
    BY <1>2 DEF StartRun
  <2> QED
    BY <1>2, <2>1, ChainStays, StartRunKeeps
<1>3. CASE \E w \in Writers, to \in Ledgers : GetPage(w, to)
  <2>1. UNCHANGED <<chain, log>>
    BY <1>3 DEF GetPage
  <2> QED
    BY <1>3, <2>1, ChainStays, GetPageKeeps
<1>4. CASE \E w \in Writers : \E i \in run[w].page : WriteEvent(w, i)
  <2>1. UNCHANGED <<chain, log>>
    BY <1>4 DEF WriteEvent
  <2> QED
    BY <1>4, <2>1, ChainStays, WriteEventKeeps
<1>5. CASE \E w \in Writers : SavePage(w)
  <2>1. UNCHANGED <<chain, log>>
    BY <1>5 DEF SavePage
  <2> QED
    BY <1>5, <2>1, ChainStays, SavePageKeeps
<1>6. CASE \E w \in Writers : EndRun(w)
  <2>1. UNCHANGED <<chain, log>>
    BY <1>6 DEF EndRun
  <2> QED
    BY <1>6, <2>1, ChainStays, EndRunKeeps
<1>7. CASE \E w \in Writers, id \in Agents : SelectPending(w, id)
  <2>1. UNCHANGED <<chain, log>>
    BY <1>7 DEF SelectPending
  <2> QED
    BY <1>7, <2>1, ChainStays, SelectPendingKeeps
<1>8. CASE \E w \in Writers : RecordTry(w)
  <2>1. UNCHANGED <<chain, log>>
    BY <1>8 DEF RecordTry
  <2> QED
    BY <1>8, <2>1, ChainStays, RecordTryKeeps
<1>9. CASE \E w \in Writers : Store(w)
  <2>1. UNCHANGED <<chain, log>>
    BY <1>9 DEF Store
  <2> QED
    BY <1>9, <2>1, ChainStays, StoreKeeps
<1>10. CASE UNCHANGED allVars
  <2>1. UNCHANGED <<chain, log>> /\ UNCHANGED <<row, expected, holder, run, newest, alone>>
    BY <1>10 DEF allVars, dbVars
  <2>2. ledger' = ledger /\ owner' = owner
    BY <2>1 DEF chain, vars
  <2>3. Guards' /\ OwnerAndUriNeverUndone'
    BY <2>1, <2>2, GuardsStay DEF WriterInv
  <2>4. \A w \in Writers : Position(w)'
    BY <2>1, <2>2, PositionStays DEF WriterInv
  <2>5. HaveRow(BelowLedger(expected))'
    BY <2>1, CheckpointStays DEF WriterInv
  <2>6. ProjectionTypes' /\ Documents'
    BY <2>1 DEF WriterInv, ProjectionTypes, Documents, DocumentMatchesUri, NoUriStranded
  <2>7. WriterInv'
    BY <2>1, <2>2, <2>3, <2>4, <2>5, <2>6 DEF WriterInv
  <2> QED
    BY <2>1, <2>7, ChainStays
<1> QED
  BY <1>1, <1>2, <1>3, <1>4, <1>5, <1>6, <1>7, <1>8, <1>9, <1>10 DEF ProjectionNext

\* The invariants hold.
LEMMA ProjectionInvariant == ProjectionSpec => [](ChainInv /\ WriterInv)
<1>1. ProjectionInit => ChainInv /\ WriterInv
  BY ChainInit, WriterInit
<1>2. ChainInv /\ WriterInv /\ [ProjectionNext]_allVars => (ChainInv /\ WriterInv)'
  BY ProjectionStep
<1> QED
  BY <1>1, <1>2, PTL DEF ProjectionSpec

\* The ledger guards of uriUpdated and transferred hold whatever the number of
\* runs: replays and runs that lost the lock included, the owner and the URI of
\* a row are what an event of the newest ledger written about them says, never
\* one of an older ledger.
THEOREM NothingUndone == ProjectionSpec => []OwnerAndUriNeverUndone
<1>1. WriterInv => OwnerAndUriNeverUndone
  BY DEF WriterInv
<1> QED
  BY <1>1, ProjectionInvariant, PTL

\* A document that arrives after the URI has changed is not stored.
THEOREM DocumentsMatch == ProjectionSpec => []DocumentMatchesUri
<1>1. WriterInv => DocumentMatchesUri
  BY DEF WriterInv, Documents
<1> QED
  BY <1>1, ProjectionInvariant, PTL

\* A URI without its document stays in the queue of the resolver until its
\* tries are used up.
THEOREM UrisStayPending == ProjectionSpec => []NoUriStranded
<1>1. WriterInv => NoUriStranded
  BY DEF WriterInv, Documents
<1> QED
  BY <1>1, ProjectionInvariant, PTL

-----------------------------------------------------------------------------
(* Runs that do not overlap leave the rows as the contract has them *)

\* The run that is active, while runs do not overlap.
LEMMA ActiveRun ==
  ASSUME Alone, alone, NEW w \in Writers, ~At(w, "idle")
  PROVE  /\ \A v \in Writers \ {w} : At(v, "idle")
         /\ holder = w
         /\ At(w, "index") => run[w].from = expected
         /\ At(w, "write") => /\ Agrees(Rest(w)) /\ expected <= run[w].to + 1
                              /\ \A i \in run[w].page : expected <= log[i].ledger
         /\ ~At(w, "write") => Agrees(Entries \ BelowLedger(expected))
<1>1. \A v \in Writers \ {w} : At(v, "idle")
  BY DEF Alone
<1>2. ~At(w, "write") => \A v \in Writers : ~At(v, "write")
  BY <1>1 DEF At
<1> QED
  BY <1>1, <1>2 DEF Alone

\* What has to be shown of a step of it.
LEMMA ActiveRunStep ==
  ASSUME NEW w \in Writers, \A v \in Writers \ {w} : At(v, "idle")',
         At(w, "index")' => run'[w].from = expected',
         ~At(w, "idle")' => holder' = w,
         At(w, "write")' => /\ Agrees(Rest(w))' /\ expected' <= run'[w].to + 1
                            /\ \A i \in run'[w].page : expected' <= log'[i].ledger,
         ~At(w, "write")' => Agrees(Entries \ BelowLedger(expected))'
  PROVE  Alone'
<1>1. \A v \in Writers : At(v, "index")' \/ At(v, "write")' \/ ~At(v, "idle")' => v = w
  BY DEF At
<1> QED
  BY <1>1 DEF Alone

\* The rows agree on fewer cells when more events are ahead, and a step that
\* leaves the columns of the rows changes nothing.
LEMMA AgreesKept ==
  ASSUME UNCHANGED <<chain, log>>, NEW S, NEW T, S \subseteq T, Agrees(S),
         \A id \in Agents : row'[id] # None =>
            /\ row[id] # None
            /\ row'[id].owner = row[id].owner /\ row'[id].uri = row[id].uri
            /\ row'[id].wallet = row[id].wallet /\ row'[id].metadata = row[id].metadata
  PROVE  Agrees(T)'
<1> SUFFICES ASSUME NEW id \in Agents, NEW c \in Columns, NEW k \in Keys,
                    row'[id] # None, \A i \in T : ~Sets(i, id, c, k)'
             PROVE  InRow(id, c, k)' = OnChain(id, c, k)'
  BY DEF Agrees
<1>1. \A i \in S : ~Sets(i, id, c, k)
  BY DEF Sets
<1>2. InRow(id, c, k) = OnChain(id, c, k)
  BY <1>1 DEF Agrees
<1>3. OnChain(id, c, k)' = OnChain(id, c, k)
  BY DEF OnChain, ChainUri, chain, vars
<1>4. InRow(id, c, k)' = InRow(id, c, k)
  BY DEF InRow, Columns
<1> QED
  BY <1>2, <1>3, <1>4

\* Initially there is nothing to agree on.
LEMMA AloneInit ==
  ASSUME ProjectionInit
  PROVE  Alone
<1>1. run = [w \in Writers |-> NoRun] /\ row = [id \in Agents |-> None]
  BY DEF ProjectionInit
<1>2. \A w \in Writers : At(w, "idle") /\ ~At(w, "index") /\ ~At(w, "write")
  BY <1>1, IdleRun DEF At
<1>3. \A ids : Agrees(ids)
  BY <1>1 DEF Agrees
<1> QED
  BY <1>2, <1>3 DEF Alone

\* Ledgers are natural numbers: an event is ahead of the checkpoint or below it.
LEMMA AheadOfCheckpoint ==
  ASSUME ChainInv, WriterInv, NEW w \in Writers, At(w, "write"),
         expected <= run[w].to + 1, \A i \in run[w].page : expected <= log[i].ledger
  PROVE  Rest(w) \subseteq Entries \ BelowLedger(expected)
<1>1. run[w] \in RunStates /\ expected \in Nat /\ Position(w)
  BY DEF WriterInv, ProjectionTypes
<1>2. run[w].to \in Nat /\ run[w].page \subseteq Entries
  BY <1>1 DEF RunStates, Position
<1> QED
  BY <1>1, <1>2, LogFacts DEF Rest, BelowLedger

\* A run starts when all are idle.
LEMMA StartRunAlone ==
  ASSUME ChainInv, WriterInv, Alone, NEW w \in Writers, StartRun(w)
  PROVE  Alone'
<1> SUFFICES ASSUME alone' PROVE Alone'
  BY DEF Alone
<1>1. /\ UNCHANGED <<chain, log, row, expected>> /\ holder' = w
      /\ alone /\ \A v \in Writers : At(v, "idle")
      /\ run' = [run EXCEPT ![w] = [NoRun EXCEPT !.pc = "index", !.from = expected]]
  BY DEF StartRun
<1>2. run \in [Writers -> RunStates] /\ expected \in Nat
  BY DEF WriterInv, ProjectionTypes
<1>3. run'[w].pc = "index" /\ run'[w].from = expected
  BY <1>1, <1>2, IdleRun
<1>4. \A v \in Writers \ {w} : At(v, "idle")'
  BY <1>1, <1>2 DEF At
<1>5. Agrees(Entries \ BelowLedger(expected))
  BY <1>1 DEF Alone, At
<1>6. PICK T : T = Entries \ BelowLedger(expected)
  OBVIOUS
<1>7. (Entries \ BelowLedger(expected))' = T
  BY <1>1, <1>6 DEF Entries, BelowLedger
<1>8. Agrees(T)'
  BY <1>1, <1>5, <1>6, AgreesKept
<1>9. Agrees(Entries \ BelowLedger(expected))'
  BY <1>7, <1>8 DEF Agrees
<1> QED
  BY <1>1, <1>3, <1>4, <1>9, ActiveRunStep DEF At

\* The page is all there is between the checkpoint and its last ledger.
LEMMA GetPageAlone ==
  ASSUME ChainInv, WriterInv, Alone, NEW w \in Writers, NEW to \in Ledgers, GetPage(w, to)
  PROVE  Alone'
<1> SUFFICES ASSUME alone' PROVE Alone'
  BY DEF Alone
<1>1. PICK p : p = EventsOf(run[w].from, to)
  OBVIOUS
<1> DEFINE t == [NoRun EXCEPT !.pc = "write", !.to = to, !.page = p]
<1>2. /\ UNCHANGED <<chain, log, row, expected, holder>> /\ alone
      /\ At(w, "index") /\ ~At(w, "idle") /\ ~At(w, "write")
      /\ to \in run[w].from .. ledger - 1 /\ run' = [run EXCEPT ![w] = t]
  BY <1>1 DEF GetPage, At
<1>3. run \in [Writers -> RunStates] /\ expected \in Nat
  BY DEF WriterInv, ProjectionTypes
<1>4. /\ \A v \in Writers \ {w} : At(v, "idle")
      /\ holder = w /\ run[w].from = expected /\ Agrees(Entries \ BelowLedger(expected))
  BY <1>2, ActiveRun
<1>5. t.pc = "write" /\ t.to = to /\ t.page = p
  BY DEF NoRun
<1> HIDE DEF t
<1>6. run'[w] = t /\ \A v \in Writers \ {w} : At(v, "idle")'
  BY <1>2, <1>3, <1>4 DEF At
<1>7. to \in Nat /\ expected <= to
  BY <1>2, <1>3, <1>4, LogFacts
<1>8. p = {i \in Entries : log[i].ledger \in expected .. to}
  BY <1>1, <1>4 DEF EventsOf, Entries
<1>9. \A i \in p : expected <= log[i].ledger
  BY <1>3, <1>7, <1>8, LogFacts
<1>10. PICK T : T = Rest(w)'
  OBVIOUS
<1>11. T = p \cup {i \in Entries : log[i].ledger > to}
  BY <1>2, <1>5, <1>6, <1>10 DEF Rest, Entries
<1>12. Entries \ BelowLedger(expected) \subseteq T
  BY <1>3, <1>7, <1>8, <1>11, LogFacts DEF BelowLedger
<1>13. Agrees(T)'
  <2>1. PICK S : S = Entries \ BelowLedger(expected)
    OBVIOUS
  <2> QED
    BY <2>1, <1>2, <1>4, <1>12, AgreesKept
<1>14. Agrees(Rest(w))'
  BY <1>10, <1>13 DEF Agrees
<1>15. expected' <= run'[w].to + 1 /\ \A i \in run'[w].page : expected' <= log'[i].ledger
  BY <1>2, <1>3, <1>5, <1>6, <1>7, <1>9
<1> QED
  BY <1>2, <1>4, <1>5, <1>6, <1>14, <1>15, ActiveRunStep DEF At

\* The checkpoint moves behind a page that is written.
LEMMA SavePageAlone ==
  ASSUME ChainInv, WriterInv, Alone, NEW w \in Writers, SavePage(w)
  PROVE  Alone'
<1> SUFFICES ASSUME alone' PROVE Alone'
  BY DEF Alone
<1>1. /\ UNCHANGED <<chain, log, row, holder>> /\ alone
      /\ At(w, "write") /\ ~At(w, "idle") /\ run[w].page = {}
  BY DEF SavePage, At
<1>2. run \in [Writers -> RunStates] /\ run[w] \in RunStates
  BY DEF WriterInv, ProjectionTypes
<1>4. PICK x \in Nat : x = run[w].to + 1
  BY <1>2 DEF RunStates
<1> DEFINE t == [NoRun EXCEPT !.pc = "index", !.from = x]
<1>5. expected' = x /\ run' = [run EXCEPT ![w] = t] /\ holder = w
  BY <1>1, <1>4, ActiveRun DEF SavePage
<1>6. t.pc = "index" /\ t.from = x
  BY IdleRun
<1> HIDE DEF t
<1>7. run'[w] = t /\ \A v \in Writers \ {w} : At(v, "idle")'
  BY <1>1, <1>2, <1>5, ActiveRun DEF At
<1>8. PICK T : T = (Entries \ BelowLedger(expected))'
  OBVIOUS
<1>9. run[w].to \in Nat
  BY <1>2 DEF RunStates
<1>10. Rest(w) \subseteq T
  BY <1>1, <1>4, <1>5, <1>8, <1>9, LogFacts DEF Rest, Entries, BelowLedger
<1>11. Agrees(T)'
  <2>1. PICK S : S = Rest(w)
    OBVIOUS
  <2>2. Agrees(S)
    BY <2>1, <1>1, ActiveRun
  <2> QED
    BY <2>1, <2>2, <1>1, <1>10, AgreesKept
<1>12. Agrees(Entries \ BelowLedger(expected))'
  BY <1>8, <1>11 DEF Agrees
<1> QED
  BY <1>1, <1>5, <1>6, <1>7, <1>12, ActiveRunStep DEF At

\* A step of the active run after which it writes no page: what it has left is
\* ahead of the checkpoint.
LEMMA NotWritingAlone ==
  ASSUME ChainInv, WriterInv, Alone, alone, NEW w \in Writers, ~At(w, "idle"),
         UNCHANGED <<chain, log, expected>>, NEW t, run' = [run EXCEPT ![w] = t],
         t.pc \notin {"index", "write"}, t.pc # "idle" => holder' = w,
         \A id \in Agents : row'[id] # None =>
            /\ row[id] # None
            /\ row'[id].owner = row[id].owner /\ row'[id].uri = row[id].uri
            /\ row'[id].wallet = row[id].wallet /\ row'[id].metadata = row[id].metadata
  PROVE  Alone'
<1>1. run \in [Writers -> RunStates]
  BY DEF WriterInv, ProjectionTypes
<1>2. run'[w] = t /\ \A v \in Writers \ {w} : At(v, "idle")'
  BY <1>1, ActiveRun DEF At
<1>3. PICK T : T = Entries \ BelowLedger(expected)
  OBVIOUS
<1>4. \E S : S \subseteq T /\ Agrees(S)
  <2>1. CASE At(w, "write")
    <3>1. PICK S : S = Rest(w)
      OBVIOUS
    <3>2. Agrees(S)
      BY <2>1, <3>1, ActiveRun
    <3>3. S \subseteq T
      BY <2>1, <3>1, <1>3, ActiveRun, AheadOfCheckpoint
    <3> QED
      BY <3>2, <3>3
  <2>2. CASE ~At(w, "write")
    <3>1. Agrees(T)
      BY <2>2, <1>3, ActiveRun
    <3> QED
      BY <3>1
  <2> QED
    BY <2>1, <2>2
<1>5. Agrees(T)'
  BY <1>4, AgreesKept
<1>6. (Entries \ BelowLedger(expected))' = T
  BY <1>3 DEF Entries, BelowLedger
<1>7. Agrees(Entries \ BelowLedger(expected))'
  BY <1>5, <1>6 DEF Agrees
<1> QED
  BY <1>2, <1>7, ActiveRunStep DEF At

\* A run ends or goes over to the resolver.
LEMMA EndRunAlone ==
  ASSUME ChainInv, WriterInv, Alone, NEW w \in Writers, EndRun(w)
  PROVE  Alone'
<1> SUFFICES ASSUME alone' PROVE Alone'
  BY DEF Alone
<1>1. /\ UNCHANGED <<chain, log, expected>> /\ row' = row /\ alone /\ ~At(w, "idle")
      /\ run' = [run EXCEPT ![w] = NoRun]
  BY DEF EndRun
<1> QED
  BY <1>1, IdleRun, NotWritingAlone

\* The resolver selects an agent.
LEMMA SelectPendingAlone ==
  ASSUME ChainInv, WriterInv, Alone, NEW w \in Writers, NEW id \in Agents, SelectPending(w, id)
  PROVE  Alone'
<1> SUFFICES ASSUME alone' PROVE Alone'
  BY DEF Alone
<1>1. PICK t : t = [NoRun EXCEPT !.pc = "try", !.agent = id,
                                 !.uri = row[id].uri, !.attempts = row[id].attempts]
  OBVIOUS
<1>2. /\ UNCHANGED <<chain, log, expected>> /\ row' = row /\ alone /\ ~At(w, "idle")
      /\ run' = [run EXCEPT ![w] = t] /\ holder' = holder
  BY <1>1 DEF SelectPending, At
<1>3. t.pc = "try"
  BY <1>1 DEF NoRun
<1>4. holder = w
  BY <1>2, ActiveRun
<1> QED
  BY <1>2, <1>3, <1>4, NotWritingAlone

\* A counted try leaves what the chain is about.
LEMMA RecordTryAlone ==
  ASSUME ChainInv, WriterInv, Alone, NEW w \in Writers, RecordTry(w)
  PROVE  Alone'
<1> SUFFICES ASSUME alone' PROVE Alone'
  BY DEF Alone
<1>1. PICK a, u, n : a = run[w].agent /\ u = run[w].uri /\ n = run[w].attempts + 1
  OBVIOUS
<1>2. PICK t : t = [run[w] EXCEPT !.pc = "store", !.attempts = 0]
  OBVIOUS
<1>3. /\ run \in [Writers -> RunStates] /\ row \in [Agents -> Rows \cup {None}] /\ Position(w)
  BY DEF WriterInv, ProjectionTypes
<1>4. /\ UNCHANGED <<chain, log, expected>> /\ alone /\ ~At(w, "idle") /\ holder' = holder
      /\ row' = IF row[a].uri # u THEN row
                ELSE [row EXCEPT ![a].attempts = n, ![a].pending = n < MAX_ATTEMPTS]
      /\ At(w, "try")
  BY <1>1 DEF RecordTry, At
<1>5. run' = [run EXCEPT ![w] = t] /\ t.pc = "store"
  <2>1. run[w] \in RunStates
    BY <1>3
  <2> QED
    BY <2>1, <1>2, <1>3 DEF RecordTry, RunStates
<1>6. a \in Agents /\ row[a] # None
  BY <1>1, <1>3, <1>4 DEF Position, At
<1>7. \A id \in Agents : row'[id] # None =>
            /\ row[id] # None
            /\ row'[id].owner = row[id].owner /\ row'[id].uri = row[id].uri
            /\ row'[id].wallet = row[id].wallet /\ row'[id].metadata = row[id].metadata
  <2>1. PICK r \in Rows : r = row[a]
    BY <1>3, <1>6
  <2> DEFINE s == [r EXCEPT !.attempts = n, !.pending = n < MAX_ATTEMPTS]
  <2>2. s.owner = r.owner /\ s.uri = r.uri /\ s.wallet = r.wallet /\ s.metadata = r.metadata
    BY DEF Rows
  <2>3. row' = row \/ row' = [row EXCEPT ![a] = s]
    BY <2>1, <1>3, <1>4, <1>6
  <2> HIDE DEF s
  <2> QED
    BY <2>1, <2>2, <2>3, <1>3, <1>6
<1>8. holder = w
  BY <1>4, ActiveRun
<1> QED
  BY <1>4, <1>5, <1>7, <1>8, NotWritingAlone

\* So does a stored document.
LEMMA StoreAlone ==
  ASSUME ChainInv, WriterInv, Alone, NEW w \in Writers, Store(w)
  PROVE  Alone'
<1> SUFFICES ASSUME alone' PROVE Alone'
  BY DEF Alone
<1>1. PICK a, u : a = run[w].agent /\ u = run[w].uri
  OBVIOUS
<1>2. /\ row \in [Agents -> Rows \cup {None}] /\ Position(w)
  BY DEF WriterInv, ProjectionTypes
<1>3. /\ UNCHANGED <<chain, log, expected>> /\ alone /\ ~At(w, "idle") /\ At(w, "store")
      /\ row' = IF row[a].uri = u
                THEN [row EXCEPT ![a].doc = u, ![a].attempts = 0, ![a].pending = FALSE]
                ELSE row
      /\ run' = [run EXCEPT ![w] = NoRun]
  BY <1>1 DEF Store, StillCurrent, At
<1>4. a \in Agents /\ row[a] # None
  BY <1>1, <1>2, <1>3 DEF Position, At
<1>5. \A id \in Agents : row'[id] # None =>
            /\ row[id] # None
            /\ row'[id].owner = row[id].owner /\ row'[id].uri = row[id].uri
            /\ row'[id].wallet = row[id].wallet /\ row'[id].metadata = row[id].metadata
  <2>1. PICK r \in Rows : r = row[a]
    BY <1>2, <1>4
  <2> DEFINE s == [r EXCEPT !.doc = u, !.attempts = 0, !.pending = FALSE]
  <2>2. s.owner = r.owner /\ s.uri = r.uri /\ s.wallet = r.wallet /\ s.metadata = r.metadata
    BY DEF Rows
  <2>3. row' = row \/ row' = [row EXCEPT ![a] = s]
    BY <2>1, <1>2, <1>3, <1>4
  <2> HIDE DEF s
  <2> QED
    BY <2>1, <2>2, <2>3, <1>2, <1>4
<1> QED
  BY <1>3, <1>5, IdleRun, NotWritingAlone

\* What the chain publishes is ahead of the runs.
LEMMA AgreesBehindPublish ==
  ASSUME ChainInv, WriterInv, Publish, NEW S, S \subseteq Entries, Agrees(S),
         NEW T, S \subseteq T, Entries' \ Entries \subseteq T
  PROVE  Agrees(T)'
<1> SUFFICES ASSUME NEW id \in Agents, NEW c \in Columns, NEW k \in Keys,
                    row'[id] # None, \A i \in T : ~Sets(i, id, c, k)'
             PROVE  InRow(id, c, k)' = OnChain(id, c, k)'
  BY DEF Agrees
<1>1. row' = row
  BY LogGrows DEF dbVars
<1>2. \A i \in S : ~Sets(i, id, c, k)
  BY LogGrows DEF Sets
<1>3. InRow(id, c, k) = OnChain(id, c, k)
  BY <1>1, <1>2 DEF Agrees
<1>4. InRow(id, c, k)' = InRow(id, c, k)
  BY <1>1 DEF InRow
<1>5. owner[id] # None
  BY <1>1 DEF WriterInv, Guards, AgentExists
<1>6. PICK N \in Nat, M \in Nat, evs \in Seq(Event) :
            /\ Tells(evs) /\ DOMAIN evs = 1 .. M /\ Entries = 1 .. N /\ Entries' = 1 .. N + M
            /\ \A m \in 1 .. M : log'[N + m].event = evs[m]
  BY PublishedLog
<1>7. \A m \in 1 .. M : N + m \in Entries' \ Entries
  BY <1>6
<1>8. \A m \in 1 .. M : ~About(evs[m], id, c, k)
  BY <1>6, <1>7 DEF Sets
<1>9. OnChain(id, c, k)' = OnChain(id, c, k)
  <2>1. \A m \in DOMAIN evs : ~About(evs[m], id, c, k)
    BY <1>6, <1>8
  <2> QED
    BY <2>1, <1>5, <1>6 DEF Tells
<1> QED
  BY <1>3, <1>4, <1>9

\* The chain moves on.
LEMMA PublishAlone ==
  ASSUME ChainInv, WriterInv, Alone, Publish
  PROVE  Alone'
<1> SUFFICES ASSUME alone' PROVE Alone'
  BY DEF Alone
<1>1. UNCHANGED <<row, expected, holder, run, newest, alone>>
  BY LogGrows DEF dbVars
<1>2. /\ Entries \subseteq Entries' /\ \A i \in Entries : log'[i] = log[i]
      /\ \A i \in Entries' \ Entries : log'[i].ledger = ledger
      /\ ledger \in Nat /\ expected \in Nat /\ expected <= ledger
  BY LogGrows DEF WriterInv, ProjectionTypes
<1>3. (\A w \in Writers : ~At(w, "write")) => Agrees(Entries \ BelowLedger(expected))'
  <2> SUFFICES ASSUME \A w \in Writers : ~At(w, "write")
               PROVE  Agrees(Entries \ BelowLedger(expected))'
    OBVIOUS
  <2>1. PICK S, T : S = Entries \ BelowLedger(expected) /\ T = (Entries \ BelowLedger(expected))'
    OBVIOUS
  <2>2. Agrees(S) /\ S \subseteq Entries
    BY <2>1, <1>1 DEF Alone
  <2>3. S \subseteq T /\ Entries' \ Entries \subseteq T
    BY <2>1, <1>1, <1>2 DEF BelowLedger
  <2>4. Agrees(T)'
    BY <2>2, <2>3, AgreesBehindPublish
  <2> QED
    BY <2>1, <2>4 DEF Agrees
<1>4. ASSUME NEW w \in Writers, At(w, "write")
      PROVE  /\ Agrees(Rest(w))' /\ expected' <= run'[w].to + 1
             /\ \A i \in run'[w].page : expected' <= log'[i].ledger
  <2>1. /\ Agrees(Rest(w)) /\ expected <= run[w].to + 1
        /\ \A i \in run[w].page : expected <= log[i].ledger
    BY <1>1, <1>4 DEF Alone
  <2>2. run[w] \in RunStates /\ Position(w)
    BY DEF WriterInv, ProjectionTypes
  <2>3. run[w].page \subseteq Entries /\ run[w].to \in Nat /\ run[w].to < ledger
    BY <2>2, <1>4 DEF Position, RunStates
  <2>4. PICK S, T : S = Rest(w) /\ T = Rest(w)'
    OBVIOUS
  <2>5. S \subseteq Entries /\ S \subseteq T /\ Entries' \ Entries \subseteq T
    BY <2>3, <2>4, <1>1, <1>2 DEF Rest
  <2>6. Agrees(T)'
    BY <2>1, <2>4, <2>5, AgreesBehindPublish
  <2>7. Agrees(Rest(w))'
    BY <2>4, <2>6 DEF Agrees
  <2> QED
    BY <2>1, <2>3, <2>7, <1>1, <1>2
<1> QED
  BY <1>1, <1>3, <1>4 DEF Alone, At

\* A statement leaves the cells that its event is not about.
LEMMA OtherCells ==
  ASSUME NEW r \in Rows, NEW e \in Event, NEW l \in Ledgers, NEW c \in Columns, NEW k \in Keys,
         ~Writes(e, c, k)
  PROVE  LET s == Written(r, e, l)
         IN IF c = "metadata" THEN s.metadata[k] = r.metadata[k] ELSE s[c] = r[c]
<1> DEFINE s == Written(r, e, l)
<1>1. CASE e.type = "registered"
  <2>1. s = r
    BY <1>1, RowShape, KeptRow
  <2> QED
    BY <2>1
<1>2. CASE e.type = "uri_updated"
  <2>1. c # "uri"
    BY <1>2, WritesFacts
  <2>2. s.owner = r.owner /\ s.wallet = r.wallet /\ s.metadata = r.metadata
    BY <1>2, UriUpdatedRow
  <2> HIDE DEF s
  <2>3. IF c = "metadata" THEN s.metadata[k] = r.metadata[k] ELSE s[c] = r[c]
    BY <2>1, <2>2 DEF Columns
  <2> QED
    BY <2>3 DEF s
<1>3. CASE e.type = "transfer"
  <2>1. c = "uri"
    BY <1>3, WritesFacts
  <2>2. s.uri = r.uri
    BY <1>3, TransferredRow
  <2> QED
    BY <2>1, <2>2
<1>4. CASE e.type = "metadata_set"
  <2>1. /\ s.owner = r.owner /\ s.uri = r.uri
        /\ e.key = ReservedKey => s.metadata = r.metadata
        /\ e.key # ReservedKey => /\ s.wallet = r.wallet
                                  /\ \A h \in Keys \ {e.key} : s.metadata[h] = r.metadata[h]
    BY <1>4, MetadataSetRow
  <2>2. /\ e.key = ReservedKey => c # "wallet"
        /\ e.key # ReservedKey => ~(c = "metadata" /\ e.key = k)
    BY <1>4, WritesFacts
  <2> HIDE DEF s
  <2>3. IF c = "metadata" THEN s.metadata[k] = r.metadata[k] ELSE s[c] = r[c]
    BY <2>1, <2>2 DEF Columns
  <2> QED
    BY <2>3 DEF s
<1> QED
  BY <1>1, <1>2, <1>3, <1>4, EventFields

\* The event a page writes next is the last one about its cells, unless one
\* ahead is about them too.
LEMMA LastAboutCell ==
  ASSUME ChainInv, WriterInv, NEW w \in Writers, NEW i \in run[w].page, WriteEvent(w, i),
         NEW id \in Agents, NEW c \in Columns, NEW k \in Keys, Sets(i, id, c, k),
         \A j \in Rest(w) \ {i} : ~Sets(j, id, c, k)
  PROVE  /\ \A j \in Entries : Sets(j, id, c, k) => j <= i
         /\ OnChain(id, c, k) = Says(log[i].event, c)
<1>1. i \in Entries /\ \A j \in Entries \ Rest(w) : ~IsRegistration(j) => j < i
  BY NextOfPage
<1>2. ASSUME NEW j \in Entries, i < j
      PROVE  ~Sets(j, id, c, k)
  <2>1. i \in Nat /\ j \in Nat
    BY <1>1, LogFacts
  <2>2. CASE j \in Rest(w)
    BY <2>1, <2>2, <1>2
  <2>3. CASE j \notin Rest(w)
    <3>1. SUFFICES ASSUME Sets(j, id, c, k) PROVE FALSE
      OBVIOUS
    <3>2. IsRegistration(j)
      BY <2>1, <2>3, <1>1, <1>2
    <3>3. log[i].event.agent = id /\ log[j].event.agent = id
      BY <3>1 DEF Sets, About
    <3>4. Writes(log[i].event, c, k) /\ Writes(log[j].event, c, k)
      BY <3>1 DEF Sets, About
    <3>5. c \in {"owner", "uri"}
      BY <3>2, <3>4, WritesFacts DEF IsRegistration
    <3>6. log[i].event \in Event
      BY <1>1, LogFacts
    <3>7. log[i].event.type \in {"registered", "uri_updated", "transfer"}
      BY <3>4, <3>5, <3>6, WritesFacts, EventFields
    <3>8. RegistrationOf(j, log[i].event.agent)
      BY <3>2, <3>3 DEF RegistrationOf
    <3>9. (IsRegistration(i) => i = j)
          /\ (log[i].event.type \in {"uri_updated", "transfer"} => j < i)
      BY <3>8, <1>1 DEF ChainInv, RegisteredOnce
    <3> QED
      BY <3>7, <3>9, <2>1, <1>2 DEF IsRegistration
  <2> QED
    BY <2>2, <2>3
<1>3. \A j \in Entries : Sets(j, id, c, k) => j <= i
  BY <1>1, <1>2, LogFacts
<1>4. OnChain(id, c, k) = Says(log[i].event, c)
  BY <1>1, <1>2 DEF ChainInv, LogTellsChain
<1> QED
  BY <1>3, <1>4

\* A guard turns an event away only for a later one about the same column.
LEMMA GuardTurnsAway ==
  ASSUME ChainInv, WriterInv, NEW a \in Agents, NEW i \in Entries, NEW c \in GuardedColumns,
         row[a] # None, newest[a][c] # None, ~(newest[a][c] <= log[i].ledger)
  PROVE  \E j \in Entries : /\ i < j /\ log[j].event.agent = a
                            /\ SetsColumn(log[j].event, c)
<1>1. PICK j \in Entries :
         /\ log[j].event.agent = a /\ log[j].ledger = newest[a][c] /\ SetsColumn(log[j].event, c)
  BY DEF WriterInv, OwnerAndUriNeverUndone, Entries
<1>2. log[i].ledger < log[j].ledger
  BY <1>1, LogFacts
<1> QED
  BY <1>1, <1>2, LogFacts

\* So what the event says of a cell it is the last about is in the row.
LEMMA CellWritten ==
  ASSUME ChainInv, WriterInv, NEW w \in Writers, NEW i \in run[w].page, WriteEvent(w, i),
         NEW id \in Agents, NEW c \in Columns, NEW k \in Keys, Sets(i, id, c, k),
         \A j \in Rest(w) \ {i} : ~Sets(j, id, c, k)
  PROVE  InRow(id, c, k)' = OnChain(id, c, k)
<1>1. /\ \A j \in Entries : Sets(j, id, c, k) => j <= i
      /\ OnChain(id, c, k) = Says(log[i].event, c)
  BY LastAboutCell
<1>0. PICK e \in Event, l \in Ledgers, a \in Agents, t \in RunStates, s \in Rows :
         WriteOf(w, i, e, l, a, t, s)
  BY WriteEventStep
<1>2. /\ e = log[i].event /\ l = log[i].ledger /\ a = e.agent
      /\ s = Written(row[a], e, l) /\ row' = [row EXCEPT ![a] = s]
      /\ row[a] \in Rows \/ (row[a] = None /\ e.type = "registered")
  BY <1>0 DEF WriteOf
<1>3. id = a /\ Writes(e, c, k)
  BY <1>2 DEF Sets, About
<1>4. row'[a] = s
  BY <1>2 DEF WriterInv, ProjectionTypes
<1>5. i \in Entries /\ i \in Nat /\ l \in Nat
  BY <1>2, NextOfPage, LogFacts
<1>6. \A j \in Entries : i < j => ~Sets(j, id, c, k)
  BY <1>1, <1>5, LogFacts
<1>7. SUFFICES (IF c = "metadata" THEN s.metadata[k] ELSE s[c]) = Says(e, c)
  BY <1>1, <1>2, <1>3, <1>4 DEF InRow
<1>8. CASE row[a] = None
  <2>1. e.type = "registered" /\ s = Written(None, e, l)
    BY <1>2, <1>8, RowShape
  <2>2. c \in {"owner", "uri"}
    BY <2>1, <1>3, WritesFacts
  <2>3. s.owner = e.owner /\ s.uri = e.uri
    BY <2>1, InsertedRow
  <2> QED
    BY <2>1, <2>2, <2>3, SaysFacts
<1>9. CASE row[a] # None
  <2>1. PICK r \in Rows : r = row[a] /\ s = Written(r, e, l)
    BY <1>2, <1>9
  <2>2. /\ r.transferred_ledger = newest[a]["owner"] /\ r.uri_updated_ledger = newest[a]["uri"]
    BY <2>1, <1>9 DEF WriterInv, Guards
  <2>3. CASE e.type = "registered"
    <3>1. c \in {"owner", "uri"} /\ c \in GuardedColumns
      BY <2>3, <1>3, WritesFacts DEF GuardedColumns
    <3>2. s = r
      BY <2>1, <2>3, RowShape, KeptRow
    <3>3. newest[a][c] = None
      <4> SUFFICES ASSUME newest[a][c] # None PROVE FALSE
        OBVIOUS
      <4>1. PICK j \in Entries : log[j].event.agent = a /\ SetsColumn(log[j].event, c)
        BY <3>1 DEF WriterInv, OwnerAndUriNeverUndone, Entries
      <4>2. log[j].event.type \in {"uri_updated", "transfer"}
        BY <4>1 DEF SetsColumn
      <4>3. RegistrationOf(i, log[j].event.agent)
        BY <4>1, <2>3, <1>2 DEF RegistrationOf, IsRegistration
      <4>4. i < j
        BY <4>2, <4>3, <1>5 DEF ChainInv, RegisteredOnce
      <4>5. Writes(log[j].event, c, k)
        BY <4>1, <3>1, WritesFacts DEF SetsColumn
      <4> QED
        BY <4>1, <4>4, <4>5, <1>3, <1>6 DEF Sets, About
    <3>4. PICK h \in Entries : RegistrationOf(h, a) /\ row[a][c] = Says(log[h].event, c)
      BY <3>1, <3>3, <1>9 DEF WriterInv, Guards
    <3>5. h = i
      BY <3>4, <2>3, <1>2, <1>5 DEF ChainInv, RegisteredOnce, RegistrationOf, IsRegistration
    <3> QED
      BY <3>1, <3>2, <3>4, <3>5, <2>1, <1>2
  <2>4. CASE e.type = "uri_updated"
    <3>1. c = "uri"
      BY <2>4, <1>3, WritesFacts
    <3>2. NotAfter(r.uri_updated_ledger, l)
      <4> SUFFICES ASSUME ~NotAfter(r.uri_updated_ledger, l) PROVE FALSE
        OBVIOUS
      <4>1. newest[a]["uri"] # None /\ ~(newest[a]["uri"] <= l)
        BY <2>2 DEF NotAfter
      <4>2. PICK j \in Entries : /\ i < j /\ log[j].event.agent = a
                                 /\ SetsColumn(log[j].event, "uri")
        BY <4>1, <1>2, <1>5, <1>9, GuardTurnsAway DEF GuardedColumns
      <4>3. Writes(log[j].event, c, k)
        BY <4>2, <3>1, WritesFacts DEF SetsColumn
      <4> QED
        BY <4>2, <4>3, <1>3, <1>6 DEF Sets, About
    <3>3. s.uri = e.uri
      <4>1. CASE r.uri_updated_ledger = l /\ r.uri = e.uri
        <5>1. s = r
          BY <4>1, <2>1, <2>4, UriUpdatedRow
        <5> QED
          BY <4>1, <5>1
      <4>2. CASE ~(r.uri_updated_ledger = l /\ r.uri = e.uri)
        BY <4>2, <3>2, <2>1, <2>4, UriUpdatedRow
      <4> QED
        BY <4>1, <4>2
    <3> QED
      BY <3>1, <3>3, SaysFacts
  <2>5. CASE e.type = "transfer"
    <3>1. c # "uri"
      BY <2>5, <1>3, WritesFacts
    <3>2. NotAfter(r.transferred_ledger, l)
      <4> SUFFICES ASSUME ~NotAfter(r.transferred_ledger, l) PROVE FALSE
        OBVIOUS
      <4>1. newest[a]["owner"] # None /\ ~(newest[a]["owner"] <= l)
        BY <2>2 DEF NotAfter
      <4>2. PICK j \in Entries : /\ i < j /\ log[j].event.agent = a
                                 /\ SetsColumn(log[j].event, "owner")
        BY <4>1, <1>2, <1>5, <1>9, GuardTurnsAway DEF GuardedColumns
      <4>3. Writes(log[j].event, c, k)
        BY <4>2, <3>1, WritesFacts DEF SetsColumn
      <4> QED
        BY <4>2, <4>3, <1>3, <1>6 DEF Sets, About
    <3>3. s.owner = e.to /\ s.wallet = None /\ s.metadata = NoMetadata
      BY <3>2, <2>1, <2>5, TransferredRow
    <3>4. NoMetadata[k] = None
      BY DEF NoMetadata
    <3>5. Says(e, "owner") = e.to /\ Says(e, "wallet") = None /\ Says(e, "metadata") = None
      BY <2>5, SaysFacts
    <3> QED
      BY <3>1, <3>3, <3>4, <3>5 DEF Columns
  <2>6. CASE e.type = "metadata_set"
    <3>1. /\ e.key = ReservedKey => s.wallet = e.value
          /\ e.key # ReservedKey => s.metadata[e.key] = e.value
      BY <2>1, <2>6, MetadataSetRow
    <3>2. /\ e.key = ReservedKey => c = "wallet"
          /\ e.key # ReservedKey => c = "metadata" /\ e.key = k
      BY <2>6, <1>3, WritesFacts
    <3>3. Says(e, "wallet") = e.value /\ Says(e, "metadata") = e.value
      BY <2>6, SaysFacts
    <3> QED
      BY <3>1, <3>2, <3>3
  <2> QED
    BY <2>3, <2>4, <2>5, <2>6, EventFields
<1> QED
  BY <1>8, <1>9

\* The other cells stay, and those a new row starts with are empty on the chain.
LEMMA CellLeft ==
  ASSUME ChainInv, WriterInv, NEW w \in Writers, NEW i \in run[w].page, WriteEvent(w, i),
         Agrees(Rest(w)), NEW id \in Agents, NEW c \in Columns, NEW k \in Keys,
         row'[id] # None, \A j \in Rest(w) : ~Sets(j, id, c, k)
  PROVE  InRow(id, c, k)' = OnChain(id, c, k)
<1>0. PICK e \in Event, l \in Ledgers, a \in Agents, t \in RunStates, s \in Rows :
         WriteOf(w, i, e, l, a, t, s)
  BY WriteEventStep
<1>1. /\ e = log[i].event /\ l = log[i].ledger /\ a = e.agent
      /\ s = Written(row[a], e, l) /\ row' = [row EXCEPT ![a] = s]
      /\ row[a] \in Rows \/ (row[a] = None /\ e.type = "registered")
  BY <1>0 DEF WriteOf
<1>2. row'[a] = s /\ \A x \in Agents \ {a} : row'[x] = row[x]
  BY <1>1 DEF WriterInv, ProjectionTypes
<1>3. /\ i \in Entries /\ ~Sets(i, id, c, k) /\ HaveRow(Entries \ Rest(w))
  <2>1. i \in Entries /\ i \in Rest(w)
    BY NextOfPage DEF Rest
  <2>2. HaveRow(Entries \ Rest(w))
    BY DEF WriteEvent, WriterInv, Position
  <2> QED
    BY <2>1, <2>2
<1>4. CASE id # a
  <2>1. row[id] # None /\ row'[id] = row[id]
    BY <1>2, <1>4
  <2>2. InRow(id, c, k) = OnChain(id, c, k)
    BY <2>1 DEF Agrees
  <2>3. InRow(id, c, k)' = InRow(id, c, k)
    BY <2>1 DEF InRow
  <2> QED
    BY <2>2, <2>3
<1>5. CASE id = a /\ row[a] # None
  <2>1. PICK r \in Rows : r = row[a] /\ s = Written(r, e, l)
    BY <1>1, <1>5
  <2>2. ~Writes(e, c, k)
    BY <1>1, <1>3, <1>5 DEF Sets, About
  <2>3. IF c = "metadata" THEN s.metadata[k] = r.metadata[k] ELSE s[c] = r[c]
    BY <2>1, <2>2, OtherCells
  <2>4. InRow(id, c, k)' = InRow(id, c, k)
    BY <2>1, <2>3, <1>2, <1>5 DEF InRow
  <2>5. InRow(id, c, k) = OnChain(id, c, k)
    BY <1>5 DEF Agrees
  <2> QED
    BY <2>4, <2>5
<1>6. CASE id = a /\ row[a] = None
  <2>1. e.type = "registered" /\ s = Written(None, e, l)
    BY <1>1, <1>6, RowShape
  <2>2. c \in {"wallet", "metadata"}
    <3>1. ~Writes(e, c, k)
      BY <1>1, <1>3, <1>6 DEF Sets, About
    <3> QED
      BY <2>1, <3>1, WritesFacts DEF Columns
  <2>3. s.wallet = None /\ s.metadata = NoMetadata /\ NoMetadata[k] = None
    BY <2>1, InsertedRow DEF NoMetadata
  <2>4. InRow(id, c, k)' = None
    BY <2>2, <2>3, <1>2, <1>6 DEF InRow
  <2>5. \A j \in Entries : ~Sets(j, id, c, k)
    <3> TAKE j \in Entries
    <3>1. CASE j \in Rest(w)
      BY <3>1
    <3>2. CASE j \notin Rest(w)
      <4>1. row[log[j].event.agent] # None
        BY <3>2, <1>3 DEF HaveRow
      <4> QED
        BY <4>1, <1>6 DEF Sets, About
    <3> QED
      BY <3>1, <3>2
  <2>6. AgentExists(id)
    BY <1>1, <1>3, <1>6 DEF ChainInv, RegisteredOnce
  <2>7. OnChain(id, c, k) = None
    BY <2>5, <2>6 DEF ChainInv, LogTellsChain
  <2> QED
    BY <2>4, <2>7
<1> QED
  BY <1>4, <1>5, <1>6

\* The rows agree on what is behind the run after every event it writes.
LEMMA WriteEventAlone ==
  ASSUME ChainInv, WriterInv, Alone, NEW w \in Writers, NEW i \in run[w].page, WriteEvent(w, i)
  PROVE  Alone'
<1>0. PICK e \in Event, l \in Ledgers, a \in Agents, t \in RunStates, s \in Rows :
         WriteOf(w, i, e, l, a, t, s)
  BY WriteEventStep
<1>1. /\ e = log[i].event /\ a = e.agent /\ row' = [row EXCEPT ![a] = s]
      /\ run' = [run EXCEPT ![w] = t]
      /\ t.pc = "write" /\ t.to = run[w].to /\ t.page = run[w].page \ {i}
      /\ UNCHANGED <<chain, log, expected, holder, alone>>
  BY <1>0 DEF WriteOf
<1> SUFFICES ASSUME alone' PROVE Alone'
  BY DEF Alone
<1>2. At(w, "write") /\ ~At(w, "idle") /\ alone
  BY <1>1 DEF WriteEvent, At
<1>3. /\ \A v \in Writers \ {w} : At(v, "idle")
      /\ holder = w /\ Agrees(Rest(w)) /\ expected <= run[w].to + 1
      /\ \A j \in run[w].page : expected <= log[j].ledger
  BY <1>2, ActiveRun
<1>4. run'[w] = t /\ \A v \in Writers \ {w} : At(v, "idle")'
  BY <1>1, <1>3 DEF WriterInv, ProjectionTypes, At
<1>5. Rest(w)' = Rest(w) \ {i}
  BY PageAdvances
<1>6. Agrees(Rest(w))'
  <2>1. ASSUME NEW id \in Agents, NEW c \in Columns, NEW k \in Keys,
               row'[id] # None, \A j \in Rest(w) \ {i} : ~Sets(j, id, c, k)
        PROVE  InRow(id, c, k)' = OnChain(id, c, k)
    <3>1. CASE Sets(i, id, c, k)
      BY <2>1, <3>1, CellWritten
    <3>2. CASE ~Sets(i, id, c, k)
      <4>1. \A j \in Rest(w) : ~Sets(j, id, c, k)
        BY <2>1, <3>2
      <4> QED
        BY <2>1, <4>1, <1>3, CellLeft
    <3> QED
      BY <3>1, <3>2
  <2>2. \A id, c, k : OnChain(id, c, k)' = OnChain(id, c, k)
    BY <1>1 DEF OnChain, ChainUri, chain, vars
  <2>3. \A j, id, c, k : Sets(j, id, c, k)' = Sets(j, id, c, k)
    BY <1>1 DEF Sets
  <2> QED
    BY <2>1, <2>2, <2>3, <1>5 DEF Agrees
<1>7. /\ expected' <= run'[w].to + 1 /\ \A j \in run'[w].page : expected' <= log'[j].ledger
  BY <1>1, <1>3, <1>4
<1> QED
  BY <1>1, <1>3, <1>4, <1>6, <1>7, ActiveRunStep DEF At

\* Every step keeps it.
LEMMA AloneStep ==
  ASSUME ChainInv, WriterInv, Alone, [ProjectionNext]_allVars
  PROVE  Alone'
<1>1. CASE UNCHANGED allVars
  <2>1. UNCHANGED <<chain, log>> /\ UNCHANGED <<row, expected, holder, run, newest, alone>>
    BY <1>1 DEF allVars, dbVars
  <2>2. \A w : /\ Rest(w)' = Rest(w) /\ \A pc : At(w, pc)' = At(w, pc)
    BY <2>1 DEF Rest, Entries, At
  <2>3. (Entries \ BelowLedger(expected))' = Entries \ BelowLedger(expected)
    BY <2>1 DEF Entries, BelowLedger
  <2>4. ASSUME NEW S, Agrees(S) PROVE Agrees(S)'
    BY <2>1, <2>4, AgreesKept
  <2>5. \A w \in Writers : Agrees(Rest(w)) => Agrees(Rest(w))'
    <3> TAKE w \in Writers
    <3>1. PICK S : S = Rest(w)
      OBVIOUS
    <3> QED
      BY <3>1, <2>2, <2>4 DEF Agrees
  <2>6. Agrees(Entries \ BelowLedger(expected)) => Agrees(Entries \ BelowLedger(expected))'
    <3>1. PICK S : S = Entries \ BelowLedger(expected)
      OBVIOUS
    <3> QED
      BY <3>1, <2>3, <2>4 DEF Agrees
  <2> QED
    BY <2>1, <2>2, <2>5, <2>6 DEF Alone
<1> QED
  BY <1>1, PublishAlone, StartRunAlone, GetPageAlone, WriteEventAlone, SavePageAlone,
     EndRunAlone, SelectPendingAlone, RecordTryAlone, StoreAlone DEF ProjectionNext

\* With every event below the checkpoint no cell is ahead of the run.
LEMMA AloneConverges ==
  ASSUME ChainInv, WriterInv, Alone
  PROVE  ProjectionConverges
<1> SUFFICES ASSUME alone, \A i \in DOMAIN log : log[i].ledger < expected, NEW id \in Agents
             PROVE  /\ AgentExists(id) <=> row[id] # None
                    /\ AgentExists(id) =>
                          /\ row[id].owner = owner[id] /\ row[id].uri = ChainUri(id)
                          /\ row[id].wallet = wallet[id] /\ row[id].metadata = metadata[id]
  BY DEF ProjectionConverges
<1>1. \A i \in Entries : log[i].ledger < expected /\ log[i].ledger \in Nat
  BY LogFacts DEF Entries
<1>2. Entries \ BelowLedger(expected) = {}
  BY <1>1 DEF BelowLedger
<1>3. Agrees({})
  <2>1. CASE \E w \in Writers : At(w, "write")
    <3>1. PICK w \in Writers : At(w, "write")
      BY <2>1
    <3>2. ~At(w, "idle")
      BY <3>1 DEF At
    <3>3. /\ Agrees(Rest(w)) /\ expected <= run[w].to + 1
          /\ \A i \in run[w].page : expected <= log[i].ledger
      BY <3>1, <3>2, ActiveRun
    <3>4. Rest(w) = {}
      BY <3>1, <3>3, <1>2, AheadOfCheckpoint
    <3> QED
      BY <3>3, <3>4
  <2>2. CASE \A w \in Writers : ~At(w, "write")
    BY <2>2, <1>2 DEF Alone
  <2> QED
    BY <2>1, <2>2
<1>4. ASSUME row[id] # None
      PROVE  AgentExists(id)
  BY <1>4 DEF WriterInv, Guards
<1>5. ASSUME AgentExists(id)
      PROVE  row[id] # None
  <2>1. PICK k \in Entries : RegistrationOf(k, id)
    BY <1>5 DEF ChainInv, RegisteredOnce
  <2>2. k \in BelowLedger(expected)
    BY <2>1, <1>2
  <2> QED
    BY <2>1, <2>2 DEF WriterInv, HaveRow, RegistrationOf
<1>6. ASSUME row[id] # None
      PROVE  /\ row[id].owner = owner[id] /\ row[id].uri = ChainUri(id)
             /\ row[id].wallet = wallet[id] /\ row[id].metadata = metadata[id]
  <2>1. \A c \in Columns, k \in Keys : InRow(id, c, k) = OnChain(id, c, k)
    BY <1>3, <1>6 DEF Agrees
  <2>2. ReservedKey \in Keys
    BY IdentityAssumption
  <2>3. /\ InRow(id, "owner", ReservedKey) = row[id].owner
        /\ InRow(id, "uri", ReservedKey) = row[id].uri
        /\ InRow(id, "wallet", ReservedKey) = row[id].wallet
        /\ \A k \in Keys : InRow(id, "metadata", k) = row[id].metadata[k]
    BY DEF InRow
  <2>4. /\ row[id].owner = owner[id] /\ row[id].uri = ChainUri(id)
        /\ row[id].wallet = wallet[id]
    BY <2>1, <2>2, <2>3, ChainCells DEF Columns
  <2>5. \A k \in Keys : row[id].metadata[k] = metadata[id][k]
    BY <2>1, <2>3, ChainCells DEF Columns
  <2>6. row[id] \in Rows
    BY <1>6 DEF WriterInv, ProjectionTypes
  <2>7. row[id].metadata \in [Keys -> Addresses \cup Values \cup {None}]
    BY <2>6, RowShape DEF RowFields
  <2>8. metadata[id] \in [Keys -> Values \cup {None}]
    BY DEF ChainInv, IdentityInv, TypeOK
  <2> QED
    BY <2>4, <2>5, <2>7, <2>8
<1> QED
  BY <1>4, <1>5, <1>6

\* Runs that do not overlap converge: whatever crashes, replays and cuts of
\* pages there were, once the checkpoint is past every event the rows hold the
\* owners, URIs, wallets and metadata that the contract stores.
THEOREM RowsConverge == ProjectionSpec => []ProjectionConverges
<1>1. ProjectionInit => Alone
  BY AloneInit
<1>2. ChainInv /\ WriterInv /\ Alone /\ [ProjectionNext]_allVars => Alone'
  BY AloneStep
<1>3. ChainInv /\ WriterInv /\ Alone => ProjectionConverges
  BY AloneConverges
<1> QED
  BY <1>1, <1>2, <1>3, ProjectionInvariant, PTL DEF ProjectionSpec

=============================================================================
