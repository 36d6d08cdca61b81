---------------------------- MODULE IdentityProofs ----------------------------
(***************************************************************************)
(* Proofs about IdentityRegistry, for every set of addresses, keys and     *)
(* values and every number of agents.                                      *)
(***************************************************************************)
EXTENDS IdentityEvents, TLAPS, FiniteSetTheorems, FunctionTheorems,
        SequenceTheorems, WellFoundedInduction

-----------------------------------------------------------------------------
(* The metadata argument of register_full *)

\* A metadata argument is a function on an interval, so a sequence of entries.
LEMMA ArgsShape ==
  ASSUME NEW list \in MetadataArgs
  PROVE  /\ list \in Seq(MetadataEntry)
         /\ Len(list) \in Nat
         /\ DOMAIN list = 1 .. Len(list)
         /\ \A i \in DOMAIN list : list[i].key \in Keys /\ list[i].value \in Values
<1>1. PICK n \in 0 .. MaxEntries : list \in [1 .. n -> MetadataEntry]
  BY DEF MetadataArgs
<1>2. list \in Seq(MetadataEntry)
  BY <1>1, IdentityAssumption
<1>3. Len(list) \in Nat /\ DOMAIN list = 1 .. Len(list)
  BY <1>2
<1>4. ASSUME NEW i \in DOMAIN list
      PROVE list[i].key \in Keys /\ list[i].value \in Values
  <2>1. list[i] \in MetadataEntry
    BY <1>1, <1>4
  <2> QED
    BY <2>1 DEF MetadataEntry
<1> QED
  BY <1>2, <1>3, <1>4

\* A non-empty set of indexes has a last one.
LEMMA LastIndex ==
  ASSUME NEW n \in Nat, NEW S \in SUBSET (1 .. n), S # {}
  PROVE  \E i \in S : \A j \in S : j <= i
<1> DEFINE T == {n - i : i \in S}
<1>1. T \subseteq Nat /\ T # {}
  <2>1. ASSUME NEW i \in S PROVE n - i \in Nat /\ n - i \in T
    <3>1. i \in 1 .. n
      OBVIOUS
    <3> QED
      BY <3>1
  <2>2. PICK i \in S : TRUE
    OBVIOUS
  <2> QED
    BY <2>1, <2>2
<1>2. PICK m \in T : \A k \in T : <<k, m>> \notin OpToRel(<, Nat)
  BY <1>1, WFMin, NatLessThanWellFounded, Zenon
<1>3. \A k \in T : ~(k < m)
  BY <1>1, <1>2, Zenon DEF OpToRel
<1>4. PICK i \in S : m = n - i
  BY <1>2
<1>5. \A j \in S : j <= i
  <2> TAKE j \in S
  <2>1. n - j \in T
    OBVIOUS
  <2> QED
    BY <2>1, <1>3, <1>4
<1> QED
  BY <1>5

\* What storage holds for a key after register_full wrote a list: a value if
\* the list names the key, nothing otherwise.
LEMMA LastValueType ==
  ASSUME NEW list \in MetadataArgs, NEW k \in Keys
  PROVE  /\ k \in KeysOf(list) => LastValue(list, k) \in Values
         /\ k \notin KeysOf(list) => LastValue(list, k) = None
<1>1. CASE k \notin KeysOf(list)
  BY <1>1 DEF KeysOf, LastValue
<1>2. CASE k \in KeysOf(list)
  <2> DEFINE S == {i \in DOMAIN list : list[i].key = k}
             Last(i) == /\ list[i].key = k
                        /\ \A j \in DOMAIN list : j > i => list[j].key # k
  <2>1. S # {}
    BY <1>2 DEF KeysOf
  <2>2. PICK i \in S : \A j \in S : j <= i
    BY <2>1, ArgsShape, LastIndex
  <2>3. Last(i) /\ i \in DOMAIN list
    BY <2>2, ArgsShape
  <2>4. (CHOOSE m \in DOMAIN list : Last(m)) \in DOMAIN list
    BY <2>3
  <2>5. LastValue(list, k) = list[CHOOSE m \in DOMAIN list : Last(m)].value
    BY <2>3 DEF LastValue
  <2> QED
    BY <1>2, <2>4, <2>5, ArgsShape
<1> QED
  BY <1>1, <1>2

\* A list names at most as many keys as it has entries.
LEMMA KeysOfBound ==
  ASSUME NEW list \in MetadataArgs
  PROVE  /\ KeysOf(list) \subseteq Keys
         /\ IsFiniteSet(KeysOf(list))
         /\ Cardinality(KeysOf(list)) <= Len(list)
<1> DEFINE f == [i \in 1 .. Len(list) |-> list[i].key]
<1>1. f \in Surjection(1 .. Len(list), KeysOf(list))
  BY ArgsShape DEF Surjection, KeysOf
<1>2. IsFiniteSet(1 .. Len(list)) /\ Cardinality(1 .. Len(list)) = Len(list)
  BY ArgsShape, FS_Interval
<1>3. IsFiniteSet(KeysOf(list)) /\ Cardinality(KeysOf(list)) <= Len(list)
  <2> HIDE DEF f
  <2> QED
    BY <1>1, <1>2, FS_Surjection
<1> QED
  BY <1>3, ArgsShape DEF KeysOf

-----------------------------------------------------------------------------
(* The inductive invariant.  MetadataBounded is about stored entries but    *)
(* set_metadata counts listed keys, so it needs MetadataIndexed; that an id *)
(* not minted yet has no entries needs AgentsArePermanent.                  *)

IdentityInv == TypeOK /\ AgentsArePermanent /\ MetadataIndexed /\ MetadataBounded

\* The three registration functions are Mint on arguments of the right type.
Registration(caller, stored, announced, list) ==
    /\ caller \in Addresses
    /\ stored \in Uris \cup {None}
    /\ announced \in Uris
    /\ announced = IF stored = None THEN EmptyUri ELSE stored
    /\ list \in MetadataArgs
    /\ Len(list) <= MAX_METADATA_KEYS
    /\ \A i \in DOMAIN list : list[i].key # ReservedKey
    /\ Mint(caller, stored, announced, list)

\* The empty list is a metadata argument.
LEMMA NoArgs == <<>> \in MetadataArgs /\ Len(<<>>) = 0 /\ DOMAIN <<>> = {}
<1>1. <<>> \in [1 .. 0 -> MetadataEntry]
  OBVIOUS
<1>2. 0 \in 0 .. MaxEntries
  BY IdentityAssumption
<1> QED
  BY <1>1, <1>2 DEF MetadataArgs

\* register and register_with_uri mint with an empty list.
LEMMA RegistrationIsMint ==
  ASSUME NEW a \in Addresses, NEW u \in Uris, NEW l \in MetadataArgs
  PROVE  /\ Register(a) => Registration(a, None, EmptyUri, <<>>)
         /\ RegisterWithUri(a, u) => Registration(a, u, u, <<>>)
         /\ RegisterFull(a, u, l) => Registration(a, u, u, l)
  BY NoArgs, IdentityAssumption
  DEF Register, RegisterWithUri, RegisterFull, Registration

\* Every step is one of the following; a transfer is signed by
\* an address in charge of the agent.
LEMMA Steps ==
  ASSUME Next
  PROVE  \/ \E a, s, u, l : Registration(a, s, u, l)
         \/ \E a \in Addresses, id \in Agents, u \in Uris : SetAgentUri(a, id, u)
         \/ \E a \in Addresses, id \in Agents, k \in Keys, v \in Values :
               SetMetadata(a, id, k, v)
         \/ \E s \in SUBSET Addresses, a \in Addresses, id \in Agents,
               w \in Addresses : SetAgentWallet(s, a, id, w)
         \/ \E a \in Addresses, id \in Agents : UnsetAgentWallet(a, id)
         \/ \E x \in Addresses, f \in Addresses, t \in Addresses, id \in Agents :
               Handover(x, f, t, id) /\ OwnerOrApproved(x, id)
         \/ \E a \in Addresses, t \in Addresses, id \in Agents, n \in LiveUntil :
               Approve(a, t, id, n)
         \/ \E o \in Addresses, x \in Addresses, n \in LiveUntil :
               ApproveForAll(o, x, n)
         \/ CloseLedger
<1>1. ASSUME NEW a \in Addresses, NEW u \in Uris, NEW l \in MetadataArgs,
             Register(a) \/ RegisterWithUri(a, u) \/ RegisterFull(a, u, l)
      PROVE \E aa, s, uu, ll : Registration(aa, s, uu, ll)
  BY <1>1, RegistrationIsMint, Zenon
<1>2. ASSUME NEW f \in Addresses, NEW t \in Addresses, NEW id \in Agents,
             Transfer(f, t, id)
      PROVE Handover(f, f, t, id) /\ OwnerOrApproved(f, id)
  BY <1>2, IdentityAssumption
  DEF Transfer, Handover, MoveToken, OwnerOrApproved, AgentExists
<1>3. ASSUME NEW x \in Addresses, NEW f \in Addresses, NEW t \in Addresses,
             NEW id \in Agents, TransferFrom(x, f, t, id)
      PROVE Handover(x, f, t, id) /\ OwnerOrApproved(x, id)
  BY <1>3, IdentityAssumption
  DEF TransferFrom, Handover, MoveToken, OwnerOrApproved, AgentExists
<1>4. EmptyUri \in Uris /\ <<>> \in MetadataArgs
  BY IdentityAssumption, NoArgs
<1> QED
  BY <1>1, <1>2, <1>3, <1>4, Zenon DEF Next

\* The invariant holds initially.
LEMMA IdentityInit == Init => IdentityInv
<1> SUFFICES ASSUME Init PROVE IdentityInv
  OBVIOUS
<1> USE IdentityAssumption DEF Init
<1>1. TypeOK
  BY DEF TypeOK, NoApproval, NoMetadata, Ledgers, Agents
<1>2. AgentsArePermanent
  BY DEF AgentsArePermanent, AgentExists, Agents
<1>3. MetadataIndexed
  BY DEF MetadataIndexed, NoMetadata
<1>4. MetadataBounded
  <2> DEFINE Stored(id) == {k \in Keys : metadata[id][k] # None}
  <2>2. ASSUME NEW id \in Agents PROVE Cardinality(Stored(id)) <= MAX_METADATA_KEYS
    <3>1. Stored(id) = {}
      BY DEF NoMetadata
    <3>2. Cardinality({}) = 0 /\ MAX_METADATA_KEYS \in Nat
      BY FS_EmptySet
    <3> HIDE DEF Stored
    <3> QED
      BY <3>1, <3>2
  <2> QED
    BY <2>2 DEF MetadataBounded
<1> QED
  BY <1>1, <1>2, <1>3, <1>4 DEF IdentityInv

\* An invocation record of the right type.
LEMMA InvocationType ==
  ASSUME NEW signers \in SUBSET Addresses, NEW events \in Seq(Event),
         Invocation(signers, events)
  PROVE  tx' \in [signers : SUBSET Addresses, events : Seq(Event)]
  BY DEF Invocation

\* What the contract and the NFT library publish are events.
LEMMA EventTypes ==
  ASSUME NEW id \in Agents
  PROVE  /\ \A a \in Addresses, u \in Uris : Registered(id, a, u) \in Event
         /\ \A a \in Addresses, u \in Uris : UriUpdated(id, a, u) \in Event
         /\ \A k \in Keys, v \in Values : MetadataSet(id, k, v) \in Event
         /\ \A w \in Addresses \cup {None} : WalletSet(id, w) \in Event
         /\ \A f \in Addresses, t \in Addresses : Transferred(id, f, t) \in Event
  BY IdentityAssumption
  DEF Event, Registered, UriUpdated, MetadataSet, WalletSet, Transferred

\* A registration keeps the invariant: the new id had nothing stored under it.
LEMMA RegistrationStep ==
  ASSUME IdentityInv, NEW a, NEW s, NEW u, NEW l, Registration(a, s, u, l)
  PROVE  IdentityInv'
<1> DEFINE id == next_token_id
           values == [k \in Keys |-> LastValue(l, k)]
<1> USE DEF IdentityInv
<1>1. /\ a \in Addresses /\ s \in Uris \cup {None} /\ u \in Uris
      /\ l \in MetadataArgs /\ Len(l) <= MAX_METADATA_KEYS
      /\ \A i \in DOMAIN l : l[i].key # ReservedKey
      /\ Mint(a, s, u, l)
  BY DEF Registration
<1>2. id \in Agents /\ id + 1 \in 0 .. MaxAgents
  BY <1>1, IdentityAssumption DEF Mint, TypeOK, Agents
<1>3. /\ next_token_id' = id + 1
      /\ owner' = [owner EXCEPT ![id] = a]
      /\ uri' = [uri EXCEPT ![id] = s]
      /\ wallet' = [wallet EXCEPT ![id] = a]
      /\ metadata' = [metadata EXCEPT ![id] = values]
      /\ keys' = [keys EXCEPT ![id] = KeysOf(l)]
      /\ UNCHANGED <<ledger, approval, operators>>
  BY <1>1 DEF Mint
<1>4. /\ values \in [Keys -> Values \cup {None}]
      /\ KeysOf(l) = {k \in Keys : values[k] # None}
      /\ ReservedKey \notin KeysOf(l)
  <2>1. \A k \in Keys : values[k] # None <=> k \in KeysOf(l)
    BY <1>1, LastValueType, IdentityAssumption
  <2>2. KeysOf(l) = {k \in Keys : values[k] # None}
    BY <2>1, <1>1, KeysOfBound
  <2>3. ReservedKey \notin KeysOf(l)
    BY <1>1 DEF KeysOf
  <2>4. values \in [Keys -> Values \cup {None}]
    BY <1>1, LastValueType
  <2> QED
    BY <2>2, <2>3, <2>4
<1>5. tx' \in [signers : SUBSET Addresses, events : Seq(Event)]
  <2> DEFINE sets == [i \in DOMAIN l |-> MetadataSet(id, l[i].key, l[i].value)]
  <2>1. <<WalletSet(id, a)>> \in Seq(Event) /\ <<Registered(id, a, u)>> \in Seq(Event)
    BY <1>1, <1>2, EventTypes
  <2>2. sets \in Seq(Event)
    <3>1. \A i \in DOMAIN l : MetadataSet(id, l[i].key, l[i].value) \in Event
      BY <1>1, <1>2, ArgsShape, EventTypes
    <3>2. Len(l) \in Nat /\ DOMAIN l = 1 .. Len(l)
      BY <1>1, ArgsShape
    <3> QED
      BY <3>1, <3>2
  <2>3. <<WalletSet(id, a)>> \o sets \o <<Registered(id, a, u)>> \in Seq(Event)
    <3> HIDE DEF sets, id
    <3> QED
      BY <2>1, <2>2, ConcatProperties
  <2>4. Invocation({a}, <<WalletSet(id, a)>> \o sets \o <<Registered(id, a, u)>>)
    BY <1>1 DEF Mint
  <2> HIDE DEF sets, id
  <2> QED
    BY <1>1, <2>3, <2>4 DEF Invocation
<1> HIDE DEF values
<1>6. TypeOK'
  BY <1>1, <1>2, <1>3, <1>4, <1>5, KeysOfBound DEF TypeOK
<1>7. AgentsArePermanent'
  BY <1>1, <1>2, <1>3, IdentityAssumption
  DEF TypeOK, AgentsArePermanent, AgentExists, Agents
<1>8. MetadataIndexed'
  <2> SUFFICES ASSUME NEW j \in Agents
               PROVE /\ keys'[j] = {k \in Keys : metadata'[j][k] # None}
                     /\ ReservedKey \notin keys'[j]
                     /\ owner'[j] = None => keys'[j] = {}
    BY DEF MetadataIndexed, AgentExists
  <2>1. CASE j = id
    BY <2>1, <1>1, <1>2, <1>3, <1>4, IdentityAssumption DEF TypeOK
  <2>2. CASE j # id
    BY <2>2, <1>2, <1>3 DEF TypeOK, MetadataIndexed, AgentExists
  <2> QED
    BY <2>1, <2>2
<1>9. MetadataBounded'
  <2> DEFINE Stored(j) == {k \in Keys : metadata[j][k] # None}
             StoredAfter(j) == {k \in Keys : metadata'[j][k] # None}
  <2> SUFFICES ASSUME NEW j \in Agents
               PROVE Cardinality(StoredAfter(j)) <= MAX_METADATA_KEYS
    BY DEF MetadataBounded
  <2>1. CASE j = id
    <3>1. StoredAfter(j) = KeysOf(l)
      BY <2>1, <1>2, <1>3, <1>4 DEF TypeOK
    <3>2. IsFiniteSet(KeysOf(l)) /\ Cardinality(KeysOf(l)) <= MAX_METADATA_KEYS
      BY <1>1, KeysOfBound, ArgsShape, IdentityAssumption, FS_CardinalityType
    <3> HIDE DEF StoredAfter
    <3> QED
      BY <3>1, <3>2
  <2>2. CASE j # id
    <3>1. StoredAfter(j) = Stored(j)
      BY <2>2, <1>2, <1>3 DEF TypeOK
    <3>2. Cardinality(Stored(j)) <= MAX_METADATA_KEYS
      BY DEF MetadataBounded
    <3> HIDE DEF Stored, StoredAfter
    <3> QED
      BY <3>1, <3>2
  <2> QED
    BY <2>1, <2>2
<1> QED
  BY <1>6, <1>7, <1>8, <1>9

\* A transfer keeps the invariant: the key list names every stored entry, so
\* clearing what it names leaves none.
LEMMA HandoverStep ==
  ASSUME IdentityInv, NEW x \in Addresses, NEW f \in Addresses, NEW t \in Addresses,
         NEW id \in Agents, Handover(x, f, t, id)
  PROVE  /\ IdentityInv'
         /\ owner[id] = f
         /\ wallet'[id] = None
         /\ metadata'[id] = NoMetadata
         /\ \A j \in Agents \ {id} :
               /\ owner'[j] = owner[j] /\ wallet'[j] = wallet[j]
               /\ metadata'[j] = metadata[j]
<1> USE DEF IdentityInv
<1>1. /\ wallet' = [wallet EXCEPT ![id] = None]
      /\ metadata' = [metadata EXCEPT
            ![id] = [k \in Keys |-> IF k \in keys[id] THEN None ELSE @[k]]]
      /\ keys' = [keys EXCEPT ![id] = {}]
      /\ owner[id] = f
      /\ owner' = [owner EXCEPT ![id] = t]
      /\ approval' = [approval EXCEPT ![id] = NoApproval]
      /\ UNCHANGED <<ledger, next_token_id, operators, uri>>
  BY DEF Handover, ClearAllMetadata, MoveToken
<1>2. metadata'[id] = NoMetadata
  BY <1>1 DEF TypeOK, MetadataIndexed, NoMetadata
<1>3. metadata' = [metadata EXCEPT ![id] = NoMetadata]
  BY <1>1, <1>2 DEF TypeOK
<1>4. tx' \in [signers : SUBSET Addresses, events : Seq(Event)]
  <2>1. <<WalletSet(id, None), Transferred(id, f, t)>> \in Seq(Event)
    BY EventTypes
  <2> QED
    BY <2>1 DEF Handover, Invocation
<1>5. TypeOK'
  BY <1>1, <1>3, <1>4, IdentityAssumption DEF TypeOK, NoMetadata, NoApproval, Ledgers
<1>6. AgentsArePermanent'
  BY <1>1, IdentityAssumption DEF TypeOK, AgentsArePermanent, AgentExists
<1>7. MetadataIndexed'
  BY <1>1, <1>3, IdentityAssumption
  DEF TypeOK, MetadataIndexed, AgentExists, NoMetadata
<1>8. MetadataBounded'
  <2> DEFINE Stored(j) == {k \in Keys : metadata[j][k] # None}
             StoredAfter(j) == {k \in Keys : metadata'[j][k] # None}
  <2> SUFFICES ASSUME NEW j \in Agents
               PROVE Cardinality(StoredAfter(j)) <= MAX_METADATA_KEYS
    BY DEF MetadataBounded
  <2>1. StoredAfter(j) = IF j = id THEN {} ELSE Stored(j)
    BY <1>3 DEF TypeOK, NoMetadata
  <2>2. Cardinality(Stored(j)) <= MAX_METADATA_KEYS
    BY DEF MetadataBounded
  <2>3. Cardinality({}) = 0 /\ MAX_METADATA_KEYS \in Nat
    BY FS_EmptySet, IdentityAssumption
  <2> HIDE DEF Stored, StoredAfter
  <2> QED
    BY <2>1, <2>2, <2>3
<1> QED
  BY <1>1, <1>2, <1>3, <1>5, <1>6, <1>7, <1>8 DEF TypeOK

\* set_metadata keeps the invariant: it lists the key it stores, and counts the
\* list before it adds to it.
LEMMA SetMetadataStep ==
  ASSUME IdentityInv, NEW a \in Addresses, NEW id \in Agents, NEW k \in Keys,
         NEW v \in Values, SetMetadata(a, id, k, v)
  PROVE  IdentityInv'
<1> USE DEF IdentityInv
<1>1. /\ k # ReservedKey
      /\ AgentExists(id)
      /\ metadata[id][k] # None \/ Cardinality(keys[id]) < MAX_METADATA_KEYS
      /\ keys' = [keys EXCEPT ![id] = @ \cup {k}]
      /\ metadata' = [metadata EXCEPT ![id][k] = v]
      /\ UNCHANGED <<ledger, next_token_id, owner, approval, operators, uri, wallet>>
  BY DEF SetMetadata, HasRoom, RecordMetadataKey, OwnerOrApproved
<1>2. tx' \in [signers : SUBSET Addresses, events : Seq(Event)]
  <2>1. <<MetadataSet(id, k, v)>> \in Seq(Event)
    BY EventTypes
  <2> QED
    BY <2>1 DEF SetMetadata, Invocation
<1>3. TypeOK'
  BY <1>1, <1>2 DEF TypeOK
<1>4. AgentsArePermanent'
  BY <1>1 DEF AgentsArePermanent, AgentExists
<1>5. MetadataIndexed'
  BY <1>1, IdentityAssumption DEF TypeOK, MetadataIndexed, AgentExists
<1>6. MetadataBounded'
  <2> DEFINE Stored(j) == {kk \in Keys : metadata[j][kk] # None}
             StoredAfter(j) == {kk \in Keys : metadata'[j][kk] # None}
  <2> SUFFICES ASSUME NEW j \in Agents
               PROVE Cardinality(StoredAfter(j)) <= MAX_METADATA_KEYS
    BY DEF MetadataBounded
  <2>1. StoredAfter(j) = IF j = id THEN Stored(j) \cup {k} ELSE Stored(j)
    BY <1>1, IdentityAssumption DEF TypeOK
  <2>2. Cardinality(Stored(j)) <= MAX_METADATA_KEYS
    BY DEF MetadataBounded
  <2>3. j = id => k \in Stored(j) \/ Cardinality(Stored(j)) < MAX_METADATA_KEYS
    <3>1. keys[id] = Stored(id)
      BY DEF MetadataIndexed
    <3>2. k \in Stored(id) \/ Cardinality(keys[id]) < MAX_METADATA_KEYS
      BY <1>1
    <3> HIDE DEF Stored
    <3> QED
      BY <3>1, <3>2
  <2>4. IsFiniteSet(Stored(j)) /\ Cardinality(Stored(j)) \in Nat
    <3>1. Stored(j) \in SUBSET Keys
      OBVIOUS
    <3> HIDE DEF Stored
    <3> QED
      BY <3>1, FS_Subset, FS_CardinalityType, IdentityAssumption
  <2> HIDE DEF Stored, StoredAfter
  <2>5. Cardinality(Stored(j) \cup {k}) =
           IF k \in Stored(j) THEN Cardinality(Stored(j)) ELSE Cardinality(Stored(j)) + 1
    BY <2>4, FS_AddElement
  <2> QED
    BY <2>1, <2>2, <2>3, <2>4, <2>5, IdentityAssumption
<1> QED
  BY <1>3, <1>4, <1>5, <1>6

\* The other calls leave ids, owners and metadata alone.
Elsewhere ==
    UNCHANGED <<next_token_id, owner, metadata, keys>>

\* A step that leaves ids, owners and metadata alone keeps the invariant if it
\* keeps the types.
LEMMA ElsewhereStep ==
  ASSUME IdentityInv, TypeOK', Elsewhere
  PROVE  IdentityInv'
  BY DEF IdentityInv, Elsewhere, AgentsArePermanent, AgentExists, MetadataIndexed,
         MetadataBounded

\* Every call, and every closing ledger, preserves the invariant.
LEMMA IdentityStep == IdentityInv /\ [Next]_vars => IdentityInv'
<1> SUFFICES ASSUME IdentityInv, [Next]_vars PROVE IdentityInv'
  OBVIOUS
<1>1. ASSUME NEW a \in Addresses, NEW id \in Agents, NEW u \in Uris,
             SetAgentUri(a, id, u)
      PROVE IdentityInv'
  <2>1. <<UriUpdated(id, a, u)>> \in Seq(Event)
    BY EventTypes
  <2> QED
    BY <1>1, <2>1, ElsewhereStep
    DEF SetAgentUri, Invocation, IdentityInv, TypeOK, Elsewhere
<1>2. ASSUME NEW s \in SUBSET Addresses, NEW a \in Addresses, NEW id \in Agents,
             NEW w \in Addresses, SetAgentWallet(s, a, id, w)
      PROVE IdentityInv'
  <2>1. <<WalletSet(id, w)>> \in Seq(Event)
    BY EventTypes
  <2> QED
    BY <1>2, <2>1, ElsewhereStep
    DEF SetAgentWallet, Invocation, IdentityInv, TypeOK, Elsewhere
<1>3. ASSUME NEW a \in Addresses, NEW id \in Agents, UnsetAgentWallet(a, id)
      PROVE IdentityInv'
  <2>1. <<WalletSet(id, None)>> \in Seq(Event)
    BY EventTypes
  <2> QED
    BY <1>3, <2>1, ElsewhereStep
    DEF UnsetAgentWallet, Invocation, IdentityInv, TypeOK, Elsewhere
<1>4. ASSUME NEW a \in Addresses, NEW t \in Addresses, NEW id \in Agents,
             NEW n \in LiveUntil, Approve(a, t, id, n)
      PROVE IdentityInv'
  BY <1>4, ElsewhereStep, IdentityAssumption
  DEF Approve, NoApproval, Invocation, IdentityInv, TypeOK, Elsewhere, Ledgers
<1>5. ASSUME NEW o \in Addresses, NEW x \in Addresses, NEW n \in LiveUntil,
             ApproveForAll(o, x, n)
      PROVE IdentityInv'
  BY <1>5, ElsewhereStep, IdentityAssumption
  DEF ApproveForAll, Invocation, IdentityInv, TypeOK, Elsewhere
<1>6. CASE CloseLedger
  BY <1>6, ElsewhereStep, IdentityAssumption
  DEF CloseLedger, Invocation, IdentityInv, TypeOK, Elsewhere, Ledgers
<1>7. CASE UNCHANGED vars
  BY <1>7, ElsewhereStep DEF vars, IdentityInv, TypeOK, Elsewhere
<1>8. CASE Next
  BY <1>1, <1>2, <1>3, <1>4, <1>5, <1>6, <1>8, Steps, RegistrationStep,
     SetMetadataStep, HandoverStep
<1> QED
  BY <1>7, <1>8

-----------------------------------------------------------------------------
(* Theorems *)

\* The invariant holds in every reachable state.
LEMMA IdentityInvariant == Spec => []IdentityInv
  BY IdentityInit, IdentityStep, PTL DEF Spec

\* The storage entries keep their types.
THEOREM IdentityTypes == Spec => []TypeOK
<1>1. IdentityInv => TypeOK
  BY DEF IdentityInv
<1> QED
  BY <1>1, IdentityInvariant, PTL

\* The agents are exactly the ids below the counter: no call removes one.
THEOREM PermanentAgents == Spec => []AgentsArePermanent
<1>1. IdentityInv => AgentsArePermanent
  BY DEF IdentityInv
<1> QED
  BY <1>1, IdentityInvariant, PTL

\* The key list names exactly the stored metadata entries, through every
\* sequence of registrations, writes and transfers.
THEOREM IndexedMetadata == Spec => []MetadataIndexed
<1>1. IdentityInv => MetadataIndexed
  BY DEF IdentityInv
<1> QED
  BY <1>1, IdentityInvariant, PTL

\* No agent ever stores more than MAX_METADATA_KEYS entries.
THEOREM BoundedMetadata == Spec => []MetadataBounded
<1>1. IdentityInv => MetadataBounded
  BY DEF IdentityInv
<1> QED
  BY <1>1, IdentityInvariant, PTL

\* A change of owner leaves neither wallet nor metadata behind: transfer clears
\* what the key list names, and the list names everything.
THEOREM NothingInherited == Spec => NoClaimInheritance
<1> DEFINE A == \A id \in Agents : AgentExists(id) /\ owner'[id] # owner[id]
                   => wallet'[id] = None /\ metadata'[id] = NoMetadata
<1>1. ASSUME IdentityInv, [Next]_vars PROVE [A]_vars
  <2>1. ASSUME NEW a, NEW s, NEW u, NEW l, Registration(a, s, u, l) PROVE A
    BY <1>1, <2>1
    DEF Registration, Mint, IdentityInv, TypeOK, AgentsArePermanent, Agents
  <2>2. ASSUME NEW x \in Addresses, NEW f \in Addresses, NEW t \in Addresses,
               NEW id \in Agents, Handover(x, f, t, id)
        PROVE A
    BY <1>1, <2>2, HandoverStep
  <2>3. ASSUME UNCHANGED owner PROVE A
    BY <2>3
  <2>4. CASE Next
    BY <2>1, <2>2, <2>3, <2>4, Steps
    DEF SetAgentUri, SetMetadata, SetAgentWallet, UnsetAgentWallet, Approve,
        ApproveForAll, CloseLedger
  <2> QED
    BY <1>1, <2>4
<1> QED
  BY <1>1, IdentityInvariant, PTL DEF Spec, NoClaimInheritance

\* No address becomes an agent's wallet in an invocation it did not sign.
THEOREM WalletNeedsConsent == Spec => WalletConsents
<1> DEFINE A == \A id \in Agents :
                   wallet'[id] \notin {wallet[id], None} => wallet'[id] \in tx'.signers
<1>1. ASSUME IdentityInv, [Next]_vars PROVE [A]_vars
  <2> USE <1>1 DEF IdentityInv, TypeOK, Invocation
  <2>1. ASSUME NEW a, NEW s, NEW u, NEW l, Registration(a, s, u, l) PROVE A
    BY <2>1 DEF Registration, Mint, Agents
  <2>2. ASSUME NEW x \in Addresses, NEW f \in Addresses, NEW t \in Addresses,
               NEW id \in Agents, Handover(x, f, t, id)
        PROVE A
    BY <2>2 DEF Handover
  <2>3. ASSUME NEW s \in SUBSET Addresses, NEW a \in Addresses, NEW id \in Agents,
               NEW w \in Addresses, SetAgentWallet(s, a, id, w)
        PROVE A
    BY <2>3 DEF SetAgentWallet, BothSign
  <2>4. ASSUME NEW a \in Addresses, NEW id \in Agents, UnsetAgentWallet(a, id)
        PROVE A
    BY <2>4 DEF UnsetAgentWallet
  <2>5. ASSUME UNCHANGED wallet PROVE A
    BY <2>5
  <2>6. CASE Next
    BY <2>1, <2>2, <2>3, <2>4, <2>5, <2>6, Steps
    DEF SetAgentUri, SetMetadata, Approve, ApproveForAll, CloseLedger
  <2> QED
    BY <2>6
<1> QED
  BY <1>1, IdentityInvariant, PTL DEF Spec, WalletConsents

\* What the registry says about an existing agent changes only in an invocation
\* signed by an address in charge of it at that ledger.
THEOREM ChangesAuthorized == Spec => OnlyAuthorizedChanges
<1> DEFINE A == \A id \in Agents : AgentExists(id) /\ Claims(id)' # Claims(id)
                   => \E x \in tx'.signers : OwnerOrApproved(x, id)
<1>1. ASSUME IdentityInv, [Next]_vars PROVE [A]_vars
  <2> USE <1>1 DEF IdentityInv, TypeOK, Invocation, Claims
  <2>1. ASSUME NEW a, NEW s, NEW u, NEW l, Registration(a, s, u, l) PROVE A
    BY <2>1 DEF Registration, Mint, AgentsArePermanent, Agents
  <2>2. ASSUME NEW x \in Addresses, NEW f \in Addresses, NEW t \in Addresses,
               NEW id \in Agents, Handover(x, f, t, id), OwnerOrApproved(x, id)
        PROVE A
    BY <2>2 DEF Handover, MoveToken, ClearAllMetadata
  <2>3. ASSUME NEW s \in SUBSET Addresses, NEW a \in Addresses, NEW id \in Agents,
               NEW w \in Addresses, SetAgentWallet(s, a, id, w)
        PROVE A
    BY <2>3 DEF SetAgentWallet, BothSign
  <2>4. ASSUME NEW a \in Addresses, NEW id \in Agents, UnsetAgentWallet(a, id)
        PROVE A
    BY <2>4 DEF UnsetAgentWallet
  <2>5. ASSUME NEW a \in Addresses, NEW id \in Agents, NEW k \in Keys, NEW v \in Values,
               SetMetadata(a, id, k, v)
        PROVE A
    BY <2>5 DEF SetMetadata
  <2>6. ASSUME NEW a \in Addresses, NEW id \in Agents, NEW u \in Uris,
               SetAgentUri(a, id, u)
        PROVE A
    BY <2>6 DEF SetAgentUri
  <2>7. ASSUME UNCHANGED <<owner, uri, wallet, metadata>> PROVE A
    BY <2>7
  <2>8. CASE Next
    BY <2>1, <2>2, <2>3, <2>4, <2>5, <2>6, <2>7, <2>8, Steps
    DEF Approve, ApproveForAll, CloseLedger
  <2> QED
    BY <2>8
<1> QED
  BY <1>1, IdentityInvariant, PTL DEF Spec, OnlyAuthorizedChanges

\* After a change of owner only the new owner and its operators are in charge.
THEOREM ApprovalsEnd == Spec => TransferEndsApprovals
<1> DEFINE A == \A id \in Agents, x \in Addresses :
                   AgentExists(id) /\ owner'[id] # owner[id] /\ OwnerOrApproved(x, id)'
                      => Principal(x, id)'
<1>1. ASSUME IdentityInv, [Next]_vars PROVE [A]_vars
  <2>1. ASSUME NEW a, NEW s, NEW u, NEW l, Registration(a, s, u, l) PROVE A
    BY <1>1, <2>1
    DEF Registration, Mint, IdentityInv, TypeOK, AgentsArePermanent, Agents
  <2>2. ASSUME NEW y \in Addresses, NEW f \in Addresses, NEW t \in Addresses,
               NEW i \in Agents, Handover(y, f, t, i)
        PROVE A
    <3> SUFFICES ASSUME NEW id \in Agents, NEW x \in Addresses,
                        owner'[id] # owner[id], OwnerOrApproved(x, id)'
                 PROVE Principal(x, id)'
      OBVIOUS
    <3>1. id = i /\ approval'[id] = NoApproval
      BY <1>1, <2>2 DEF Handover, MoveToken, IdentityInv, TypeOK
    <3>2. x # GetApproved(id)'
      BY <3>1, IdentityAssumption DEF GetApproved, NoApproval
    <3> QED
      BY <3>2 DEF OwnerOrApproved, Principal
  <2>3. ASSUME UNCHANGED owner PROVE A
    BY <2>3
  <2>4. CASE Next
    BY <2>1, <2>2, <2>3, <2>4, Steps
    DEF SetAgentUri, SetMetadata, SetAgentWallet, UnsetAgentWallet, Approve,
        ApproveForAll, CloseLedger
  <2> QED
    BY <1>1, <2>4
<1> QED
  BY <1>1, IdentityInvariant, PTL DEF Spec, TransferEndsApprovals

-----------------------------------------------------------------------------
(* The events as the indexer reads them *)

\* What the contract publishes.  Under the reserved key there is a wallet or
\* nothing, under the other keys there are values.
Published ==
    [type : {"registered"}, agent : Agents, owner : Addresses, uri : Uris]
    \cup [type : {"uri_updated"}, agent : Agents, by : Addresses, uri : Uris]
    \cup [type : {"metadata_set"}, agent : Agents, key : Keys \ {ReservedKey}, value : Values]
    \cup [type : {"metadata_set"}, agent : Agents, key : {ReservedKey},
          value : Addresses \cup {None}]
    \cup [type : {"transfer"}, agent : Agents, from : Addresses, to : Addresses]

\* The symbol of an event and its two topics in one list.
LEMMA TopicsJoined ==
  ASSUME NEW name, NEW a, NEW b
  PROVE  <<name>> \o <<a, b>> = <<name, a, b>>
<1> DEFINE S == {name, a, b}
           joined == <<name>> \o <<a, b>>
<1>1. <<name>> \in Seq(S) /\ <<a, b>> \in Seq(S) /\ <<name, a, b>> \in Seq(S)
  OBVIOUS
<1>2. joined \in Seq(S) /\ Len(joined) = 3
  BY <1>1, ConcatProperties
<1>3. joined[1] = name /\ joined[2] = a /\ joined[3] = b
  BY <1>1, ConcatProperties
<1>4. <<name, a, b>>[1] = name /\ <<name, a, b>>[2] = a /\ <<name, a, b>>[3] = b
      /\ Len(<<name, a, b>>) = 3
  OBVIOUS
<1> HIDE DEF joined
<1>5. \A i \in 1 .. Len(joined) : joined[i] = <<name, a, b>>[i]
  <2>1. 1 .. Len(joined) = {1, 2, 3}
    BY <1>2
  <2> QED
    BY <2>1, <1>3, <1>4
<1>6. Len(joined) = Len(<<name, a, b>>)
  BY <1>2, <1>4
<1> HIDE DEF S
<1>7. joined = <<name, a, b>>
  BY <1>1, <1>2, <1>5, <1>6, SeqEqual, Zenon
<1> QED
  BY <1>7 DEF joined

\* Reading back a wire of two topics and one field.
LEMMA WireParts ==
  ASSUME NEW name, NEW a, NEW b, NEW data
  PROVE  LET w == Wire(name, <<a, b>>, data)
         IN /\ EventName(w) = name /\ Len(w.topics) = 3
            /\ Topic(w, 1) = a /\ Topic(w, 2) = b /\ w.data = data
<1>1. <<Sv("symbol", name)>> \o <<a, b>> = <<Sv("symbol", name), a, b>>
  BY TopicsJoined
<1> QED
  BY <1>1 DEF Wire, EventName, Topic, Sv

\* The parser's cases one by one.
LEMMA ParserCases ==
  ASSUME NEW w, NEW id, id # None, ToSafeInteger(Topic(w, 1)) = id
  PROVE  /\ EventName(w) = "registered" =>
               ParseIdentityEvent(w) = Parsed([type |-> "Registered", agentId |-> id,
                  owner |-> ToAddress(Topic(w, 2)), agentUri |-> BytesToUtf8(Field(w, "agent_uri"))])
         /\ EventName(w) = "uri_updated" =>
               ParseIdentityEvent(w) = Parsed([type |-> "UriUpdated", agentId |-> id,
                  updatedBy |-> ToAddress(Topic(w, 2)), newUri |-> BytesToUtf8(Field(w, "new_uri"))])
         /\ EventName(w) = "metadata_set" => ParseIdentityEvent(w) = ParseMetadataSet(w, id)
         /\ EventName(w) \in LegacyNames => ParseIdentityEvent(w) = ParseLegacyWallet(w, id)
<1>1. CASE EventName(w) = "registered"
  BY <1>1 DEF ParseIdentityEvent, LegacyNames
<1>2. CASE EventName(w) = "uri_updated"
  BY <1>2 DEF ParseIdentityEvent, LegacyNames
<1>3. CASE EventName(w) = "metadata_set"
  BY <1>3 DEF ParseIdentityEvent, LegacyNames
<1>4. CASE EventName(w) \in LegacyNames
  BY <1>4 DEF ParseIdentityEvent, LegacyNames
<1> QED
  BY <1>1, <1>2, <1>3, <1>4 DEF LegacyNames

\* The parser reads every event of the contract as what it means.
LEMMA EventReadBack ==
  ASSUME NEW e \in Published
  PROVE  ParseIdentityEvent(IdentityWire(e)) = IdentityMeaning(e)
<1> USE IdentityAssumption, WireAssumption
<1> DEFINE w == IdentityWire(e)
<1>1. CASE e \in [type : {"registered"}, agent : Agents, owner : Addresses, uri : Uris]
  <2>1. w = Wire("registered", <<U32(e.agent), Address(e.owner)>>, [agent_uri |-> String(e.uri)])
    BY <1>1 DEF IdentityWire
  <2>2. /\ EventName(w) = "registered" /\ Topic(w, 1) = U32(e.agent)
        /\ Topic(w, 2) = Address(e.owner) /\ Field(w, "agent_uri") = String(e.uri)
    BY <2>1, WireParts DEF Field
  <2> HIDE DEF w
  <2>3. ParseIdentityEvent(w) = Parsed([type |-> "Registered", agentId |-> e.agent,
                                        owner |-> e.owner, agentUri |-> Decode(e.uri)])
    <3>1. ToSafeInteger(Topic(w, 1)) = e.agent /\ e.agent # None
      BY <1>1, <2>2 DEF ToSafeInteger, U32, Sv
    <3>2. ToAddress(Topic(w, 2)) = e.owner
      BY <1>1, <2>2 DEF ToAddress, IsValidStellarAddress, Address, Sv
    <3>3. BytesToUtf8(Field(w, "agent_uri")) = Decode(e.uri)
      BY <2>2 DEF BytesToUtf8, String, Sv
    <3> QED
      BY <2>2, <3>1, <3>2, <3>3, ParserCases
  <2>4. Decode(e.uri) # None
    BY <1>1 DEF Decode
  <2> QED
    BY <1>1, <2>3, <2>4 DEF Parsed, IdentityMeaning, w
<1>2. CASE e \in [type : {"uri_updated"}, agent : Agents, by : Addresses, uri : Uris]
  <2>1. w = Wire("uri_updated", <<U32(e.agent), Address(e.by)>>, [new_uri |-> String(e.uri)])
    BY <1>2 DEF IdentityWire
  <2>2. /\ EventName(w) = "uri_updated" /\ Topic(w, 1) = U32(e.agent)
        /\ Topic(w, 2) = Address(e.by) /\ Field(w, "new_uri") = String(e.uri)
    BY <2>1, WireParts DEF Field
  <2> HIDE DEF w
  <2>3. ParseIdentityEvent(w) = Parsed([type |-> "UriUpdated", agentId |-> e.agent,
                                        updatedBy |-> e.by, newUri |-> Decode(e.uri)])
    <3>1. ToSafeInteger(Topic(w, 1)) = e.agent /\ e.agent # None
      BY <1>2, <2>2 DEF ToSafeInteger, U32, Sv
    <3>2. ToAddress(Topic(w, 2)) = e.by
      BY <1>2, <2>2 DEF ToAddress, IsValidStellarAddress, Address, Sv
    <3>3. BytesToUtf8(Field(w, "new_uri")) = Decode(e.uri)
      BY <2>2 DEF BytesToUtf8, String, Sv
    <3> QED
      BY <2>2, <3>1, <3>2, <3>3, ParserCases
  <2>4. Decode(e.uri) # None
    BY <1>2 DEF Decode
  <2> QED
    BY <1>2, <2>3, <2>4 DEF Parsed, IdentityMeaning, w
<1>3. CASE e \in [type : {"metadata_set"}, agent : Agents, key : Keys \ {ReservedKey}, value : Values]
  <2>1. w = Wire("metadata_set", <<U32(e.agent), String(e.key)>>, [value |-> Bytes(e.value)])
    BY <1>3 DEF IdentityWire
  <2>2. /\ EventName(w) = "metadata_set" /\ Topic(w, 1) = U32(e.agent) /\ Len(w.topics) = 3
        /\ Topic(w, 2) = String(e.key) /\ Field(w, "value") = Bytes(e.value)
    BY <2>1, WireParts DEF Field
  <2> HIDE DEF w
  <2>3. ParseIdentityEvent(w) = ParseMetadataSet(w, e.agent)
    <3>1. ToSafeInteger(Topic(w, 1)) = e.agent /\ e.agent # None
      BY <1>3, <2>2 DEF ToSafeInteger, U32, Sv
    <3> QED
      BY <2>2, <3>1, ParserCases
  <2>4. ParseMetadataSet(w, e.agent) = Parsed([type |-> "MetadataSet", agentId |-> e.agent,
                                               key |-> Decode(e.key), value |-> Decode(e.value)])
    BY <1>3, <2>2 DEF ParseMetadataSet, ToText, Decode, BytesToUtf8, String, Bytes, Sv
  <2>5. Decode(e.key) # None /\ Decode(e.value) # None
    BY <1>3 DEF Decode
  <2> QED
    BY <1>3, <2>3, <2>4, <2>5 DEF Parsed, IdentityMeaning, w
<1>4. CASE e \in [type : {"metadata_set"}, agent : Agents, key : {ReservedKey},
                  value : Addresses \cup {None}]
  <2> DEFINE bytes == IF e.value = None THEN EmptyUri ELSE e.value
  <2>1. w = Wire("metadata_set", <<U32(e.agent), String(ReservedKey)>>, [value |-> Bytes(bytes)])
    BY <1>4 DEF IdentityWire
  <2>2. /\ EventName(w) = "metadata_set" /\ Topic(w, 1) = U32(e.agent) /\ Len(w.topics) = 3
        /\ Topic(w, 2) = String(ReservedKey) /\ Field(w, "value") = Bytes(bytes)
    BY <2>1, WireParts DEF Field
  <2> HIDE DEF w
  <2>3. ParseIdentityEvent(w) = ParseMetadataSet(w, e.agent)
    <3>1. ToSafeInteger(Topic(w, 1)) = e.agent /\ e.agent # None
      BY <1>4, <2>2 DEF ToSafeInteger, U32, Sv
    <3> QED
      BY <2>2, <3>1, ParserCases
  <2>4. CASE e.value = None
    <3>1. ParseMetadataSet(w, e.agent) = [type |-> "AgentWalletUnset", agentId |-> e.agent]
      BY <1>4, <2>2, <2>4 DEF ParseMetadataSet, ToText, Decode, BytesToUtf8, String, Bytes, Sv
    <3> QED
      BY <1>4, <2>3, <2>4, <3>1 DEF IdentityMeaning, w
  <2>5. CASE e.value \in Addresses
    <3>1. ParseMetadataSet(w, e.agent) = Parsed([type |-> "AgentWalletSet", agentId |-> e.agent,
                                                 newWallet |-> e.value])
      BY <1>4, <2>2, <2>5
      DEF ParseMetadataSet, ToText, Decode, ToAddress, IsValidStellarAddress, BytesToUtf8, String, Bytes, Sv
    <3> QED
      BY <1>4, <2>3, <2>5, <3>1 DEF Parsed, IdentityMeaning, w
  <2> QED
    BY <1>4, <2>4, <2>5
<1>5. CASE e \in [type : {"transfer"}, agent : Agents, from : Addresses, to : Addresses]
  <2>1. w = Wire("transfer", <<Address(e.from), Address(e.to)>>, [token_id |-> U32(e.agent)])
    BY <1>5 DEF IdentityWire
  <2>2. /\ EventName(w) = "transfer" /\ Topic(w, 1) = Address(e.from)
        /\ Topic(w, 2) = Address(e.to) /\ Field(w, "token_id") = U32(e.agent)
    BY <2>1, WireParts DEF Field
  <2> HIDE DEF w
  <2>3. ParseIdentityEvent(w) = Parsed([type |-> "AgentTransferred", agentId |-> e.agent,
                                        from |-> e.from, to |-> e.to])
    BY <1>5, <2>2 DEF ParseIdentityEvent, ParseTransfer, ToSafeInteger, ToAddress,
       IsValidStellarAddress, U32, Address, Sv
  <2> QED
    BY <1>5, <2>3 DEF Parsed, IdentityMeaning, w
<1> QED
  BY <1>1, <1>2, <1>3, <1>4, <1>5 DEF Published

\* What the constructors of the events make is what the contract publishes.
LEMMA PublishedTypes ==
  ASSUME NEW id \in Agents
  PROVE  /\ \A a \in Addresses, u \in Uris : Registered(id, a, u) \in Published
         /\ \A a \in Addresses, u \in Uris : UriUpdated(id, a, u) \in Published
         /\ \A k \in Keys \ {ReservedKey}, v \in Values : MetadataSet(id, k, v) \in Published
         /\ \A x \in Addresses \cup {None} : WalletSet(id, x) \in Published
         /\ \A f \in Addresses, t \in Addresses : Transferred(id, f, t) \in Published
  BY DEF Published, Registered, UriUpdated, MetadataSet, WalletSet, Transferred

\* The events of a step are the contract's.
LEMMA StepPublishes ==
  ASSUME IdentityInv, Next
  PROVE  \A n \in DOMAIN tx'.events : tx'.events[n] \in Published
<1>1. ASSUME NEW a, NEW s, NEW u, NEW l, Registration(a, s, u, l)
      PROVE  tx'.events \in Seq(Published)
  <2> DEFINE id == next_token_id
             entries == [i \in DOMAIN l |-> MetadataSet(id, l[i].key, l[i].value)]
  <2>1. /\ a \in Addresses /\ u \in Uris /\ l \in MetadataArgs
        /\ \A i \in DOMAIN l : l[i].key # ReservedKey
        /\ Mint(a, s, u, l)
    BY <1>1 DEF Registration
  <2>2. id \in Agents
    BY <2>1, IdentityAssumption DEF Mint, TypeOK, Agents, IdentityInv
  <2>3. entries \in Seq(Published)
    <3>1. PICK m \in Nat : DOMAIN l = 1 .. m /\ l \in [1 .. m -> MetadataEntry]
      BY <2>1, IdentityAssumption DEF MetadataArgs
    <3>2. \A i \in 1 .. m : MetadataSet(id, l[i].key, l[i].value) \in Published
      BY <2>1, <2>2, <3>1, PublishedTypes DEF MetadataEntry
    <3> QED
      BY <3>1, <3>2
  <2>4. WalletSet(id, a) \in Published /\ Registered(id, a, u) \in Published
    BY <2>1, <2>2, PublishedTypes
  <2>5. tx'.events = <<WalletSet(id, a)>> \o entries \o <<Registered(id, a, u)>>
    BY <2>1 DEF Mint, Invocation
  <2> HIDE DEF entries, id
  <2> QED
    BY <2>3, <2>4, <2>5
<1>2. ASSUME NEW signers, NEW e \in Published, Invocation(signers, <<e>>)
      PROVE  tx'.events \in Seq(Published)
  BY <1>2 DEF Invocation
<1>3. ASSUME NEW signers, NEW e \in Published, NEW f \in Published, Invocation(signers, <<e, f>>)
      PROVE  tx'.events \in Seq(Published)
  BY <1>3 DEF Invocation
<1>4. ASSUME NEW signers, Invocation(signers, <<>>)
      PROVE  tx'.events \in Seq(Published)
  BY <1>4 DEF Invocation
<1>5. ASSUME NEW a \in Addresses, NEW id \in Agents, NEW u \in Uris, SetAgentUri(a, id, u)
      PROVE  tx'.events \in Seq(Published)
  BY <1>2, <1>5, PublishedTypes DEF SetAgentUri
<1>6. ASSUME NEW a \in Addresses, NEW id \in Agents, NEW k \in Keys, NEW v \in Values,
             SetMetadata(a, id, k, v)
      PROVE  tx'.events \in Seq(Published)
  BY <1>2, <1>6, PublishedTypes DEF SetMetadata
<1>7. ASSUME NEW s, NEW a \in Addresses, NEW id \in Agents, NEW x \in Addresses,
             SetAgentWallet(s, a, id, x) \/ UnsetAgentWallet(a, id)
      PROVE  tx'.events \in Seq(Published)
  BY <1>2, <1>7, PublishedTypes DEF SetAgentWallet, UnsetAgentWallet
<1>8. ASSUME NEW x \in Addresses, NEW f \in Addresses, NEW t \in Addresses, NEW id \in Agents,
             Handover(x, f, t, id)
      PROVE  tx'.events \in Seq(Published)
  BY <1>3, <1>8, PublishedTypes DEF Handover
<1>9. ASSUME NEW a, NEW t, NEW id, NEW n,
             Approve(a, t, id, n) \/ ApproveForAll(a, t, n) \/ CloseLedger
      PROVE  tx'.events \in Seq(Published)
  BY <1>4, <1>9 DEF Approve, ApproveForAll, CloseLedger
<1>10. tx'.events \in Seq(Published)
  <2>1. ASSUME NEW a \in Addresses, NEW id \in Agents, UnsetAgentWallet(a, id)
        PROVE  tx'.events \in Seq(Published)
    BY <1>7, <2>1
  <2> QED
    BY <1>1, <1>5, <1>6, <1>7, <1>8, <1>9, <2>1, Steps
<1> QED
  BY <1>10

\* Events of the token library are passed over and those of earlier contracts read.
LEMMA OthersRead ==
  /\ \A w \in LibraryWires : Ignored(w, ParseIdentityEvent(w))
  /\ \A w \in LegacyWires : ParseIdentityEvent(w) # None
<1> USE IdentityAssumption, WireAssumption
<1>1. ASSUME NEW w \in LibraryWires PROVE Ignored(w, ParseIdentityEvent(w))
  <2>1. ASSUME NEW name \in {"mint", "approve", "approve_for_all"}, NEW x \in Addresses,
               NEW topics, NEW data, w = Wire(name, topics, data),
               topics \in {<<Address(x)>>} \cup {<<Address(x), U32(id)>> : id \in Agents}
        PROVE  EventName(w) = name /\ Topic(w, 1) = Address(x)
    <3>1. CASE topics = <<Address(x)>>
      BY <2>1, <3>1 DEF Wire, EventName, Topic, Sv
    <3>2. ASSUME NEW id \in Agents, topics = <<Address(x), U32(id)>>
          PROVE  EventName(w) = name /\ Topic(w, 1) = Address(x)
      BY <2>1, <3>2, WireParts
    <3> QED
      BY <2>1, <3>1, <3>2
  <2>2. /\ EventName(w) \in {"mint", "approve", "approve_for_all"}
        /\ \E x \in Addresses : Topic(w, 1) = Address(x)
    <3>1. CASE \E x \in Addresses, id \in Agents :
                  w = Wire("mint", <<Address(x)>>, [token_id |-> U32(id)])
      BY <2>1, <3>1
    <3>2. CASE \E x \in Addresses, id \in Agents :
                  w = Wire("approve", <<Address(x), U32(id)>>, [approved |-> Address(x)])
      BY <2>1, <3>2
    <3>3. CASE \E x \in Addresses :
                  w = Wire("approve_for_all", <<Address(x)>>, [operator |-> Address(x)])
      BY <2>1, <3>3
    <3> QED
      BY <3>1, <3>2, <3>3 DEF LibraryWires
  <2>3. ToSafeInteger(Topic(w, 1)) = None
    BY <2>2 DEF ToSafeInteger, Address, Sv
  <2> QED
    BY <2>2, <2>3 DEF ParseIdentityEvent, Ignored, EventNames, LegacyNames
<1>2. ASSUME NEW w \in LegacyWires PROVE ParseIdentityEvent(w) # None
  <2>1. ASSUME NEW x \in Addresses, NEW id \in Agents,
               w = Wire("agent_wallet_set", <<U32(id), Address(x), Address(x)>>, <<>>)
        PROVE  ParseIdentityEvent(w) # None
    <3>1. /\ EventName(w) = "agent_wallet_set" /\ Len(w.topics) = 4
          /\ Topic(w, 1) = U32(id) /\ Topic(w, 2) = Address(x)
      BY <2>1 DEF Wire, EventName, Topic, Sv
    <3>2. ToSafeInteger(Topic(w, 1)) = id /\ id # None /\ ToAddress(Topic(w, 2)) = x
      BY <3>1 DEF ToSafeInteger, ToAddress, IsValidStellarAddress, U32, Address, Sv
    <3>3. ParseIdentityEvent(w) = ParseLegacyWallet(w, id)
      BY <3>1, <3>2, ParserCases DEF LegacyNames
    <3>4. ParseLegacyWallet(w, id)
             = Parsed([type |-> "AgentWalletSet", agentId |-> id, newWallet |-> x])
      BY <3>1, <3>2 DEF ParseLegacyWallet
    <3>5. Parsed([type |-> "AgentWalletSet", agentId |-> id, newWallet |-> x])
             = [type |-> "AgentWalletSet", agentId |-> id, newWallet |-> x]
      BY <3>2 DEF Parsed
    <3> QED
      BY <3>3, <3>4, <3>5
  <2>2. ASSUME NEW id \in Agents, w = Wire("agent_wallet_unset", <<U32(id)>>, <<>>)
        PROVE  ParseIdentityEvent(w) # None
    <3>1. EventName(w) = "agent_wallet_unset" /\ Topic(w, 1) = U32(id)
      BY <2>2 DEF Wire, EventName, Topic, Sv
    <3>2. ToSafeInteger(Topic(w, 1)) = id /\ id # None
      BY <3>1 DEF ToSafeInteger, U32, Sv
    <3>3. ParseIdentityEvent(w) = ParseLegacyWallet(w, id)
      BY <3>1, <3>2, ParserCases DEF LegacyNames
    <3> QED
      BY <3>1, <3>3 DEF ParseLegacyWallet
  <2> QED
    <3>1. \/ \E x \in Addresses, id \in Agents :
                w = Wire("agent_wallet_set", <<U32(id), Address(x), Address(x)>>, <<>>)
          \/ \E id \in Agents : w = Wire("agent_wallet_unset", <<U32(id)>>, <<>>)
      BY DEF LegacyWires
    <3> QED
      BY <2>1, <2>2, <3>1
<1> QED
  BY <1>1, <1>2

\* Every event of the identity registry is read as the event it is, whatever bytes
\* stand for its texts.
THEOREM EventsRead == Spec => EventsUnderstood
<1> DEFINE A == tx' # tx =>
           /\ \A n \in DOMAIN tx'.events :
                 ParseIdentityEvent(IdentityWire(tx'.events[n])) = IdentityMeaning(tx'.events[n])
           /\ (\E n \in DOMAIN tx'.events : tx'.events[n].type = "registered") =>
                 /\ \A w \in LibraryWires : Ignored(w, ParseIdentityEvent(w))
                 /\ \A w \in LegacyWires : ParseIdentityEvent(w) # None
<1>1. IdentityInv /\ [Next]_vars => [A]_vars
  BY StepPublishes, EventReadBack, OthersRead
<1> QED
  BY <1>1, IdentityInvariant, PTL DEF Spec, EventsUnderstood
=============================================================================
