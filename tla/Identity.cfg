\* Three parties, approvals that expire as ledgers close, metadata at its limit.
SPECIFICATION Spec
CONSTANTS
    Addresses = {a1, a2, a3}
    Keys = {k1, k2, agentWallet}
    Values = {v1, v2}
    Uris = {emptyUri, u1}
    ReservedKey = agentWallet
    EmptyKey = emptyKey
    EmptyUri = emptyUri
    Oversized = {v2}
    None = None
    NotUtf8 = {k2, u1, v1}
    Replaced <- MCReplaced
    MAX_METADATA_KEYS = 1
    MaxAgents = 1
    MaxEntries = 2
    MaxLedger = 2
    LiveUntil = {0, 1}
VIEW StorageView
SYMMETRY Symmetry
INVARIANTS MetadataIndexed
PROPERTIES NoClaimInheritance OnlyAuthorizedChanges 
