\* One agent; approvals of two kinds that expire; one feedback and one request.
SPECIFICATION SystemSpec
CONSTANTS
    Addresses = {a1, a2}
    Keys = {k1, agentWallet}
    Values = {v1}
    Uris = {emptyUri, u1}
    ReservedKey = agentWallet
    EmptyKey = emptyKey
    EmptyUri = emptyUri
    Oversized = {}
    None = None
    MAX_METADATA_KEYS = 1
    MaxAgents = 1
    MaxEntries = 0
    MaxLedger = 2
    LiveUntil = {0, 1}
    Bodies = {b1}
    Admissible = {b1}
    MaxFeedback = 1
    MaxClients = 2
    MaxResponses = 1
    Hashes = {h1}
    Responses = {0, 100}
    Tags = {emptyTag}
    EmptyTag = emptyTag
    MaxRequests = 1
VIEW StorageView
SYMMETRY Symmetry
INVARIANTS SameAuthority
PROPERTIES ReputationOnIdentity ValidationOnIdentity
