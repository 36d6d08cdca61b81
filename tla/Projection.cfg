\* Runs that crash and replay, and runs that lost the lock and keep writing.
SPECIFICATION ProjectionSpec
CONSTANTS
    Addresses = {a1, a2}
    Keys = {k1, agentWallet}
    Values = {v1}
    Uris = {emptyUri, u1, u2}
    ReservedKey = agentWallet
    EmptyKey = emptyKey
    EmptyUri = emptyUri
    Oversized = {}
    None = None
    MAX_METADATA_KEYS = 1
    MaxAgents = 1
    MaxEntries = 1
    MaxLedger = 2
    LiveUntil = {}
    Writers = {w1, w2}
    MAX_ATTEMPTS = 1
    MaxTx = 3
VIEW WithoutTx
SYMMETRY Symmetry
INVARIANTS ProjectionConverges OwnerAndUriNeverUndone DocumentMatchesUri NoUriStranded
