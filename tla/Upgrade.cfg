\* Room for a cancelled, a renewed and an executed proposal.
SPECIFICATION Spec
CONSTANTS
    Addresses = {a1, a2}
    Hashes = {w1, w2}
    None = None
    Genesis = w0
    TIMELOCK_LEDGERS = 2
    MaxLedger = 6
    MaxProposals = 3
SYMMETRY Symmetry
\* a renounced contract may stop for good
CHECK_DEADLOCK FALSE
PROPERTIES NoticeGiven RenounceFreezesCode
