\* Two overlapping runs, two faults anywhere, and a retention window that moves
\* past a checkpoint while the operator allows the clamp.
SPECIFICATION Spec
CONSTANTS
    CONTRACTS <- Scan
    Stream <- Chain
    Runs = {r1, r2}
    None = None
    PAGE_LIMIT = 2
    BATCH_LIMIT = 2
    SCAN_LIMIT = 2
    MAX_DEFER_ATTEMPTS = 1
    AllowRetentionClamp = TRUE
    MaxHead = 3
    MaxOldest = 2
    MaxFaults = 2
VIEW WithoutDeferrals
SYMMETRY Symmetry
INVARIANTS HolderSeesCheckpoints DependentsBehindIdentity NoSilentLoss GivenUpOnlyWithParent
PROPERTIES CheckpointsMonotone
