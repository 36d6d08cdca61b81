\* Liveness under one fault: cron runs, the chain and time keep going.
SPECIFICATION FairSpec
CONSTANTS
    CONTRACTS <- Scan
    Stream <- Chain
    Runs = {r1, r2}
    None = None
    PAGE_LIMIT = 2
    BATCH_LIMIT = 2
    SCAN_LIMIT = 2
    MAX_DEFER_ATTEMPTS = 1
    AllowRetentionClamp = FALSE
    MaxHead = 3
    MaxOldest = 0
    MaxFaults = 1
PROPERTIES CatchesUp
