\* Two failing events in one page.
SPECIFICATION Spec
CONSTANTS
    CONTRACTS <- Scan
    Stream <- TwoFailures
    Runs = {r1}
    None = None
    PAGE_LIMIT = 2
    BATCH_LIMIT = 2
    SCAN_LIMIT = 2
    MAX_DEFER_ATTEMPTS = 2
    AllowRetentionClamp = FALSE
    MaxHead = 3
    MaxOldest = 0
    MaxFaults = 0
INVARIANTS SkippedAfterOwnDeferrals
