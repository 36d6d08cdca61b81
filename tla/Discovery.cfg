\* Two agents, a third that may register, pages of one and two rows.
SPECIFICATION DiscoverySpec
CONSTANTS
    MaxAgents = 3
    Created <- MCCreated
    Standings <- MCStandings
    Relevances = {0, 1}
    Limits = {1, 2}
    MAX_PAGE = 2
    Retries = 1
    None = None
    FirstAgents = 2
    MaxChanges = 2
    MaxWalks = 2
    MaxCached = 1
CONSTRAINT SecondWalkReads
INVARIANTS UnmovedSeenOnce OffsetSkipsOnlyOnDeparture
PROPERTIES WalkEnds
CHECK_DEADLOCK FALSE
