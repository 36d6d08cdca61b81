\* One agent, two addresses that both become its clients, two feedback per client.
SPECIFICATION Spec
CONSTANTS
    Addresses = {a1, a2}
    Agents = {agent1}
    minus = minus
    large = large
    bad = bad
    Bodies = {minus, large, bad}
    Admissible = {minus, large}
    ValueOf <- MCValueOf
    DecimalsOf <- MCDecimalsOf
    WAD = 2
    MaxI128 = 1000
    MAX_SUMMARY_CLIENTS = 2
    Uris = {emptyUri, u1}
    EmptyUri = emptyUri
    None = None
    NotUtf8 = {large}
    Replaced <- MCReplaced
    VALID_TAGS = {minus}
    PAGE_FEEDBACK = 3
    PAGE_RESPONSES = 3
    PAGE_CLIENTS = 1
    MAX_PAGE = 2
    MAX_LIMIT = 2
    MaxSafe = 10
    Rounded <- MCRounded
    ExactDecimals = 2
    ExactDigits = 1
    ExactCount = 3
    MaxFeedback = 2
    MaxClients = 2
    MaxResponses = 2
VIEW StorageView
SYMMETRY Symmetry
INVARIANTS FeedbackContiguous PagesListEveryClient SummaryIsAverage PageAgreesWithSummary
PROPERTIES FeedbackTablesFollow
