\* Three hashes, lists that can fill up, answers at both ends of the range.
SPECIFICATION Spec
CONSTANTS
    Addresses = {a1, a2}
    Agents = {agent1}
    Hashes = {h1, h2, h3}
    Responses = {0, 100, 101}
    Tags = {emptyTag, t1}
    EmptyTag = emptyTag
    None = None
    NotUtf8 = {t1}
    Replaced <- MCReplaced
    PAGE_VALIDATIONS = 1
    MaxRequests = 2
    MaxLedger = 1
VIEW StorageView
SYMMETRY Symmetry
INVARIANTS ListsMatchRequests SummaryCountsRequests
PROPERTIES ValidationTableFollows
