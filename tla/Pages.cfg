\* One account and a stranger, one agent, one tab.
SPECIFICATION Spec
CONSTANTS
    g1 = g1
    w1 = w1
    private = private
    t1 = t1
    Null = Null
    Gateways = {g1}
    Redirects <- MCRedirects
    PrivateHosts = {private}
    BareAddresses = {private}
    Records <- MCRecords
    HasDns = FALSE
    Visitors = {a1}
    Strangers = {stranger}
    Texts = {t1}
    DefaultName = t1
    Published <- MCPublished
    TypedUris <- MCTypedUris
    MAX_POLLS = 2
    MAX_ATTEMPTS = 1
    MaxOut = 1
CONSTRAINTS FewOut OneForm OwnAgent
INVARIANTS CountIsOwn SubmittingIsReal
PROPERTIES DraftKept WaitEnds
