\* One visitor with Freighter, one agent that quotes by MPP and by x402.
SPECIFICATION FairTrySpec
CONSTANTS
    app = app
    other = other
    p1 = p1
    p2 = p2
    MaxOut = 2
    Accounts = {a1, a2}
    Networks = {app, other}
    AppNetwork = app
    Connects = {k1, k2}
    Restore = restore
    None = None
    Services = {s1}
    Quotes <- MCQuotes
    Calls = {c1, c2}
    AutoOpen = TRUE
CONSTRAINT FewOut
INVARIANTS SessionAgrees ShownIsSigned BusyIsReal
PROPERTIES NeverStuck
