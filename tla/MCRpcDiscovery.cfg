SPECIFICATION FairSpec
CONSTANTS
    p = p
    q = q
    c = c
    d = d
    Providers = {p, q}
    Offers <- TwoAndOne
    Started = {p}
    Pool = pool
    MaxFailures = 1
    Callers = {c, d}
    MaxCalls <- TwiceAndOnce
PROPERTIES DiscoveryEnds
CHECK_DEADLOCK FALSE
