SPECIFICATION FairSpec
CONSTANTS
    p = p
    q = q
    c = c
    d = d
    Providers = {p, q}
    Offers <- TwoAndOne
    Started = {p}
    Pool = pool
    MaxFailures = 1
    Callers = {c, d}
    MaxCalls <- TwiceAndOnce
CHECK_DEADLOCK FALSE
INVARIANTS ServicesSound DiscoveryAlone
 
