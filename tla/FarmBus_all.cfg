SPECIFICATION FairFarmBusSpec
CONSTANTS
    Socks = {s1, s2}
    Ws = {w1}
    Addrs = {a1}
    Ids = {i1}
    MaxAtOnce = 2
    Keys = {k1}
    Open = Open
    None = None
    Procs = {p1, p2}
INVARIANTS RegistryTrue OnlyThePassword NoOrphan
PROPERTIES OfferIsTrue OldPasswordEnds
CHECK_DEADLOCK FALSE
