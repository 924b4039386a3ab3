CONSTANTS
    h1 = h1 h2 = h2 st1 = st1 r1 = r1 c1 = c1 k1 = k1 a1 = a1 a2 = a2 a3 = a3
    None = None
    Hunts <- OneHunt
    Starters <- OneStarter
    Rechecks <- Nobody
    Scheduled <- Nobody
    Checks <- Nobody
    Ops = {"canary", "fail"}
    Addrs <- ThreeProxies
    Blacklisted <- OneListed
    Parallel = 2
    FastFails = 1
    SlowFails = 2
    Candidates = 1
SPECIFICATION FairSpec
PROPERTIES
    HuntReleases
