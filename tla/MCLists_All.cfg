CONSTANTS
    p1 = p1 i1 = i1 b1 = b1 g1 = g1 a1 = a1 d1 = d1 d2 = d2
    None = None
    ProxySources = {p1}
    IpSources = {i1}
    IpBlocklists = {b1}
    DomainBlocklists = {g1}
    DefaultSources = {b1}
    Addrs = {a1}
    Domains = {g1}
    Last = 3
    Texts <- IpTexts
    Downloads = {d1, d2}
    MaxDownloads = 2
    MaxEdits = 1
SPECIFICATION FairSpec
CHECK_DEADLOCK FALSE
INVARIANTS
    SourcesAreStored
    NeverHalfListed
    LookupExact
    

    
