CONSTANTS
    a1 = a1 a2 = a2 c1 = c1 l1 = l1 l2 = l2
    None = None
    Lists = {l1}
    Customs = {c1}
    Addrs = {a1, a2}
    Hosts <- HostsMC
    PatternSets <- PatternsMC
    Routes <- RoutesMC
    Policies <- PoliciesMC
    Code <- CodeMC
    InitLists <- InitListsMC
    InitConfigs <- ConfigsMC
    InitRatings <- InitRatingsMC
    Forms = {"get"}
    MaxEdits = 2
    Conns = {1}
    Tunnels = {a1}
    Proven = {a1}
    GraceFails = 1
    PoolTries = 2
    Retries = 2
    Replays = 1
SPECIFICATION Spec
INVARIANTS
    MemosAreCurrent
    CarriedAsRouted
PROPERTIES
    
    AnswersEveryRequest
