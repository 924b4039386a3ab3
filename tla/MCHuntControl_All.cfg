CONSTANTS
    h1 = h1 h2 = h2 st1 = st1 st2 = st2 r1 = r1 c1 = c1
    None = None
    Hunts <- TwoHunts
    Starters <- OneStarter
    Rechecks <- OneRecheck
    Scheduled <- OneScheduled
    Ops = {"again", "pause", "stop", "skip", "recheck", "schedule", "canary", "fail"}
SPECIFICATION ControlSpec
INVARIANTS
    AtMostOneHunt
    FlagCoversHunt
    CanaryHasHunt
    
