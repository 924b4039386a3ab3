CONSTANTS
    None = None
    Main = Main
    Calls = {c1, c2}
    Resources = {r1}
    MaxCalls = 4
    MaxStops = 2
SPECIFICATION Spec
SYMMETRY Symmetry
INVARIANTS
    
    ServiceKept
