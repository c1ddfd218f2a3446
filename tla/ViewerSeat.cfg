SPECIFICATION Spec
CONSTANTS
    Hosts = {h1, h2}
    NoHost = NoHost
    Calls = {c1, c2}
    MaxJoins = 3
INVARIANTS ClosedOnce LoopsHeld EngineHearsItsHost
CHECK_DEADLOCK FALSE
SYMMETRY Symmetry
