SPECIFICATION Spec
CONSTANTS
    p1 = p1
    p2 = p2
    p3 = p3
    h1 = h1
    h2 = h2
    impl = impl
    Processes = {p1, p2, p3}
    Hashes = {h1, h2}
    Files = {impl}
    Marker = Marker
    Nothing = Nothing
    MaxCalls = 4
    MaxCrashes = 1
INVARIANTS
    HandedOutIsWhole
    LosersAreServed
SYMMETRY Sym
CHECK_DEADLOCK FALSE
