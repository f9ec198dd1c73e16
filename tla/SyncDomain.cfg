SPECIFICATION Spec
CONSTANTS
    a = a
    b = b
    amy = amy
    bob = bob
    t1 = t1
    t2 = t2
    Methods = {"M.a", "M.b"}
    Director = amy
    Manifests <- MCManifests
    Codes <- MCCodes
    Graphs <- MCGraphs
    Carriers <- MCCarriers
    Flaky = {t2}
    MaxEdits = 2
    MaxLands = 2
    MaxRuns = 4
    None = None
INVARIANTS
    LandedIsCode
    OnlyPresentedChanges
    ConflictsAcknowledged
PROPERTIES
    JournalsSurvive
    
CHECK_DEADLOCK FALSE
