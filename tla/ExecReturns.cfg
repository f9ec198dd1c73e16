SPECIFICATION FairSpec
CONSTANTS
    c1 = c1
    c2 = c2
    c3 = c3
    k1 = k1
    k2 = k2
    s1 = s1
    s2 = s2
    Callers = {c1, c2}
    Closers = {k1, k2}
    SessionOf <- OneSession
    Sessions = {s1}
    Kinds = {"record", "collect"}
    Tests = {t1}
    MaxGen = 2
    Hash <- FreshContent
    Slots = 1
    MaxCalls = 1
    Faults = {"remove", "exec"}
    NoHash = NoHash
    Nobody = Nobody
INVARIANTS
    UsersKeepTheirFiles
    NothingIsOrphaned
PROPERTIES
    
    CloseReturns
CHECK_DEADLOCK FALSE
