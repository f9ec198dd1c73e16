SPECIFICATION Spec
CONSTANTS
    c1 = c1
    c2 = c2
    c3 = c3
    k1 = k1
    k2 = k2
    s1 = s1
    s2 = s2
    Callers = {c1, c2}
    Closers = {}
    SessionOf <- OneSession
    Sessions = {s1}
    Kinds = {"test", "collect"}
    Tests = {t1}
    MaxGen = 2
    Hash <- FreshContent
    Slots = 1
    MaxCalls = 2
    Faults = {"build", "wait", "exec"}
    NoHash = NoHash
    Nobody = Nobody
INVARIANTS
    VerdictIsNotOlder
    NoStampede
    SnapshotIsOfItsKey
    HeldBinaryIsUntouched
SYMMETRY Same
CHECK_DEADLOCK FALSE
