SPECIFICATION FairSpec
CONSTANTS
    r1 = r1
    r2 = r2
    a1 = a1
    reqMap = reqMap
    Requirements = {r1, r2}
    Blocked = {r1}
    Incomplete = {r2}
    Others = {a1}
    Breaking = {a1}
    SelfHosting = TRUE
    Atoms = TRUE
    Views = {reqMap}
    Faults = {"render", "drift", "discipline"}
    Torn = Torn
    Absent = Absent
INVARIANTS
    NothingLandedIsTrue
PROPERTIES
    OnlyRollbackUnpins
    
    ImplementsTransaction
    CommandEnds
