SPECIFICATION Spec
CONSTANTS
    r1 = r1
    r2 = r2
    a1 = a1
    reqMap = reqMap
    Requirements = {r1}
    Blocked = {r1}
    Incomplete = {}
    Others = {a1}
    Breaking = {}
    SelfHosting = FALSE
    Atoms = FALSE
    Views = {reqMap}
    Faults = {"graphWrite", "lockWrite", "restore", "handEdit", "crash"}
    Torn = Torn
    Absent = Absent
INVARIANTS
    LandedIsConsistent
    
    AuditIsHonest
