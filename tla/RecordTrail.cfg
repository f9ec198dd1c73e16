SPECIFICATION Spec
CONSTANTS
    ann = ann
    eve = eve
    clear = clear
    check = check
    proof = proof
    plan = plan
    build = build
    first = first
    second = second
    Claims = {proof}
    Statuses = {"DRAFT", "SETTLED"}
    Enforcements = {"", "ENFORCED"}
    EnforcerLists = {{}, {clear}, {check}}
    Enforcers = {check}
    Clear = clear
    SettledDates = {0, 1}
    ReviewDates = {0}
    EvidenceLists = {{proof}}
    Days = {2, 3}
    Stakeholders = {ann}
    Deciders = {ann, eve}
    Stages <- StageOrder
    StageNames = {plan, build}
    Runs = {first, second}
    Batches = {1, 2}
    MaxHistory = 2
    MaxGates = 2
    Nobody = Nobody
    Missing = Missing
INVARIANTS
    
    SettledOnItsDay
    RetryChangesNothing
    GatesPassedInOrder
SYMMETRY Sym
