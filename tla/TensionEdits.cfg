SPECIFICATION Spec
CONSTANTS
    r1 = r1
    r2 = r2
    r3 = r3
    ann = ann
    bob = bob
    eve = eve
    speed = speed
    cost = cost
    release = release
    Requirements = {r1, r2}
    Stakeholders = {ann, bob}
    Founders = {ann, bob}
    Axes = {speed}
    DeclaredAxes = {}
    Contexts = {release}
    Successors = {r1, r2}
    Statuses = {"SETTLED"}
    HandEdits = TRUE
    Nobody = Nobody
    Missing = Missing
PROPERTIES
    ProposalsKeepSoundConflicts
    NothingIsLost
SYMMETRY Sym
