SPECIFICATION Spec
CONSTANTS
    r1 = r1
    r2 = r2
    r3 = r3
    ann = ann
    bob = bob
    eve = eve
    speed = speed
    cost = cost
    release = release
    Requirements = {r1, r2, r3}
    Stakeholders = {ann, bob, eve}
    Founders = {ann, bob}
    Axes = {speed}
    DeclaredAxes = {speed}
    Contexts = {release}
    Successors = {}
    Statuses = {"SETTLED"}
    HandEdits = FALSE
    Nobody = Nobody
    Missing = Missing
INVARIANTS
    JudgedFromOutside
    ResolverCanDecide
    SignoffNamesDecider
SYMMETRY Sym
