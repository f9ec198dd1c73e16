SPECIFICATION Spec
CONSTANTS
    i1 = i1
    i2 = i2
    i3 = i3
    i4 = i4
    Writers = {w1}
    Readers = {r1}
    Data = {d1, d2}
    Inodes = {i1, i2, i3, i4}
    Chunks = 2
    Faults = {"open", "write", "sync", "rename", "kill", "power"}
    None = None
INVARIANTS
    PathIsWhole
    ReportIsTrue
PROPERTIES
    ImplementsRegister
SYMMETRY Sym
