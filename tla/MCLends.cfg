SPECIFICATION Spec
CONSTANTS
    r1 = r1
    t1 = t1
    t2 = t2
    u1 = u1
    Roots = {r1}
    Tenants = {t1, t2}
    Runs = {u1}
    None = None
    MaxNaming = 2
    MaxTrees = 1
SYMMETRY Alike
INVARIANTS
    TypeOK
    CountsExact
    ScratchKept
PROPERTIES
    OnlyCyclesHold
CHECK_DEADLOCK FALSE
