SPECIFICATION Spec
CONSTANTS
    r1 = r1
    Roots = {r1}
    None = None
    MaxTrees = 3
    MaxTenants = 1
    MaxKept = 2
    MaxCrossings = 2

INVARIANTS
    TypeOK
    PledgesReach
    SplicesFollowed
PROPERTIES
    ImplementsRetention
CHECK_DEADLOCK FALSE
