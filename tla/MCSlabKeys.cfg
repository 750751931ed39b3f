SPECIFICATION Spec
CONSTANTS
    Slots = {s1, s2, s3}
    NoSlot = NoSlot
    Nowhere = Nowhere
    MaxBirths = 3
    MaxKept = 2
    MaxReads = 2
    MaxBelow = 1
SYMMETRY Alike
INVARIANTS
    TypeOK
    MovesWhole
    RedeemCovers
PROPERTIES
    ImplementsRetention
CHECK_DEADLOCK FALSE
