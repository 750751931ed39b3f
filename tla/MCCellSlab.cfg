SPECIFICATION Spec
CONSTANTS
    Slots = {s1, s2, s3}
    NoSlot = NoSlot
    Nowhere = Nowhere
    MaxBirths = 4
    MaxKept = 0
    MaxReads = 0
    MaxBelow = 0
INVARIANTS
    NamesCounted
    OnlyRingsStay
PROPERTIES
    Flattened
    CascadesEnd
CHECK_DEADLOCK FALSE
