SPECIFICATION Spec
CONSTANTS
    Slots = {s1, s2, s3}
    GenWidth = 1
    Keys = {k1}
    Digests = {d1, d2}
    Weight <- MCWeight
    Budget = 1
    Owners = {o1, o2}
    Root = Root
    None = None
INVARIANTS
    TypeOK
    NoDangling
    BooksExact
PROPERTIES
    BudgetKept
    ImplementsStore
SYMMETRY MCSymmetry
