SPECIFICATION Spec
CONSTANTS
    n = n
    s = s
    b = b
    X = X
    Y = Y
    one = one
    text = text
    Atoms = {n, s, b}
    Vars = {X, Y}
    Scalars = {one, text}
    NoScalar = NoScalar
    ScalarType <- MCScalarType
    Orders <- MCOrders
    Lists <- MCLists
    Arguments <- MCArguments
    Guards <- MCGuards
    Clauses = {{n, s, b}, {n, s}}
    Scrutinees <- Intervals
    Bindings = {{n}, {s}, {n, s}}
INVARIANTS
    Transparent
    VerdictsSound
    ArmsRunTheSame
CHECK_DEADLOCK FALSE
