SPECIFICATION Spec
CONSTANTS
    MaxNode = 9
    Keys = {k1, k2, k3}
    Digests = {d0, d1, d2}
    Weight <- MCWeight
    Budget = 1
    Cells = {c1, c2}
    Tokens = {1, 2}
    Root = Root
    None = None
    Bodies = {outer, inner, walk, main, other}
    Top = {walk}
    Nested <- MCComposedNested
    Key <- MCKey
    Loops = {}
    Code <- MCMainOnly
    Binds <- MCBindsTwo
    Barren = {}
    MaxBorn = 2
    MaxDeep = 2
    outer = outer
    inner = inner
    leaf = leaf
    plain = plain
    walk = walk
    main = main
    other = other
    k1 = k1
    k2 = k2
    k3 = k3
    k4 = k4
    d0 = d0
    d1 = d1
    d2 = d2
PROPERTIES BirthsEnd
