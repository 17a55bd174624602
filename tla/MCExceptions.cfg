CONSTANTS
    l1 = l1
    l2 = l2
    e1 = e1
    e2 = e2
    g1 = g1
    None = None
    Lines = {l1, l2}
    Exceptions = {e1, e2}
    Generators = {g1}
    RECURSION_MAX = 3
    MaxCalls = 3
SYMMETRY Symmetric
SPECIFICATION Spec
INVARIANTS
    LocationsMatch
    NoTraceLost
PROPERTY
    TraceTells
