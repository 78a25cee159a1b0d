CONSTANTS
    a1 = a1
    a2 = a2
    a3 = a3
    s1 = s1
    s2 = s2
    engine = engine
    NoText = NoText
    Null = Null
    Address = {a1, a2, a3}
    Text = {s1, s2}
    Marker = {}
    MaxTempRoots = 2
    MinNextGc = 1
    MaxBytes = 2
    Stress = {TRUE, FALSE}

SYMMETRY Symmetry
SPECIFICATION Spec

INVARIANTS
    TypeOK
    NothingReachableFreed
    Interned
    GarbageBounded
