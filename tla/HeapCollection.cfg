CONSTANTS
    a1 = a1
    a2 = a2
    a3 = a3
    s1 = s1
    s2 = s2
    engine = engine
    NoText = NoText
    Null = Null
    Address = {a1, a2, a3}
    Text = {s1}
    Marker = {engine}
    MaxTempRoots = 0
    MinNextGc = 1
    MaxBytes = 1
    Stress = {FALSE}

SPECIFICATION FairSpec

PROPERTIES
    ImplementsManagedHeap
    CollectionEnds
