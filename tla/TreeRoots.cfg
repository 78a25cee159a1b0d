CONSTANTS
    a1 = a1
    a2 = a2
    a3 = a3
    a4 = a4
    Null = Null
    NoText = NoText
    Address = {a1, a2, a3, a4}
    Text = {"s"}
    Programs <- SomePrograms
    Stress = {TRUE, FALSE}
    MaxPending = 4
    MaxStack = 2

SYMMETRY Symmetry
SPECIFICATION Spec

INVARIANTS
    TypeOK
    NothingLost
    RootsReleased

PROPERTIES
    KeepsContract
