SPECIFICATION Spec
CONSTANTS
    Width = 4
    MaxCallDepth = 3
    MaxOperand = 5
    MaxLocalLimit = 5
    FrameSlots = 6
    TempSlack = 6
    Entry = "run"
    Programs <- StackPrograms
    Folds = {TRUE, FALSE}
    MaxCalls = 2
INVARIANTS
    TypeOK
    SameOutcome
    CompilesWellFormed
    OpenUpvaluesOnStack
    StackHasRoom
PROPERTIES
    Halts
