SPECIFICATION Spec
CONSTANTS
    Width = 4
    MaxCallDepth = 3
    MaxRkConstant = 1
    ArrayBatch = 2
    MaxOperand = 255
    MaxLocalLimit = 255
    RegisterSlots = 24
    JitThreshold = 2
    MaxFrameSize = 8
    MaxSelfCallFrameSize = 6
    Entry = "run"
    Suites <- NestedSuites
    MaxCalls = 2
INVARIANTS
    SameOutcome
