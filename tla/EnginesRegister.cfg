SPECIFICATION Spec
CONSTANTS
    Width = 4
    MaxCallDepth = 3
    MaxRkConstant = 1
    ArrayBatch = 2
    MaxOperand = 5
    MaxLocalLimit = 5
    RegisterSlots = 24
    JitThreshold = 2
    MaxFrameSize = 8
    MaxSelfCallFrameSize = 6
    Entry = "run"
    Suites <- RegisterSuites
    MaxCalls = 2
INVARIANTS
    TypeOK
    SameOutcome
    CompilerAssertions
    InsideWindow
    CacheNeverStale
    CompilesWellFormed
PROPERTIES
    Halts
