SPECIFICATION Spec
CONSTANTS
    Width = 4
    MaxCallDepth = 4
    MaxRkConstant = 1
    ArrayBatch = 2
    MaxOperand = 255
    MaxLocalLimit = 255
    RegisterSlots = 23
    JitThreshold = 2
    MaxFrameSize = 9
    MaxSelfCallFrameSize = 8
    Entry = "run"
    Suites <- MachineSuites
    MaxCalls = 2
INVARIANTS
    SameOutcome
    ActivationsMatchFrames
PROPERTIES
    ActsAsInterpreter
