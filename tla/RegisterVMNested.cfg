CONSTANTS
    script = script
    outer = outer
    inner = inner
    Object <- MCObject
    Function <- MCFunction
    Script = script
    Nested <- MCNested
    Arity <- NestedArity
    FrameSize <- NestedFrameSize
    Captures <- NestedCaptures
    Global = {a}
    Slots = 4
    MaxCallDepth = 2

SPECIFICATION Spec

INVARIANTS
    TypeOK
    NothingDangles
    WithinLimits
    OpenUpvaluesOrdered
