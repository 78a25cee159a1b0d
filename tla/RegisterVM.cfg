CONSTANTS
    script = script
    outer = outer
    inner = inner
    Object <- MCObject
    Function <- MCFunction
    Script = script
    Nested <- MCNested
    Arity <- ParameterArity
    FrameSize <- ParameterFrameSize
    Captures <- ParameterCaptures
    Global = {a}
    Slots = 6
    MaxCallDepth = 2

SPECIFICATION Spec

PROPERTY ImplementsBoxes
