CONSTANTS
    script = script
    f = f
    g = g
    h = h
    w1 = w1
    Function = {script, f, g, h}
    Script = script
    NoFunction = NoFunction
    Refs <- NestedRefs
    Compilable = {f, h}
    Threshold = 2
    MaxFrames = 2
    Modes = {TRUE, FALSE}
    Waiter = {}

SPECIFICATION Spec

INVARIANTS
    TypeOK
    NoUseAfterFree
    QueuedOnce
    CodeReady
    ShutdownComplete

PROPERTY
    ImplementsHandoff
