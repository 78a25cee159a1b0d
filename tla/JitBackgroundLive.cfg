CONSTANTS
    script = script
    f = f
    g = g
    h = h
    w1 = w1
    Function = {script, f, g}
    Script = script
    NoFunction = NoFunction
    Refs <- FlatRefs
    Compilable = {f}
    Threshold = 1
    MaxFrames = 2
    Modes = {TRUE}
    Waiter = {w1}

SPECIFICATION FairSpec

PROPERTIES
    QueuedIsResolved
    ShutdownTerminates
    WaitReturns
