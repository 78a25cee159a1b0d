SPECIFICATION Spec
CONSTANTS
    Width = 4
    MaxCallDepth = 3
    MaxOperand = 5
    MaxLocalLimit = 5
    FrameSlots = 6
    TempSlack = 6
    Entry = "run"
    Programs <- WideToTheLimit
    Folds = {FALSE}
    MaxCalls = 0
INVARIANTS
    OverflowAtLimit
