SPECIFICATION Spec
CONSTANTS
    Half = 1
    MaxTime = 3
    MaxNap = 1
    MaxSent <- OneEach
    MaxFrames = 2
    MaxCycle = 2
    HostInput = FALSE
    MayQuit <- NobodyQuits
CHECK_DEADLOCK FALSE
INVARIANTS TypeOK InStep
PROPERTY PromiseKept
