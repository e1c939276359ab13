SPECIFICATION Spec
CONSTANTS
    Half = 2
    MaxTime = 6
    MaxNap = 0
    MaxSent <- MainTwice
    MaxFrames = 2
    MaxCycle = 2
    HostInput = FALSE
    MayQuit <- NobodyQuits
CHECK_DEADLOCK FALSE
PROPERTY LinkSpec
