SPECIFICATION Spec
CONSTANTS
    Half = 1
    MaxTime = 3
    MaxNap = 0
    MaxSent <- MainOnce
    MaxFrames = 1
    MaxCycle = 1
    HostInput = TRUE
    MayQuit <- AnyQuits
CHECK_DEADLOCK FALSE
PROPERTIES BothAdvance SurvivesLoss
