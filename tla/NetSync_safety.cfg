SPECIFICATION Spec
CONSTANTS
    a = a
    b = b
    Players <- Two
    Half = 1
    Ahead = 1
    MayQuit <- NobodyQuits
    HubMayQuit = FALSE
    MaxTime = 6
    Setups <- Busy
CHECK_DEADLOCK FALSE
INVARIANTS TypeOK NoPastArrival KeepsPace
PROPERTIES PromiseKept TakenOnTime
