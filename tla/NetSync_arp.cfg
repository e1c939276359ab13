SPECIFICATION Spec
CONSTANTS
    a = a
    b = b
    Players <- Two
    Half = 1
    Ahead = 1
    MayQuit <- NobodyQuits
    HubMayQuit = FALSE
    MaxTime = 6
    Setups <- ReplayOnly
CHECK_DEADLOCK FALSE
INVARIANT ArpAnswered
