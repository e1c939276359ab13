SPECIFICATION Spec
CONSTANTS
    a = a
    b = b
    Players <- Two
    Half = 1
    Ahead = 1
    MayQuit <- LeaverQuits
    HubMayQuit = TRUE
    MaxTime = 3
    Setups <- Quiet
CHECK_DEADLOCK FALSE
PROPERTIES AllAdvance SurvivesHub
