SPECIFICATION Spec
CONSTANTS
    PanelBits = {"dial", "lid"}
    LidBit = "lid"
    FieldBits = {"dial"}
    FieldWeight <- Weights
    PanelQueue = 2
    PanelAcks = 2
    MinFrames = 2
    PanelHolds = {0, 3}
    PanelGap = 1
    PanelTurns = {2}
    MaxExchanges = 7
    MaxPanelCommands = 3
    LineSize = 4
    LineLengths = {0, 1, 2, 3, 5}
    MaxLines = 3
    MaxClients = 2
    MaxBlocks = 2
    CardWrites = TRUE
    MaxDmaJobs = 4
    UsbSizes = {1, 2}
    UsbRates = {FALSE, TRUE}
    MaxUsbCommands = 2
    MaxNaks = 3
    IntrLevels <- Levels
    IntrFixed = {2}
    IntrTimers = {1}
    IntrWindow = 10
    MaxAsserts = 4
    MaxCommands = 4
    MaxReports = 1
INVARIANTS DevicesTypeOK PressesExact LinesWhole
INVARIANTS DmaExact UsbExact NothingForgotten IntrExact AnswersOwn
CHECK_DEADLOCK FALSE
