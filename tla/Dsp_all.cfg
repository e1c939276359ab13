SPECIFICATION DspSpec
CONSTANTS
    Activation = 5
    Slice = 2
    MaxId = 4
    DspResetsHpi = FALSE
    MaxCalls = 9
    Loops <- SmallLoops
    MaxLoopInterrupts = 2
    Programs <- SmallPrograms
    MaxRequests = 3
    Width = 3
    TimerSetups <- SmallSetups
    MaxClocks = 7
    MaxWrites = 2
    Interrupts = {4, 5}
    MaxEvents = 4
    Serializers = 2
    HalfFrames = 2
    ServiceLimit = 4
    MaxSlots = 6
    MaxAudioWrites = 4
    ByteBits = 2
    Routines <- ArithRoutines
    Operands <- Corners
    OldSchemas = {1, 2, 3, 4, 5, 6, 7, 8, 9, 10, 11, 12}
    MaxCaptures = 1
CHECK_DEADLOCK FALSE
INVARIANTS DspTypeOK NeverStranded LineFollowsHint
INVARIANTS LoopExact PipelineExact TimerExact EventAnnounced AudioExact ArithExact CheckpointWhole
PROPERTIES WholeActivation ComesToRest
