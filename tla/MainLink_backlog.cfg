SPECIFICATION Spec
CONSTANTS
    Gap = 3
    Watchdog = 5
    QueueMax = 2
    BacklogMax = 2
    Setups <- DefaultOnly
PROPERTY OldestDropped
