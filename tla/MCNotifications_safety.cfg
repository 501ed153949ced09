CONSTANTS
    MaxHeld = 2
    MaxPending = 2
    MaxVisible = 1
    MaxCalls = 3
    MaxStarts = 1
    MaxFeed = 1
CONSTRAINT OneMonitorAtATime
SPECIFICATION Spec
INVARIANTS
    TypeOK
    NoTwins
    NoGhosts
    CardsCurrent
    PressHitsDrawn
CHECK_DEADLOCK FALSE
