CONSTANTS
    MaxHeld = 4
    MaxPending = 4
    MaxVisible = 2
    MaxCalls = 3
    MaxStarts = 1
    MaxFeed = 4
SPECIFICATION Spec
INVARIANT BacklogComplete
CHECK_DEADLOCK FALSE
