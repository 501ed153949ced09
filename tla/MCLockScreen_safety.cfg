CONSTANTS
    Fds = {2, 3, 4, 5, 6, 7}
    MaxBatch = 2
    Actions = {"suspend"}
    Keys = {"text", "back", "clear", "enter", "escape", "other"}
    Repeating = {"text", "enter"}
    MaxInputs = 4
SPECIFICATION Spec
INVARIANTS
    TypeOK
    HandlesOwnTimers
    HiddenHoldsNothing
    IdleOrCounting
PROPERTY PowerGateHolds
