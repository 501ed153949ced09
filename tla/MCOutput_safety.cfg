CONSTANTS
    Widths = {3, 4}
    Scales = {1, 2}
    MaxBuffers = 4
    MaxHolds = 1
    MaxCallbacks = 1
SPECIFICATION FairSpec
INVARIANTS
    TypeOK
    ThrottleSound
PROPERTIES
    NeverPaintsHeld
    DirtyGetsPainted
CHECK_DEADLOCK FALSE
