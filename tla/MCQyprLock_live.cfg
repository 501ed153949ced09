\* One attempt, with an output that comes and goes at any moment.
SPECIFICATION FairSpec
CONSTANTS
    Outputs = {o1, o2}
    AtStart = {o1}
    KeyKinds = {"text", "enter"}
    MaxKeys = 2
INVARIANT NoSurfaceAfterRelease
PROPERTIES
    SuccessOpens
    AttemptResolves
    LossExits
    HeadsGetCovered
