SPECIFICATION Spec
CONSTANTS
    Outputs = {o1}
    AtStart = {o1}
    KeyKinds = {"text", "enter"}
    MaxKeys = 2
INVARIANT ProtocolNeverMisused
