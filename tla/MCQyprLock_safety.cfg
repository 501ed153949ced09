\* Two full attempts (text, enter, text, enter, or with edits between) on one output.
SPECIFICATION Spec
CONSTANTS
    Outputs = {o1}
    AtStart = {o1}
    KeyKinds = {"text", "back", "clear", "enter"}
    MaxKeys = 4
INVARIANTS
    TypeOK
    ResultsConserved
    StatusHonest
    UnlockNeverEarly
PROPERTY GateHolds
