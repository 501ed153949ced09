\* Two monitors; two keys that repeat and one that does not; rates off, usual and above 1000.
SPECIFICATION Spec
CONSTANTS
    Outputs = {o1, o2}
    Keys = {a, back, shift}
    TextKeys = {a}
    SpecialKeys = {back}
    Repeating = {a, back}
    Rates = {0, 25, 2000}
    Delays = {0, 600}
    Nothing = Nothing
INVARIANTS
    TypeOK
    RepeatsTheHeldKey
    PointerOverItsOutput
