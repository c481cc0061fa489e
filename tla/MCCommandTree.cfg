SPECIFICATION Spec
CONSTANTS
    a = a
    b = b
    p = p
    q = q
    Definitions <- Shapes
    Placeholders = {p, q}
    Words = {a, b}
    Help = b
    Dict = Dict
    MaxCalls = 4
    MaxWords = 3
INVARIANTS
    CommandsAreFound
CHECK_DEADLOCK FALSE
