SPECIFICATION Spec
CONSTANTS
    a = a
    b = b
    c = c
    Ids = {a, b, c}
    Paths = {1, 2, 3, 4}
    Versions = {1, 2}
    Manifests <- Upgrades
    NoFile = NoFile
    Corrupt = Corrupt
    Outcomes = {TRUE, FALSE}
    MaxEdits = 0
INVARIANTS
    UnloadCascades
