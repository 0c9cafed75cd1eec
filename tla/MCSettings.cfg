SPECIFICATION Spec
CONSTANTS
    Keys <- MCKeys
    Options <- MCOptions
    Value = {"a", "b", "c"}
    Chosen = {"c"}
    Empty = "empty"
    Cut = "cut"
    Glued = "glued"
    Attributes <- MCAttributes
    Systemwide <- MCSystemwide
    Personal <- MCPersonal
    MaxLines = 3
    MaxEdits = 3
    MaxCrashes = 2
INVARIANTS
    TypeOK
    KeepsTheUsers
    Migrates
    Recovers
    DocumentedOnce
PROPERTIES
    Settled
