SPECIFICATION Spec
CONSTANTS
    Workspace = {A, B}
    Output = {o}
    Client = {p}
    None = None
    MaxQueue = 8
SYMMETRY Symmetry
INVARIANTS
    EveryOutputEntered
