SPECIFICATION Spec
CONSTANTS
    Workspace = {A, B}
    Output = {}
    Client = {p}
    None = None
    MaxQueue = 8
SYMMETRY Symmetry
INVARIANTS
    OneHandleEach
