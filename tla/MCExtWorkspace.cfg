SPECIFICATION Spec
CONSTANTS
    Workspace = {A, B}
    Output = {o}
    Client = {p}
    None = None
    MaxQueue = 8
INVARIANTS
    TypeOK
    RegistryFollowsList
    AgreesAtRest
    RemovalPending
    Numbered
    OutputsShown
    IInv
PROPERTIES
    Converges
