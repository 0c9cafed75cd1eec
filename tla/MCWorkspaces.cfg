SPECIFICATION Spec
CONSTANTS
    Workspace = {A, B, C}
    Window = {w1, w2}
    NoWorkspace = NoWorkspace
    NoWindow = NoWindow
    WState = {"hidden", "restored", "maximized"}
    Asked = {"hidden", "restored"}
    Opened = {"application", "always_on_top", "shell"}
    StaleActivation = FALSE
SYMMETRY Symmetry
VIEW View
INVARIANTS
    TypeOK
    ActiveIsListed
    HiddenIffElsewhere
    HiddenStaysHidden
    OneHome
    TreeTogether
    IInv
PROPERTIES
    SwitchKeepsState
    SwitchKeepsHome
    ImplementsList
