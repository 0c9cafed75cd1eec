SPECIFICATION Spec
CONSTANTS
    Workspace = {A, B, C}
    Window = {w1, w2}
    NoWorkspace = NoWorkspace
    NoWindow = NoWindow
    WState = {"hidden", "restored", "maximized"}
    Asked = {"restored"}
    Opened = {"application", "shell"}
    StaleActivation = FALSE
SYMMETRY Symmetry
PROPERTIES
    ShellFocusGoesToRightOne
