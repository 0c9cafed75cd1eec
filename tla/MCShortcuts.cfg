SPECIFICATION Spec
CONSTANTS
    Modifier = {"ctrl", "alt", "shift"}
    Key <- MCKey
    SwitchKey <- MCSwitchKey
    Program <- MCProgram
    Setting <- MCSetting
    Tab = Tab
    BackSpace = BackSpace
    terminal = terminal
    Escape = Escape
    Delete = Delete
    Window = {w1, w2}
    None = None
SYMMETRY WindowSymmetry
CHECK_DEADLOCK FALSE
INVARIANTS
    TypeOK
    Counted
    ReloadIsRestart
    NotLeftOpen
PROPERTIES
    ExitKeepsWork
