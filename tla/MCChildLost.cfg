SPECIFICATION Spec
CONSTANTS
    Component = {c1}
    LockInfo = {l1}
    Proc = {p1, p2, p3}
    Shell = Shell
    App = App
    None = None
    MaxPresses = 0
CHECK_DEADLOCK FALSE
PROPERTIES
    CallsOnReap
