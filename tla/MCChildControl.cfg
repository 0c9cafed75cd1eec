SPECIFICATION Spec
CONSTANTS
    Component = {}
    LockInfo = {l1, l2}
    Proc = {p1, p2, p3, p4}
    Shell = Shell
    App = App
    None = None
    MaxPresses = 1
SYMMETRY PidSymmetry
CHECK_DEADLOCK FALSE
INVARIANTS
    TypeOK
    OneEach
    StaysRecorded
    IInv
    OneLateAtMost
