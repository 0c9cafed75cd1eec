SPECIFICATION Spec
CONSTANTS
    Output = {o1, o2}
    Extents <- MCExtents
    Window = {n, d}
    Dockable = {n}
    NoWindow = NoWindow
    Lefts <- MCLefts
    Widths = {4}
INVARIANTS
    TypeOK
    ZonesMirrored
    DockCycle
PROPERTIES
    MovesOn
