CONSTANTS
    PerRow = 2
    PadLeft = 1
    PadTop = 1
    PadBottom = 1
    CellW = 2
    CellH = 3
    InnerWidth = 6
    ViewHeight = 4
    MaxCount = 6
SPECIFICATION Spec
CHECK_DEADLOCK FALSE
INVARIANT TypeOK
PROPERTY ScrollPausesOffscreen
PROPERTY PauseOnlyOffscreen
