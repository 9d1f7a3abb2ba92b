CONSTANTS
    PerRow = 2
    PadLeft = 1
    PadTop = 1
    PadBottom = 1
    CellW = 2
    CellH = 2
    InnerWidth = 6
    MaxCount = 3
    LeftButton = LeftButton
    RightButton = RightButton
    Buttons = {LeftButton, RightButton}
SPECIFICATION Spec
CHECK_DEADLOCK FALSE
PROPERTY NoSendAfterHold
