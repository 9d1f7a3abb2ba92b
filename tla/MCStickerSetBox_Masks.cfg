CONSTANTS
    s1 = s1  s2 = s2  s3 = s3
    d1 = d1  d2 = d2  d3 = d3
    b1 = b1  b2 = b2
    CustomSetId = CustomSetId
    Sets <- MasksMCSets
    Stickers <- MasksMCStickers
    Boxes <- MCBoxes
    SetStickers <- MasksMCSetStickers
    MasksSets <- MasksMCMasksSets
    OfficialSets = {}
    MaxInFlight = 2
SYMMETRY BoxSymmetry
SPECIFICATION Spec
CHECK_DEADLOCK FALSE
INVARIANT MasksStayOutOfOrder
