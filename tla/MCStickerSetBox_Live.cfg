CONSTANTS
    s1 = s1  s2 = s2  s3 = s3
    d1 = d1  d2 = d2  d3 = d3
    b1 = b1  b2 = b2
    CustomSetId = CustomSetId
    Sets <- LiveMCSets
    Stickers <- LiveMCStickers
    Boxes <- MCBoxes
    SetStickers <- LiveMCSetStickers
    MasksSets = {}
    OfficialSets = {}
    MaxInFlight = 2
SPECIFICATION Spec
CHECK_DEADLOCK FALSE
PROPERTY AddEventuallyDismisses
PROPERTY ProtocolRefined
