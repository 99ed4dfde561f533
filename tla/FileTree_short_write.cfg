CONSTANTS
    N = 2
    BlockSize = 2
    MaxFileSize = 8
    BlockIds <- MC_BlockIds
    Foreign <- MC_Foreign
    Vals = {1}
    PunchHoles = TRUE
    FailSites <- MC_DiskFull
    Ops <- MC_Ops
    Offsets = {0, 3, 6}
    Counts = {1, 3}
SPECIFICATION Spec
PROPERTY FileRefinement

