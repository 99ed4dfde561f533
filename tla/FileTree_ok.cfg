CONSTANTS
    N = 2
    BlockSize = 2
    MaxFileSize = 8
    BlockIds <- MC_BlockIds
    Foreign <- MC_Foreign
    Vals = {1}
    PunchHoles = TRUE
    FailSites <- MC_NoFailures
    Ops <- MC_Ops
    Offsets = {0, 3, 6}
    Counts = {1, 3}
SPECIFICATION Spec
INVARIANTS TypeOK NoBlockLeak CacheCoherent NoEmergency
PROPERTY FileRefinement

