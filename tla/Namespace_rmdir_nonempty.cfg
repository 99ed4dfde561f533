CONSTANTS
    Names <- MC_Names
    InodeIds <- MC_SmallInodes
    DirentIds <- MC_SmallDirents
    MaxDepth <- MC_Nested
    MaxHeld <- MC_MaxHeld
    MaxNlink <- MC_MaxNlink
    Ops <- MC_RmdirOps
    FailSites <- MC_NoFailures
SPECIFICATION Spec
INVARIANTS NoLeaks
