CONSTANTS
    Names <- MC_ThreeNames
    InodeIds <- MC_LargeInodes
    DirentIds <- MC_LargeDirents
    MaxDepth <- MC_Flat
    MaxHeld <- MC_MaxHeld
    MaxNlink <- MC_MaxNlink
    Ops <- MC_FlatOps
    FailSites <- MC_NoFailures
SPECIFICATION Spec
INVARIANTS NoLeaks LinkCountMatchesNames
