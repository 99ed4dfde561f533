CONSTANTS
    Names <- MC_FourNames
    InodeIds <- MC_FiveInodes
    DirentIds <- MC_FourDirents
    MaxDepth <- MC_Flat
    MaxHeld <- MC_MaxHeld
    MaxNlink <- MC_MaxNlink
    Ops <- MC_FileOps
    FailSites <- MC_NoFailures
SPECIFICATION Spec
INVARIANTS LinkCountMatchesNames NoLeaks DirentsSorted
