CONSTANTS
    Names <- MC_Names
    InodeIds <- MC_SmallInodes
    DirentIds <- MC_SmallDirents
    MaxDepth <- MC_Nested
    MaxHeld <- MC_MaxHeld
    MaxNlink <- MC_MaxNlink
    Ops <- MC_NoExchange
    FailSites <- MC_StorageFull
SPECIFICATION Spec
INVARIANTS TypeOK NoDanglingNames DirentsSorted
