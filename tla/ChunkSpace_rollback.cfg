CONSTANTS
    BitsPerChunk <- MC_BitsPerChunk
    MaxChunks <- MC_MaxChunks
    OpFailSites <- MC_RollbackFailures
SPECIFICATION Spec
INVARIANTS
    
    BitmapMatchesOwners
    
PROPERTY
    AllocSpec
