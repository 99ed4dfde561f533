CONSTANTS
    BitsPerChunk <- MC_BitsPerChunk
    MaxChunks <- MC_MaxChunks
    OpFailSites <- MC_GrowFailure
SPECIFICATION Spec
INVARIANTS
    UniqueOwnership
