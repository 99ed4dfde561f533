CONSTANTS
    BitsPerChunk <- MC_BitsPerChunk
    MaxChunks <- MC_MaxChunks
    OpFailSites <- MC_NoFailures
SPECIFICATION Spec
INVARIANTS
    TypeOK
    BitmapMatchesOwners
    
    DataTrimmed
    NoEmergency
PROPERTY
    AllocSpec
