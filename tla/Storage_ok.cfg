CONSTANTS
    ChunkSize <- MC_ChunkSize
    PageSize <- MC_PageSize
    Bytes <- MC_Bytes
    MaxChunks <- MC_MaxChunks
    FailSites <- MC_BenignFailures
    ShortIO = FALSE
SPECIFICATION Spec
INVARIANT TypeOK
PROPERTY ContainerSpec
