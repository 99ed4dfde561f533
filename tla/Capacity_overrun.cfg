CONSTANTS
    Writers <- MC_FiveWriters
    NsWorkers <- MC_NsWorker
    BlockSize <- MC_BlockSize
    InodeSize <- MC_InodeSize
    DirentSize <- MC_DirentSize
    MaxSize <- MC_MaxSize
    MaxChunks <- MC_MaxChunks
    MaxObjects <- MC_MaxObjects
SPECIFICATION Spec
INVARIANT
    StorageWithinMaxSize
