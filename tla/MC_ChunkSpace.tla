---------------------------- MODULE MC_ChunkSpace ----------------------------
(***************************************************************************)
(* Model-checking instance of ChunkSpace: two bits per bitmap chunk, so    *)
(* that six indices span three bitmap chunks and every switch of the       *)
(* resident chunk (grow, read back, shrink on sync) is exercised.          *)
(***************************************************************************)
EXTENDS ChunkSpace

MC_BitsPerChunk == 2
MC_MaxChunks == 6

\* Which storage call sites may fail, one configuration per run.
MC_NoFailures == {}
MC_RollbackFailures == {"mapWrite", "dataWrite", "dataSetSize"}
MC_AllFailures == {"mapWrite", "dataWrite", "dataSetSize", "mapRead"}
MC_GrowFailure == {"mapSetSize"}
=============================================================================
