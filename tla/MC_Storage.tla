----------------------------- MODULE MC_Storage -----------------------------
(***************************************************************************)
(* Instances of Storage for TLC: chunks of 2 bytes over the bytes {0, 1},  *)
(* pages of 2 chunks so that a resize from 2 to 3 chunks crosses a page,   *)
(* and callers that use up to 3 chunks.                                    *)
(***************************************************************************)
EXTENDS Storage

MC_ChunkSize == 2
MC_PageSize == 4
MC_Bytes == {0, 1}
MC_MaxChunks == 3
\* Failures whose error paths leave the container as it was.
MC_BenignFailures == {"open", "pread", "pwrite", "mremap", "alloc"}
MC_AllFailures == MC_BenignFailures \cup {"ftruncate", "mmap"}
=============================================================================
