----------------------------- MODULE MC_FileTree -----------------------------
(* FileTree with N = 2 indices and 2 words per block: a file of 8 words    *)
(* spans slots 0..3, i.e. trees 0, 1 and 2 (one level of indirection      *)
(* below the tree 2 root).  Block 0 belongs to another file.              *)
EXTENDS FileTree

MC_BlockIds == 0..7
MC_Foreign == {0}
MC_NoFailures == {}
MC_DiskFull == {"blockAdd"}
MC_WriteFails == {"blockWrite"}
MC_Ops == {"create", "open", "close", "write", "read", "truncate", "unlink"}
MC_OpsUnlinkOpen == MC_Ops \cup {"unlinkOpen"}
====
