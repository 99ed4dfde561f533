---------------------------- MODULE MC_Capacity ----------------------------
(* Model values for the Capacity run, in bytes.  A block is 4096 bytes  *)
(* and a dirent 264 (a 256-byte name and an index).  An inode has 84     *)
(* bytes of integers and three Time stamps, whose class is not in this    *)
(* source; it is taken as 132 bytes.  The ceiling leaves room for the     *)
(* root inode, the three first bitmap chunks and six blocks: a block      *)
(* passes the check while at most one block (or an inode and a dirent)   *)
(* is stored.  Five writers and a symlink are six adds that can all pass  *)
(* a check against one size; three writers and a symlink are four, which *)
(* the reserve absorbs.                                                   *)
EXTENDS Capacity

MC_ThreeWriters == {"w1", "w2", "w3"}
MC_FiveWriters == {"w1", "w2", "w3", "w4", "w5"}
MC_NsWorker == {"ns"}
MC_BlockSize == 4096
MC_InodeSize == 132
MC_DirentSize == 264
MC_MaxSize == 132 + 3 * 8 + 6 * 4096
MC_MaxChunks == 12
MC_MaxObjects == 2
=============================================================================
