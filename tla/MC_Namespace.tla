---------------------------- MODULE MC_Namespace ----------------------------
(* Model values for the Namespace runs.  Names are two numbers.  The small *)
(* spaces (root plus two inodes, two dirents) bound the runs that use     *)
(* every operation; the large ones (root plus three inodes, three dirents) *)
(* fit a directory with an entry next to a second directory.              *)
EXTENDS Namespace

MC_Names == {1, 2}
MC_ThreeNames == {1, 2, 3}
MC_FourNames == {1, 2, 3, 4}
MC_SmallInodes == 0..2
MC_SmallDirents == 0..1
MC_LargeInodes == 0..3
MC_FiveInodes == 0..4
MC_LargeDirents == 0..2
MC_FourDirents == 0..3
MC_Flat == 1
MC_Nested == 2
MC_MaxHeld == 1
MC_MaxNlink == 6
MC_NoFailures == {}
MC_StorageFull == {"inodeAdd", "direntAdd"}

\* Workloads: the FUSE callbacks (and rename modes) a run issues.
MC_AllOps == {"mkdir", "mknod", "rmdir", "unlink", "link", "open", "openDir",
              "Normal", "Noreplace", "Exchange"}
MC_NoExchange == MC_AllOps \ {"Exchange"}
MC_FileOps == {"mkdir", "mknod", "rmdir", "unlink", "link", "Normal", "Noreplace"}
MC_FlatOps == {"mkdir", "mknod", "rmdir", "unlink", "open", "openDir", "Normal", "Noreplace", "Exchange"}
MC_RmdirOps == {"mkdir", "rmdir"}
MC_ExchangeOps == {"mknod", "Exchange"}
=============================================================================
