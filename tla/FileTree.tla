------------------------------ MODULE FileTree ------------------------------
(***************************************************************************)
(* One regular file of 6fs: its Handle (the inode's five slot trees, the   *)
(* slot count, the four cached indirection blocks) over the block space    *)
(* of Base, with the operations that FUSE sends for an open file:          *)
(* Handle::open (O_TRUNC), read, write, truncate, and the removal of the   *)
(* file through Handle::remove/removeNow when its last name and its last   *)
(* handle are gone.                                                        *)
(*                                                                         *)
(* A block is a function from Cells to integers.  A data block holds data  *)
(* words (0 is a zero word); an indirection block holds N block indices   *)
(* (-1 is InvalidIndex).  As in the code, the same stored block can be     *)
(* read either way, so a punched hole reads as zero data or as index 0.    *)
(* The Handle methods are operators on a record h of the handle and block  *)
(* state; each returns [h, r, v]: the new state, a return code and a value. *)
(***************************************************************************)
EXTENDS Integers, FiniteSets, FiniteSetsExt, Sequences

CONSTANTS
    N,              \* indirection indices per block (512 in the code)
    BlockSize,      \* data words per block (sizeof(Block))
    MaxFileSize,    \* bound on the file size the model explores, in words
    BlockIds,       \* the block index space
    Foreign,        \* blocks allocated to other files, never this file's
    Vals,           \* data words a write may store
    PunchHoles,     \* the punch-holes mount option
    FailSites,      \* Base calls that may fail: "blockAdd", "blockWrite"
    Ops,            \* the operations the workload sends
    Offsets,        \* the offsets and lengths of write, read and truncate
    Counts          \* the word counts of write and read

Invalid == -1
Cells == 0..((IF N > BlockSize THEN N ELSE BlockSize) - 1)
Trees == 0..4
Levels == 0..3
\* Handle::maxSlotCount == 1 + N + N^2 + N^3 + N^4
MaxSlotCount == 1 + N + N^2 + N^3 + N^4
ZeroBlock == [c \in Cells |-> 0]
InvalidBlock == [c \in Cells |-> Invalid]          \* initializeIndices

\* ceil(size / sizeof(Block)): the static slotCount(inode) of a file.
SlotCountOf(size) == size \div BlockSize + (IF size % BlockSize # 0 THEN 1 ELSE 0)

Result(h, r) == [h |-> h, r |-> r, v |-> Invalid]
Value(h, r, v) == [h |-> h, r |-> r, v |-> v]

\* emergency(): the first latched type wins.
Latch(h, t) == [h EXCEPT !.em = IF @ = "None" THEN t ELSE @]

(***************************************************************************)
(* Base block space: ChunkManager over the block containers.  The number  *)
(* of chunks in storage is one more than the largest allocated index,     *)
(* since remove() trims every trailing free chunk.                        *)
(***************************************************************************)
ChunksInStorage(al) == IF al = {} THEN 0 ELSE Max(al) + 1

\* Base::blockAdd: refused once an emergency is latched (checkWriteAction);
\* Map::firstZero hands out the smallest free index.
BlockAdd(h, blk, f) ==
    IF h.em # "None" THEN Value(h, "EROFS", Invalid)
    ELSE IF f = "blockAdd" \/ BlockIds \subseteq h.al THEN Value(h, "ENOSPC", Invalid)
    ELSE LET i == Min(BlockIds \ h.al)
         IN  Value([h EXCEPT !.al = @ \cup {i}, !.st[i] = blk], "ok", i)

\* Base::blockRemove: refused after an emergency; an index beyond the chunks in storage is a bug; a
\* free index below it is cleared again silently; a chunk in the middle
\* becomes a hole (reading as zeros) when holes are punched.  The trailing
\* free chunks are cut off the storage, and grow back as zeros.
BlockRemove(h, i) ==
    IF h.em # "None" THEN Result(h, "EROFS")
    ELSE IF i < 0 \/ i >= ChunksInStorage(h.al) THEN Result(Latch(h, "Bug"), "ENOTRECOVERABLE")
    ELSE LET al == h.al \ {i}
         IN  Result([h EXCEPT !.al = al,
                              !.st = [b \in BlockIds |->
                                        IF b >= ChunksInStorage(al) THEN ZeroBlock
                                        ELSE IF b = i /\ PunchHoles THEN ZeroBlock
                                        ELSE @[b]]], "ok")

\* Base::blockRead: the stored chunk, whether allocated or not.
BlockRead(h, i) ==
    IF i < 0 \/ i >= ChunksInStorage(h.al) THEN Value(Latch(h, "Bug"), "ENOTRECOVERABLE", ZeroBlock)
    ELSE Value(h, "ok", h.st[i])

\* Base::blockWrite.
BlockWrite(h, i, blk, f) ==
    IF i < 0 \/ i >= ChunksInStorage(h.al) THEN Result(Latch(h, "Bug"), "ENOTRECOVERABLE")
    ELSE IF f = "blockWrite" THEN Result(h, "EIO")
    ELSE Result([h EXCEPT !.st[i] = blk], "ok")

(***************************************************************************)
(* Handle::slotToTreeIndices: slot 0 is tree 0; then N slots of tree 1,   *)
(* N^2 of tree 2, ...; tree 4 takes the rest.  ijkl are the base-N digits *)
(* of the offset in the tree, most significant first.                     *)
(***************************************************************************)
RECURSIVE TreeFrom(_, _)
TreeFrom(slot, t) ==
    IF t = 4 \/ slot < N^t THEN [tree |-> t, off |-> slot]
    ELSE TreeFrom(slot - N^t, t + 1)

SlotToTreeIndices(slot) ==
    LET p == TreeFrom(slot, 0)
    IN  [tree |-> p.tree,
         ijkl |-> [l \in Levels |-> IF l < p.tree
                                     THEN (p.off \div N^(p.tree - 1 - l)) % N
                                     ELSE Invalid]]

\* Handle::cacheBlock: read the block into the cache slot of its level
\* unless it is already there; a failed read empties that slot.
CacheBlock(h, l, b) ==
    LET Cached(rd) == Result([rd.h EXCEPT !.ci[l] = IF rd.r = "ok" THEN b ELSE Invalid,
                                          !.cb[l] = rd.v], rd.r)
    IN  IF h.ci[l] = b THEN Result(h, "ok") ELSE Cached(BlockRead(h, b))

(***************************************************************************)
(* Handle::getSlot: walk down tree t through the cache; a missing block on *)
(* the way means the slot holds InvalidIndex.                             *)
(***************************************************************************)
RECURSIVE GetWalk(_, _, _, _, _)
GetWalk(h, t, ijkl, l, b) ==
    LET Down(c) == IF c.r # "ok" THEN Value(c.h, c.r, Invalid)
                   ELSE IF l = t - 1 THEN Value(c.h, "ok", c.h.cb[l][ijkl[l]])
                   ELSE GetWalk(c.h, t, ijkl, l + 1, c.h.cb[l][ijkl[l]])
    IN  IF b = Invalid THEN Value(h, "ok", Invalid) ELSE Down(CacheBlock(h, l, b))

GetSlot(h, slot) ==
    LET p == SlotToTreeIndices(slot)
    IN  IF slot >= h.sc THEN Value(Latch(h, "Bug"), "ENOTRECOVERABLE", Invalid)
        ELSE IF p.tree = 0 THEN Value(h, "ok", h.tr[0])
        ELSE GetWalk(h, p.tree, p.ijkl, 0, h.tr[p.tree])

(***************************************************************************)
(* Handle::setSlot.  On the way down a missing indirection block is added  *)
(* (initialized to InvalidIndex) and stitched into its parent, which is    *)
(* written, or into the inode's tree root.  At the leaf the entry is set;  *)
(* a leaf left with only InvalidIndex entries is freed, and the freeing    *)
(* cascades up while the parents become empty too.                         *)
(***************************************************************************)
AllInvalid(blk) == \A j \in 0..(N - 1) : blk[j] = Invalid

RECURSIVE Cascade(_, _, _, _, _)
\* Mutant: the freed block stays in the cache.
Cascade_keepCache(h, t, ijkl, ll, f) ==
    LET Up(up) == IF AllInvalid(up.cb[ll - 1]) THEN Cascade(up, t, ijkl, ll - 1, f)
                  ELSE BlockWrite(up, up.ci[ll - 1], up.cb[ll - 1], f)
        Freed(g) == IF ll = 0 THEN Result([g EXCEPT !.tr[t] = Invalid], "ok")
                    ELSE Up([g EXCEPT !.cb[ll - 1][ijkl[ll - 1]] = Invalid])
        Removed(rm) == IF rm.r # "ok" THEN rm ELSE Freed(rm.h)
    IN  Removed(BlockRemove(h, h.ci[ll]))

Cascade(h, t, ijkl, ll, f) ==
    LET Up(up) == IF AllInvalid(up.cb[ll - 1]) THEN Cascade(up, t, ijkl, ll - 1, f)
                  ELSE BlockWrite(up, up.ci[ll - 1], up.cb[ll - 1], f)
        Freed(g) == IF ll = 0 THEN Result([g EXCEPT !.tr[t] = Invalid], "ok")
                    ELSE Up([g EXCEPT !.cb[ll - 1][ijkl[ll - 1]] = Invalid])
        Removed(rm) == IF rm.r # "ok" THEN rm ELSE Freed([rm.h EXCEPT !.ci[ll] = Invalid])
    IN  Removed(BlockRemove(h, h.ci[ll]))

\* The leaf level: set entry ijkl[l] of the cached block to idx.
SetLeaf(h, t, ijkl, l, idx, f) ==
    LET k == ijkl[l]
        Stored(wr) == IF wr.r # "ok" THEN Result([wr.h EXCEPT !.cb[l][k] = h.cb[l][k]], wr.r)
                      ELSE wr
        Set(g) == IF idx = Invalid /\ AllInvalid(g.cb[l]) THEN Cascade(g, t, ijkl, l, f)
                  ELSE Stored(BlockWrite(g, g.ci[l], g.cb[l], f))
    IN  Set([h EXCEPT !.cb[l][k] = idx])

\* A block that was just added at level l is stitched into its parent.
Stitch(a, t, ijkl, l, f) ==
    IF l = 0 THEN Result([a.h EXCEPT !.ci[0] = a.v, !.tr[t] = a.v], "ok")
    ELSE LET g == [a.h EXCEPT !.ci[l] = a.v, !.cb[l - 1][ijkl[l - 1]] = a.v]
         IN  BlockWrite(g, g.ci[l - 1], g.cb[l - 1], f)

RECURSIVE SetWalk(_, _, _, _, _, _, _)
SetWalk(h, t, ijkl, l, b, idx, f) ==
    LET Down(c) == IF c.r # "ok" THEN c
                   ELSE IF l = t - 1 THEN SetLeaf(c.h, t, ijkl, l, idx, f)
                   ELSE SetWalk(c.h, t, ijkl, l + 1, c.h.cb[l][ijkl[l]], idx, f)
        Stitched(a, st) == IF st.r # "ok" THEN st ELSE Down(CacheBlock(st.h, l, a.v))
        Added(a) == IF a.r # "ok" THEN Result([a.h EXCEPT !.ci[l] = Invalid], a.r)
                    ELSE Stitched(a, Stitch(a, t, ijkl, l, f))
    IN  IF b = Invalid
        THEN Added(BlockAdd([h EXCEPT !.cb[l] = InvalidBlock], InvalidBlock, f))
        ELSE Down(CacheBlock(h, l, b))

SetSlot(h, slot, idx, f) ==
    LET p == SlotToTreeIndices(slot)
    IN  IF slot >= h.sc THEN Result(Latch(h, "Bug"), "ENOTRECOVERABLE")
        ELSE IF p.tree = 0 THEN Result([h EXCEPT !.tr[0] = idx], "ok")
        ELSE SetWalk(h, p.tree, p.ijkl, 0, h.tr[p.tree], idx, f)
(***************************************************************************)
(* Handle::insertSlot and Handle::removeSlot: shift the slots after the   *)
(* position by one with getSlot/setSlot, then set the slot (insert) or    *)
(* clear the last slot and free the removed block (remove).               *)
(***************************************************************************)
RECURSIVE ShiftUp(_, _, _, _)
ShiftUp(h, i, slot, f) ==
    LET Moved(st) == IF st.r # "ok" THEN st ELSE ShiftUp(st.h, i - 1, slot, f)
        Got(gt) == IF gt.r # "ok" THEN Result(gt.h, gt.r) ELSE Moved(SetSlot(gt.h, i, gt.v, f))
    IN  IF i <= slot THEN Result(h, "ok") ELSE Got(GetSlot(h, i - 1))

InsertSlot(h, slot, idx, f) ==
    LET Shifted(sh) == IF sh.r # "ok" THEN sh ELSE SetSlot(sh.h, slot, idx, f)
    IN  IF slot >= h.sc + 1 THEN Result(Latch(h, "Bug"), "ENOTRECOVERABLE")
        ELSE IF h.sc = MaxSlotCount THEN Result(h, "ENOSPC")
        ELSE Shifted(ShiftUp([h EXCEPT !.sc = @ + 1], h.sc, slot, f))

RECURSIVE ShiftDown(_, _, _)
ShiftDown(h, i, f) ==
    LET Moved(st) == IF st.r # "ok" THEN st ELSE ShiftDown(st.h, i + 1, f)
        Got(gt) == IF gt.r # "ok" THEN Result(gt.h, gt.r) ELSE Moved(SetSlot(gt.h, i, gt.v, f))
    IN  IF i >= h.sc - 1 THEN Result(h, "ok") ELSE Got(GetSlot(h, i + 1))

\* Mutant: the removed slot's block is never freed.
FreeRemoved_noRemove(h, index) == Result([h EXCEPT !.sc = @ - 1], "ok")

\* The block that was in the slot is freed once the slot is gone.
FreeRemoved(h, index) ==
    LET Counted(rm) == IF rm.r # "ok" THEN rm ELSE Result([rm.h EXCEPT !.sc = @ - 1], "ok")
    IN  Counted(IF index # Invalid THEN BlockRemove(h, index) ELSE Result(h, "ok"))

RemoveSlot(h, slot, f) ==
    LET Cleared(index, cl) == IF cl.r # "ok" THEN cl ELSE FreeRemoved(cl.h, index)
        Shifted(index, sh) == IF sh.r # "ok" THEN sh
                              ELSE Cleared(index, SetSlot(sh.h, sh.h.sc - 1, Invalid, f))
        Got(gt) == IF gt.r # "ok" THEN Result(gt.h, gt.r)
                   ELSE Shifted(gt.v, ShiftDown(gt.h, slot, f))
    IN  IF slot >= h.sc THEN Result(Latch(h, "Bug"), "ENOTRECOVERABLE")
        ELSE Got(GetSlot(h, slot))

(***************************************************************************)
(* Handle::truncateNow: remove the last slots (freeing their blocks) or   *)
(* append InvalidIndex slots until the slot count fits the new length;    *)
(* when growing, zero the rest of the old last block after the old size.  *)
(***************************************************************************)
RECURSIVE Shrink(_, _, _)
Shrink(h, n, f) ==
    LET Removed(rm) == IF rm.r # "ok" THEN rm ELSE Shrink(rm.h, n, f)
    IN  IF n >= h.sc THEN Result(h, "ok") ELSE Removed(RemoveSlot(h, h.sc - 1, f))

RECURSIVE Grow(_, _, _)
Grow(h, n, f) ==
    LET Inserted(ins) == IF ins.r # "ok" THEN ins ELSE Grow(ins.h, n, f)
    IN  IF n <= h.sc THEN Result(h, "ok") ELSE Inserted(InsertSlot(h, h.sc, Invalid, f))

\* Mutant: the old last block keeps its words past the old size.
ZeroTail_skip(h, origCount, f) == Result(h, "ok")

ZeroTail(h, origCount, f) ==
    LET valid == h.sz % BlockSize
        Zeroed(idx, rd) ==
            IF rd.r # "ok" THEN Result(rd.h, rd.r)
            ELSE BlockWrite(rd.h, idx, [c \in Cells |-> IF c >= valid THEN 0 ELSE rd.v[c]], f)
        Got(gt) == IF gt.r # "ok" \/ gt.v = Invalid THEN Result(gt.h, gt.r)
                   ELSE Zeroed(gt.v, BlockRead(gt.h, gt.v))
    IN  Got(GetSlot(h, origCount - 1))

TruncateNow(h, len, f) ==
    LET n == SlotCountOf(len)
        Zeroed(zt) == IF zt.r # "ok" THEN zt ELSE Result([zt.h EXCEPT !.sz = len], "ok")
        Grown(gr) == IF gr.r # "ok" THEN gr
                     ELSE Zeroed(IF len > h.sz /\ h.sz % BlockSize # 0
                                 THEN ZeroTail(gr.h, h.sc, f) ELSE Result(gr.h, "ok"))
        Shrunk(sh) == IF sh.r # "ok" THEN sh ELSE Grown(Grow(sh.h, n, f))
    IN  IF len = h.sz THEN Result(h, "ok") ELSE Shrunk(Shrink(h, n, f))
(***************************************************************************)
(* Handle::write (without O_APPEND: Handle::open never sets _append).     *)
(* Writing past the end first grows the file with truncateNow.  Each      *)
(* block touched is added (a new slot, or an InvalidIndex slot filled) or *)
(* read, modified and written.  At the end the inode is written if it     *)
(* changed, and that result replaces r.                                   *)
(***************************************************************************)
Put(blk, bo, len, v) == [c \in Cells |-> IF c >= bo /\ c < bo + len THEN v ELSE blk[c]]

\* A new block for an InvalidIndex slot: zeroed unless the write covers it.
AddBlock(h, bs, bo, len, v, f) ==
    LET Added(a) == IF a.r # "ok" THEN Result(a.h, a.r)
                    ELSE IF bs = h.sc THEN InsertSlot(a.h, bs, a.v, f)
                    ELSE SetSlot(a.h, bs, a.v, f)
    IN  Added(BlockAdd(h, Put(ZeroBlock, bo, len, v), f))

UpdateBlock(h, idx, bo, len, v, f) ==
    LET Updated(rd) == IF rd.r # "ok" THEN Result(rd.h, rd.r)
                       ELSE BlockWrite(rd.h, idx, Put(rd.v, bo, len, v), f)
    IN  Updated(BlockRead(h, idx))

RECURSIVE WriteLoop(_, _, _, _, _)
WriteLoop(h, off, cnt, v, f) ==
    LET bs  == off \div BlockSize
        bo  == off % BlockSize
        len == IF cnt < BlockSize - bo THEN cnt ELSE BlockSize - bo
        Wrote(wr) == IF wr.r # "ok" THEN wr
                     ELSE WriteLoop([wr.h EXCEPT !.sz = IF off + len > @ THEN off + len ELSE @],
                                    off + len, cnt - len, v, f)
        Got(gt) == IF gt.r # "ok" THEN Result(gt.h, gt.r)
                   ELSE IF gt.v = Invalid THEN Wrote(AddBlock(gt.h, bs, bo, len, v, f))
                   ELSE Wrote(UpdateBlock(gt.h, gt.v, bo, len, v, f))
    IN  IF cnt = 0 THEN Result(h, "ok")
        ELSE IF bs >= MaxSlotCount THEN Result(h, "ENOSPC")
        ELSE IF bs > h.sc THEN Result(Latch(h, "Bug"), "ENOTRECOVERABLE")
        ELSE Got(IF bs < h.sc THEN GetSlot(h, bs) ELSE Value(h, "ok", Invalid))

\* The inode (size and tree roots) is written when it changed; the write
\* then returns its count, whatever r the loop ended with.
WriteEnd(h, lp) ==
    LET changed == lp.h.sz # h.sz \/ lp.h.tr # h.tr
    IN  Result(lp.h, IF changed THEN "ok" ELSE lp.r)

Write(h, off, cnt, v, f) ==
    LET Looped(tn) == WriteEnd(h, IF tn.r # "ok" THEN tn ELSE WriteLoop(tn.h, off, cnt, v, f))
    IN  Looped(IF off > h.sz THEN TruncateNow(h, off, f) ELSE Result(h, "ok"))

(***************************************************************************)
(* Handle::read: clip the count at the size, then copy block by block; an *)
(* InvalidIndex slot reads as zeros.  The value is the words read.        *)
(***************************************************************************)
RECURSIVE ReadLoop(_, _, _, _)
ReadLoop(h, off, cnt, acc) ==
    LET bo  == off % BlockSize
        len == IF cnt < BlockSize - bo THEN cnt ELSE BlockSize - bo
        Copied(rd) == IF rd.r # "ok" THEN Value(rd.h, rd.r, acc)
                      ELSE ReadLoop(rd.h, off + len, cnt - len,
                                    acc \o [k \in 1..len |-> rd.v[bo + k - 1]])
        Got(gt) == IF gt.r # "ok" THEN Value(gt.h, gt.r, acc)
                   ELSE Copied(IF gt.v = Invalid THEN Value(gt.h, "ok", ZeroBlock)
                               ELSE BlockRead(gt.h, gt.v))
    IN  IF cnt = 0 THEN Value(h, "ok", acc) ELSE Got(GetSlot(h, off \div BlockSize))

\* Mutant: the count is not clipped at the file size.
Read_noClip(h, off, cnt) == ReadLoop(h, off, cnt, <<>>)

Read(h, off, cnt) ==
    ReadLoop(h, off, IF off >= h.sz THEN 0
                     ELSE IF off + cnt > h.sz THEN h.sz - off ELSE cnt, <<>>)

(***************************************************************************)
(* Handle::removeNow for a regular file whose last link goes: the inode is *)
(* freed, then every slot's block, and at each slot every cached           *)
(* indirection block whose index differs from the last one freed at that  *)
(* level.                                                                 *)
(***************************************************************************)
RECURSIVE DropCached(_, _, _)
DropCached(h, l, last) ==
    LET Dropped(rm) == IF rm.r # "ok" THEN Value(rm.h, rm.r, last)
                       ELSE DropCached(rm.h, l + 1, [last EXCEPT ![l] = h.ci[l]])
    IN  IF l > 3 THEN Value(h, "ok", last)
        ELSE IF h.ci[l] = last[l] THEN DropCached(h, l + 1, last)
        ELSE Dropped(IF h.ci[l] # Invalid THEN BlockRemove(h, h.ci[l]) ELSE Result(h, "ok"))

RECURSIVE RemoveWalk(_, _, _)
RemoveWalk(h, slot, last) ==
    LET Dropped(dc) == IF dc.r # "ok" THEN Result(dc.h, dc.r)
                       ELSE RemoveWalk(dc.h, slot + 1, dc.v)
        Removed(rm) == IF rm.r # "ok" THEN rm ELSE Dropped(DropCached(rm.h, 0, last))
        Got(gt) == IF gt.r # "ok" THEN Result(gt.h, gt.r)
                   ELSE Removed(IF gt.v # Invalid THEN BlockRemove(gt.h, gt.v)
                                ELSE Result(gt.h, "ok"))
    IN  IF slot >= h.sc THEN Result(h, "ok") ELSE Got(GetSlot(h, slot))

RemoveNow(h) == RemoveWalk(h, 0, [l \in Levels |-> Invalid])

(***************************************************************************)
(* The file system state around one regular file.  store and alloc are the *)
(* block container; inode is the inode as stored; hd is the in-memory      *)
(* Handle while the file is open (Base::_handleMap holds it while its      *)
(* refCount is positive, so a closed file has no handle and the next       *)
(* handleGet builds one from the stored inode, with an empty cache).       *)
(***************************************************************************)
VARIABLES
    exists,     \* the inode is allocated
    named,      \* its directory entry exists
    opened,     \* a FUSE file handle holds it
    pending,    \* Handle::_removeOnceUnused
    store, alloc, emergency, inode, hd,
    ret         \* [op, r, data]: what the last call returned

vars == <<exists, named, opened, pending, store, alloc, emergency, inode, hd, ret>>

EmptyInode == [tr |-> [t \in Trees |-> Invalid], sz |-> 0]    \* Inode::node
\* The Handle constructor: slot count from the size, no cached block.
\* Mutant: the slot count taken as for a directory (the size itself).
HandleOf_dirCount(ind) == [tr |-> ind.tr, sz |-> ind.sz, sc |-> ind.sz,
                  ci |-> [l \in Levels |-> Invalid], cb |-> [l \in Levels |-> ZeroBlock]]
HandleOf(ind) == [tr |-> ind.tr, sz |-> ind.sz, sc |-> SlotCountOf(ind.sz),
                  ci |-> [l \in Levels |-> Invalid], cb |-> [l \in Levels |-> ZeroBlock]]
NoHandle == HandleOf(EmptyInode)

\* The record the Handle operators work on.
H(hnd) == [st |-> store, al |-> alloc, em |-> emergency,
           tr |-> hnd.tr, sz |-> hnd.sz, sc |-> hnd.sc, ci |-> hnd.ci, cb |-> hnd.cb]
Mem(h) == [tr |-> h.tr, sz |-> h.sz, sc |-> h.sc, ci |-> h.ci, cb |-> h.cb]
Disk(h) == [tr |-> h.tr, sz |-> h.sz]

\* Store the block and emergency state of a result, and what FUSE gets back.
Commit(res, op, data) ==
    /\ store' = res.h.st /\ alloc' = res.h.al /\ emergency' = res.h.em
    /\ ret' = [op |-> op, r |-> res.r, data |-> data]

Init ==
    /\ exists = FALSE /\ named = FALSE /\ opened = FALSE /\ pending = FALSE
    /\ store = [b \in BlockIds |-> IF b \in Foreign THEN InvalidBlock ELSE ZeroBlock]
    /\ alloc = Foreign
    /\ emergency = "None"
    /\ inode = EmptyInode /\ hd = NoHandle
    /\ ret = [op |-> "none", r |-> "ok", data |-> <<>>]

\* SixFS::mknod: the inode is added (refused after an emergency) and named.
Create ==
    /\ "create" \in Ops /\ ~exists
    /\ IF emergency # "None"
       THEN /\ ret' = [op |-> "create", r |-> "EROFS", data |-> <<>>]
            /\ UNCHANGED <<exists, named, inode>>
       ELSE /\ exists' = TRUE /\ named' = TRUE /\ inode' = EmptyInode
            /\ ret' = [op |-> "create", r |-> "ok", data |-> <<>>]
    /\ UNCHANGED <<opened, pending, store, alloc, emergency, hd>>

\* SixFS::open -> Handle::open(rw, trunc): truncate to 0 if asked, then the
\* inode is written; on failure the handle is released again.
Open(trunc, f) ==
    LET h == H(HandleOf(inode))
        Opened(tn) == /\ Commit(tn, IF trunc THEN "openTrunc" ELSE "open", <<>>)
                      /\ opened' = (tn.r = "ok")
                      /\ hd' = IF tn.r = "ok" THEN Mem(tn.h) ELSE NoHandle
                      /\ inode' = IF tn.r = "ok" THEN Disk(tn.h) ELSE inode
    IN  /\ "open" \in Ops /\ exists /\ named /\ ~opened
        /\ Opened(IF trunc /\ h.sz # 0 THEN TruncateNow(h, 0, f) ELSE Result(h, "ok"))
        /\ UNCHANGED <<exists, named, pending>>

\* Handle::removeNow once the last link and the last reference are gone:
\* the inode goes first (refused after an emergency), then the blocks.
RemoveFile(h, op) ==
    LET rn == RemoveNow(h)
    IN  IF h.em # "None"
        THEN /\ ret' = [op |-> op, r |-> "EROFS", data |-> <<>>]
             /\ UNCHANGED <<exists, store, alloc, emergency, inode>>
        ELSE /\ Commit(rn, op, <<>>) /\ exists' = FALSE /\ inode' = EmptyInode

\* SixFS::close -> Base::handleRelease: the handle dies; a pending removal
\* runs on it, with the indirection blocks it still has cached.
Close ==
    /\ "close" \in Ops /\ opened
    /\ opened' = FALSE /\ pending' = FALSE /\ hd' = NoHandle
    /\ IF pending THEN RemoveFile(H(hd), "close")
       ELSE /\ ret' = [op |-> "close", r |-> "ok", data |-> <<>>]
            /\ UNCHANGED <<exists, store, alloc, emergency, inode>>
    /\ UNCHANGED named

\* SixFS::unlink -> rmdirent: the directory entry goes (refused after an
\* emergency), then Handle::remove runs under the reference rmdirent holds,
\* so the removal is deferred to handleRelease, which runs it at once
\* unless a FUSE handle still holds the file.
Unlink ==
    /\ named
    /\ \/ "unlink" \in Ops /\ ~opened
       \/ "unlinkOpen" \in Ops /\ opened
    /\ IF emergency # "None"
       THEN /\ ret' = [op |-> "unlink", r |-> "EROFS", data |-> <<>>]
            /\ UNCHANGED <<exists, named, pending, store, alloc, emergency, inode>>
       ELSE /\ named' = FALSE
            /\ IF opened
               THEN /\ pending' = TRUE
                    /\ ret' = [op |-> "unlink", r |-> "ok", data |-> <<>>]
                    /\ UNCHANGED <<exists, store, alloc, emergency, inode>>
               ELSE /\ RemoveFile(H(HandleOf(inode)), "unlink") /\ UNCHANGED pending
    /\ UNCHANGED <<opened, hd>>

\* SixFS::write -> Handle::write; the inode is written when it changed.
WriteOp(off, cnt, v, f) ==
    LET Wrote(wr) == /\ Commit(wr, "write", <<>>) /\ hd' = Mem(wr.h)
                     /\ inode' = IF Disk(wr.h) # Disk(H(hd)) THEN Disk(wr.h) ELSE inode
    IN  /\ "write" \in Ops /\ opened
        /\ Wrote(Write(H(hd), off, cnt, v, f))
        /\ UNCHANGED <<exists, named, opened, pending>>

\* SixFS::truncate with a handle -> Handle::truncate.
TruncateOp(len, f) ==
    LET Truncated(tn) == /\ Commit(tn, "truncate", <<>>) /\ hd' = Mem(tn.h)
                         /\ inode' = IF tn.r = "ok" THEN Disk(tn.h) ELSE inode
    IN  /\ "truncate" \in Ops /\ opened
        /\ Truncated(TruncateNow(H(hd), len, f))
        /\ UNCHANGED <<exists, named, opened, pending>>

\* SixFS::read -> Handle::read.
ReadOp(off, cnt) ==
    LET Copied(rd) == /\ Commit(rd, "read", IF rd.r = "ok" THEN rd.v ELSE <<>>)
                      /\ hd' = Mem(rd.h)
    IN  /\ "read" \in Ops /\ opened
        /\ Copied(Read(H(hd), off, cnt))
        /\ UNCHANGED <<exists, named, opened, pending, inode>>

Sites == FailSites \cup {"none"}

Next ==
    \/ Create \/ Close \/ Unlink
    \/ \E trunc \in BOOLEAN, f \in Sites : Open(trunc, f)
    \/ \E off \in Offsets, cnt \in Counts, v \in Vals, f \in Sites :
          off + cnt <= MaxFileSize /\ WriteOp(off, cnt, v, f)
    \/ \E len \in Offsets, f \in Sites : TruncateOp(len, f)
    \/ \E off \in Offsets, cnt \in Counts : ReadOp(off, cnt)

Spec == Init /\ [][Next]_vars

(***************************************************************************)
(* The file's data as the file system shows it: through the open handle's *)
(* inode, or the stored inode when the file is closed.  The walk follows   *)
(* the stored indirection blocks; an InvalidIndex reads as zeros.          *)
(***************************************************************************)
RECURSIVE Descend(_, _, _, _)
Descend(b, ijkl, l, t) ==
    IF b \notin BlockIds THEN Invalid
    ELSE IF l = t THEN b
    ELSE Descend(store[b][ijkl[l]], ijkl, l + 1, t)

SlotIndex(tr, slot) ==
    LET p == SlotToTreeIndices(slot)
    IN  IF p.tree = 0 THEN tr[0] ELSE Descend(tr[p.tree], p.ijkl, 0, p.tree)

Content(ind) ==
    [k \in 1..ind.sz |-> LET i == SlotIndex(ind.tr, (k - 1) \div BlockSize)
                         IN  IF i = Invalid THEN 0 ELSE store[i][(k - 1) % BlockSize]]

FileContent == IF ~exists THEN <<>> ELSE IF opened THEN Content(hd) ELSE Content(inode)

FileSpec == INSTANCE File WITH content <- FileContent, result <- ret

(***************************************************************************)
(* Properties                                                              *)
(***************************************************************************)
Blocks == [Cells -> Int]
Rets == {"ok", "ENOSPC", "EIO", "EROFS", "ENOTRECOVERABLE"}

TypeOK ==
    /\ exists \in BOOLEAN /\ named \in BOOLEAN /\ opened \in BOOLEAN /\ pending \in BOOLEAN
    /\ store \in [BlockIds -> Blocks] /\ alloc \subseteq BlockIds
    /\ emergency \in {"None", "Bug"}
    /\ inode \in [tr : [Trees -> BlockIds \cup {Invalid}], sz : 0..MaxFileSize]
    /\ hd.ci \in [Levels -> BlockIds \cup {Invalid}]
    /\ hd.sc \in 0..SlotCountOf(MaxFileSize)
    /\ ret.r \in Rets

\* The blocks of a tree: the root, and at each indirection level the
\* blocks its valid entries name.
RECURSIVE Under(_, _)
Under(b, d) ==
    IF b \notin BlockIds THEN {}
    ELSE IF d = 0 THEN {b}
    ELSE {b} \cup UNION {Under(store[b][j], d - 1) : j \in 0..(N - 1)}

FileBlocks == IF ~exists THEN {}
              ELSE UNION {Under((IF opened THEN hd ELSE inode).tr[t], t) : t \in Trees}

\* Block space accounting across write, truncate, the slot shifts and the
\* indirection cascade of setSlot, and removeNow: the allocated blocks are
\* exactly the other files' blocks and the blocks the file's trees reach,
\* and no block of the file is one of another file's.
NoBlockLeak ==
    /\ alloc = Foreign \cup FileBlocks
    /\ Foreign \cap FileBlocks = {}

\* Handle::cacheBlock's cache is write-through: every indirection block
\* the open handle has cached is allocated and equal to the stored block,
\* so a cached index is never a freed (or reused) block.
CacheCoherent ==
    opened => \A l \in Levels : hd.ci[l] # Invalid =>
                  /\ hd.ci[l] \in alloc \ Foreign
                  /\ hd.cb[l] = store[hd.ci[l]]

\* No path through open, write, truncate, read, unlink and close latches
\* EmergencyBug (an out-of-range block access or slot).
NoEmergency == emergency = "None"

\* The file as read back through the handle behaves like File: each call
\* changes the data and returns what the abstract file does.
FileRefinement == FileSpec!Spec
====
