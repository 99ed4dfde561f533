------------------------------ MODULE Namespace ------------------------------
(***************************************************************************)
(* The directory tree of 6fs: inodes, dirents, the slot tree 0 of every    *)
(* directory (the sorted list of its dirent indices), the handle cache of  *)
(* Base with its reference counts and removeOnceUnused flags, and the      *)
(* namespace operations of SixFS (sixfs.cpp) with the Handle methods they  *)
(* call (handle.cpp).  Every operation here takes the exclusive structure  *)
(* lock (openDir takes it shared but changes only the handle cache, which  *)
(* has its own lock), so each one is a single atomic action.               *)
(*                                                                         *)
(* Operators take and return a record s of the whole state, so that a     *)
(* handler is the composition of the calls the C++ code makes, in order.  *)
(* Names are numbers: strcmp order on the names is < on the numbers.       *)
(***************************************************************************)
EXTENDS Naturals, FiniteSets, SequencesExt, Functions, BagsExt

CONSTANTS
    Names,        \* the file names the model uses (numbers, ordered as strcmp)
    InodeIds,     \* inode indices the model may allocate; 0 is the root
    DirentIds,    \* dirent indices the model may allocate
    MaxDepth,     \* longest path, in components
    MaxHeld,      \* bound on handles held open by FUSE callers
    MaxNlink,     \* the largest nlink (the code's limit is 2^64 - 1)
    Ops,          \* the FUSE callbacks the workload issues
    FailSites     \* Base calls that may fail with ENOSPC: "inodeAdd", "direntAdd"

VARIABLES
    inodes,        \* allocated inode index -> [type, nlink, size]
    dirents,       \* allocated dirent index -> [name, ino]
    slots,         \* directory inode -> its slot tree 0 (slot -> dirent index)
    handleMap,     \* Base::_handleMap: inode -> [slotCount, removeOnceUnused]
    held,          \* bag of inodes whose handles FUSE callers hold (open, openDir)
    emergencyType  \* the process-wide emergency latch

vars == <<inodes, dirents, slots, handleMap, held, emergencyType>>

InvalidIndex == -1
NoFail == "none"
SlotIdx == 0..Cardinality(DirentIds)  \* one more than the dirents: rename inserts before it removes
EmptyTree == [k \in SlotIdx |-> InvalidIndex]
Paths(k) == UNION {[1..j -> Names] : j \in 0..k}

\* Inode::directory and Inode::node (the creator closures of mkdir, mknod).
Directory == [type |-> "DIR", nlink |-> 2, size |-> 0]
Node == [type |-> "REG", nlink |-> 1, size |-> 0]

State == [inodes |-> inodes, dirents |-> dirents, slots |-> slots,
          handleMap |-> handleMap, emergencyType |-> emergencyType]
Result(s, r) == [s |-> s, r |-> r]

\* emergency(): the first caller's type wins.
Latch(s, t) ==
    [s EXCEPT !.emergencyType = IF @ = "None" THEN t ELSE @]

\* Handle::slotCount() of the handle handleGet returns for d: the cached
\* handle's counter, or a new handle's, which starts from inode.size.
SlotCount(s, d) ==
    IF d \in DOMAIN s.handleMap THEN s.handleMap[d].slotCount ELSE s.inodes[d].size

AddSlotCount(hm, d, delta) ==
    IF d \in DOMAIN hm THEN [hm EXCEPT ![d].slotCount = @ + delta] ELSE hm

\* Mutant: the sign of strcmp is read the wrong way round.
RECURSIVE Search_swappedCmp(_, _, _, _, _)
Search_swappedCmp(s, d, n, a, b) ==
    IF b < a THEN [found |-> FALSE, slot |-> a, id |-> InvalidIndex]
    ELSE LET c == (a + b) \div 2
             id == s.slots[d][c]
         IN  IF n < s.dirents[id].name THEN Search_swappedCmp(s, d, n, c + 1, b)
             ELSE IF n > s.dirents[id].name THEN Search_swappedCmp(s, d, n, a, c - 1)
             ELSE [found |-> TRUE, slot |-> c, id |-> id]

\* Handle::findDirentNow: binary search for name n over slots a..b of d.
RECURSIVE Search(_, _, _, _, _)
Search(s, d, n, a, b) ==
    IF b < a THEN [found |-> FALSE, slot |-> a, id |-> InvalidIndex]
    ELSE LET c == (a + b) \div 2
             id == s.slots[d][c]
         IN  IF n > s.dirents[id].name THEN Search(s, d, n, c + 1, b)
             ELSE IF n < s.dirents[id].name THEN Search(s, d, n, a, c - 1)
             ELSE [found |-> TRUE, slot |-> c, id |-> id]

FindDirent(s, d, n) == Search(s, d, n, 0, SlotCount(s, d) - 1)

\* SixFS::recursiveFind: each step reads the parent inode from storage and
\* searches it through a temporary Handle (so over inode.size slots).
FoundInode(s, f) == IF f.found THEN s.dirents[f.id].ino ELSE InvalidIndex

LookupIn(s, par, n) ==
    IF par = InvalidIndex THEN InvalidIndex
    ELSE IF s.inodes[par].type # "DIR" THEN InvalidIndex
    ELSE FoundInode(s, Search(s, par, n, 0, s.inodes[par].size - 1))

RECURSIVE FindInode(_, _)
FindInode(s, p) ==
    IF p = <<>> THEN 0 ELSE LookupIn(s, FindInode(s, Front(p)), Last(p))

\* Handle::insertSlot: shift slots slot..slotCount-1 up by one, store id.
InsertSlot(s, d, slot, id) ==
    LET f == s.slots[d]
        cnt == SlotCount(s, d)
    IN  [s EXCEPT
           !.slots[d] = [k \in SlotIdx |->
                           IF k < slot THEN f[k]
                           ELSE IF k = slot THEN id
                           ELSE IF k <= cnt THEN f[k - 1] ELSE f[k]],
           !.handleMap = AddSlotCount(@, d, 1)]

\* Handle::removeSlot: shift the slots above down, invalidate the last one,
\* free the dirent if asked to.
RemoveSlot(s, d, slot, removeDirent) ==
    LET f == s.slots[d]
        cnt == SlotCount(s, d)
    IN  [s EXCEPT
           !.slots[d] = [k \in SlotIdx |->
                           IF k < slot THEN f[k]
                           ELSE IF k < cnt - 1 THEN f[k + 1]
                           ELSE IF k = cnt - 1 THEN InvalidIndex ELSE f[k]],
           !.dirents = IF removeDirent THEN Restrict(@, DOMAIN @ \ {f[slot]})
                       ELSE @,
           !.handleMap = AddSlotCount(@, d, -1)]

\* Handle::setSlot on slot tree 0.
SetSlot(s, d, slot, id) == [s EXCEPT !.slots[d][slot] = id]

\* Base::inodeRemove.
InodeRemove(s, i) ==
    [s EXCEPT !.inodes = Restrict(@, DOMAIN @ \ {i}),
              !.slots = Restrict(@, DOMAIN @ \ {i})]

\* Handle::removeNow: a regular file loses one link and is freed at zero;
\* any other inode is freed at once.
RemoveNow(s, i) ==
    IF s.inodes[i].type = "REG"
    THEN IF s.inodes[i].nlink = 0
         THEN Result(Latch(s, "Bug"), "ENOTRECOVERABLE")
         ELSE IF s.inodes[i].nlink = 1 THEN Result(InodeRemove(s, i), "ok")
         ELSE Result([s EXCEPT !.inodes[i].nlink = @ - 1], "ok")
    ELSE Result(InodeRemove(s, i), "ok")

\* Mutant: remove() ignores the reference count and frees at once.
RemoveUnused_ignoreRefs(s, i) == RemoveNow(s, i)

\* handleGet(i), Handle::remove(), handleRelease() in a row.  The handle is
\* referenced while remove() runs, so remove() only sets removeOnceUnused;
\* if no one else holds the handle, the release then calls removeNow.
RemoveUnused(s, i) ==
    IF i \in DOMAIN s.handleMap
    THEN Result([s EXCEPT !.handleMap[i].removeOnceUnused = TRUE], "ok")
    ELSE RemoveNow(s, i)

\* Base::inodeAdd and Base::direntAdd: the smallest free index, or ENOSPC
\* when the storage is full at this call.
InodeAdd(s, node, fail) ==
    IF fail = "inodeAdd" THEN [s |-> s, r |-> "ENOSPC", index |-> InvalidIndex]
    ELSE LET i == Min(InodeIds \ DOMAIN s.inodes)
         IN  [s |-> [s EXCEPT !.inodes = (i :> node) @@ @,
                              !.slots = (i :> EmptyTree) @@ @],
              r |-> "ok", index |-> i]

DirentAdd(s, dirent, fail) ==
    IF fail = "direntAdd" THEN [s |-> s, r |-> "ENOSPC", index |-> InvalidIndex]
    ELSE LET i == Min(DirentIds \ DOMAIN s.dirents)
         IN  [s |-> [s EXCEPT !.dirents = (i :> dirent) @@ @],
              r |-> "ok", index |-> i]

-----------------------------------------------------------------------------
(* Handle::mkdirent, split where the C++ code passes a result on.  There   *)
(* is no rollback: when direntAdd fails, the inode just added stays.       *)

MkdirentInsert(t, d, slot) ==
    IF t.r # "ok" THEN Result(t.s, t.r)
    ELSE Result([InsertSlot(t.s, d, slot, t.index)
                   EXCEPT !.inodes[d].size = @ + 1, !.inodes[d].nlink = @ + 1],
                "ok")

MkdirentLink(t, d, n, slot, fail) ==
    IF t.r # "ok" THEN Result(t.s, t.r)
    ELSE MkdirentInsert(DirentAdd(t.s, [name |-> n, ino |-> t.index], fail), d, slot)

MkdirentAt(s, d, n, f, existing, node, fail) ==
    IF f.found THEN Result(s, "EEXIST")
    ELSE IF existing = InvalidIndex
         THEN MkdirentLink(InodeAdd(s, node, fail), d, n, f.slot, fail)
         ELSE MkdirentLink([s |-> s, r |-> "ok", index |-> existing], d, n, f.slot, fail)

Mkdirent(s, d, n, existing, node, fail) ==
    IF s.inodes[d].type # "DIR" THEN Result(s, "ENOTDIR")
    ELSE IF s.inodes[d].nlink = MaxNlink THEN Result(s, "EMLINK")
    ELSE MkdirentAt(s, d, n, FindDirent(s, d, n), existing, node, fail)

\* The checker closures of SixFS::rmdir and SixFS::unlink.
RmdirChecker(node) ==
    IF node.type # "DIR" THEN "ENOTDIR"
    ELSE IF node.size > 0 THEN "ENOTEMPTY" ELSE "ok"

UnlinkChecker(node) == IF node.type = "DIR" THEN "EISDIR" ELSE "ok"

\* The inodeChecker that SixFS::rmdir or SixFS::unlink (op) passes down.
InodeChecker(op, node) ==
    IF op = "rmdir" THEN RmdirChecker(node) ELSE UnlinkChecker(node)

(* Handle::rmdirent.  The checker's verdict rc decides whether the slot is *)
(* removed and the target handle marked; then r = handleRelease(handle)    *)
(* overwrites rc, and with r = 0 the parent's size and nlink drop.        *)

RmdirentRelease(t, d) ==
    IF t.r # "ok" THEN t
    ELSE Result([t.s EXCEPT !.inodes[d].size = @ - 1, !.inodes[d].nlink = @ - 1], "ok")

\* Mutant: the target handle's remove() is never called.
RmdirentChecked_noRemove(s, d, f, c, rc) ==
    RmdirentRelease(IF rc = "ok" THEN Result(RemoveSlot(s, d, f.slot, TRUE), "ok")
                    ELSE Result(s, "ok"),
                    d)


RmdirentChecked(s, d, f, c, rc) ==
    RmdirentRelease(IF rc = "ok" THEN RemoveUnused(RemoveSlot(s, d, f.slot, TRUE), c)
                    ELSE Result(s, "ok"),
                    d)

RmdirentFound(s, d, f, op) ==
    IF ~f.found THEN Result(s, "ENOENT")
    ELSE RmdirentChecked(s, d, f, s.dirents[f.id].ino,
                         InodeChecker(op, s.inodes[s.dirents[f.id].ino]))

Rmdirent(s, d, n, op) ==
    IF s.inodes[d].type # "DIR" THEN Result(s, "ENOTDIR")
    ELSE IF s.inodes[d].nlink = 2 THEN Result(s, "ENOENT")
    ELSE RmdirentFound(s, d, FindDirent(s, d, n), op)

\* SixFS::mkdirent and SixFS::rmdirent: resolve the parent path, then call
\* the Handle method on the parent's handle.
SixMkdirent(s, p, existing, node, fail) ==
    LET par == FindInode(s, Front(p))
    IN  IF par = InvalidIndex THEN Result(s, "ENOENT")
        ELSE Mkdirent(s, par, Last(p), existing, node, fail)

SixRmdirent(s, p, op) ==
    LET par == FindInode(s, Front(p))
    IN  IF par = InvalidIndex THEN Result(s, "ENOENT")
        ELSE Rmdirent(s, par, Last(p), op)

\* SixFS::link: Handle::link() raises nlink first; if mkdirent then fails,
\* handle->remove() undoes it (deferred while the handle is referenced).
LinkUndo(t, i) ==
    IF t.r = "ok" THEN t ELSE Result(RemoveUnused(t.s, i).s, t.r)

\* Mutant: Handle::link() does not raise nlink.
LinkFrom_noBump(s, i, np, fail) ==
    IF i = InvalidIndex THEN Result(s, "ENOENT")
    ELSE IF s.inodes[i].type # "REG" THEN Result(s, "EINVAL")
    ELSE LinkUndo(SixMkdirent(s, np, i, Node, fail), i)


LinkFrom(s, i, np, fail) ==
    IF i = InvalidIndex THEN Result(s, "ENOENT")
    ELSE IF s.inodes[i].type # "REG" THEN Result(s, "EINVAL")
    ELSE IF s.inodes[i].nlink = MaxNlink THEN Result(s, "EMLINK")
    ELSE LinkUndo(SixMkdirent([s EXCEPT !.inodes[i].nlink = @ + 1], np, i, Node, fail), i)

SixLink(s, op, np, fail) == LinkFrom(s, FindInode(s, op), np, fail)

-----------------------------------------------------------------------------
(* SixFS::rename and the Handle::renameHelper* methods it calls.  The      *)
(* helpers change size and the slot tree, never nlink.                     *)

DirentRename(s, id, n) == [s EXCEPT !.dirents[id].name = n]
DirentRemove(s, id) == [s EXCEPT !.dirents = Restrict(@, DOMAIN @ \ {id})]


RenameHelperAdd(s, d, slot, id) ==
    [InsertSlot(s, d, slot, id) EXCEPT !.inodes[d].size = @ + 1]

RenameHelperRemove(s, d, slot) ==
    [RemoveSlot(s, d, slot, FALSE) EXCEPT !.inodes[d].size = @ - 1]

\* renameHelperReplace is a setSlot (and an unchanged inode write).
RenameHelperReplace(s, d, slot, id) == SetSlot(s, d, slot, id)

\* Mutant: the replaced dirent is not freed.
RenameReplace_keepDirent(s, n, od, nd, of, nf, ni) ==
    Result(RenameHelperRemove(
             RemoveUnused(RenameHelperReplace(DirentRename(s, of.id, n), nd, nf.slot, of.id),
                          ni).s,
             od, of.slot), "ok")

\* Normal/Noreplace onto an existing name: the old dirent takes the new
\* name and the new slot, the replaced dirent is freed and its inode goes
\* through getHandle, remove, release; then the old slot is removed.
RenameReplace(s, n, od, nd, of, nf, ni) ==
    Result(RenameHelperRemove(
             RemoveUnused(DirentRemove(RenameHelperReplace(DirentRename(s, of.id, n),
                                                            nd, nf.slot, of.id),
                                       nf.id), ni).s,
             od, of.slot), "ok")

\* Mutant: oldDirentSlot is not shifted after an insertion below it.
RenameAdd_noShift(s, n, od, nd, of, nf) ==
    Result(RenameHelperRemove(
             RenameHelperAdd(DirentRename(s, of.id, n), nd, nf.slot, of.id),
             od, of.slot),
           "ok")

\* Normal/Noreplace onto a free name: insert at the insertion point, and in
\* the same parent shift oldDirentSlot if the insertion moved it.
RenameAdd(s, n, od, nd, of, nf) ==
    Result(RenameHelperRemove(
             RenameHelperAdd(DirentRename(s, of.id, n), nd, nf.slot, of.id),
             od, IF od = nd /\ of.slot >= nf.slot THEN of.slot + 1 ELSE of.slot),
           "ok")

\* Exchange: swap the two dirent indices between the two slots.
RenameExchange(s, od, nd, of, nf) ==
    Result(RenameHelperReplace(RenameHelperReplace(s, od, of.slot, nf.id),
                               nd, nf.slot, of.id), "ok")

\* The type checks of SixFS::rename (the ENOTEMPTY test after the ENOTDIR
\* test repeats its condition, so it never fires), then the three strategies.
RenameChecked(s, n, mode, od, nd, of, nf, oi, ni) ==
    IF nf.found /\ s.inodes[oi].type = "DIR" /\ s.inodes[ni].type # "DIR"
    THEN Result(s, "ENOTDIR")
    ELSE IF nf.found /\ s.inodes[oi].type # "DIR" /\ s.inodes[ni].type = "DIR"
    THEN Result(s, "EISDIR")
    ELSE IF nf.found /\ mode = "Noreplace" THEN Result(s, "EEXIST")
    ELSE IF ~nf.found /\ mode = "Exchange" THEN Result(s, "ENOENT")
    ELSE IF nf.found /\ s.inodes[oi].type = "REG" /\ oi = ni THEN Result(s, "ok")
    ELSE IF mode = "Exchange" THEN RenameExchange(s, od, nd, of, nf)
    ELSE IF nf.found THEN RenameReplace(s, n, od, nd, of, nf, ni)
    ELSE RenameAdd(s, n, od, nd, of, nf)

RenameFound(s, n, mode, od, nd, of, nf) ==
    IF ~of.found THEN Result(s, "ENOENT")
    ELSE RenameChecked(s, n, mode, od, nd, of, nf, s.dirents[of.id].ino,
                       IF nf.found THEN s.dirents[nf.id].ino ELSE InvalidIndex)

RenameParents(s, on, n, mode, od, nd) ==
    IF od = InvalidIndex \/ nd = InvalidIndex THEN Result(s, "ENOENT")
    ELSE IF s.inodes[od].type # "DIR" \/ s.inodes[nd].type # "DIR"
    THEN Result(s, "ENOTDIR")
    ELSE RenameFound(s, n, mode, od, nd, FindDirent(s, od, on), FindDirent(s, nd, n))

SixRename(s, op, np, mode) ==
    RenameParents(s, Last(op), Last(np), mode,
                  FindInode(s, Front(op)), FindInode(s, Front(np)))

-----------------------------------------------------------------------------
(* The FUSE callbacks.  The kernel resolves paths (through getAttr, so     *)
(* through FindInode) before it calls 6fs, and sends only what the VFS     *)
(* allows: a create of a name that does not exist, unlink of a non-        *)
(* directory, rmdir of a directory, rename with distinct inodes where      *)
(* neither path is a prefix of the other.                                  *)

Init ==
    /\ inodes = (0 :> Directory)          \* Base::createRootNode
    /\ dirents = [e \in {} |-> [name |-> 0, ino |-> 0]]
    /\ slots = (0 :> EmptyTree)
    /\ handleMap = [i \in {} |-> [slotCount |-> 0, removeOnceUnused |-> FALSE]]
    /\ held = EmptyBag
    /\ emergencyType = "None"

Apply(t) ==
    /\ inodes' = t.s.inodes
    /\ dirents' = t.s.dirents
    /\ slots' = t.s.slots
    /\ handleMap' = t.s.handleMap
    /\ emergencyType' = t.s.emergencyType

Resolves(p) == FindInode(State, p) # InvalidIndex
IsDir(i) == inodes[i].type = "DIR"
HasFreeInode == InodeIds \ DOMAIN inodes # {}
HasFreeDirent == DirentIds \ DOMAIN dirents # {}
Attempts == FailSites \cup {NoFail}

\* A path the kernel may create: its parent resolves to a directory and the
\* name itself does not resolve.
Creatable(p) ==
    /\ Resolves(Front(p)) /\ IsDir(FindInode(State, Front(p)))
    /\ ~Resolves(p)

\* SixFS::mkdir and SixFS::mknod.
Mkdir ==
    /\ "mkdir" \in Ops /\ HasFreeInode /\ HasFreeDirent
    /\ \E p \in Paths(MaxDepth) \ {<<>>}, fail \in Attempts :
         /\ Creatable(p)
         /\ Apply(SixMkdirent(State, p, InvalidIndex, Directory, fail))
    /\ UNCHANGED held

Mknod ==
    /\ "mknod" \in Ops /\ HasFreeInode /\ HasFreeDirent
    /\ \E p \in Paths(MaxDepth) \ {<<>>}, fail \in Attempts :
         /\ Creatable(p)
         /\ Apply(SixMkdirent(State, p, InvalidIndex, Node, fail))
    /\ UNCHANGED held

\* SixFS::rmdir and SixFS::unlink.
Rmdir ==
    /\ "rmdir" \in Ops
    /\ \E p \in Paths(MaxDepth) \ {<<>>} :
         /\ Resolves(p) /\ IsDir(FindInode(State, p))
         /\ Apply(SixRmdirent(State, p, "rmdir"))
    /\ UNCHANGED held

Unlink ==
    /\ "unlink" \in Ops
    /\ \E p \in Paths(MaxDepth) \ {<<>>} :
         /\ Resolves(p) /\ ~IsDir(FindInode(State, p))
         /\ Apply(SixRmdirent(State, p, "unlink"))
    /\ UNCHANGED held

\* SixFS::link (the VFS refuses hard links to directories).
Link ==
    /\ "link" \in Ops /\ HasFreeDirent
    /\ \E op, np \in Paths(MaxDepth) \ {<<>>}, fail \in Attempts :
         /\ Resolves(op) /\ ~IsDir(FindInode(State, op)) /\ Creatable(np)
         /\ Apply(SixLink(State, op, np, fail))
    /\ UNCHANGED held

\* SixFS::rename in the modes the workload uses.
Rename ==
    /\ \E mode \in {"Normal", "Noreplace", "Exchange"} \cap Ops,
          op, np \in Paths(MaxDepth) \ {<<>>} :
         /\ ~IsPrefix(op, np) /\ ~IsPrefix(np, op)
         /\ Resolves(op) /\ Resolves(Front(np)) /\ IsDir(FindInode(State, Front(np)))
         /\ FindInode(State, op) # FindInode(State, np)
         /\ mode = "Exchange" => Resolves(np)
         /\ mode = "Noreplace" => ~Resolves(np)
         /\ Resolves(np) => (IsDir(FindInode(State, op)) <=> IsDir(FindInode(State, np)))
         /\ Apply(SixRename(State, op, np, mode))
    /\ UNCHANGED held

\* SixFS::open and SixFS::openDir: handleGet, then the type check; on
\* success the caller keeps the reference.
HoldHandle(i) ==
    /\ held' = BagAdd(held, i)
    /\ handleMap' = IF i \in DOMAIN handleMap THEN handleMap
                    ELSE (i :> [slotCount |-> inodes[i].size,
                                removeOnceUnused |-> FALSE]) @@ handleMap
    /\ UNCHANGED <<inodes, dirents, slots, emergencyType>>

Open ==
    /\ "open" \in Ops /\ BagCardinality(held) < MaxHeld
    /\ \E p \in Paths(MaxDepth) \ {<<>>} :
         /\ Resolves(p) /\ inodes[FindInode(State, p)].type = "REG"
         /\ HoldHandle(FindInode(State, p))

OpenDir ==
    /\ "openDir" \in Ops /\ BagCardinality(held) < MaxHeld
    /\ \E p \in Paths(MaxDepth) :
         /\ Resolves(p) /\ IsDir(FindInode(State, p))
         /\ HoldHandle(FindInode(State, p))

\* Mutant: the last release does not erase the handle from the map.
ReleaseHeld_noEvict(i) ==
    /\ held' = BagRemove(held, i)
    /\ UNCHANGED <<inodes, dirents, slots, handleMap, emergencyType>>

\* Mutant: the last release evicts the handle without the deferred removal.
ReleaseHeld_noRemove(i) ==
    /\ held' = BagRemove(held, i)
    /\ IF CopiesIn(i, held) > 1
       THEN UNCHANGED <<inodes, dirents, slots, handleMap, emergencyType>>
       ELSE /\ handleMap' = Restrict(handleMap, DOMAIN handleMap \ {i})
            /\ UNCHANGED <<inodes, dirents, slots, emergencyType>>

\* SixFS::close and SixFS::closeDir: Base::handleRelease.  The last release
\* evicts the handle and, if it was marked, calls removeNow.
ReleaseHeld(i) ==
    /\ held' = BagRemove(held, i)
    /\ IF CopiesIn(i, held) > 1
       THEN UNCHANGED <<inodes, dirents, slots, handleMap, emergencyType>>
       ELSE LET s == [State EXCEPT !.handleMap = Restrict(@, DOMAIN @ \ {i})]
            IN  Apply(IF handleMap[i].removeOnceUnused THEN RemoveNow(s, i)
                      ELSE Result(s, "ok"))

Close ==
    /\ "open" \in Ops
    /\ \E i \in BagToSet(held) : ~IsDir(i) /\ ReleaseHeld(i)

CloseDir ==
    /\ "openDir" \in Ops
    /\ \E i \in BagToSet(held) : IsDir(i) /\ ReleaseHeld(i)

Next ==
    \/ Mkdir \/ Mknod \/ Rmdir \/ Unlink \/ Link \/ Rename
    \/ Open \/ Close \/ OpenDir \/ CloseDir

Spec == Init /\ [][Next]_vars

-----------------------------------------------------------------------------
(* Views and properties.                                                   *)

Dirs == {d \in DOMAIN inodes : inodes[d].type = "DIR"}
Count(d) == SlotCount(State, d)
Visible(d) == {k \in SlotIdx : k < Count(d)}
EntryName(d, k) == dirents[slots[d][k]].name
EntryInode(d, k) == dirents[slots[d][k]].ino

\* The number of visible directory entries that name inode i.
NamesOf(i) == Cardinality({dk \in Dirs \X SlotIdx :
                             dk[2] < Count(dk[1]) /\ EntryInode(dk[1], dk[2]) = i})

\* Inodes reachable by visible entries from the root and the held handles.
RECURSIVE ReachFrom(_, _)
ReachFrom(S, k) ==
    IF k = 0 THEN S
    ELSE ReachFrom(S \cup UNION {{EntryInode(d, j) : j \in Visible(d)} : d \in S \cap Dirs},
                   k - 1)
Reachable == ReachFrom({0} \cup BagToSet(held), Cardinality(InodeIds))

TypeOK ==
    /\ DOMAIN inodes \subseteq InodeIds /\ 0 \in DOMAIN inodes
    /\ \A i \in DOMAIN inodes :
         /\ inodes[i].type \in {"DIR", "REG"}
         /\ inodes[i].nlink \in Nat /\ inodes[i].size \in Nat
    /\ DOMAIN dirents \subseteq DirentIds
    /\ \A e \in DOMAIN dirents : dirents[e].name \in Names /\ dirents[e].ino \in InodeIds
    /\ DOMAIN slots = DOMAIN inodes
    /\ \A i \in DOMAIN slots : slots[i] \in [SlotIdx -> DirentIds \cup {InvalidIndex}]
    /\ DOMAIN handleMap = BagToSet(held)
    /\ \A i \in DOMAIN handleMap : handleMap[i].slotCount \in SlotIdx
    /\ emergencyType \in {"None", "Bug"}

\* Every visible directory entry names an allocated dirent whose inode is
\* allocated, and every handle held by a caller is of an allocated inode:
\* no path of mkdirent, rmdirent, rename or handleRelease frees an inode or
\* dirent that is still referenced.
NoDanglingNames ==
    /\ \A d \in Dirs, k \in SlotIdx :
         k < Count(d) => /\ slots[d][k] \in DOMAIN dirents
                         /\ EntryInode(d, k) \in DOMAIN inodes
    /\ BagToSet(held) \subseteq DOMAIN inodes

\* The visible entries of a directory are strictly sorted by name, which
\* Handle::findDirentNow's binary search relies on (mkdirent and the rename
\* helpers insert at the slot the search returns).
DirentsSorted ==
    \A d \in Dirs, j, k \in SlotIdx :
        j < k /\ k < Count(d) => EntryName(d, j) < EntryName(d, k)

\* A regular file's nlink equals its number of names, plus one while a
\* removal is deferred by Handle::remove's removeOnceUnused flag.
LinkCountMatchesNames ==
    \A i \in DOMAIN inodes :
        inodes[i].type = "REG" =>
            inodes[i].nlink = NamesOf(i) + (IF i \in DOMAIN handleMap
                                              /\ handleMap[i].removeOnceUnused
                                            THEN 1 ELSE 0)

\* Nothing leaks: every allocated inode is reachable from the root or held
\* open, and every allocated dirent is a visible entry of such a directory.
NoLeaks ==
    /\ DOMAIN inodes \subseteq Reachable
    /\ \A e \in DOMAIN dirents :
         \E d \in Reachable \cap Dirs, k \in SlotIdx : k < Count(d) /\ slots[d][k] = e

=============================================================================
