------------------------------ MODULE Capacity ------------------------------
(***************************************************************************)
(* The capacity check of Base and the emergency latch under concurrent    *)
(* FUSE requests (base.cpp, chunk.cpp, emergency.cpp, sixfs.cpp).         *)
(*                                                                         *)
(* Every entity add is Base::entityAddRaw: checkWriteAction reads the     *)
(* emergency latch and the total storage size without any lock, and only *)
(* then ChunkManager::add takes the space's writer lock and allocates.    *)
(* Writer threads run SixFS::write, whose blockAdd takes no structure     *)
(* lock; the namespace worker runs mknod and symlink under the exclusive  *)
(* structure lock.  Removals are ChunkManager::remove with its trim of    *)
(* trailing free chunks.  Any request may end in an emergency, latched by *)
(* emergency(), whose test and assignment are two separate steps.         *)
(*                                                                         *)
(* A space is abstracted to its set of used indices and _chunksInStorage; *)
(* the bitmap's own I/O and the storage failures are ChunkSpace's part.   *)
(***************************************************************************)
EXTENDS Integers, Sequences, FiniteSets, FiniteSetsExt

CONSTANTS
    Writers,        \* threads running SixFS::write
    NsWorkers,      \* threads running SixFS::mknod / SixFS::symlink
    BlockSize,      \* sizeof(Block), the block space's chunk size
    InodeSize,      \* the inode space's chunk size
    DirentSize,     \* the dirent space's chunk size
    MaxSize,        \* Base::_maxSize; 0 means no ceiling
    MaxChunks,      \* bound on the indices of a space
    MaxObjects      \* bound on the inodes the workload creates

Spaces == {"inode", "dirent", "block"}
ChunkSize == [inode |-> InodeSize, dirent |-> DirentSize, block |-> BlockSize]
Threads == Writers \cup NsWorkers
Idx == 0..(MaxChunks - 1)
Kinds == {"Bug", "SystemFailure"}
\* The kind a thread's failure latches: a write meets a Bug (getSlot,
\* ChunkManager's range checks), the namespace worker a SystemFailure.
KindOf(t) == IF t \in Writers THEN "Bug" ELSE "SystemFailure"
NoOwner == "none"

\* The entity adds of a request, in the order the code makes them.
Plan == [write   |-> <<"block">>,                       \* Handle::write: blockAdd
         mknod   |-> <<"inode", "dirent">>,              \* Handle::mkdirent
         symlink |-> <<"block", "inode", "dirent">>]     \* blockAdd, then mkdirent
OpsOf(t) == IF t \in Writers THEN {"write"} ELSE {"mknod", "symlink"}

VARIABLES
    used,       \* the set bits of each space's bitmap
    chunks,     \* ChunkManager::_chunksInStorage of each space
    emergency,  \* the process-global emergencyType
    structure,  \* the holder of Base::_structureMutex (exclusive)
    pc,         \* where each thread is in its request
    op,         \* the request a thread runs
    plan,       \* the entity adds a thread has still to make
    added,      \* the chunks the current request has added
    kind        \* the emergency kind a latching thread writes

vars == <<used, chunks, emergency, structure, pc, op, plan, added, kind>>

(***************************************************************************)
(* Sizes.  ChunkManager::storageSizeInBytes is the data chunks plus the   *)
(* bitmap's chunks of 8 bytes, each holding 64 bits; a bitmap always has  *)
(* at least its first chunk.                                               *)
(***************************************************************************)
BitChunks(n) == IF n = 0 THEN 1 ELSE (n + 63) \div 64

SpaceBytes(m) == chunks[m] * ChunkSize[m] + 8 * BitChunks(chunks[m])

StorageSizeInBytes == SpaceBytes("inode") + SpaceBytes("dirent") + SpaceBytes("block")

\* Base::checkWriteAction: refused after an emergency; an add must leave
\* room for itself and four more blocks.
CheckWriteAction(additional) ==
    IF emergency # "None" THEN "EROFS"
    ELSE IF MaxSize > 0 /\ additional > 0
            /\ StorageSizeInBytes + additional + 4 * BlockSize > MaxSize
         THEN "ENOSPC"
    ELSE "ok"

(***************************************************************************)
(* ChunkManager::remove's trim: from the removed last chunk, drop every   *)
(* preceding chunk whose bit is clear.                                     *)
(***************************************************************************)
RECURSIVE TrimFrom(_, _)
TrimFrom(u, i) == IF i > 0 /\ (i - 1) \notin u THEN TrimFrom(u, i - 1) ELSE i

\* Base::entityRemove -> ChunkManager::remove of index i of space m, as new
\* values of used and chunks; refused after an emergency.
EntityRemove(m, i) ==
    IF emergency # "None" THEN [used |-> used, chunks |-> chunks]
    ELSE [used   |-> [used EXCEPT ![m] = @ \ {i}],
          chunks |-> [chunks EXCEPT ![m] = IF i + 1 = @ THEN TrimFrom(used[m] \ {i}, i) ELSE @]]

\* The chunks of other requests in flight, which no removal can name yet.
InFlight == UNION {added[u] : u \in Threads}

\* The workload bound: a request starts only while the block space has an
\* index for every thread's add and the namespace worker, the only one to
\* add inodes and dirents, is below MaxObjects.
Room(o) == \A k \in DOMAIN Plan[o] :
               IF Plan[o][k] = "block"
               THEN Cardinality(used["block"]) + Cardinality(Threads) <= MaxChunks
               ELSE Cardinality(used[Plan[o][k]]) < MaxObjects

Init ==
    /\ used = [m \in Spaces |-> IF m = "inode" THEN {0} ELSE {}]   \* createRootNode
    /\ chunks = [m \in Spaces |-> IF m = "inode" THEN 1 ELSE 0]
    /\ emergency = "None"
    /\ structure = NoOwner
    /\ pc = [t \in Threads |-> "idle"]
    /\ op = [t \in Threads |-> "none"]
    /\ plan = [t \in Threads |-> <<>>]
    /\ added = [t \in Threads |-> {}]
    /\ kind = [t \in Threads |-> "None"]

\* The request returns: the namespace worker unlocks the structure.
Finish(t) ==
    /\ pc' = [pc EXCEPT ![t] = "idle"]
    /\ op' = [op EXCEPT ![t] = "none"]
    /\ plan' = [plan EXCEPT ![t] = <<>>]
    /\ added' = [added EXCEPT ![t] = {}]
    /\ structure' = IF t \in NsWorkers THEN NoOwner ELSE structure

\* A request starts; the namespace worker first waits for the structure lock.
Request(t, o) ==
    /\ pc[t] = "idle" /\ o \in OpsOf(t) /\ Room(o)
    /\ op' = [op EXCEPT ![t] = o]
    /\ plan' = [plan EXCEPT ![t] = Plan[o]]
    /\ pc' = [pc EXCEPT ![t] = IF t \in NsWorkers THEN "lock" ELSE "check"]
    /\ UNCHANGED <<used, chunks, emergency, structure, added, kind>>

\* Base::structureLockExclusive at the start of mknod and symlink.
Lock(t) ==
    /\ pc[t] = "lock" /\ structure = NoOwner
    /\ structure' = t
    /\ pc' = [pc EXCEPT ![t] = "check"]
    /\ UNCHANGED <<used, chunks, emergency, op, plan, added, kind>>

\* An add was refused.  Handle::mkdirent keeps an inode it already added;
\* SixFS::symlink removes its block again when mkdirent failed, through
\* entityRemove, which is itself refused after an emergency.
Fail(t) ==
    LET blk == {i \in Idx : <<"block", i>> \in added[t]}
        rb  == IF op[t] = "symlink" /\ blk # {} THEN EntityRemove("block", Min(blk))
               ELSE [used |-> used, chunks |-> chunks]
    IN  /\ used' = rb.used /\ chunks' = rb.chunks
        /\ Finish(t)

\* Base::entityAddRaw, first half: checkWriteAction, without any lock.
Check(t) ==
    LET r == CheckWriteAction(ChunkSize[Head(plan[t])])
    IN  /\ pc[t] = "check"
        /\ IF r = "ok"
           THEN /\ pc' = [pc EXCEPT ![t] = "add"]
                /\ UNCHANGED <<used, chunks, structure, op, plan, added>>
           ELSE Fail(t)
        /\ UNCHANGED <<emergency, kind>>

\* Base::entityAddRaw, second half: ChunkManager::add under the space's
\* writer lock takes the first free index and grows the storage to it.
Add(t) ==
    LET m == Head(plan[t])
        i == Min(Idx \ used[m])
    IN  /\ pc[t] = "add" /\ Idx \ used[m] # {}
        /\ used' = [used EXCEPT ![m] = @ \cup {i}]
        /\ chunks' = [chunks EXCEPT ![m] = IF i >= @ THEN i + 1 ELSE @]
        /\ IF Tail(plan[t]) = <<>>
           THEN Finish(t)
           ELSE /\ pc' = [pc EXCEPT ![t] = "check"]
                /\ plan' = [plan EXCEPT ![t] = Tail(@)]
                /\ added' = [added EXCEPT ![t] = @ \cup {<<m, i>>}]
                /\ UNCHANGED <<structure, op>>
        /\ UNCHANGED <<emergency, kind>>

\* A removal (truncate by a writer; unlink by the namespace worker, which
\* also frees a symlink's block) while no one holds the structure lock.
Remove(t, m, i) ==
    LET rm == EntityRemove(m, i)
    IN  /\ pc[t] = "idle" /\ structure = NoOwner
        /\ m \in (IF t \in Writers THEN {"block"} ELSE Spaces)
        /\ i \in used[m] /\ <<m, i>> \notin InFlight /\ <<m, i>> # <<"inode", 0>>
        /\ used' = rm.used /\ chunks' = rm.chunks
        /\ UNCHANGED <<emergency, structure, pc, op, plan, added, kind>>

\* emergency(k): the test of the latch ...
LatchRead(t) ==
    /\ pc[t] = "idle" /\ emergency = "None"
    /\ pc' = [pc EXCEPT ![t] = "latch"]
    /\ kind' = [kind EXCEPT ![t] = KindOf(t)]
    /\ UNCHANGED <<used, chunks, emergency, structure, op, plan, added>>

\* ... and its assignment, made whatever the latch holds by now.
LatchWrite(t) ==
    /\ pc[t] = "latch"
    /\ emergency' = kind[t]
    /\ pc' = [pc EXCEPT ![t] = "idle"]
    /\ kind' = [kind EXCEPT ![t] = "None"]
    /\ UNCHANGED <<used, chunks, structure, op, plan, added>>

Next ==
    \E t \in Threads :
        \/ \E o \in DOMAIN Plan : Request(t, o)
        \/ Lock(t)
        \/ Check(t)
        \/ Add(t)
        \/ \E m \in Spaces, i \in Idx : Remove(t, m, i)
        \/ LatchRead(t)
        \/ LatchWrite(t)

Spec == Init /\ [][Next]_vars

-----------------------------------------------------------------------------
TypeOK ==
    /\ used \in [Spaces -> SUBSET Idx]
    /\ chunks \in [Spaces -> 0..MaxChunks]
    /\ emergency \in {"None"} \cup Kinds
    /\ structure \in {NoOwner} \cup NsWorkers
    /\ pc \in [Threads -> {"idle", "lock", "check", "add", "latch"}]
    /\ op \in [Threads -> {"none"} \cup DOMAIN Plan]
    /\ plan \in [Threads -> Seq(Spaces)]
    /\ added \in [Threads -> SUBSET (Spaces \X Idx)]
    /\ kind \in [Threads -> {"None"} \cup Kinds]

\* The --max-size ceiling (spec section 6.3: a hard ceiling in bytes):
\* checkWriteAction reads the storage size without a lock, so adds checked
\* against the same size race to ChunkManager::add, and only the reserve of
\* four blocks is there to absorb the adds that raced past one check.
StorageWithinMaxSize == MaxSize > 0 => StorageSizeInBytes <= MaxSize

=============================================================================
