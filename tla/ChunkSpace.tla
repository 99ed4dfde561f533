------------------------------ MODULE ChunkSpace ------------------------------
(***************************************************************************)
(* One object space of 6fs: the allocation bitmap (class Map, map.cpp)    *)
(* combined with the chunk container it governs (class ChunkManager,       *)
(* chunk.cpp), as driven by Base (base.cpp) and by mounting/unmounting.    *)
(*                                                                         *)
(* Every public ChunkManager method holds the manager's writer lock for    *)
(* its whole run, so each is one atomic action here; the Map methods it    *)
(* calls are operators that thread the Map object's state through the      *)
(* call sequence of the C++ code, failing storage calls included.          *)
(*                                                                         *)
(* Data abstraction: a bitmap chunk is the set of its bit positions that   *)
(* are 1 (a uint64_t in the code, BitsPerChunk bits here); the data        *)
(* container is its length in chunks (the payloads are not modelled); the  *)
(* users of the space are the bag of indices they hold.                    *)
(***************************************************************************)
EXTENDS Naturals, Sequences, FiniteSetsExt, Bags

CONSTANTS
    BitsPerChunk,   \* bits per bitmap chunk (64 in the code)
    MaxChunks,      \* bound: allocations are explored up to this index
    OpFailSites     \* storage call sites that may fail during add/remove

\* The storage calls that can fail.  In one step at most one site fails,
\* and then every call made at that site in that step fails.
Sites == {"mapRead", "mapWrite", "mapSetSize", "dataSetSize", "dataWrite"}
NoFail == "none"

ASSUME BitsPerChunk \in Nat \ {0} /\ MaxChunks \in Nat /\ OpFailSites \subseteq Sites

VARIABLES
    map,             \* the Map object: its members and its storage
    chunksInStorage, \* ChunkManager::_chunksInStorage
    dataSize,        \* length of the data container, in chunks
    owned,           \* bag of indices handed out and not yet removed
    emergencyType,   \* the process-global emergency latch (emergency.cpp)
    mounted          \* Base is initialized and not yet cleaned up

vars == <<map, chunksInStorage, dataSize, owned, emergencyType, mounted>>

Bits == 0..(BitsPerChunk - 1)
BitChunk == SUBSET Bits
Emergencies == {"None", "Bug", "SystemFailure"}

\* map.cpp toBitChunkIndex / toBitIndex
toBitChunkIndex(i) == i \div BitsPerChunk
toBitIndex(i) == i % BitsPerChunk

\* Storage::setSize: truncate, or extend with zero chunks.
Resize(s, n) == [k \in 1..n |-> IF k <= Len(s) THEN s[k] ELSE {}]

\* Storage::write of one chunk; writing past the end extends the container.
WriteChunk(s, c, v) ==
    [k \in 1..Max({Len(s), c + 1}) |->
        IF k = c + 1 THEN v ELSE IF k <= Len(s) THEN s[k] ELSE {}]

\* Storage::read of one stored chunk (a chunk past the end reads as zero).
StoredChunk(s, c) == IF c < Len(s) THEN s[c + 1] ELSE {}

\* emergency(): the first writer wins.
Latch(e, t) == IF e = "None" THEN t ELSE e
LatchIf(e, cond, t) == IF cond THEN Latch(e, t) ELSE e

-----------------------------------------------------------------------------
(* Map.  A result is a record: m, the Map object after the call; r, its    *)
(* return code ("ok", "eio" for a storage error, "bug" after the call     *)
(* latched emergency(EmergencyBug)).  Each method is split where it calls  *)
(* another one: the continuation takes the callee's result as a parameter. *)

\* Map::sync
MapSync(m, f) ==
    IF m.curIdx >= m.n
    THEN [m |-> m, r |-> "bug"]
    ELSE IF m.cur = {} /\ m.curIdx + 1 = m.n
    THEN \* drop the empty last chunk; walk back over earlier chunks
         LET readFails == f = "mapRead" /\ m.curIdx > 1
             nonZero   == {c \in 1..(m.curIdx - 1) : StoredChunk(m.store, c) # {}}
             stop      == IF readFails THEN m.curIdx - 1
                          ELSE IF nonZero # {} THEN Max(nonZero)
                          ELSE IF m.curIdx > 1 THEN 1 ELSE m.curIdx
             walked    == [m EXCEPT !.n = m.n - 1, !.curIdx = stop,
                                    !.cur = IF readFails \/ stop = m.curIdx THEN m.cur
                                            ELSE StoredChunk(m.store, stop)]
         IN IF readFails \/ f = "mapSetSize" THEN [m |-> walked, r |-> "eio"]
            ELSE [m |-> [walked EXCEPT !.store = Resize(m.store, m.n - 1),
                                       !.modified = FALSE], r |-> "ok"]
    ELSE IF m.modified
    THEN IF f = "mapWrite" THEN [m |-> m, r |-> "eio"]
         ELSE [m |-> [m EXCEPT !.store = WriteChunk(m.store, m.curIdx, m.cur),
                               !.modified = FALSE], r |-> "ok"]
    ELSE [m |-> m, r |-> "ok"]

\* Map::setCurrentBitChunkIndex after its sync (s): grow the bitmap with a
\* zero chunk, or read the chunk in.
LoadChunk(s, b, f) ==
    IF s.r # "ok" THEN s
    ELSE IF b >= s.m.n
    THEN IF f = "mapSetSize"
         THEN [m |-> [s.m EXCEPT !.cur = {}, !.n = b + 1], r |-> "eio"]
         ELSE [m |-> [s.m EXCEPT !.cur = {}, !.n = b + 1, !.store = Resize(s.m.store, b + 1),
                                 !.curIdx = b], r |-> "ok"]
    ELSE IF f = "mapRead" \/ b >= Len(s.m.store)
    THEN [m |-> s.m, r |-> "eio"]
    ELSE [m |-> [s.m EXCEPT !.cur = s.m.store[b + 1], !.curIdx = b], r |-> "ok"]

\* Map::setCurrentBitChunkIndex
MapSetCurrent(m, b, f) ==
    IF b = m.curIdx THEN [m |-> m, r |-> "ok"] ELSE LoadChunk(MapSync(m, f), b, f)

\* Map::firstZero: scan chunks from the candidate's chunk on; the result
\* also carries the index found.  ScanChunk looks at chunk c once it is
\* resident (s).
RECURSIVE FirstZeroFrom(_, _, _), ScanChunk(_, _, _)
ScanChunk(s, c, f) ==
    IF s.r # "ok" THEN [m |-> s.m, r |-> s.r, index |-> 0]
    ELSE IF Bits \ s.m.cur # {}
    THEN [m |-> [s.m EXCEPT !.cand = c * BitsPerChunk + Min(Bits \ s.m.cur)], r |-> "ok",
          index |-> c * BitsPerChunk + Min(Bits \ s.m.cur)]
    ELSE FirstZeroFrom(s.m, c + 1, f)

FirstZeroFrom(m, c, f) ==
    IF c * BitsPerChunk >= MaxChunks   \* past the bound: Add is not taken
    THEN [m |-> m, r |-> "ok", index |-> MaxChunks]
    ELSE ScanChunk(MapSetCurrent(m, c, f), c, f)

MapFirstZero(m, f) == FirstZeroFrom(m, toBitChunkIndex(m.cand), f)

\* Mutant: the bit is addressed by the index itself, not its position in
\* the chunk.
SetBit_noModulo(s, i, b) ==
    IF s.r # "ok" THEN s
    ELSE LET new == IF b THEN s.m.cur \cup {i} ELSE s.m.cur \ {i} IN
         [m |-> [s.m EXCEPT !.cur = new, !.modified = (new # s.m.cur)], r |-> "ok"]

SetBit_noRetreat(s, i, b) ==
    IF s.r # "ok" THEN s
    ELSE LET new  == IF b THEN s.m.cur \cup {toBitIndex(i)} ELSE s.m.cur \ {toBitIndex(i)}
             cand == IF b /\ i = s.m.cand THEN i + 1 ELSE s.m.cand
         IN [m |-> [s.m EXCEPT !.cur = new, !.cand = cand,
                              !.modified = (new # s.m.cur)], r |-> "ok"]

\* Map::set once the chunk of index i is resident (s): change the bit, move
\* the candidate, and recompute the modified flag from this call alone.
SetBit(s, i, b) ==
    IF s.r # "ok" THEN s
    ELSE LET new  == IF b THEN s.m.cur \cup {toBitIndex(i)} ELSE s.m.cur \ {toBitIndex(i)}
             cand == IF b THEN (IF i = s.m.cand THEN i + 1 ELSE s.m.cand)
                     ELSE (IF i < s.m.cand THEN i ELSE s.m.cand)
         IN [m |-> [s.m EXCEPT !.cur = new, !.cand = cand,
                              !.modified = (new # s.m.cur)], r |-> "ok"]

\* Map::set
MapSet(m, i, b, f) == SetBit(MapSetCurrent(m, toBitChunkIndex(i), f), i, b)

\* Map::get; the result also carries the bit.
MapGet(m, i, f) ==
    LET GetBit(s) == [m |-> s.m, r |-> s.r, bit |-> toBitIndex(i) \in s.m.cur]
    IN GetBit(MapSetCurrent(m, toBitChunkIndex(i), f))

\* Mutant: chunk 0 of an existing bitmap is not read on mount.
MapInitialize_noRead(store) ==
    [store |-> IF store = <<>> THEN <<{}>> ELSE store, n |-> Max({Len(store), 1}),
     cur |-> {}, curIdx |-> 0, modified |-> FALSE, cand |-> 0]

\* Map::initialize on a freshly constructed Map (constructor: candidate 0).
MapInitialize(store) ==
    IF store = <<>>
    THEN [store |-> <<{}>>, n |-> 1, cur |-> {}, curIdx |-> 0, modified |-> FALSE, cand |-> 0]
    ELSE [store |-> store, n |-> Len(store), cur |-> store[1], curIdx |-> 0,
          modified |-> FALSE, cand |-> 0]

-----------------------------------------------------------------------------
(* ChunkManager.  The result of add is the record [m, r, index, cis, ds,   *)
(* bug]: the Map, the return code, the index, _chunksInStorage, the data   *)
(* container's length, and whether a Map call latched EmergencyBug.        *)

AddState(m, r, idx, cis, ds, bug) ==
    [m |-> m, r |-> r, index |-> idx, cis |-> cis, ds |-> ds, bug |-> bug]

\* ChunkManager::add, the grow step after setOne (s): a new last chunk
\* raises _chunksInStorage and resizes the data container; if the resize
\* fails the bit is unset again (u), but _chunksInStorage stays raised.
AddGrowFailed(u, idx) == AddState(u.m, "eio", idx, idx + 1, dataSize, u.r = "bug")

AddGrow(s, idx, f) ==
    IF s.r # "ok" THEN AddState(s.m, s.r, idx, chunksInStorage, dataSize, s.r = "bug")
    ELSE IF idx < chunksInStorage THEN AddState(s.m, "ok", idx, chunksInStorage, dataSize, FALSE)
    ELSE IF f = "dataSetSize" THEN AddGrowFailed(MapSet(s.m, idx, FALSE, f), idx)
    ELSE AddState(s.m, "ok", idx, idx + 1, idx + 1, FALSE)

\* ChunkManager::add, the rollback of a failed write of the chunk: the bit
\* is unset (u) and, if the chunk is the last one, the container shrinks.
AddRollback(g, u) ==
    LET shrink == u.r = "ok" /\ g.index + 1 = g.cis IN
    [g EXCEPT !.m = u.m, !.r = "eio", !.cis = IF shrink THEN @ - 1 ELSE @,
              !.ds = IF shrink THEN g.cis - 1 ELSE @, !.bug = @ \/ u.r = "bug"]

\* Mutant: a failed write of the chunk is not rolled back in the bitmap.
AddWrite_noRollback(g, f) ==
    IF g.r # "ok" THEN g
    ELSE IF f # "dataWrite" THEN [g EXCEPT !.ds = Max({@, g.index + 1})]
    ELSE [g EXCEPT !.r = "eio"]

\* ChunkManager::add, the write of the chunk after the grow step (g).
AddWrite(g, f) ==
    IF g.r # "ok" THEN g
    ELSE IF f # "dataWrite" THEN [g EXCEPT !.ds = Max({@, g.index + 1})]
    ELSE AddRollback(g, MapSet(g.m, g.index, FALSE, f))

\* ChunkManager::add once firstZero (z) has returned.
AddFound(z, f) ==
    IF z.r # "ok" THEN AddState(z.m, z.r, 0, chunksInStorage, dataSize, z.r = "bug")
    ELSE AddWrite(AddGrow(MapSet(z.m, z.index, TRUE, f), z.index, f), f)

\* ChunkManager::add
AddResult(f) == AddFound(MapFirstZero(map, f), f)

\* The loop of ChunkManager::remove that drops trailing free chunks: j is
\* the index it is about to step down from, cis the count so far; TrimStep
\* continues once get(j - 1) has returned (g).
RECURSIVE TrimFrom(_, _, _, _), TrimStep(_, _, _, _)

\* Mutant: only the chunk of the removed index is dropped.
TrimFrom_once(m, j, cis, f) == [m |-> m, r |-> "ok", cis |-> cis]

\* Mutant: the count also drops the chunk whose bit is found set.
TrimStep_overTrim(g, j, cis, f) ==
    IF g.r # "ok" THEN [m |-> g.m, r |-> g.r, cis |-> cis]
    ELSE IF g.bit THEN [m |-> g.m, r |-> "ok", cis |-> cis - 1]
    ELSE TrimFrom(g.m, j - 1, cis - 1, f)

TrimStep(g, j, cis, f) ==
    IF g.r # "ok" THEN [m |-> g.m, r |-> g.r, cis |-> cis]
    ELSE IF g.bit THEN [m |-> g.m, r |-> "ok", cis |-> cis]
    ELSE TrimFrom(g.m, j - 1, cis - 1, f)

TrimFrom(m, j, cis, f) ==
    IF j = 0 THEN [m |-> m, r |-> "ok", cis |-> cis]
    ELSE TrimStep(MapGet(m, j - 1, f), j, cis, f)

\* The result of remove: [m, r, cis, ds, bug, sysfail].
RemoveState(m, r, cis, ds, bug, sysfail) ==
    [m |-> m, r |-> r, cis |-> cis, ds |-> ds, bug |-> bug, sysfail |-> sysfail]

\* ChunkManager::remove after the trim loop (t): resize the data container;
\* any failure latches EmergencySystemFailure.
RemoveTrimmed(t, f) ==
    IF t.r # "ok" THEN RemoveState(t.m, "notrecoverable", t.cis, dataSize, t.r = "bug", TRUE)
    ELSE IF f = "dataSetSize" THEN RemoveState(t.m, "notrecoverable", t.cis, dataSize, FALSE, TRUE)
    ELSE RemoveState(t.m, "ok", t.cis, t.cis, FALSE, FALSE)

\* ChunkManager::remove after setZero (s): trim if the chunk was the last
\* one; a chunk in the middle gets a hole punched, which changes no
\* modelled state.
RemoveCleared(s, i, f) ==
    IF s.r = "ok" /\ i + 1 = chunksInStorage
    THEN RemoveTrimmed(TrimFrom(s.m, i, chunksInStorage - 1, f), f)
    ELSE RemoveState(s.m, s.r, chunksInStorage, dataSize, s.r = "bug", FALSE)

\* ChunkManager::remove of an index below _chunksInStorage.
RemoveResult(i, f) == RemoveCleared(MapSet(map, i, FALSE, f), i, f)

-----------------------------------------------------------------------------
(* Actions.                                                                *)

Init ==
    /\ map = [store |-> <<>>, n |-> 0, cur |-> {}, curIdx |-> 0, modified |-> FALSE, cand |-> 0]
    /\ chunksInStorage = 0
    /\ dataSize = 0
    /\ owned = EmptyBag
    /\ emergencyType = "None"
    /\ mounted = FALSE

\* Base::initialize: Map::initialize, then the data container's size.
\* A new process starts with the latch clear, but once an emergency has
\* been latched the containers are corrupt and must be inspected before
\* they are written again (spec, error handling); the model therefore keeps
\* the latch across remounts, so a corrupt space is only ever read.
Mount ==
    /\ ~mounted
    /\ map' = MapInitialize(map.store)
    /\ chunksInStorage' = dataSize
    /\ mounted' = TRUE
    /\ UNCHANGED <<dataSize, owned, emergencyType>>

Unmount ==
    /\ mounted
    /\ LET s == MapSync(map, NoFail) IN
       /\ map' = s.m
       /\ emergencyType' = LatchIf(emergencyType, s.r = "bug", "Bug")
    /\ mounted' = FALSE
    /\ UNCHANGED <<chunksInStorage, dataSize, owned>>

\* Base::entityAddRaw: checkWriteAction, then ChunkManager::add.
Add ==
    /\ mounted /\ emergencyType = "None"
    /\ \E f \in OpFailSites \cup {NoFail} :
        LET a == AddResult(f) IN
        /\ a.index < MaxChunks
        /\ map' = a.m
        /\ chunksInStorage' = a.cis
        /\ dataSize' = a.ds
        /\ owned' = IF a.r = "ok" THEN owned (+) SetToBag({a.index}) ELSE owned
        /\ emergencyType' = LatchIf(emergencyType, a.bug, "Bug")
    /\ UNCHANGED mounted

\* Base::entityRemove: checkWriteAction, then ChunkManager::remove of an
\* index the caller holds.  The caller keeps its reference on failure.
Remove ==
    /\ mounted /\ emergencyType = "None"
    /\ \E i \in BagToSet(owned), f \in OpFailSites \cup {NoFail} :
        IF i >= chunksInStorage
        THEN /\ emergencyType' = "Bug"
             /\ UNCHANGED <<map, chunksInStorage, dataSize, owned>>
        ELSE LET d == RemoveResult(i, f) IN
             /\ map' = d.m
             /\ chunksInStorage' = d.cis
             /\ dataSize' = d.ds
             /\ owned' = IF d.r = "ok" THEN owned (-) SetToBag({i}) ELSE owned
             /\ emergencyType' = LatchIf(LatchIf(emergencyType, d.bug, "Bug"),
                                         d.sysfail, "SystemFailure")
    /\ UNCHANGED mounted

Next == Mount \/ Unmount \/ Add \/ Remove

Spec == Init /\ [][Next]_vars

-----------------------------------------------------------------------------
(* Views and properties.                                                   *)

\* The bit of index i as the code sees it: the resident chunk while
\* mounted, the stored chunk otherwise.
BitSet(i) ==
    IF mounted /\ toBitChunkIndex(i) = map.curIdx
    THEN toBitIndex(i) \in map.cur
    ELSE toBitChunkIndex(i) < Len(map.store) /\ toBitIndex(i) \in map.store[toBitChunkIndex(i) + 1]

Live == {i \in 0..(MaxChunks - 1) : BitSet(i)}

\* The bits a fresh mount would read from the bitmap container.
StoredLive == {i \in 0..(MaxChunks - 1) :
                  toBitChunkIndex(i) < Len(map.store)
                  /\ toBitIndex(i) \in map.store[toBitChunkIndex(i) + 1]}

TypeOK ==
    /\ DOMAIN map.store = 1..Len(map.store) /\ \A k \in DOMAIN map.store : map.store[k] \in BitChunk
    /\ map.n \in Nat /\ map.curIdx \in Nat /\ map.cand \in Nat
    /\ map.cur \in BitChunk /\ map.modified \in BOOLEAN
    /\ chunksInStorage \in Nat /\ dataSize \in Nat
    /\ IsABag(owned) /\ BagToSet(owned) \subseteq 0..(MaxChunks - 1)
    /\ emergencyType \in Emergencies /\ mounted \in BOOLEAN

\* No index is held by two users at once: an allocation never hands out an
\* index that is still in use (the bitmap and its resident chunk never lose
\* a set bit, whatever storage call fails).
UniqueOwnership == \A i \in BagToSet(owned) : CopiesIn(i, owned) = 1

\* Until an emergency is latched, the bitmap the code reads is exactly the
\* set of indices in use: every failed add or remove rolls back its bit.
\* (After an emergency, writes are refused and the bitmap may be ahead.)
BitmapMatchesOwners == emergencyType = "None" => Live = BagToSet(owned)

DataTrimmed ==
    mounted =>
        /\ chunksInStorage = IF owned = EmptyBag THEN 0 ELSE Max(BagToSet(owned)) + 1
        /\ dataSize = chunksInStorage

\* The emergency latch is never set by a run in which no storage call fails:
\* no read, write or sync ever finds an index or chunk out of range.
NoEmergency == emergencyType = "None"

\* Refinement: the space implements Allocator with the bitmap as its state.
Alloc == INSTANCE Allocator WITH Indices <- 0..(MaxChunks - 1), live <- Live
AllocSpec == Alloc!Spec
=============================================================================
