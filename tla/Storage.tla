------------------------------ MODULE Storage ------------------------------
(***************************************************************************)
(* One container of 6fs behind the Storage adapter (storage.cpp), on one   *)
(* of its three backends: StorageFile (pread/pwrite loops on a file),      *)
(* StorageMmap (a shared mapping rounded up to whole pages, with the       *)
(* logical size kept apart) and StorageMemory (a byte vector with a fatal  *)
(* flag).  The adapter turns chunk calls into byte calls: chunk i is the   *)
(* bytes [i * ChunkSize, (i + 1) * ChunkSize).  Bytes are abstracted to    *)
(* the small set Bytes; the statistics counters (_chunksIn, _chunksOut,    *)
(* _chunksPunchedHole) only feed the log and are left out.                 *)
(*                                                                         *)
(* The callers are the Map and the ChunkManager: they read a chunk below   *)
(* the chunk count they hold, write an existing chunk or the next one, and *)
(* resize to any count.  Each call takes one step, except the pread and    *)
(* pwrite loops of StorageFile, which take one step per system call.       *)
(***************************************************************************)
EXTENDS Naturals, Sequences, SequencesExt

CONSTANTS ChunkSize,        \* Storage::_chunkSize
          PageSize,         \* StorageMmap::_pagesize
          Bytes,            \* byte values, 0 among them
          MaxChunks,        \* the largest chunk count a caller asks for
          FailSites,        \* system calls that may fail: "open", "pread",
                            \* "pwrite", "ftruncate", "mmap", "mremap", "alloc"
          ShortIO           \* pread/pwrite may transfer fewer bytes than asked

Backends == {"file", "mmap", "memory"}

VARIABLES backend,          \* the Storage::Type of this container
          file,             \* the bytes of the file (file, mmap) or vector
          opened,           \* _fd != 0; for memory, between open and close
          msize,            \* StorageMmap::_size, the logical size
          mlen,             \* StorageMmap::_len, the mapping's length
          fatal,            \* StorageMemory::_fatalError
          pc,               \* "idle", or the loop of readBytes/writeBytes
          io,               \* that loop's index, size and buffer
          result,           \* the outcome of the last call
          orig              \* history: the bytes when the loop began

vars == <<backend, file, opened, msize, mlen, fatal, pc, io, result, orig>>

Ok(call, val) == [call |-> call, ok |-> TRUE, val |-> val]
Err(call) == [call |-> call, ok |-> FALSE, val |-> <<>>]
Zeros(n) == [k \in 1..n |-> 0]

\* Each call chooses which of the system calls it makes fail this time.
Fails(calls) == SUBSET (FailSites \cap calls)

\* ftruncate and vector::resize(size, 0): cut, or extend with zero bytes.
Resized(d, n) ==
    IF n <= Len(d) THEN SubSeq(d, 1, n) ELSE d \o Zeros(n - Len(d))

\* pwrite and memcpy: the bytes b at offset o; a gap reads as zeros.
Put(d, o, b) ==
    [k \in 1..Max({Len(d), o + Len(b)}) |->
        IF o < k /\ k <= o + Len(b) THEN b[k - o]
        ELSE IF k <= Len(d) THEN d[k] ELSE 0]

\* The bytes the callers see through the adapter.
Logical == IF backend = "mmap" /\ opened THEN SubSeq(file, 1, msize) ELSE file

\* Storage::size: whole chunks only.
StoredChunks == Len(Logical) \div ChunkSize

\* ChunkManager::read and Map read only chunks below the chunk count they
\* hold (chunk.cpp:160).  That count is taken to be the container's own: it
\* is larger only after the failed grows of map.cpp:77 and chunk.cpp:75,
\* which ChunkSpace models at the level of whole chunks.
InStorage(i) == i < StoredChunks

\* A call may start when the container is open and no loop is running.
Idle == opened /\ pc = "idle"

NoLoop == [pos |-> 0, size |-> 0, buf |-> <<>>]

\* The loop returns r; its index, size and buffer are dead after it.
Return(r) == result' = r /\ pc' = "idle" /\ io' = NoLoop /\ orig' = <<>>

-----------------------------------------------------------------------------
(* StorageFile                                                             *)

FileOpen ==
    /\ backend = "file" /\ ~opened /\ pc = "idle"
    /\ \E f \in Fails({"open"}) :
          IF "open" \in f THEN result' = Err("open") /\ UNCHANGED opened
          ELSE opened' = TRUE /\ result' = Ok("open", <<>>)
    /\ UNCHANGED <<backend, file, msize, mlen, fatal, pc, io, orig>>

FileClose ==
    /\ backend = "file" /\ Idle
    /\ opened' = FALSE /\ result' = Ok("close", <<>>)
    /\ UNCHANGED <<backend, file, msize, mlen, fatal, pc, io, orig>>

\* Storage::read and Storage::write start the loop of readBytes or
\* writeBytes; the read goes into the caller's uninitialized buffer.
FileRead(i) ==
    /\ backend = "file" /\ Idle /\ InStorage(i)
    /\ \E b \in [1..ChunkSize -> Bytes] :
          io' = [pos |-> i * ChunkSize, size |-> ChunkSize, buf |-> b]
    /\ pc' = "read" /\ orig' = file
    /\ UNCHANGED <<backend, file, opened, msize, mlen, fatal, result>>

FileWrite(i, c) ==
    /\ backend = "file" /\ Idle /\ i <= StoredChunks
    /\ io' = [pos |-> i * ChunkSize, size |-> ChunkSize, buf |-> c]
    /\ pc' = "write" /\ orig' = file
    /\ UNCHANGED <<backend, file, opened, msize, mlen, fatal, result>>

\* One pass of the while loop.  pread and pwrite get buf itself, never
\* buf advanced by what the earlier passes moved.  pread returns 0 at the
\* end of the file, and the pass then changes nothing.
PreadPass ==
    /\ pc = "read"
    /\ LET avail == Max({0, Len(file) - io.pos})
           full == IF io.size < avail THEN io.size ELSE avail
           buf(r) == [k \in 1..ChunkSize |->
                         IF k <= r THEN file[io.pos + k] ELSE io.buf[k]]
       IN \E r \in IF ShortIO /\ full > 0 THEN 1..full ELSE {full} :
             IF io.size = r THEN Return(Ok("read", buf(r)))
             ELSE /\ io' = [pos |-> io.pos + r, size |-> io.size - r, buf |-> buf(r)]
                  /\ UNCHANGED <<pc, result, orig>>
    /\ UNCHANGED <<backend, file, opened, msize, mlen, fatal>>

PreadFail ==
    /\ pc = "read" /\ "pread" \in FailSites
    /\ Return(Err("read"))
    /\ UNCHANGED <<backend, file, opened, msize, mlen, fatal>>

PwritePass ==
    /\ pc = "write"
    /\ \E r \in IF ShortIO THEN 1..io.size ELSE {io.size} :
          /\ file' = Put(file, io.pos, SubSeq(io.buf, 1, r))
          /\ IF io.size = r THEN Return(Ok("write", <<>>))
             ELSE /\ io' = [io EXCEPT !.pos = @ + r, !.size = @ - r]
                  /\ UNCHANGED <<pc, result, orig>>
    /\ UNCHANGED <<backend, opened, msize, mlen, fatal>>

\* A failing pwrite: part of its bytes may be on disk (ENOSPC, EIO).
PwriteFail ==
    /\ pc = "write" /\ "pwrite" \in FailSites
    /\ \E k \in 0..(io.size - 1) : file' = Put(file, io.pos, SubSeq(io.buf, 1, k))
    /\ Return(Err("write"))
    /\ UNCHANGED <<backend, opened, msize, mlen, fatal>>

FileSize ==
    /\ backend = "file" /\ Idle
    /\ result' = Ok("size", <<Len(file) \div ChunkSize>>)
    /\ UNCHANGED <<backend, file, opened, msize, mlen, fatal, pc, io, orig>>

FileSetSize(n) ==
    /\ backend = "file" /\ Idle
    /\ \E f \in Fails({"ftruncate"}) :
          IF "ftruncate" \in f THEN result' = Err("setSize") /\ UNCHANGED file
          ELSE file' = Resized(file, n * ChunkSize) /\ result' = Ok("setSize", <<>>)
    /\ UNCHANGED <<backend, opened, msize, mlen, fatal, pc, io, orig>>

\* fallocate(PUNCH_HOLE) zeroes the chunk where the file system supports
\* it; its failure is ignored.
FilePunchHole(i) ==
    /\ backend = "file" /\ Idle /\ InStorage(i)
    /\ file' \in {file, Put(file, i * ChunkSize, Zeros(ChunkSize))}
    /\ result' = Ok("punchHole", <<>>)
    /\ UNCHANGED <<backend, opened, msize, mlen, fatal, pc, io, orig>>

-----------------------------------------------------------------------------
(* StorageMmap                                                             *)

\* Mutant: sizeToMapLength without its special case for size 0.
MapLength_noEmpty(s) ==
    IF s % PageSize # 0 THEN (s \div PageSize + 1) * PageSize ELSE s

\* sizeToMapLength: rounded up to whole pages, and never 0.
MapLength(s) ==
    LET l == IF s % PageSize # 0 THEN (s \div PageSize + 1) * PageSize ELSE s
    IN IF l = 0 THEN PageSize ELSE l

\* Mutant: setSizeBytes that sets _size only when the mapping changes.
MmapResize_sizeInRemap(s, f) ==
    LET newLen == MapLength(s)
    IN IF newLen = mlen THEN [ok |-> TRUE, file |-> file, len |-> mlen, size |-> msize]
       ELSE IF "ftruncate" \in f
            THEN [ok |-> FALSE, file |-> file, len |-> mlen, size |-> msize]
       ELSE IF "mremap" \in f /\ newLen > mlen
            THEN [ok |-> FALSE, file |-> Resized(file, newLen), len |-> mlen, size |-> msize]
       ELSE [ok |-> TRUE, file |-> Resized(file, newLen), len |-> newLen, size |-> s]

\* setSizeBytes: the file and the mapping change only when the page count
\* does.  mremap is failed only when it grows the mapping: a shrinking
\* MREMAP_MAYMOVE returns memory and fails only when splitting the mapping
\* exceeds the process's map count, which is left out.  The outcome is a
\* record of the new file, _len and _size and whether the call succeeded.
MmapResize(s, f) ==
    LET newLen == MapLength(s)
    IN IF newLen = mlen THEN [ok |-> TRUE, file |-> file, len |-> mlen, size |-> s]
       ELSE IF "ftruncate" \in f
            THEN [ok |-> FALSE, file |-> file, len |-> mlen, size |-> msize]
       ELSE IF "mremap" \in f /\ newLen > mlen
            THEN [ok |-> FALSE, file |-> Resized(file, newLen), len |-> mlen, size |-> msize]
       ELSE [ok |-> TRUE, file |-> Resized(file, newLen), len |-> newLen, size |-> s]

\* open: _size from fstat, the file extended to the mapping's length, then
\* mmap.  When mmap fails the file keeps its new length.
MmapOpen ==
    /\ backend = "mmap" /\ ~opened /\ pc = "idle"
    /\ \E f \in Fails({"open", "ftruncate", "mmap"}) :
          LET len == MapLength(Len(file))
          IN IF "open" \in f \/ "ftruncate" \in f
             THEN result' = Err("open") /\ UNCHANGED <<file, opened, msize, mlen>>
             ELSE IF "mmap" \in f
             THEN /\ file' = Resized(file, len) /\ result' = Err("open")
                  /\ UNCHANGED <<opened, msize, mlen>>
             ELSE /\ file' = Resized(file, len) /\ opened' = TRUE
                  /\ msize' = Len(file) /\ mlen' = len
                  /\ result' = Ok("open", <<>>)
    /\ UNCHANGED <<backend, fatal, pc, io, orig>>

\* close: munmap, then the file cut back to _size.
MmapClose ==
    /\ backend = "mmap" /\ Idle
    /\ \E f \in Fails({"ftruncate"}) :
          IF "ftruncate" \in f THEN result' = Err("close") /\ UNCHANGED file
          ELSE file' = Resized(file, msize) /\ result' = Ok("close", <<>>)
    /\ opened' = FALSE /\ msize' = 0 /\ mlen' = 0
    /\ UNCHANGED <<backend, fatal, pc, io, orig>>

MmapRead(i) ==
    /\ backend = "mmap" /\ Idle /\ InStorage(i)
    /\ result' = IF i * ChunkSize + ChunkSize > msize THEN Err("read")
                 ELSE Ok("read", SubSeq(file, i * ChunkSize + 1, i * ChunkSize + ChunkSize))
    /\ UNCHANGED <<backend, file, opened, msize, mlen, fatal, pc, io, orig>>

\* writeBytes grows through setSizeBytes first, then copies into the map.
MmapWrite(i, c) ==
    /\ backend = "mmap" /\ Idle /\ i <= StoredChunks
    /\ \E f \in Fails({"ftruncate", "mremap"}) :
          LET o == i * ChunkSize
              g == IF o + ChunkSize > msize THEN MmapResize(o + ChunkSize, f)
                   ELSE [ok |-> TRUE, file |-> file, len |-> mlen, size |-> msize]
          IN /\ file' = IF g.ok THEN Put(g.file, o, c) ELSE g.file
             /\ mlen' = g.len /\ msize' = g.size
             /\ result' = IF g.ok THEN Ok("write", <<>>) ELSE Err("write")
    /\ UNCHANGED <<backend, opened, fatal, pc, io, orig>>

MmapSize ==
    /\ backend = "mmap" /\ Idle
    /\ result' = Ok("size", <<msize \div ChunkSize>>)
    /\ UNCHANGED <<backend, file, opened, msize, mlen, fatal, pc, io, orig>>

MmapSetSize(n) ==
    /\ backend = "mmap" /\ Idle
    /\ \E f \in Fails({"ftruncate", "mremap"}) :
          LET g == MmapResize(n * ChunkSize, f)
          IN /\ file' = g.file /\ mlen' = g.len /\ msize' = g.size
             /\ result' = IF g.ok THEN Ok("setSize", <<>>) ELSE Err("setSize")
    /\ UNCHANGED <<backend, opened, fatal, pc, io, orig>>

\* punchHoleBytes does nothing on a mapping.
MmapPunchHole(i) ==
    /\ backend = "mmap" /\ Idle /\ InStorage(i)
    /\ result' = Ok("punchHole", <<>>)
    /\ UNCHANGED <<backend, file, opened, msize, mlen, fatal, pc, io, orig>>

-----------------------------------------------------------------------------
(* StorageMemory: every call fails with EIO once _fatalError is set; a     *)
(* growing resize that throws sets it.                                     *)

MemOpen ==
    /\ backend = "memory" /\ ~opened /\ pc = "idle"
    /\ opened' = TRUE /\ result' = Ok("open", <<>>)
    /\ UNCHANGED <<backend, file, msize, mlen, fatal, pc, io, orig>>

MemClose ==
    /\ backend = "memory" /\ Idle
    /\ IF fatal THEN result' = Err("close") /\ UNCHANGED file
       ELSE file' = <<>> /\ result' = Ok("close", <<>>)
    /\ opened' = FALSE
    /\ UNCHANGED <<backend, msize, mlen, fatal, pc, io, orig>>

\* vector::resize to n bytes, when it has to grow and the allocation fails.
AllocFails(n, f) == n > Len(file) /\ "alloc" \in f

MemRead(i) ==
    /\ backend = "memory" /\ Idle /\ InStorage(i)
    /\ result' = IF fatal \/ i * ChunkSize + ChunkSize > Len(file) THEN Err("read")
                 ELSE Ok("read", SubSeq(file, i * ChunkSize + 1, i * ChunkSize + ChunkSize))
    /\ UNCHANGED <<backend, file, opened, msize, mlen, fatal, pc, io, orig>>

MemWrite(i, c) ==
    /\ backend = "memory" /\ Idle /\ i <= StoredChunks
    /\ \E f \in Fails({"alloc"}) :
          LET o == i * ChunkSize
          IN IF fatal THEN result' = Err("write") /\ UNCHANGED <<file, fatal>>
             ELSE IF AllocFails(o + ChunkSize, f)
             THEN fatal' = TRUE /\ result' = Err("write") /\ UNCHANGED file
             ELSE file' = Put(file, o, c) /\ result' = Ok("write", <<>>)
                  /\ UNCHANGED fatal
    /\ UNCHANGED <<backend, opened, msize, mlen, pc, io, orig>>

MemSize ==
    /\ backend = "memory" /\ Idle
    /\ result' = IF fatal THEN Err("size") ELSE Ok("size", <<Len(file) \div ChunkSize>>)
    /\ UNCHANGED <<backend, file, opened, msize, mlen, fatal, pc, io, orig>>

MemSetSize(n) ==
    /\ backend = "memory" /\ Idle
    /\ \E f \in Fails({"alloc"}) :
          IF fatal THEN result' = Err("setSize") /\ UNCHANGED <<file, fatal>>
          ELSE IF AllocFails(n * ChunkSize, f)
          THEN fatal' = TRUE /\ result' = Err("setSize") /\ UNCHANGED file
          ELSE file' = Resized(file, n * ChunkSize) /\ result' = Ok("setSize", <<>>)
               /\ UNCHANGED fatal
    /\ UNCHANGED <<backend, opened, msize, mlen, pc, io, orig>>

MemPunchHole(i) ==
    /\ backend = "memory" /\ Idle /\ InStorage(i)
    /\ result' = IF fatal THEN Err("punchHole") ELSE Ok("punchHole", <<>>)
    /\ UNCHANGED <<backend, file, opened, msize, mlen, fatal, pc, io, orig>>

-----------------------------------------------------------------------------

Init ==
    /\ backend \in Backends
    /\ file = <<>>
    /\ opened = FALSE
    /\ msize = 0 /\ mlen = 0
    /\ fatal = FALSE
    /\ pc = "idle"
    /\ io = NoLoop
    /\ result = Ok("none", <<>>)
    /\ orig = <<>>

Chunk == [1..ChunkSize -> Bytes]

Next ==
    \/ FileOpen \/ FileClose \/ FileSize
    \/ PreadPass \/ PreadFail \/ PwritePass \/ PwriteFail
    \/ MmapOpen \/ MmapClose \/ MmapSize
    \/ MemOpen \/ MemClose \/ MemSize
    \/ \E i \in 0..(MaxChunks - 1) :
          \/ FileRead(i) \/ MmapRead(i) \/ MemRead(i)
          \/ FilePunchHole(i) \/ MmapPunchHole(i) \/ MemPunchHole(i)
          \/ \E c \in Chunk : FileWrite(i, c) \/ MmapWrite(i, c) \/ MemWrite(i, c)
    \/ \E n \in 0..MaxChunks : FileSetSize(n) \/ MmapSetSize(n) \/ MemSetSize(n)

Spec == Init /\ [][Next]_vars

-----------------------------------------------------------------------------

TypeOK ==
    /\ backend \in Backends
    /\ file \in Seq(Bytes)
    /\ opened \in BOOLEAN /\ fatal \in BOOLEAN
    /\ pc \in {"idle", "read", "write"}
    /\ io.pos \in Nat /\ io.size \in 0..ChunkSize /\ io.buf \in Seq(Bytes)
    /\ backend = "mmap" /\ opened =>
          /\ mlen \in {k * PageSize : k \in 1..(MaxChunks * ChunkSize)}
          /\ msize <= mlen /\ mlen <= Len(file)

\* Refinement: through the adapter, every backend is the container the Map
\* and the ChunkManager rely on.  A loop in progress shows the bytes it
\* started from; the call takes effect when it returns.
Container == INSTANCE ChunkContainer WITH
    data <- IF pc = "idle" THEN Logical ELSE orig,
    volatile <- backend = "memory"
ContainerSpec == Container!Spec
=============================================================================
