--------------------------- MODULE ChunkContainer ---------------------------
(***************************************************************************)
(* What a Storage promises the Map and the ChunkManager above it (spec     *)
(* section 4.1): a byte container addressed in chunks of ChunkSize bytes.  *)
(* Each call either succeeds or reports an error; a failed call leaves the *)
(* container as it was, except that a failed write may have stored a      *)
(* prefix of its chunk.  Bytes a resize adds are unspecified: the callers  *)
(* write every chunk they grow into before they read it.  A hole punch is  *)
(* advisory: the chunk reads back unchanged or as zeros.  A volatile       *)
(* container (the memory backend) is empty again after a close.            *)
(***************************************************************************)
EXTENDS Naturals, Sequences, SequencesExt

CONSTANTS ChunkSize,        \* bytes per chunk
          Bytes,            \* the byte values the model uses (0 among them)
          MaxChunks         \* the largest chunk count callers ask for

VARIABLES data,             \* the container's bytes
          opened,           \* between a successful open and the close
          volatile,         \* the container forgets its bytes on close
          result            \* the outcome of the last call

vars == <<data, opened, volatile, result>>

Ok(call, val) == [call |-> call, ok |-> TRUE, val |-> val]
Err(call) == [call |-> call, ok |-> FALSE, val |-> <<>>]

\* The number of whole chunks the container holds (Storage::size).
Chunks(d) == Len(d) \div ChunkSize

\* The bytes of chunk i.
ChunkAt(d, i) == SubSeq(d, i * ChunkSize + 1, i * ChunkSize + ChunkSize)

\* d with the bytes b stored from byte offset o on, o <= Len(d).
Store(d, o, b) ==
    SubSeq(d, 1, o) \o b \o SubSeq(d, o + Len(b) + 1, Len(d))

Zeros(n) == [k \in 1..n |-> 0]

Init ==
    /\ data = <<>>
    /\ opened = FALSE
    /\ volatile \in BOOLEAN
    /\ result = Ok("none", <<>>)

Open ==
    /\ ~opened
    /\ \/ opened' = TRUE /\ result' = Ok("open", <<>>)
       \/ UNCHANGED opened /\ result' = Err("open")
    /\ UNCHANGED <<data, volatile>>

Close ==
    /\ opened
    /\ opened' = FALSE
    /\ \/ data' = (IF volatile THEN <<>> ELSE data) /\ result' = Ok("close", <<>>)
       \/ UNCHANGED data /\ result' = Err("close")
    /\ UNCHANGED volatile

Size ==
    /\ opened
    /\ result' \in {Ok("size", <<Chunks(data)>>), Err("size")}
    /\ UNCHANGED <<data, opened, volatile>>

Read(i) ==
    /\ opened
    /\ result' \in {Err("read")} \cup
                   IF i < Chunks(data) THEN {Ok("read", ChunkAt(data, i))} ELSE {}
    /\ UNCHANGED <<data, opened, volatile>>

\* A write at chunk i <= Chunks(data): success stores the chunk, a failure
\* may have stored a strict prefix of it.
Write(i, c) ==
    /\ opened /\ i * ChunkSize <= Len(data)
    /\ \/ data' = Store(data, i * ChunkSize, c) /\ result' = Ok("write", <<>>)
       \/ \E k \in 0..(ChunkSize - 1) :
             /\ data' = Store(data, i * ChunkSize, SubSeq(c, 1, k))
             /\ result' = Err("write")
    /\ UNCHANGED <<opened, volatile>>

SetSize(n) ==
    /\ opened
    /\ \/ /\ n * ChunkSize <= Len(data)
          /\ data' = SubSeq(data, 1, n * ChunkSize)
          /\ result' = Ok("setSize", <<>>)
       \/ /\ n * ChunkSize > Len(data)
          /\ \E tail \in [1..(n * ChunkSize - Len(data)) -> Bytes] :
                data' = data \o tail
          /\ result' = Ok("setSize", <<>>)
       \/ UNCHANGED data /\ result' = Err("setSize")
    /\ UNCHANGED <<opened, volatile>>

PunchHole(i) ==
    /\ opened /\ i < Chunks(data)
    /\ \/ data' \in {data, Store(data, i * ChunkSize, Zeros(ChunkSize))}
          /\ result' = Ok("punchHole", <<>>)
       \/ UNCHANGED data /\ result' = Err("punchHole")
    /\ UNCHANGED <<opened, volatile>>

Next ==
    \/ Open \/ Close \/ Size
    \/ \E i \in 0..(MaxChunks - 1) : Read(i) \/ PunchHole(i) \/ SetSize(i + 1)
    \/ SetSize(0)
    \/ \E i \in 0..(MaxChunks - 1), c \in [1..ChunkSize -> Bytes] : Write(i, c)

Spec == Init /\ [][Next]_vars
=============================================================================
