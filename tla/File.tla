-------------------------------- MODULE File --------------------------------
(***************************************************************************)
(* What one regular file of 6fs promises through FUSE: a sequence of data  *)
(* words that write, truncate and open(O_TRUNC) change and read returns    *)
(* (spec: "write followed by read yields the data written"; the range of   *)
(* a missing block reads as zeros).  The file lives while it has a name or *)
(* an open handle; unlink while open defers the removal to the last close. *)
(* A failed write may have written a prefix of its data; a failed          *)
(* truncate or open changes nothing.  result is what the last call         *)
(* returned to FUSE.                                                       *)
(***************************************************************************)
EXTENDS Naturals, Sequences

CONSTANTS
    MaxFileSize,    \* the largest size a write may reach
    Vals,           \* data words a write may store
    Offsets,        \* the offsets and lengths calls use
    Counts          \* the word counts of write and read

VARIABLES content, exists, named, opened, result

vars == <<content, exists, named, opened, result>>

Ok(op, data) == [op |-> op, r |-> "ok", data |-> data]
Failed(op) == {[op |-> op, r |-> e, data |-> <<>>] : e \in {"ENOSPC", "EIO", "EROFS", "ENOTRECOVERABLE"}}

\* The content grown with zeros to at least len words, or cut to len.
Resized(c, len) == [k \in 1..len |-> IF k <= Len(c) THEN c[k] ELSE 0]
Grown(c, len) == IF len > Len(c) THEN Resized(c, len) ELSE c

\* The content after k words of value v are written at offset off.
Written(c, off, k, v) ==
    LET g == Grown(c, off + k)
    IN  [i \in 1..Len(g) |-> IF i > off /\ i <= off + k THEN v ELSE g[i]]

Init ==
    /\ content = <<>>
    /\ exists = FALSE /\ named = FALSE /\ opened = FALSE
    /\ result = Ok("none", <<>>)

Create ==
    /\ result'.op = "create"
    /\ ~exists
    /\ \/ content' = <<>> /\ exists' = TRUE /\ named' = TRUE
          /\ result' = Ok("create", <<>>)
       \/ result' \in Failed("create") /\ UNCHANGED <<content, exists, named>>
    /\ UNCHANGED opened

\* open, with O_TRUNC when trunc holds: the content is then emptied.
OpenCall(trunc) == IF trunc THEN "openTrunc" ELSE "open"

Open(trunc) ==
    /\ result'.op = OpenCall(trunc)
    /\ exists /\ ~opened
    /\ \/ opened' = TRUE /\ result' = Ok(OpenCall(trunc), <<>>)
          /\ content' = IF trunc THEN <<>> ELSE content
       \/ result' \in Failed(OpenCall(trunc)) /\ UNCHANGED <<content, opened>>
    /\ UNCHANGED <<exists, named>>

\* Each call answers with its own result record.
\* A close that cannot remove an unlinked file leaves it in place, unnamed.
Close ==
    /\ result'.op = "close"
    /\ opened
    /\ opened' = FALSE
    /\ \/ exists' = named /\ result' = Ok("close", <<>>)
          /\ content' = IF named THEN content ELSE <<>>
       \/ result' \in Failed("close") /\ UNCHANGED <<content, exists>>
    /\ UNCHANGED named

Write(off, cnt, v) ==
    /\ result'.op = "write"
    /\ opened
    /\ \/ content' = Written(content, off, cnt, v) /\ result' = Ok("write", <<>>)
       \/ \E k \in 0..cnt : content' \in {content, Written(content, off, k, v)}
                            /\ result' \in Failed("write")
    /\ UNCHANGED <<exists, named, opened>>

Truncate(len) ==
    /\ result'.op = "truncate"
    /\ opened
    /\ \/ content' = Resized(content, len) /\ result' = Ok("truncate", <<>>)
       \/ result' \in Failed("truncate") /\ UNCHANGED content
    /\ UNCHANGED <<exists, named, opened>>

Read(off, cnt) ==
    /\ result'.op = "read"
    /\ opened
    /\ \/ result' = Ok("read", SubSeq(content, off + 1,
                          IF off + cnt > Len(content) THEN Len(content) ELSE off + cnt))
       \/ result' \in Failed("read")
    /\ UNCHANGED <<content, exists, named, opened>>

Unlink ==
    /\ result'.op = "unlink"
    /\ named
    /\ \/ named' = FALSE /\ exists' = opened /\ result' = Ok("unlink", <<>>)
          /\ content' = IF opened THEN content ELSE <<>>
       \/ result' \in Failed("unlink") /\ UNCHANGED <<content, exists, named>>
    /\ UNCHANGED opened

Next ==
    \/ Create \/ Close \/ Unlink
    \/ \E trunc \in BOOLEAN : Open(trunc)
    \/ \E off \in Offsets, cnt \in Counts, v \in Vals :
          off + cnt <= MaxFileSize /\ Write(off, cnt, v)
    \/ \E len \in Offsets : Truncate(len)
    \/ \E off \in Offsets, cnt \in Counts : Read(off, cnt)

Spec == Init /\ [][Next]_vars
====
