------------------------------ MODULE Allocator ------------------------------
(***************************************************************************)
(* What one object space of 6fs (inodes, dirents or blocks) promises its   *)
(* users: a set of live indices; an allocation hands out the smallest      *)
(* free index (spec 4.2/8.6: firstZero returns the smallest free slot),    *)
(* a removal frees a live index.  Mounting and unmounting change nothing.  *)
(***************************************************************************)
EXTENDS Naturals, FiniteSetsExt

CONSTANT Indices            \* the index space the model explores

VARIABLE live               \* indices currently allocated

Init == live = {}

\* An allocation takes the smallest index that is not live.
Allocate ==
    /\ Indices \ live # {}
    /\ live' = live \cup {Min(Indices \ live)}

\* A removal frees one live index.
Free == \E i \in live : live' = live \ {i}

Next == Allocate \/ Free

Spec == Init /\ [][Next]_live
=============================================================================
