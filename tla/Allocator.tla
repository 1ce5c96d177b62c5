----------------------------- MODULE Allocator -----------------------------
(***************************************************************************)
(* What the kernel heap promises its callers, with no block table in it:   *)
(* every live allocation owns a run of blocks of the size it asked for,    *)
(* and no two live allocations own a common block.  Heap implements it.    *)
(***************************************************************************)
EXTENDS Integers

CONSTANTS
    Length,    \* number of blocks of the heap
    Sizes,     \* the request sizes, in bytes
    Need       \* blocks an allocation of each size owns

VARIABLE live  \* the allocations handed out and not yet freed

Owned(a) == a.start .. (a.start + Need[a.size] - 1)

Init == live = {}

Alloc ==
    \E s \in 0 .. (Length - 1), z \in Sizes :
        LET a == [start |-> s, size |-> z]
        IN  /\ \A b \in live : Owned(a) \cap Owned(b) = {}
            /\ live' = live \cup {a}

Free == \E a \in live : live' = live \ {a}

Next == Alloc \/ Free

Spec == Init /\ [][Next]_live
=============================================================================
