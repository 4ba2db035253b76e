-------------------------------- MODULE Heap --------------------------------
(***************************************************************************)
(* What the memory pool (ConcurrentAllocate and ConcurrentFree) promises   *)
(* to its callers: a block that is handed out shares no byte with a block  *)
(* that somebody still holds.  A block is the pair of its address and its  *)
(* length; caches, spans and pages are not visible here.                   *)
(***************************************************************************)
EXTENDS Integers

CONSTANTS
    Top,      \* addresses are 0 .. Top - 1
    Lengths   \* the block lengths callers can get

VARIABLE blocks  \* the blocks callers hold

Overlap(b, c) == b[1] < c[1] + c[2] /\ c[1] < b[1] + b[2]

Init == blocks = {}

Allocate(n) ==
    \E a \in 0 .. (Top - n) :
        /\ \A b \in blocks : ~ Overlap(b, <<a, n>>)
        /\ blocks' = blocks \union {<<a, n>>}

Free(b) == blocks' = blocks \ {b}

Next ==
    \/ \E n \in Lengths : Allocate(n)
    \/ \E b \in blocks : Free(b)

Spec == Init /\ [][Next]_blocks
==============================================================================
