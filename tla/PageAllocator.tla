---------------------------- MODULE PageAllocator ----------------------------
(***************************************************************************)
(* What the page cache (libSdk/mem, class PageCache) promises to the       *)
(* central cache: NewSpan(k) hands out k contiguous pages that nobody else *)
(* holds, and ReleaseSpan takes a block back.  A block is the pair of its  *)
(* first page and its number of pages; lists, merging, splitting and the   *)
(* page map are not visible here.                                          *)
(***************************************************************************)
EXTENDS Integers

CONSTANTS
    NumPages,   \* the address space has the pages 0 .. NumPages - 1
    MaxRequest  \* the largest number of pages a caller asks for

VARIABLE alloc  \* the blocks that are handed out

Blocks == (0 .. NumPages) \X (0 .. NumPages)

Overlap(b, c) == b[1] < c[1] + c[2] /\ c[1] < b[1] + b[2]

TypeOK == alloc \subseteq Blocks

Init == alloc = {}

(* NewSpan(k): k pages of the address space that no handed-out block has.  *)
Acquire(k) ==
    \E p \in 0 .. (NumPages - k) :
        /\ \A b \in alloc : ~ Overlap(b, <<p, k>>)
        /\ alloc' = alloc \union {<<p, k>>}

(* ReleaseSpan: the block goes back.                                       *)
Release(b) ==
    /\ b \in alloc
    /\ alloc' = alloc \ {b}

Next ==
    \/ \E k \in 1 .. MaxRequest : Acquire(k)
    \/ \E b \in alloc : Release(b)

Spec == Init /\ [][Next]_alloc
==============================================================================
