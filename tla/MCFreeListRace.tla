--------------------------- MODULE MCFreeListRace ---------------------------
(* An instance of FreeListRace for TLC: two threads with one cache, as GCC *)
(* and Clang build it.  MCParts has the one with a cache per thread.       *)
EXTENDS FreeListRace

CONSTANTS t1, t2, c1

OneCache == [t \in {t1, t2} |-> c1]
==============================================================================
