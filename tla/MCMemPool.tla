------------------------------ MODULE MCMemPool ------------------------------
(* A small instance of MemPool for TLC.                                    *)
EXTENDS MemPool, TLC

Symmetry == Permutations(Threads)
==============================================================================
