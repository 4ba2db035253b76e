----------------------------- MODULE MCPageCache -----------------------------
(* A small instance of PageCache for TLC.                                  *)
EXTENDS PageCache, TLC

Symmetry == Permutations(SpanIds)
==============================================================================
