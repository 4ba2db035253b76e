-------------------------------- MODULE Sums --------------------------------
(***************************************************************************)
(* Sums of the values of a function: over the servers of a balancer, over  *)
(* the entries of a table.                                                 *)
(***************************************************************************)
EXTENDS Integers, FiniteSetsExt

Sum(f) == MapThenSumSet(LAMBDA i : f[i], DOMAIN f)
=============================================================================
